---------------------------- MODULE ConfigProofs ----------------------------
(***************************************************************************)
(* What the host makes of a configuration descriptor, for any bytes a      *)
(* device sends: Unmarshal files every descriptor once, in its place, the  *)
(* lookups and ReadConfigDescriptor agree with it, and a transfer on       *)
(* Windows goes to the interface or the collection of its endpoint.        *)
(***************************************************************************)
EXTENDS WireProofs

-----------------------------------------------------------------------------
(* The walk over a configuration                                           *)

Walking(d, at, start, least) ==
    at = [k \in 0..Len(d) |-> IF k = 0 THEN start ELSE Behind(d, at[k - 1], least)]

LEMMA ByteIsNat == ASSUME NEW s \in Seq(Nat), NEW i \in Nat PROVE Byte(s, i) \in Nat
<1>1. PICK n \in Nat : n = Len(s)
  OBVIOUS
<1>2. CASE i < n
  <2>1. i + 1 \in 1..n
    BY <1>2
  <2>2. s[i + 1] \in Nat
    BY <1>1, <2>1
  <2>3. QED
    BY <1>1, <1>2, <2>2 DEF Byte
<1>3. CASE ~(i < n)
  BY <1>1, <1>3 DEF Byte, Outside
<1>4. QED
  BY <1>2, <1>3

LEMMA BehindIsNat ==
  ASSUME NEW d \in Seq(Nat), NEW p \in Nat, NEW least
  PROVE  Behind(d, p, least) \in Nat /\ Byte(d, p) \in Nat
<1>1. Byte(d, p) \in Nat
  BY ByteIsNat
<1>2. QED
  BY <1>1 DEF Behind

LEMMA WalkSolved ==
  ASSUME NEW d \in Seq(Nat), NEW start \in Nat, NEW least \in Nat
  PROVE  \E at \in [0..Len(d) -> Nat] :
           /\ Walk(d, start, least) = {at[k] : k \in 0..Len(d)}
           /\ at[0] = start
           /\ \A k \in 1..Len(d) : at[k] = Behind(d, at[k - 1], least)
<1> DEFINE n == Len(d)
           g == [k \in 1..n |-> [x \in Nat |-> Behind(d, x, least)]]
           sol == CHOOSE at : Walking(d, at, start, least)
<1>0. n \in Nat
  OBVIOUS
<1>1. \A k \in 1..n : g[k] \in [Nat -> Nat]
  BY BehindIsNat
<1>2. PICK s \in [0..n -> Nat] : Steps(s, start, g, n)
  <2> HIDE DEF g, n
  <2>1. QED
    BY <1>0, <1>1, StepsExist
<1>3. Walking(d, s, start, least)
  <2>1. \A k \in 0..n : s[k] = IF k = 0 THEN start ELSE Behind(d, s[k - 1], least)
    <3>1. s[0] = start
      BY <1>2 DEF Steps
    <3>2. ASSUME NEW k \in 1..n PROVE s[k] = Behind(d, s[k - 1], least)
      <4>1. s[k - 1] \in Nat
        BY <1>0
      <4>2. s[k] = g[k][s[k - 1]]
        BY <1>2 DEF Steps
      <4>3. QED
        BY <4>1, <4>2
    <3>3. QED
      BY <1>0, <3>1, <3>2
  <2>2. s = [k \in 0..n |-> s[k]]
    OBVIOUS
  <2>3. QED
    BY <2>1, <2>2 DEF Walking
<1>4. Walking(d, sol, start, least) /\ Walk(d, start, least) = {sol[k] : k \in 0..Len(d)}
  BY <1>3, Zenon DEF Walk, Walking
<1>5. DOMAIN sol = 0..n /\ sol[0] = start /\ \A k \in 1..n : sol[k] = Behind(d, sol[k - 1], least)
  <2> HIDE DEF sol
  <2>1. sol = [k \in 0..n |-> IF k = 0 THEN start ELSE Behind(d, sol[k - 1], least)]
    BY <1>4 DEF Walking
  <2> HIDE DEF n
  <2>2. DOMAIN sol = 0..n
    BY <2>1
  <2>3. \A k \in 0..n : sol[k] = IF k = 0 THEN start ELSE Behind(d, sol[k - 1], least)
    BY <2>1
  <2>4. QED
    BY <1>0, <2>2, <2>3
<1> HIDE DEF sol
<1>6. sol \in [0..n -> Nat]
  <2> DEFINE T == {k \in 0..n : sol[k] \in Nat}
  <2>1. 0 \in T
    BY <1>0, <1>5
  <2>2. \A k \in 1..n : k - 1 \in T => k \in T
    BY <1>5, BehindIsNat
  <2> HIDE DEF T
  <2>3. 0..n \subseteq T
    <3> HIDE DEF n
    <3>1. QED
      BY <1>0, <2>1, <2>2, InductionTo
  <2>4. \A k \in 0..n : sol[k] \in Nat
    BY <2>3 DEF T
  <2>5. sol = [k \in 0..n |-> sol[k]]
    BY <1>4 DEF Walking
  <2>6. QED
    BY <2>4, <2>5
<1>7. QED
  BY <1>4, <1>5, <1>6

\* A walk visits offsets that ascend by whole descriptors, and all of those.
LEMMA WalkFacts ==
  ASSUME NEW d \in Seq(Nat), NEW start \in Nat, NEW least \in Nat \ {0}
  PROVE  /\ Walk(d, start, least) \subseteq Nat /\ start \in Walk(d, start, least)
         /\ \A p \in Walk(d, start, least) :
              Whole(d, p, least) => p + Byte(d, p) \in Walk(d, start, least)
         /\ \A p, q \in Walk(d, start, least) :
              p < q => Whole(d, p, least) /\ p + Byte(d, p) <= q
         /\ \A p \in Walk(d, start, least) : start <= p
         /\ \A X : /\ start \in X
                   /\ \A p \in X \cap Walk(d, start, least) :
                        Whole(d, p, least) => p + Byte(d, p) \in X
                   => Walk(d, start, least) \subseteq X
<1>1. PICK at \in [0..Len(d) -> Nat] :
           /\ Walk(d, start, least) = {at[k] : k \in 0..Len(d)}
           /\ at[0] = start
           /\ \A k \in 1..Len(d) : at[k] = Behind(d, at[k - 1], least)
  BY WalkSolved
<1>2. PICK n \in Nat : n = Len(d)
  OBVIOUS
<1>3. /\ at \in [0..n -> Nat] /\ at[0] = start
      /\ \A k \in 1..n : at[k] = Behind(d, at[k - 1], least)
      /\ Walk(d, start, least) = {at[k] : k \in 0..n}
  BY <1>1, <1>2
<1>4. \A p \in Nat : /\ Byte(d, p) \in Nat /\ Behind(d, p, least) >= p
                     /\ Whole(d, p, least) => /\ p + Byte(d, p) <= n /\ Byte(d, p) >= 1
                                           /\ Behind(d, p, least) = p + Byte(d, p)
                                           /\ p + 2 <= n
                     /\ ~Whole(d, p, least) => Behind(d, p, least) = p
  BY <1>2, BehindIsNat DEF Behind, Whole
<1>m. \A i \in 0..n : \A j \in 0..n : i <= j => at[i] <= at[j]
  <2> TAKE i \in 0..n
  <2> DEFINE T == {j \in 0..n : i <= j => at[i] <= at[j]}
  <2>1. 0 \in T
    BY <1>3
  <2>2. ASSUME NEW j \in 1..n, j - 1 \in T PROVE j \in T
    <3>1. CASE i = j
      BY <3>1, <1>3
    <3>2. CASE i <= j - 1
      <4>1. at[i] <= at[j - 1]
        BY <2>2, <3>2
      <4>2. at[j] = Behind(d, at[j - 1], least) /\ at[j - 1] \in Nat /\ at[i] \in Nat /\ at[j] \in Nat
        BY <1>3
      <4>3. at[j] >= at[j - 1]
        BY <1>4, <4>2
      <4>4. QED
        BY <4>1, <4>2, <4>3
    <3>3. CASE j < i
      BY <3>3
    <3>4. QED
      BY <3>1, <3>2, <3>3
  <2> HIDE DEF T
  <2>3. 0..n \subseteq T
    BY <2>1, <2>2, InductionTo
  <2>4. QED
    BY <2>3 DEF T
<1>s. \A i \in 0..n : \A j \in 0..n : i <= j /\ ~Whole(d, at[i], least) => at[j] = at[i]
  <2> TAKE i \in 0..n
  <2> DEFINE T == {j \in 0..n : i <= j /\ ~Whole(d, at[i], least) => at[j] = at[i]}
  <2>1. 0 \in T
    BY <1>3
  <2>2. ASSUME NEW j \in 1..n, j - 1 \in T PROVE j \in T
    <3>1. CASE i = j
      BY <3>1, <1>3
    <3>2. CASE i <= j - 1 /\ ~Whole(d, at[i], least)
      <4>1. at[j - 1] = at[i]
        BY <2>2, <3>2
      <4>2. at[j] = Behind(d, at[j - 1], least) /\ at[i] \in Nat
        BY <1>3
      <4>3. at[j] = Behind(d, at[i], least)
        BY <4>1, <4>2
      <4>4. at[j] = at[i]
        BY <1>4, <3>2, <4>2, <4>3
      <4>5. QED
        BY <4>4
    <3>3. CASE j < i \/ Whole(d, at[i], least)
      BY <3>3
    <3>4. QED
      BY <3>1, <3>2, <3>3
  <2> HIDE DEF T
  <2>3. 0..n \subseteq T
    BY <2>1, <2>2, InductionTo
  <2>4. QED
    BY <2>3 DEF T
<1>b. \A j \in 0..n : Whole(d, at[j], least) => at[j] >= j
  <2> DEFINE T == {j \in 0..n : Whole(d, at[j], least) => at[j] >= j}
  <2>1. 0 \in T
    BY <1>3
  <2>2. ASSUME NEW j \in 1..n, j - 1 \in T PROVE j \in T
    <3>1. SUFFICES ASSUME Whole(d, at[j], least) PROVE at[j] >= j
      OBVIOUS
    <3>2. at[j] = Behind(d, at[j - 1], least) /\ at[j - 1] \in Nat
      <4>1. j - 1 \in 0..n
        OBVIOUS
      <4>2. QED
        BY <1>3, <4>1
    <3>3. Whole(d, at[j - 1], least)
      BY <1>4, <3>1, <3>2
    <3>4. at[j - 1] >= j - 1
      BY <2>2, <3>3
    <3>5. at[j] = at[j - 1] + Byte(d, at[j - 1]) /\ Byte(d, at[j - 1]) \in Nat
          /\ Byte(d, at[j - 1]) >= 1
      BY <1>4, <3>2, <3>3
    <3>6. QED
      BY <3>2, <3>4, <3>5
  <2> HIDE DEF T
  <2>3. 0..n \subseteq T
    BY <2>1, <2>2, InductionTo
  <2>4. QED
    BY <2>3 DEF T
<1>5. Walk(d, start, least) \subseteq Nat /\ start \in Walk(d, start, least)
  <2>1. 0 \in 0..n
    OBVIOUS
  <2>2. QED
    BY <1>3, <2>1
<1>6. ASSUME NEW k \in 0..n, Whole(d, at[k], least)
      PROVE  k + 1 \in 0..n /\ at[k + 1] = at[k] + Byte(d, at[k])
  <2>1. at[k] \in Nat /\ at[k] >= k /\ at[k] + 2 <= n
    BY <1>3, <1>4, <1>6, <1>b
  <2>2. k + 1 \in 1..n
    BY <2>1
  <2>3. at[k + 1] = Behind(d, at[k], least)
    BY <1>3, <2>2
  <2>4. Behind(d, at[k], least) = at[k] + Byte(d, at[k])
    BY <1>4, <1>6, <2>1
  <2>5. QED
    BY <2>2, <2>3, <2>4
<1>7. ASSUME NEW p \in Walk(d, start, least), Whole(d, p, least)
      PROVE  p + Byte(d, p) \in Walk(d, start, least)
  <2>1. PICK k \in 0..n : p = at[k]
    BY <1>3
  <2>2. k + 1 \in 0..n /\ at[k + 1] = p + Byte(d, p)
    BY <1>6, <1>7, <2>1
  <2>3. QED
    BY <1>3, <2>2
<1>8. ASSUME NEW p \in Walk(d, start, least), NEW q \in Walk(d, start, least), p < q
      PROVE  Whole(d, p, least) /\ p + Byte(d, p) <= q
  <2>1. PICK k \in 0..n : p = at[k]
    BY <1>3
  <2>2. PICK m \in 0..n : q = at[m]
    BY <1>3
  <2>3. p \in Nat /\ q \in Nat
    BY <1>5
  <2>4. k < m
    <3>1. SUFFICES ASSUME m <= k PROVE FALSE
      OBVIOUS
    <3>2. at[m] <= at[k]
      BY <1>m, <3>1
    <3>3. QED
      BY <1>8, <2>1, <2>2, <2>3, <3>2
  <2>5. Whole(d, p, least)
    <3>1. SUFFICES ASSUME ~Whole(d, p, least) PROVE FALSE
      OBVIOUS
    <3>2. at[m] = at[k]
      BY <1>s, <2>1, <2>4, <3>1
    <3>3. QED
      BY <1>8, <2>1, <2>2, <2>3, <3>2
  <2>6. k + 1 \in 0..n /\ at[k + 1] = p + Byte(d, p)
    BY <1>6, <2>1, <2>5
  <2>7. at[k + 1] <= at[m]
    BY <1>m, <2>4, <2>6
  <2>8. QED
    BY <2>2, <2>5, <2>6, <2>7
<1>9. \A p \in Walk(d, start, least) : start <= p
  <2>1. \A k \in 0..n : at[0] <= at[k]
    BY <1>m
  <2>2. QED
    BY <1>3, <2>1
<1>10. ASSUME NEW X, start \in X,
              \A p \in X \cap Walk(d, start, least) : Whole(d, p, least) => p + Byte(d, p) \in X
       PROVE  Walk(d, start, least) \subseteq X
  <2> DEFINE T == {j \in 0..n : at[j] \in X}
  <2>1. 0 \in T
    BY <1>3, <1>10
  <2>2. ASSUME NEW j \in 1..n, j - 1 \in T PROVE j \in T
    <3>1. at[j] = Behind(d, at[j - 1], least) /\ at[j - 1] \in Nat /\ at[j - 1] \in X
          /\ j - 1 \in 0..n
      BY <1>3, <2>2
    <3>2. at[j - 1] \in Walk(d, start, least)
      BY <1>3, <3>1
    <3>3. CASE Whole(d, at[j - 1], least)
      <4>1. Behind(d, at[j - 1], least) = at[j - 1] + Byte(d, at[j - 1])
        BY <1>4, <3>1, <3>3
      <4>2. at[j - 1] + Byte(d, at[j - 1]) \in X
        BY <1>10, <3>1, <3>2, <3>3
      <4>3. at[j] \in X
        BY <3>1, <4>1, <4>2
      <4>4. QED
        BY <4>3
    <3>4. CASE ~Whole(d, at[j - 1], least)
      <4>1. Behind(d, at[j - 1], least) = at[j - 1]
        BY <1>4, <3>1, <3>4
      <4>2. at[j] \in X
        BY <3>1, <4>1
      <4>3. QED
        BY <4>2
    <3>5. QED
      BY <3>3, <3>4
  <2> HIDE DEF T
  <2>3. 0..n \subseteq T
    BY <2>1, <2>2, InductionTo
  <2>4. QED
    BY <1>3, <2>3 DEF T
<1>11. QED
  BY <1>5, <1>7, <1>8, <1>9, <1>10

-----------------------------------------------------------------------------
(* What Unmarshal has filed                                                *)

AltType == [at : Nat, eps : Seq([at : Nat, comp : Nat]), extra : Seq(Nat)]

LEMMA StartsFacts ==
  ASSUME NEW d \in Seq(Nat)
  PROVE  /\ Starts(d) \subseteq Nat /\ 9 \in Walk(d, 9, 1) /\ Walk(d, 9, 1) \subseteq Nat
         /\ \A p \in Starts(d) : p >= 9 /\ p \in Walk(d, 9, 1) /\ Whole(d, p, 1)
         /\ \A p \in Walk(d, 9, 1) : Whole(d, p, 1) => p \in Starts(d)
         /\ \A p \in Starts(d) : /\ p + Byte(d, p) \in Walk(d, 9, 1)
                                 /\ Byte(d, p) \in Nat /\ Byte(d, p) >= 1
         /\ \A p \in Starts(d), q \in Walk(d, 9, 1) : p < q => p + Byte(d, p) <= q
         /\ \A p, q \in Starts(d) : p < q => p + Byte(d, p) <= q
         /\ \A p \in Starts(d), q \in Walk(d, 9, 1) : ~Whole(d, q, 1) => p < q
<1>1. 9 \in Nat /\ 1 \in Nat \ {0}
  OBVIOUS
<1> DEFINE W == Walk(d, 9, 1)
<1>2. /\ W \subseteq Nat /\ 9 \in W
      /\ \A p \in W : Whole(d, p, 1) => p + Byte(d, p) \in W
      /\ \A p, q \in W : p < q => Whole(d, p, 1) /\ p + Byte(d, p) <= q
      /\ \A p \in W : 9 <= p
  <2> HIDE DEF W
  <2>1. QED
    BY <1>1, WalkFacts DEF W
<1>3. \A p \in Nat : Byte(d, p) \in Nat
  BY ByteIsNat
<1>4. Starts(d) = {p \in W : Whole(d, p, 1)}
  BY DEF Starts
<1> HIDE DEF W
<1>5. \A p \in W : Whole(d, p, 1) => Byte(d, p) >= 1
  BY DEF Whole
<1>6. ASSUME NEW p \in Starts(d), NEW q \in W, ~Whole(d, q, 1) PROVE p < q
  <2>1. p \in W /\ Whole(d, p, 1) /\ p \in Nat /\ q \in Nat
    BY <1>2, <1>4
  <2>2. p # q
    BY <1>6, <2>1
  <2>3. ~(q < p)
    BY <1>2, <1>6, <2>1
  <2>4. QED
    BY <2>1, <2>2, <2>3
<1>7. QED
  BY <1>2, <1>3, <1>4, <1>5, <1>6 DEF W

\* In what follows d is the data, A the alternate settings, c the extra bytes of
\* the configuration, and q the position of the parser.
IfacesFiled(d, A, q) ==
    \A a \in A : /\ a.at \in Starts(d) /\ a.at < q
                 /\ Byte(d, a.at + 1) = INTERFACE /\ Byte(d, a.at) >= 9

EndpointsFiled(d, A, q) ==
    \A a \in A : \A e \in ToSet(a.eps) :
      /\ e.at \in Starts(d) /\ e.at < q /\ a.at < e.at
      /\ Byte(d, e.at + 1) = ENDPOINT /\ Byte(d, e.at) >= 7

CompanionsFiled(d, A, q) ==
    \A a \in A : \A e \in ToSet(a.eps) : e.comp # NoCompanion =>
      /\ e.comp = e.at + Byte(d, e.at) /\ e.comp \in Starts(d) /\ e.comp < q
      /\ Byte(d, e.comp + 1) = COMPANION /\ Byte(d, e.comp) >= 6

ExtrasFiled(d, A, q) ==
    \A a \in A : \A p \in ToSet(a.extra) :
      /\ p \in Starts(d) /\ p < q /\ a.at < p
      /\ Byte(d, p + 1) # INTERFACE /\ Byte(d, p + 1) # ENDPOINT

ExtrasApart(A) ==
    \A a, b \in A : \A p \in ToSet(a.extra) : \A e \in ToSet(b.eps) : e.comp # p

HeadFiled(d, A, c, q) ==
    \A p \in ToSet(c) : /\ p \in Starts(d) /\ p < q /\ Byte(d, p + 1) # INTERFACE
                        /\ \A a \in A : p < a.at

\* Endpoints and extra bytes are filed under the last interface before them.
NearestFiled(A) ==
    \A a, b \in A :
      /\ \A e \in ToSet(a.eps) : b.at < e.at => b.at <= a.at
      /\ \A p \in ToSet(a.extra) : b.at < p => b.at <= a.at

FiledIn(A, c, p) ==
    \/ p \in ToSet(c)
    \/ \E a \in A : \/ a.at = p \/ p \in ToSet(a.extra)
                    \/ \E e \in ToSet(a.eps) : e.at = p \/ e.comp = p

AllFiled(d, A, c, q) == \A p \in Starts(d) : p < q => FiledIn(A, c, p)

InOrder(A, c) ==
    /\ Ascending(c)
    /\ \A a \in A : /\ Ascending(a.extra)
                    /\ \A i, j \in DOMAIN a.eps : i < j => a.eps[i].at < a.eps[j].at

Filing(d, A, c, q) ==
    /\ A \subseteq AltType /\ c \in Seq(Nat)
    /\ IfacesFiled(d, A, q) /\ EndpointsFiled(d, A, q) /\ CompanionsFiled(d, A, q)
    /\ ExtrasFiled(d, A, q) /\ ExtrasApart(A) /\ HeadFiled(d, A, c, q) /\ NearestFiled(A)
    /\ AllFiled(d, A, c, q) /\ InOrder(A, c)

LEMMA AppendSet ==
  ASSUME NEW V, NEW s \in Seq(V), NEW x \in V
  PROVE  /\ ToSet(Append(s, x)) = ToSet(s) \cup {x} /\ Append(s, x) \in Seq(V)
         /\ DOMAIN Append(s, x) = DOMAIN s \cup {Len(s) + 1} /\ DOMAIN s = 1..Len(s)
         /\ Append(s, x)[Len(s) + 1] = x /\ \A i \in DOMAIN s : Append(s, x)[i] = s[i]
<1>1. PICK n \in Nat : n = Len(s)
  OBVIOUS
<1>2. /\ DOMAIN s = 1..n /\ DOMAIN Append(s, x) = 1..(n + 1)
      /\ Append(s, x)[n + 1] = x /\ \A i \in 1..n : Append(s, x)[i] = s[i]
  BY <1>1
<1>3. 1..(n + 1) = (1..n) \cup {n + 1}
  OBVIOUS
<1>4. QED
  BY <1>1, <1>2, <1>3 DEF ToSet

LEMMA AppendNumber ==
  ASSUME NEW s \in Seq(Nat), NEW x \in Nat
  PROVE  ToSet(Append(s, x)) = ToSet(s) \cup {x}
BY AppendSet

\* What lies behind the last one that is filed.
LEMMA AscendingGrows ==
  ASSUME NEW s \in Seq(Nat), Ascending(s), NEW x \in Nat, \A p \in ToSet(s) : p < x
  PROVE  Ascending(Append(s, x))
<1>1. PICK n \in Nat : n = Len(s)
  OBVIOUS
<1>2. /\ DOMAIN s = 1..n /\ DOMAIN Append(s, x) = 1..(n + 1)
      /\ Append(s, x)[n + 1] = x /\ \A i \in 1..n : Append(s, x)[i] = s[i]
  BY <1>1
<1>3. \A i \in 1..n : s[i] < x
  BY <1>2 DEF ToSet
<1>4. QED
  BY <1>2, <1>3 DEF Ascending

\* An interface begins at q.
LEMMA FileInterface ==
  ASSUME NEW d \in Seq(Nat), NEW A, NEW c, NEW q, Filing(d, A, c, q), q \in Starts(d),
         Byte(d, q + 1) = INTERFACE, Byte(d, q) >= 9, NEW a, a = [at |-> q, eps |-> <<>>, extra |-> <<>>]
  PROVE  Filing(d, A \cup {a}, c, q + Byte(d, q))
<1> DEFINE G == A \cup {a}
           r == q + Byte(d, q)
<1>1. q \in Nat /\ r \in Nat /\ q < r /\ Starts(d) \subseteq Nat
      /\ \A p \in Starts(d) : p < r => p < q \/ p = q
  <2>1. q \in Nat /\ Byte(d, q) \in Nat /\ Starts(d) \subseteq Nat
    BY StartsFacts
  <2>2. \A p \in Starts(d) : q < p => r <= p
    BY StartsFacts
  <2>3. QED
    BY <2>1, <2>2
<1> HIDE DEF r
<1>2. a.at = q /\ ToSet(a.eps) = {} /\ ToSet(a.extra) = {} /\ DOMAIN a.eps = {} /\ a \in AltType
      /\ Ascending(a.extra)
  BY <1>1 DEF ToSet, AltType, Ascending
<1>3. \A b \in A : b.at \in Nat
  BY DEF Filing, AltType
<1>4. IfacesFiled(d, G, r)
  BY <1>1, <1>2 DEF Filing, IfacesFiled
<1>5. EndpointsFiled(d, G, r)
  BY <1>1, <1>2 DEF Filing, EndpointsFiled
<1>6. CompanionsFiled(d, G, r)
  BY <1>1, <1>2 DEF Filing, CompanionsFiled
<1>7. ExtrasFiled(d, G, r)
  <2>1. ExtrasFiled(d, A, q)
    BY DEF Filing
  <2>2. ASSUME NEW b \in A, NEW p \in ToSet(b.extra)
        PROVE  /\ p \in Starts(d) /\ p < r /\ b.at < p
               /\ Byte(d, p + 1) # INTERFACE /\ Byte(d, p + 1) # ENDPOINT
    <3>1. /\ p \in Starts(d) /\ p < q /\ b.at < p
          /\ Byte(d, p + 1) # INTERFACE /\ Byte(d, p + 1) # ENDPOINT
      BY <2>1 DEF ExtrasFiled
    <3>2. QED
      BY <1>1, <3>1
  <2>3. QED
    BY <1>2, <2>2 DEF ExtrasFiled
<1>8. ExtrasApart(G)
  BY <1>2 DEF Filing, ExtrasApart
<1>9. HeadFiled(d, G, c, r)
  BY <1>1, <1>2 DEF Filing, HeadFiled
<1>10. NearestFiled(G)
  <2>1. \A b \in A : /\ \A e \in ToSet(b.eps) : e.at < q /\ e.at \in Nat
                     /\ \A p \in ToSet(b.extra) : p < q /\ p \in Nat
    BY <1>1 DEF Filing, EndpointsFiled, ExtrasFiled
  <2>2. NearestFiled(A)
    BY DEF Filing
  <2>3. ASSUME NEW b \in A
        PROVE  /\ \A e \in ToSet(b.eps) : ~(a.at < e.at)
               /\ \A p \in ToSet(b.extra) : ~(a.at < p)
    BY <1>1, <1>2, <2>1
  <2>4. \A x, y \in A : /\ \A e \in ToSet(x.eps) : y.at < e.at => y.at <= x.at
                        /\ \A p \in ToSet(x.extra) : y.at < p => y.at <= x.at
    BY <2>2 DEF NearestFiled
  <2>5. QED
    BY <1>2, <2>3, <2>4 DEF NearestFiled
<1>11. AllFiled(d, G, c, r)
  <2>1. \A p : FiledIn(A, c, p) => FiledIn(G, c, p)
    BY DEF FiledIn
  <2>2. FiledIn(G, c, q)
    BY <1>2 DEF FiledIn
  <2>3. QED
    BY <1>1, <2>1, <2>2 DEF Filing, AllFiled
<1>12. InOrder(G, c)
  BY <1>2 DEF Filing, InOrder
<1>13. G \subseteq AltType /\ c \in Seq(Nat)
  BY <1>2 DEF Filing
<1>14. QED
  BY <1>4, <1>5, <1>6, <1>7, <1>8, <1>9, <1>10, <1>11, <1>12, <1>13 DEF Filing, G, r

\* Something else begins at q, where no interface is open.
LEMMA FileHead ==
  ASSUME NEW d \in Seq(Nat), NEW c, NEW q, Filing(d, {}, c, q), q \in Starts(d),
         Byte(d, q + 1) # INTERFACE
  PROVE  Filing(d, {}, Append(c, q), q + Byte(d, q))
<1> DEFINE r == q + Byte(d, q)
           k == Append(c, q)
<1>1. q \in Nat /\ r \in Nat /\ q < r /\ Starts(d) \subseteq Nat
      /\ \A p \in Starts(d) : p < r => p < q \/ p = q
  <2>1. q \in Nat /\ Byte(d, q) \in Nat /\ Starts(d) \subseteq Nat
    BY StartsFacts
  <2>2. \A p \in Starts(d) : q < p => r <= p
    BY StartsFacts
  <2>3. QED
    BY <2>1, <2>2, StartsFacts
<1> HIDE DEF r
<1>2. c \in Seq(Nat) /\ \A p \in ToSet(c) : p < q /\ p \in Starts(d)
  BY DEF Filing, HeadFiled
<1>3. ToSet(k) = ToSet(c) \cup {q} /\ k \in Seq(Nat) /\ Ascending(k)
  <2>1. Ascending(c)
    BY DEF Filing, InOrder
  <2>2. Ascending(k)
    BY <1>1, <1>2, <2>1, AscendingGrows
  <2>3. q \in Nat /\ c \in Seq(Nat)
    BY <1>1, <1>2
  <2>4. ToSet(Append(c, q)) = ToSet(c) \cup {q} /\ Append(c, q) \in Seq(Nat)
    BY <2>3, AppendSet
  <2>5. QED
    BY <2>2, <2>4
<1> HIDE DEF k
<1>4. HeadFiled(d, {}, k, r)
  BY <1>1, <1>2, <1>3 DEF Filing, HeadFiled
<1>5. AllFiled(d, {}, k, r)
  BY <1>1, <1>3 DEF Filing, AllFiled, FiledIn
<1>6. InOrder({}, k)
  BY <1>3 DEF InOrder
<1>7. QED
  BY <1>3, <1>4, <1>5, <1>6 DEF Filing, IfacesFiled, EndpointsFiled, CompanionsFiled, ExtrasFiled,
     ExtrasApart, NearestFiled, k, r

\* The last interface a gets an extra descriptor.
LEMMA FileExtra ==
  ASSUME NEW d \in Seq(Nat), NEW A, NEW a, NEW c, NEW q, Filing(d, A \cup {a}, c, q), q \in Starts(d),
         \A x \in A : x.at < a.at,
         Byte(d, q + 1) # INTERFACE, Byte(d, q + 1) # ENDPOINT,
         NEW b \in AltType, b.at = a.at, b.eps = a.eps, b.extra = Append(a.extra, q)
  PROVE  Filing(d, A \cup {b}, c, q + Byte(d, q))
<1> DEFINE F == A \cup {a}
           G == A \cup {b}
           r == q + Byte(d, q)
<1>1. q \in Nat /\ r \in Nat /\ q < r /\ Starts(d) \subseteq Nat
      /\ \A p \in Starts(d) : p < r => p < q \/ p = q
  <2>1. q \in Nat /\ Byte(d, q) \in Nat /\ Byte(d, q) >= 1 /\ Starts(d) \subseteq Nat
    BY StartsFacts
  <2>2. \A p \in Starts(d) : q < p => r <= p
    BY StartsFacts
  <2>3. QED
    BY <2>1, <2>2
<1> HIDE DEF r
<1>a. a \in AltType /\ a.extra \in Seq(Nat) /\ F \subseteq AltType /\ c \in Seq(Nat)
  BY DEF Filing, AltType
<1>2. b.at = a.at /\ b.eps = a.eps /\ b.extra = Append(a.extra, q) /\ b \in AltType
  OBVIOUS
<1>3. ToSet(b.extra) = ToSet(a.extra) \cup {q}
  <2>1. PICK s \in Seq(Nat) : s = a.extra
    BY <1>a
  <2>2. q \in Nat
    BY <1>1
  <2>3. ToSet(Append(s, q)) = ToSet(s) \cup {q}
    BY <2>2, AppendNumber
  <2>4. QED
    BY <1>2, <2>1, <2>3
<1>f. /\ IfacesFiled(d, F, q) /\ EndpointsFiled(d, F, q) /\ CompanionsFiled(d, F, q)
      /\ ExtrasFiled(d, F, q) /\ ExtrasApart(F) /\ HeadFiled(d, F, c, q) /\ NearestFiled(F)
      /\ AllFiled(d, F, c, q) /\ InOrder(F, c)
  BY DEF Filing
<1>n. /\ a.at \in Nat /\ a.at < q /\ \A x \in A : x.at \in Nat /\ x.at < q
  BY <1>1, <1>a, <1>f DEF IfacesFiled, AltType
<1>4. IfacesFiled(d, G, r)
  <2>1. \A x \in F : /\ x.at \in Starts(d) /\ x.at < r
                     /\ Byte(d, x.at + 1) = INTERFACE /\ Byte(d, x.at) >= 9
    BY <1>1, <1>f, <1>n DEF IfacesFiled
  <2>2. QED
    BY <1>2, <2>1 DEF IfacesFiled
<1>5. EndpointsFiled(d, G, r)
  <2>1. ASSUME NEW x \in F, NEW e \in ToSet(x.eps)
        PROVE  /\ e.at \in Starts(d) /\ e.at < r /\ x.at < e.at
               /\ Byte(d, e.at + 1) = ENDPOINT /\ Byte(d, e.at) >= 7
    BY <1>1, <1>f DEF EndpointsFiled
  <2>2. QED
    BY <1>2, <2>1 DEF EndpointsFiled
<1>6. CompanionsFiled(d, G, r)
  <2>1. ASSUME NEW x \in F, NEW e \in ToSet(x.eps), e.comp # NoCompanion
        PROVE  /\ e.comp = e.at + Byte(d, e.at) /\ e.comp \in Starts(d) /\ e.comp < r
               /\ Byte(d, e.comp + 1) = COMPANION /\ Byte(d, e.comp) >= 6
    BY <1>1, <1>f, <2>1 DEF CompanionsFiled
  <2>2. QED
    BY <1>2, <2>1 DEF CompanionsFiled
<1>7. ExtrasFiled(d, G, r)
  <2>1. ASSUME NEW x \in F, NEW p \in ToSet(x.extra)
        PROVE  /\ p \in Starts(d) /\ p < r /\ x.at < p
               /\ Byte(d, p + 1) # INTERFACE /\ Byte(d, p + 1) # ENDPOINT
    <3>1. /\ p \in Starts(d) /\ p < q /\ x.at < p
          /\ Byte(d, p + 1) # INTERFACE /\ Byte(d, p + 1) # ENDPOINT
      BY <1>f DEF ExtrasFiled
    <3>2. QED
      BY <1>1, <3>1
  <2>2. QED
    BY <1>1, <1>2, <1>3, <1>n, <2>1 DEF ExtrasFiled
<1>8. ExtrasApart(G)
  <2>1. ASSUME NEW x \in F, NEW y \in F, NEW p \in ToSet(x.extra), NEW e \in ToSet(y.eps)
        PROVE  e.comp # p
    BY <1>f DEF ExtrasApart
  <2>2. ASSUME NEW y \in F, NEW e \in ToSet(y.eps) PROVE e.comp # q
    <3>1. e.comp # 0 => e.comp < q
      BY <1>f DEF CompanionsFiled, NoCompanion
    <3>2. QED
      BY <1>n, <3>1, <1>1
  <2>3. \A x, y \in F : \A p \in ToSet(x.extra) : \A e \in ToSet(y.eps) : e.comp # p
    BY <2>1
  <2>4. ASSUME NEW x \in G, NEW y \in G, NEW p \in ToSet(x.extra), NEW e \in ToSet(y.eps)
        PROVE  e.comp # p
    <3>1. PICK z \in F : e \in ToSet(z.eps)
      BY <1>2
    <3>2. p = q \/ \E w \in F : p \in ToSet(w.extra)
      <4>1. CASE x = b
        BY <1>3, <4>1
      <4>2. CASE x \in A
        BY <4>2
      <4>3. QED
        BY <4>1, <4>2
    <3>3. QED
      BY <2>2, <2>3, <3>1, <3>2
  <2>5. QED
    BY <2>4 DEF ExtrasApart
<1>9. HeadFiled(d, G, c, r)
  <2>1. ASSUME NEW p \in ToSet(c)
        PROVE  /\ p \in Starts(d) /\ p < r /\ Byte(d, p + 1) # INTERFACE
               /\ \A x \in F : p < x.at
    <3>1. /\ p \in Starts(d) /\ p < q /\ Byte(d, p + 1) # INTERFACE /\ \A x \in F : p < x.at
      BY <1>f DEF HeadFiled
    <3>2. QED
      BY <1>1, <3>1
  <2>2. QED
    BY <1>2, <2>1 DEF HeadFiled
<1>10. NearestFiled(G)
  <2>1. ASSUME NEW x \in F, NEW y \in F
        PROVE  /\ \A e \in ToSet(x.eps) : y.at < e.at => y.at <= x.at
               /\ \A p \in ToSet(x.extra) : y.at < p => y.at <= x.at
    BY <1>f DEF NearestFiled
  <2>2. \A y \in F : y.at <= a.at
    BY <1>n
  <2>3. QED
    BY <1>2, <1>3, <2>1, <2>2 DEF NearestFiled
<1>11. AllFiled(d, G, c, r)
  <2>1. ASSUME NEW p, FiledIn(F, c, p) PROVE FiledIn(G, c, p)
    <3>1. CASE p \in ToSet(c)
      BY <3>1 DEF FiledIn
    <3>2. CASE \E x \in F : x.at = p \/ p \in ToSet(x.extra)
                            \/ \E e \in ToSet(x.eps) : e.at = p \/ e.comp = p
      <4>1. PICK x \in F : x.at = p \/ p \in ToSet(x.extra)
                            \/ \E e \in ToSet(x.eps) : e.at = p \/ e.comp = p
        BY <3>2
      <4>2. CASE x \in A
        BY <4>1, <4>2 DEF FiledIn
      <4>3. CASE x = a
        <5>1. b.at = p \/ p \in ToSet(b.extra)
                            \/ \E e \in ToSet(b.eps) : e.at = p \/ e.comp = p
          BY <1>2, <1>3, <4>1, <4>3
        <5>2. QED
          BY <5>1 DEF FiledIn
      <4>4. QED
        BY <4>2, <4>3
    <3>3. QED
      BY <2>1, <3>1, <3>2 DEF FiledIn
  <2>2. FiledIn(G, c, q)
    BY <1>3 DEF FiledIn
  <2>3. QED
    BY <1>1, <1>f, <2>1, <2>2 DEF AllFiled
<1>12. InOrder(G, c)
  <2>1. Ascending(a.extra) /\ \A p \in ToSet(a.extra) : p < q
    BY <1>f DEF InOrder, ExtrasFiled
  <2>2. Ascending(b.extra)
    BY <1>1, <1>2, <1>a, <2>1, AscendingGrows
  <2>3. QED
    BY <1>2, <1>f, <2>2 DEF InOrder
<1>13. QED
  BY <1>2, <1>4, <1>5, <1>6, <1>7, <1>8, <1>9, <1>10, <1>11, <1>12, <1>a DEF Filing, r

\* The last interface a gets an endpoint and, where one follows, its companion; the
\* parser goes on at r.
LEMMA FileEndpoint ==
  ASSUME NEW d \in Seq(Nat), NEW A, NEW a, NEW c, NEW q, Filing(d, A \cup {a}, c, q), q \in Starts(d),
         \A x \in A : x.at < a.at,
         Byte(d, q + 1) = ENDPOINT, Byte(d, q) >= 7,
         NEW m \in Nat, NEW r \in Nat,
         \/ m = NoCompanion /\ r = q + Byte(d, q)
         \/ /\ m = q + Byte(d, q) /\ m \in Starts(d) /\ r = m + Byte(d, m)
            /\ Byte(d, m + 1) = COMPANION /\ Byte(d, m) >= 6,
         NEW e0, e0 = [at |-> q, comp |-> m],
         NEW b \in AltType, b.at = a.at, b.extra = a.extra, b.eps = Append(a.eps, e0)
  PROVE  Filing(d, A \cup {b}, c, r)
<1> DEFINE F == A \cup {a}
           G == A \cup {b}
<1>1. /\ q \in Nat /\ q < r /\ Starts(d) \subseteq Nat /\ q >= 9
      /\ \A p \in Starts(d) : p < r => p < q \/ p = q \/ p = m
      /\ m # NoCompanion => q < m /\ m < r
  <2>1. q \in Nat /\ Byte(d, q) \in Nat /\ Byte(d, q) >= 1 /\ Starts(d) \subseteq Nat /\ q >= 9
    BY StartsFacts
  <2>2. \A p \in Starts(d) : q < p => q + Byte(d, q) <= p
    BY StartsFacts
  <2>3. CASE m = NoCompanion
    BY <2>1, <2>2, <2>3 DEF NoCompanion
  <2>4. CASE m # NoCompanion
    <3>1. m \in Starts(d) /\ m = q + Byte(d, q) /\ r = m + Byte(d, m)
      BY <2>4
    <3>2. /\ Byte(d, m) \in Nat /\ Byte(d, m) >= 1
          /\ \A p \in Starts(d) : m < p => m + Byte(d, m) <= p
      BY <3>1, StartsFacts
    <3>3. m \in Nat /\ r \in Nat /\ q < m /\ m < r
      <4>1. PICK lq \in Nat : lq = Byte(d, q) /\ lq >= 1
        BY <2>1
      <4>2. PICK lm \in Nat : lm = Byte(d, m) /\ lm >= 1
        BY <3>2
      <4>3. m = q + lq /\ r = m + lm
        BY <3>1, <4>1, <4>2
      <4>4. q \in Nat /\ lq \in Nat /\ lq >= 1 /\ lm \in Nat /\ lm >= 1
        BY <2>1, <4>1, <4>2
      <4>5. QED
        BY <4>3, <4>4
    <3>4. ASSUME NEW p \in Starts(d), p < r PROVE p < q \/ p = q \/ p = m
      <4>1. p \in Nat /\ (q < p => m <= p) /\ (m < p => r <= p)
        BY <2>1, <2>2, <3>1, <3>2
      <4>2. QED
        BY <2>1, <3>3, <3>4, <4>1
    <3>5. QED
      BY <2>1, <3>3, <3>4
  <2>5. QED
    BY <2>3, <2>4
<1>a. /\ a \in AltType /\ a.eps \in Seq([at : Nat, comp : Nat]) /\ F \subseteq AltType
      /\ c \in Seq(Nat) /\ e0 \in [at : Nat, comp : Nat]
  BY <1>1 DEF Filing, AltType
<1>b. e0.at = q /\ e0.comp = m
  OBVIOUS
<1>2. b.at = a.at /\ b.extra = a.extra /\ b.eps = Append(a.eps, e0) /\ b \in AltType
  OBVIOUS
<1>3. /\ ToSet(b.eps) = ToSet(a.eps) \cup {e0}
      /\ DOMAIN b.eps = DOMAIN a.eps \cup {Len(a.eps) + 1} /\ DOMAIN a.eps = 1..Len(a.eps)
      /\ Len(a.eps) \in Nat
      /\ b.eps[Len(a.eps) + 1] = e0 /\ \A i \in DOMAIN a.eps : b.eps[i] = a.eps[i]
  <2>0. PICK V : V = [at : Nat, comp : Nat]
    OBVIOUS
  <2>1. PICK s \in Seq(V) : s = a.eps
    BY <1>a, <2>0
  <2>5. e0 \in V
    BY <1>a, <2>0
  <2>2. /\ ToSet(Append(s, e0)) = ToSet(s) \cup {e0}
        /\ DOMAIN Append(s, e0) = DOMAIN s \cup {Len(s) + 1} /\ DOMAIN s = 1..Len(s)
        /\ Append(s, e0)[Len(s) + 1] = e0 /\ \A i \in DOMAIN s : Append(s, e0)[i] = s[i]
    BY <2>5, AppendSet
  <2>3. Len(s) \in Nat
    BY <2>1
  <2>4. QED
    BY <1>2, <2>1, <2>2, <2>3
<1>f. /\ IfacesFiled(d, F, q) /\ EndpointsFiled(d, F, q) /\ CompanionsFiled(d, F, q)
      /\ ExtrasFiled(d, F, q) /\ ExtrasApart(F) /\ HeadFiled(d, F, c, q) /\ NearestFiled(F)
      /\ AllFiled(d, F, c, q) /\ InOrder(F, c)
  BY DEF Filing
<1>n. /\ a.at \in Nat /\ a.at < q /\ \A x \in A : x.at \in Nat /\ x.at < q
  BY <1>1, <1>a, <1>f DEF IfacesFiled, AltType
\* An endpoint of an interface is one from before or the new one, which is the last's.
<1>e. ASSUME NEW y \in G, NEW e \in ToSet(y.eps)
      PROVE  \/ e = e0 /\ y = b
             \/ \E z \in F : z.at = y.at /\ e \in ToSet(z.eps)
  <2>1. CASE y = b
    BY <1>2, <1>3, <2>1
  <2>2. CASE y \in A
    BY <2>2
  <2>3. QED
    BY <2>1, <2>2
<1>x. ASSUME NEW y \in G, NEW p \in ToSet(y.extra)
      PROVE  \E z \in F : z.at = y.at /\ p \in ToSet(z.extra)
  BY <1>2
<1>4. IfacesFiled(d, G, r)
  <2>1. \A x \in F : /\ x.at \in Starts(d) /\ x.at < r
                     /\ Byte(d, x.at + 1) = INTERFACE /\ Byte(d, x.at) >= 9
    BY <1>1, <1>f, <1>n DEF IfacesFiled
  <2>2. QED
    BY <1>2, <2>1 DEF IfacesFiled
<1>5. EndpointsFiled(d, G, r)
  <2>1. ASSUME NEW y \in G, NEW e \in ToSet(y.eps)
        PROVE  /\ e.at \in Starts(d) /\ e.at < r /\ y.at < e.at
               /\ Byte(d, e.at + 1) = ENDPOINT /\ Byte(d, e.at) >= 7
    <3>1. CASE e = e0 /\ y = b
      BY <1>1, <1>2, <1>b, <1>n, <3>1
    <3>2. CASE \E z \in F : z.at = y.at /\ e \in ToSet(z.eps)
      <4>1. PICK z \in F : z.at = y.at /\ e \in ToSet(z.eps)
        BY <3>2
      <4>2. /\ e.at \in Starts(d) /\ e.at < q /\ z.at < e.at
            /\ Byte(d, e.at + 1) = ENDPOINT /\ Byte(d, e.at) >= 7
        BY <1>f, <4>1 DEF EndpointsFiled
      <4>3. QED
        BY <1>1, <4>1, <4>2
    <3>3. QED
      BY <1>e, <3>1, <3>2
  <2>2. QED
    BY <2>1 DEF EndpointsFiled
<1>6. CompanionsFiled(d, G, r)
  <2>1. ASSUME NEW y \in G, NEW e \in ToSet(y.eps), e.comp # NoCompanion
        PROVE  /\ e.comp = e.at + Byte(d, e.at) /\ e.comp \in Starts(d) /\ e.comp < r
               /\ Byte(d, e.comp + 1) = COMPANION /\ Byte(d, e.comp) >= 6
    <3>1. CASE e = e0 /\ y = b
      <4>1. e.at = q /\ e.comp = m /\ m # NoCompanion
        BY <1>b, <2>1, <3>1
      <4>2. QED
        BY <1>1, <4>1
    <3>2. CASE \E z \in F : z.at = y.at /\ e \in ToSet(z.eps)
      <4>1. PICK z \in F : z.at = y.at /\ e \in ToSet(z.eps)
        BY <3>2
      <4>2. /\ e.comp = e.at + Byte(d, e.at) /\ e.comp \in Starts(d) /\ e.comp < q
            /\ Byte(d, e.comp + 1) = COMPANION /\ Byte(d, e.comp) >= 6
        BY <1>f, <2>1, <4>1 DEF CompanionsFiled
      <4>3. QED
        BY <1>1, <4>2
    <3>3. QED
      BY <1>e, <3>1, <3>2
  <2>2. QED
    BY <2>1 DEF CompanionsFiled
<1>7. ExtrasFiled(d, G, r)
  <2>1. ASSUME NEW y \in G, NEW p \in ToSet(y.extra)
        PROVE  /\ p \in Starts(d) /\ p < r /\ y.at < p
               /\ Byte(d, p + 1) # INTERFACE /\ Byte(d, p + 1) # ENDPOINT
    <3>1. PICK z \in F : z.at = y.at /\ p \in ToSet(z.extra)
      BY <1>x
    <3>2. /\ p \in Starts(d) /\ p < q /\ z.at < p
          /\ Byte(d, p + 1) # INTERFACE /\ Byte(d, p + 1) # ENDPOINT
      BY <1>f, <3>1 DEF ExtrasFiled
    <3>3. QED
      BY <1>1, <3>1, <3>2
  <2>2. QED
    BY <2>1 DEF ExtrasFiled
<1>8. ExtrasApart(G)
  <2>1. ASSUME NEW x \in G, NEW y \in G, NEW p \in ToSet(x.extra), NEW e \in ToSet(y.eps)
        PROVE  e.comp # p
    <3>1. PICK z \in F : z.at = x.at /\ p \in ToSet(z.extra)
      BY <1>x
    <3>2. CASE e = e0 /\ y = b
      <4>1. p \in Starts(d) /\ p < q
        BY <1>f, <3>1 DEF ExtrasFiled
      <4>2. p \in Nat /\ p >= 9
        BY <4>1, StartsFacts
      <4>3. e.comp = m
        BY <1>b, <3>2
      <4>4. QED
        BY <1>1, <4>1, <4>2, <4>3 DEF NoCompanion
    <3>3. CASE \E w \in F : w.at = y.at /\ e \in ToSet(w.eps)
      <4>1. PICK w \in F : e \in ToSet(w.eps)
        BY <3>3
      <4>2. \A u, v \in F : \A n \in ToSet(u.extra) : \A f \in ToSet(v.eps) : f.comp # n
        BY <1>f DEF ExtrasApart
      <4>3. QED
        BY <3>1, <4>1, <4>2
    <3>4. QED
      BY <1>e, <3>2, <3>3
  <2>2. QED
    BY <2>1 DEF ExtrasApart
<1>9. HeadFiled(d, G, c, r)
  <2>1. ASSUME NEW p \in ToSet(c)
        PROVE  /\ p \in Starts(d) /\ p < r /\ Byte(d, p + 1) # INTERFACE
               /\ \A x \in F : p < x.at
    <3>1. /\ p \in Starts(d) /\ p < q /\ Byte(d, p + 1) # INTERFACE /\ \A x \in F : p < x.at
      BY <1>f DEF HeadFiled
    <3>2. QED
      BY <1>1, <3>1
  <2>2. QED
    BY <1>2, <2>1 DEF HeadFiled
<1>10. NearestFiled(G)
  <2>1. \A y \in G : y.at <= b.at /\ \E z \in F : z.at = y.at
    <3>1. ASSUME NEW y \in A PROVE y.at <= b.at /\ y \in F
      BY <1>2, <1>n
    <3>2. b.at <= b.at /\ a \in F /\ a.at = b.at
      BY <1>2, <1>n
    <3>3. ASSUME NEW y \in G PROVE y.at <= b.at /\ \E z \in F : z.at = y.at
      <4>1. CASE y \in A
        BY <3>1, <4>1
      <4>2. CASE y = b
        BY <3>2, <4>2
      <4>3. QED
        BY <4>1, <4>2
    <3>4. QED
      BY <3>3
  <2>2. ASSUME NEW x \in G, NEW y \in G
        PROVE  /\ \A e \in ToSet(x.eps) : y.at < e.at => y.at <= x.at
               /\ \A p \in ToSet(x.extra) : y.at < p => y.at <= x.at
    <3>1. PICK w \in F : w.at = y.at
      BY <2>1
    <3>2. ASSUME NEW e \in ToSet(x.eps), y.at < e.at PROVE y.at <= x.at
      <4>1. CASE e = e0 /\ x = b
        BY <2>1, <4>1
      <4>2. CASE \E z \in F : z.at = x.at /\ e \in ToSet(z.eps)
        BY <1>f, <3>1, <3>2, <4>2 DEF NearestFiled
      <4>3. QED
        BY <1>e, <4>1, <4>2
    <3>3. ASSUME NEW p \in ToSet(x.extra), y.at < p PROVE y.at <= x.at
      <4>1. PICK z \in F : z.at = x.at /\ p \in ToSet(z.extra)
        BY <1>x
      <4>2. QED
        BY <1>f, <3>1, <3>3, <4>1 DEF NearestFiled
    <3>4. QED
      BY <3>2, <3>3
  <2>3. QED
    BY <2>2 DEF NearestFiled
<1>11. AllFiled(d, G, c, r)
  <2>1. ASSUME NEW p, FiledIn(F, c, p) PROVE FiledIn(G, c, p)
    <3>1. CASE p \in ToSet(c)
      BY <3>1 DEF FiledIn
    <3>2. CASE \E x \in F : x.at = p \/ p \in ToSet(x.extra)
                            \/ \E e \in ToSet(x.eps) : e.at = p \/ e.comp = p
      <4>1. PICK x \in F : x.at = p \/ p \in ToSet(x.extra)
                            \/ \E e \in ToSet(x.eps) : e.at = p \/ e.comp = p
        BY <3>2
      <4>2. CASE x \in A
        BY <4>1, <4>2 DEF FiledIn
      <4>3. CASE x = a
        <5>1. b.at = p \/ p \in ToSet(b.extra)
                            \/ \E e \in ToSet(b.eps) : e.at = p \/ e.comp = p
          BY <1>2, <1>3, <4>1, <4>3
        <5>2. QED
          BY <5>1 DEF FiledIn
      <4>4. QED
        BY <4>2, <4>3
    <3>3. QED
      BY <2>1, <3>1, <3>2 DEF FiledIn
  <2>2. e0 \in ToSet(b.eps) /\ b \in G
    BY <1>3
  <2>3. FiledIn(G, c, q) /\ FiledIn(G, c, m)
    BY <1>b, <2>2 DEF FiledIn
  <2>4. QED
    BY <1>1, <1>f, <2>1, <2>3 DEF AllFiled
<1>12. InOrder(G, c)
  <2>1. ASSUME NEW i \in DOMAIN b.eps, NEW j \in DOMAIN b.eps, i < j
        PROVE  b.eps[i].at < b.eps[j].at
    <3>1. i \in DOMAIN a.eps
      BY <1>3, <2>1
    <3>2. a.eps[i] \in ToSet(a.eps) /\ b.eps[i] = a.eps[i]
      BY <1>3, <3>1 DEF ToSet
    <3>3. CASE j \in DOMAIN a.eps
      BY <1>3, <1>f, <2>1, <3>1, <3>2, <3>3 DEF InOrder
    <3>4. CASE j = Len(a.eps) + 1
      <4>1. a.eps[i].at < q
        BY <1>f, <3>2 DEF EndpointsFiled
      <4>2. QED
        BY <1>3, <1>b, <3>2, <3>4, <4>1
    <3>5. QED
      BY <1>3, <3>3, <3>4
  <2>2. QED
    BY <1>2, <1>f, <2>1 DEF InOrder
<1>13. QED
  BY <1>2, <1>4, <1>5, <1>6, <1>7, <1>8, <1>9, <1>10, <1>11, <1>12, <1>a DEF Filing

-----------------------------------------------------------------------------
(* The invariant of Unmarshal                                              *)

Bytes(s) == s \in Seq(Nat) /\ \A i \in DOMAIN s : s[i] < 256

\* What RawConfigDescriptor returns, if it does.
Fetched == IF os = "windows" THEN Received ELSE Answer(TotalLength)

ConfigTypes ==
    /\ os \in {"linux", "windows", "darwin"}
    /\ pc \in {"fetch", "parse", "read", "reading", "returned"}
    /\ result \in {"none", "ok", "error", "short", "panic"}
    /\ Bytes(dev) /\ Len(dev) >= 9 /\ Bytes(data)
    /\ pos \in Nat /\ cur \in AltType /\ saved \in Seq(AltType) /\ cextra \in Seq(Nat)
    /\ rpos \in Nat /\ rifs \in Seq(Nat) /\ reps \in Seq(Nat)

FetchInv ==
    /\ pc = "fetch" => pos = 9 /\ cur = NoAlt /\ saved = <<>> /\ cextra = <<>>
    /\ pc \in {"fetch", "parse"} <=> result = "none"
    /\ pc = "parse" \/ result \in {"ok", "error"} => data = Fetched
    /\ pc \in {"fetch", "parse", "read"} => rpos = 0 /\ rifs = <<>> /\ reps = <<>>

\* The alternate settings with the one that is being parsed.
AllAlts == Alts \cup ({cur} \ {NoAlt})

ParseInv ==
    /\ pos \in Walk(data, 9, 1)
    /\ Filing(data, AllAlts, cextra, pos)
    /\ \A i, j \in DOMAIN saved : i < j => saved[i].at < saved[j].at
    /\ pc = "parse" => IF cur = NoAlt THEN saved = <<>> ELSE \A a \in Alts : a.at < cur.at
    /\ result = "ok" => Len(data) >= 9 /\ ~Whole(data, pos, 1) /\ AllAlts = Alts

LEMMA MoreIsWhole ==
  ASSUME ConfigTypes
  PROVE  MoreToParse <=> Whole(data, pos, 1)
<1>1. Byte(data, pos) \in Nat
  BY ByteIsNat DEF ConfigTypes, Bytes
<1>2. QED
  BY <1>1 DEF MoreToParse, Whole, Length

LEMMA ByteIsSmall == ASSUME NEW s, Bytes(s), NEW i \in Nat, i < Len(s)
                     PROVE  Byte(s, i) \in Nat /\ Byte(s, i) < 256 /\ Byte(s, i) = s[i + 1]
<1>1. PICK n \in Nat : n = Len(s)
  BY DEF Bytes
<1>2. i + 1 \in 1..n /\ DOMAIN s = 1..n
  BY <1>1 DEF Bytes
<1>3. s[i + 1] \in Nat /\ s[i + 1] < 256
  BY <1>1, <1>2 DEF Bytes
<1>4. QED
  BY <1>3 DEF Byte

LEMMA AnswerBytes ==
  ASSUME Bytes(dev), NEW n \in Nat
  PROVE  /\ Bytes(Answer(n)) /\ Len(Answer(n)) = n
         /\ \A i \in Nat : i < n /\ i < Len(dev) => Byte(Answer(n), i) = Byte(dev, i)
         /\ \A i \in Nat : i < n /\ ~(i < Len(dev)) => Byte(Answer(n), i) = 0
<1>1. PICK m \in Nat : m = Len(dev) /\ DOMAIN dev = 1..m
  BY DEF Bytes
<1> DEFINE s == Answer(n)
<1>2. s = [i \in 1..n |-> IF i <= m THEN dev[i] ELSE 0]
  BY <1>1 DEF Answer
<1>3. \A i \in 1..n : s[i] \in Nat /\ s[i] < 256 /\ (i <= m => s[i] = dev[i]) /\ (~(i <= m) => s[i] = 0)
  <2>1. \A i \in 1..m : dev[i] \in Nat /\ dev[i] < 256
    BY <1>1 DEF Bytes
  <2> HIDE DEF s
  <2>2. QED
    BY <1>2, <2>1
<1>4. DOMAIN s = 1..n /\ s \in [1..n -> Nat]
  <2> HIDE DEF s
  <2>1. DOMAIN s = 1..n /\ s = [i \in 1..n |-> s[i]]
    BY <1>2
  <2>2. QED
    BY <1>3, <2>1
<1> HIDE DEF s
<1>5. s \in Seq(Nat) /\ Len(s) = n
  BY <1>4
<1>6. Bytes(s)
  BY <1>3, <1>4, <1>5 DEF Bytes
<1>7. ASSUME NEW i \in Nat, i < n
      PROVE  /\ i < m => Byte(s, i) = Byte(dev, i)
             /\ ~(i < m) => Byte(s, i) = 0
  <2>1. i + 1 \in 1..n /\ Byte(s, i) = s[i + 1]
    BY <1>5, <1>7 DEF Byte
  <2>2. i < m => Byte(dev, i) = dev[i + 1]
    BY <1>1 DEF Byte
  <2>3. QED
    BY <1>3, <2>1, <2>2
<1>8. QED
  BY <1>1, <1>5, <1>6, <1>7 DEF s

LEMMA TotalIsNat ==
  ASSUME Bytes(dev), Len(dev) >= 9
  PROVE  TotalLength \in Nat /\ TotalLength = Word(dev, 2)
<1>1. PICK m \in Nat : m = Len(dev)
  BY DEF Bytes
<1>2. /\ Byte(Answer(9), 2) = Byte(dev, 2) /\ Byte(Answer(9), 3) = Byte(dev, 3)
  <2>1. \A i \in Nat : i < 9 /\ i < Len(dev) => Byte(Answer(9), i) = Byte(dev, i)
    BY AnswerBytes
  <2>2. QED
    BY <1>1, <2>1
<1>3. Byte(dev, 2) \in Nat /\ Byte(dev, 3) \in Nat
  BY <1>1, ByteIsSmall
<1>4. QED
  BY <1>2, <1>3 DEF TotalLength, Word

LEMMA FetchedBytes ==
  ASSUME Bytes(dev), Len(dev) >= 9
  PROVE  /\ Bytes(Fetched) /\ (Len(dev) = TotalLength => Len(Fetched) = Len(dev))
         /\ Len(dev) = TotalLength => \A i \in Nat : i < Len(dev) => Byte(Fetched, i) = Byte(dev, i)
<1>1. PICK m \in Nat : m = Len(dev) /\ DOMAIN dev = 1..m
  BY DEF Bytes
<1>2. PICK t \in Nat : t = TotalLength
  BY TotalIsNat
<1>3. CASE os = "windows"
  <2>1. PICK l \in Nat : l = (IF m < t THEN m ELSE t) /\ l <= m
    BY <1>1, <1>2
  <2>2. Fetched = SubSeq(dev, 1, l)
    BY <1>1, <1>2, <1>3, <2>1 DEF Fetched, Received
  <2>3. /\ SubSeq(dev, 1, l) \in Seq(Nat) /\ Len(SubSeq(dev, 1, l)) = l
        /\ \A i \in 1..l : SubSeq(dev, 1, l)[i] = dev[i]
        /\ DOMAIN SubSeq(dev, 1, l) = 1..l
    BY <1>1, <2>1 DEF Bytes
  <2>4. Bytes(Fetched)
    <3>1. \A i \in 1..l : SubSeq(dev, 1, l)[i] < 256
      BY <1>1, <2>1, <2>3 DEF Bytes
    <3>2. QED
      BY <2>2, <2>3, <3>1 DEF Bytes
  <2>5. ASSUME m = t, NEW i \in Nat, i < m PROVE Byte(Fetched, i) = Byte(dev, i)
    <3>1. l = m /\ i + 1 \in 1..l
      BY <2>1, <2>5
    <3>2. QED
      BY <1>1, <2>2, <2>3, <2>5, <3>1 DEF Byte
  <2>6. m = t => l = m
    BY <2>1
  <2>7. QED
    BY <1>1, <1>2, <2>2, <2>3, <2>4, <2>5, <2>6
<1>4. CASE os # "windows"
  <2>1. Fetched = Answer(t)
    BY <1>2, <1>4 DEF Fetched
  <2>2. QED
    BY <1>1, <1>2, <2>1, AnswerBytes
<1>5. QED
  BY <1>3, <1>4

LEMMA SavedAlts ==
  ASSUME ConfigTypes, ParseInv, pc = "parse"
  PROVE  /\ ToSet(SaveCurrent) = AllAlts /\ SaveCurrent \in Seq(AltType)
         /\ \A i, j \in DOMAIN SaveCurrent : i < j => SaveCurrent[i].at < SaveCurrent[j].at
<1>1. CASE cur = NoAlt
  BY <1>1 DEF ConfigTypes, ParseInv, SaveCurrent, AllAlts, Alts
<1>2. CASE cur # NoAlt
  <2>1. SaveCurrent = Append(saved, cur) /\ AllAlts = Alts \cup {cur}
    BY <1>2 DEF SaveCurrent, AllAlts
  <2>2. PICK n \in Nat : n = Len(saved) /\ DOMAIN saved = 1..n
    BY DEF ConfigTypes
  <2>3. /\ ToSet(Append(saved, cur)) = ToSet(saved) \cup {cur}
        /\ Append(saved, cur) \in Seq(AltType)
        /\ DOMAIN Append(saved, cur) = DOMAIN saved \cup {n + 1}
        /\ Append(saved, cur)[n + 1] = cur
        /\ \A i \in DOMAIN saved : Append(saved, cur)[i] = saved[i]
    <3>1. saved \in Seq(AltType) /\ cur \in AltType
      BY DEF ConfigTypes
    <3>2. QED
      BY <2>2, <3>1, AppendSet
  <2>4. \A i \in DOMAIN saved : saved[i].at < cur.at
    <3>1. \A a \in Alts : a.at < cur.at
      BY <1>2 DEF ParseInv
    <3>2. QED
      BY <3>1 DEF Alts, ToSet
  <2>5. \A i, j \in DOMAIN saved : i < j => saved[i].at < saved[j].at
    BY DEF ParseInv
  <2>6. QED
    BY <2>1, <2>2, <2>3, <2>4, <2>5 DEF Alts
<1>3. QED
  BY <1>1, <1>2

CfgInv == ConfigTypes /\ FetchInv /\ ParseInv

\* Nothing is filed before the first descriptor.
LEMMA NothingFiled ==
  ASSUME NEW d \in Seq(Nat)
  PROVE  Filing(d, {}, <<>>, 9)
<1>1. ToSet(<<>>) = {} /\ Ascending(<<>>) /\ <<>> \in Seq(Nat)
  BY DEF ToSet, Ascending
<1>2. \A p \in Starts(d) : p \in Nat /\ p >= 9
  BY StartsFacts
<1>3. AllFiled(d, {}, <<>>, 9)
  BY <1>2 DEF AllFiled
<1>4. QED
  BY <1>1, <1>3 DEF Filing, IfacesFiled, EndpointsFiled, CompanionsFiled, ExtrasFiled, ExtrasApart,
     HeadFiled, NearestFiled, InOrder

LEMMA NoAlts == ASSUME saved = <<>>, cur = NoAlt PROVE Alts = {} /\ AllAlts = {}
BY DEF Alts, AllAlts, ToSet

LEMMA InitConfig == Init => CfgInv
<1> SUFFICES ASSUME Init PROVE CfgInv
  OBVIOUS
<1>1. Bytes(dev) /\ Len(dev) >= 9
  <2>1. dev \in Seq(0..255) /\ Len(dev) >= 9
    BY BlobsAssumption DEF Init
  <2>2. PICK n \in Nat : n = Len(dev) /\ DOMAIN dev = 1..n
    BY <2>1
  <2>3. ASSUME NEW i \in 1..n PROVE dev[i] \in Nat /\ dev[i] < 256
    <3>1. dev[i] \in 0..255
      BY <2>1, <2>2
    <3>2. QED
      BY <3>1, OctetIsSmall
  <2>4. dev \in Seq(Nat)
    BY <2>1, <2>2, <2>3
  <2>5. QED
    BY <2>1, <2>2, <2>3, <2>4 DEF Bytes
<1>2. Bytes(<<>>) /\ NoAlt \in AltType
  BY DEF Bytes, NoAlt, AltType
<1>3. ConfigTypes
  BY <1>1, <1>2 DEF Init, ConfigTypes
<1>4. FetchInv
  BY DEF Init, FetchInv
<1>5. ParseInv
  <2>1. saved = <<>> /\ cur = NoAlt /\ cextra = <<>> /\ pos = 9 /\ data = <<>> /\ result = "none"
    BY DEF Init
  <2>2. data \in Seq(Nat)
    BY <2>1
  <2>3. Filing(data, AllAlts, cextra, pos) /\ pos \in Walk(data, 9, 1)
    BY <2>1, <2>2, NoAlts, NothingFiled, StartsFacts
  <2>4. QED
    BY <2>1, <2>3 DEF ParseInv
<1>6. QED
  BY <1>3, <1>4, <1>5 DEF CfgInv

LEMMA FetchStep == CfgInv /\ fetch => CfgInv'
<1> SUFFICES ASSUME CfgInv, fetch PROVE CfgInv'
  OBVIOUS
<1>1. /\ UNCHANGED <<os, dev, pos, cur, saved, cextra, rpos, rifs, reps>>
      /\ pc = "fetch" /\ result = "none"
      /\ pos = 9 /\ cur = NoAlt /\ saved = <<>> /\ cextra = <<>>
      /\ Bytes(dev) /\ Len(dev) >= 9
  BY DEF fetch, readVars, CfgInv, FetchInv, ConfigTypes
<1>2. \/ pc' = "read" /\ result' \in {"short", "panic"} /\ data' = data
      \/ pc' = "parse" /\ result' = "none" /\ data' = Fetched
  BY <1>1 DEF fetch, Fetched
<1>3. Bytes(data')
  <2>1. Bytes(Fetched)
    BY <1>1, FetchedBytes
  <2>2. Bytes(data)
    BY DEF CfgInv, ConfigTypes
  <2>3. QED
    BY <1>2, <2>1, <2>2
<1>4. ConfigTypes'
  BY <1>1, <1>2, <1>3 DEF CfgInv, ConfigTypes
<1>5. FetchInv'
  <2>1. Fetched' = Fetched
    BY <1>1 DEF Fetched, Received, TotalLength, Answer, Word
  <2>2. QED
    BY <1>1, <1>2, <2>1 DEF CfgInv, FetchInv
<1>6. ParseInv'
  <2>1. data' \in Seq(Nat)
    BY <1>3 DEF Bytes
  <2>2. Filing(data', {}, <<>>, 9) /\ 9 \in Walk(data', 9, 1)
    BY <2>1, NothingFiled, StartsFacts
  <2>3. AllAlts' = {} /\ Alts' = {}
    BY <1>1 DEF AllAlts, Alts, ToSet
  <2>4. QED
    BY <1>1, <1>2, <2>2, <2>3 DEF ParseInv
<1>7. QED
  BY <1>4, <1>5, <1>6 DEF CfgInv

\* What a step of Unmarshal leaves alone, and what is left to show of it.
LEMMA ParseStep ==
  ASSUME CfgInv, pc = "parse", UNCHANGED <<os, dev, data, rpos, rifs, reps>>,
         \/ pc' = "parse" /\ result' = "none"
         \/ pc' = "read" /\ result' \in {"ok", "error", "short"},
         ConfigTypes', ParseInv'
  PROVE  CfgInv'
<1>1. Fetched' = Fetched
  BY DEF Fetched, Received, TotalLength, Answer, Word
<1>2. FetchInv'
  BY <1>1 DEF CfgInv, FetchInv
<1>3. QED
  BY <1>2 DEF CfgInv

\* What the parser knows while it reads a descriptor.
LEMMA AtDescriptor ==
  ASSUME CfgInv, NEW t \in BOOLEAN, Parsing(t)
  PROVE  /\ pc = "parse" /\ t /\ pos \in Starts(data) /\ data \in Seq(Nat)
         /\ Length = Byte(data, pos) /\ Length \in Nat /\ Length >= 1 /\ pos \in Nat
         /\ pos + Length \in Walk(data, 9, 1) /\ pos + Length \in Nat /\ pos + Length > pos
         /\ Type = Byte(data, pos + 1) /\ pos >= 9
         /\ result = "none" /\ Filing(data, AllAlts, cextra, pos)
         /\ cur \in AltType /\ saved \in Seq(AltType) /\ cextra \in Seq(Nat)
<1>1. pc = "parse" /\ t /\ MoreToParse
  BY DEF Parsing
<1>2. data \in Seq(Nat) /\ pos \in Nat /\ cur \in AltType /\ saved \in Seq(AltType) /\ cextra \in Seq(Nat)
  BY DEF CfgInv, ConfigTypes, Bytes
<1>3. pos \in Walk(data, 9, 1) /\ Filing(data, AllAlts, cextra, pos)
  BY DEF CfgInv, ParseInv
<1>4. Whole(data, pos, 1)
  BY <1>1, MoreIsWhole DEF CfgInv
<1>5. pos \in Starts(data)
  BY <1>2, <1>3, <1>4, StartsFacts
<1>6. /\ pos + Byte(data, pos) \in Walk(data, 9, 1) /\ Byte(data, pos) \in Nat
      /\ Byte(data, pos) >= 1 /\ pos >= 9
  BY <1>2, <1>5, StartsFacts
<1>7. result = "none"
  BY <1>1 DEF CfgInv, FetchInv
<1>8. QED
  BY <1>1, <1>2, <1>3, <1>5, <1>6, <1>7 DEF Length, Type

LEMMA InterfaceStep == CfgInv /\ parseInterface => CfgInv'
<1> SUFFICES ASSUME CfgInv, parseInterface PROVE CfgInv'
  OBVIOUS
<1>1. Parsing(Type = INTERFACE)
  BY DEF parseInterface
<1>2. /\ pc = "parse" /\ Type = INTERFACE /\ pos \in Starts(data) /\ data \in Seq(Nat)
      /\ Length = Byte(data, pos) /\ Length \in Nat /\ pos \in Nat
      /\ pos + Length \in Walk(data, 9, 1) /\ pos + Length \in Nat
      /\ Type = Byte(data, pos + 1) /\ pos >= 9
      /\ result = "none" /\ Filing(data, AllAlts, cextra, pos)
      /\ cextra \in Seq(Nat)
  BY <1>1, AtDescriptor
<1>3. /\ UNCHANGED <<os, dev, data, cextra, rpos, rifs, reps>>
      /\ saved' = SaveCurrent
  BY DEF parseInterface, ParseKeeps, fetchVars, readVars
<1>4. /\ ToSet(SaveCurrent) = AllAlts /\ SaveCurrent \in Seq(AltType)
      /\ \A i, j \in DOMAIN SaveCurrent : i < j => SaveCurrent[i].at < SaveCurrent[j].at
  BY <1>2, SavedAlts DEF CfgInv
<1>5. Alts' = AllAlts
  BY <1>3, <1>4 DEF Alts
<1>6. CASE Length < 9 /\ Fail("error") /\ cur' = NoAlt /\ UNCHANGED pos
  <2>1. AllAlts' = AllAlts
    BY <1>5, <1>6 DEF AllAlts
  <2>2. pc' = "read" /\ result' = "error"
    BY <1>6 DEF Fail
  <2>3. NoAlt \in AltType
    BY DEF NoAlt, AltType
  <2>4. ConfigTypes'
    BY <1>3, <1>4, <1>6, <2>2, <2>3 DEF CfgInv, ConfigTypes
  <2>5. ParseInv'
    BY <1>2, <1>3, <1>4, <1>6, <2>1, <2>2 DEF CfgInv, ParseInv
  <2>6. QED
    BY <1>2, <1>3, <2>2, <2>4, <2>5, ParseStep
<1>7. CASE /\ Length >= 9 /\ cur' = [NoAlt EXCEPT !.at = pos] /\ pos' = pos + Length
           /\ UNCHANGED <<pc, result>>
  <2>1. cur' = [at |-> pos, eps |-> <<>>, extra |-> <<>>]
    BY <1>7 DEF NoAlt
  <2>2. cur' # NoAlt /\ cur' \in AltType /\ cur'.at = pos
    BY <1>2, <2>1 DEF NoAlt, AltType
  <2>3. AllAlts' = AllAlts \cup {cur'}
    BY <1>5, <2>2 DEF AllAlts
  <2>4. Filing(data, AllAlts \cup {cur'}, cextra, pos + Byte(data, pos))
    BY <1>2, <1>7, <2>1, FileInterface
  <2>5. \A a \in AllAlts : a.at < pos
    BY <1>2 DEF Filing, IfacesFiled
  <2>6. ConfigTypes'
    BY <1>2, <1>3, <1>4, <1>7, <2>2 DEF CfgInv, ConfigTypes
  <2>7. ParseInv'
    BY <1>2, <1>3, <1>4, <1>5, <1>7, <2>2, <2>3, <2>4, <2>5 DEF ParseInv
  <2>8. QED
    BY <1>2, <1>3, <1>7, <2>6, <2>7, ParseStep
<1>8. QED
  BY <1>6, <1>7 DEF parseInterface

\* While an interface is open, it is the last.
LEMMA OpenInterface ==
  ASSUME CfgInv, pc = "parse", cur # NoAlt
  PROVE  AllAlts = Alts \cup {cur} /\ \A a \in Alts : a.at < cur.at
BY DEF AllAlts, CfgInv, ParseInv

LEMMA EndpointStep == CfgInv /\ parseEndpoint => CfgInv'
<1> SUFFICES ASSUME CfgInv, parseEndpoint PROVE CfgInv'
  OBVIOUS
<1>1. Parsing(Type = ENDPOINT /\ cur # NoAlt)
  BY DEF parseEndpoint
<1>2. /\ pc = "parse" /\ Type = ENDPOINT /\ cur # NoAlt /\ pos \in Starts(data) /\ data \in Seq(Nat)
      /\ Length = Byte(data, pos) /\ Length \in Nat /\ pos \in Nat
      /\ pos + Length \in Walk(data, 9, 1) /\ pos + Length \in Nat
      /\ Type = Byte(data, pos + 1) /\ pos >= 9
      /\ result = "none" /\ Filing(data, AllAlts, cextra, pos)
      /\ cextra \in Seq(Nat)
  BY <1>1, AtDescriptor
<1>3. /\ UNCHANGED <<os, dev, data, cextra, rpos, rifs, reps, saved>> /\ Alts' = Alts
  BY DEF parseEndpoint, ParseKeeps, fetchVars, readVars, Alts
<1>4. CASE Length < 7 /\ Fail("error") /\ UNCHANGED <<cur, pos>>
  <2>1. AllAlts' = AllAlts
    BY <1>3, <1>4 DEF AllAlts
  <2>2. pc' = "read" /\ result' = "error"
    BY <1>4 DEF Fail
  <2>4. ConfigTypes'
    BY <1>3, <1>4, <2>2 DEF CfgInv, ConfigTypes
  <2>5. ParseInv'
    BY <1>2, <1>3, <1>4, <2>1, <2>2 DEF CfgInv, ParseInv
  <2>6. QED
    BY <1>2, <1>3, <2>2, <2>4, <2>5, ParseStep
<1> DEFINE next == pos + Length
           m == IF CompanionAt(next) THEN next ELSE NoCompanion
           r == next + IF CompanionAt(next) THEN Byte(data, next) ELSE 0
<1>5. CASE /\ Length >= 7
           /\ cur' = [cur EXCEPT !.eps = Append(@, [at |-> pos, comp |-> m])]
           /\ pos' = r
           /\ UNCHANGED <<pc, result>>
  <2>1. /\ m \in Nat /\ r \in Nat /\ r \in Walk(data, 9, 1)
        /\ \/ m = NoCompanion /\ r = pos + Byte(data, pos)
           \/ /\ m = pos + Byte(data, pos) /\ m \in Starts(data) /\ r = m + Byte(data, m)
              /\ Byte(data, m + 1) = COMPANION /\ Byte(data, m) >= 6
    <3>1. CASE ~CompanionAt(next)
      BY <1>2, <3>1 DEF NoCompanion
    <3>2. CASE CompanionAt(next)
      <4>1. /\ next + 2 <= Len(data) /\ Byte(data, next + 1) = COMPANION
            /\ next + Byte(data, next) <= Len(data) /\ Byte(data, next) >= 6
            /\ Byte(data, next) \in Nat
        BY <1>2, <3>2, ByteIsNat DEF CompanionAt
      <4>2. Whole(data, next, 1)
        BY <4>1 DEF Whole
      <4>3. next \in Starts(data)
        BY <1>2, <4>2, StartsFacts
      <4>4. next + Byte(data, next) \in Walk(data, 9, 1)
        BY <1>2, <4>3, StartsFacts
      <4>5. m = next /\ r = next + Byte(data, next) /\ next = pos + Byte(data, pos) /\ r \in Nat
        <5>1. m = next /\ r = next + Byte(data, next)
          BY <3>2
        <5>2. next = pos + Byte(data, pos) /\ next \in Nat
          BY <1>2
        <5> HIDE DEF m, r, next
        <5>3. QED
          BY <5>1, <5>2, <4>1
      <4> HIDE DEF m, r, next
      <4>6. QED
        BY <1>2, <4>1, <4>3, <4>4, <4>5
    <3>3. QED
      BY <3>1, <3>2
  <2> HIDE DEF m, r, next
  <2>2. AllAlts = Alts \cup {cur} /\ \A a \in Alts : a.at < cur.at
    BY <1>2, OpenInterface
  <2>3. /\ Filing(data, Alts \cup {cur'}, cextra, r) /\ cur' \in AltType /\ cur'.at = cur.at
    <3>1. PICK b : b = cur'
      OBVIOUS
    <3>2. Filing(data, Alts \cup {cur}, cextra, pos)
      BY <1>2, <2>2
    <3>3. PICK e : e = [at |-> pos, comp |-> m]
      OBVIOUS
    <3>4. /\ b \in AltType /\ b.at = cur.at /\ b.extra = cur.extra
          /\ b.eps = Append(cur.eps, e)
      <4>1. cur \in AltType /\ e \in [at : Nat, comp : Nat]
        BY <1>2, <2>1, <3>3 DEF CfgInv, ConfigTypes
      <4>2. b = [cur EXCEPT !.eps = Append(@, e)]
        BY <1>5, <3>1, <3>3
      <4>3. Append(cur.eps, e) \in Seq([at : Nat, comp : Nat])
        BY <4>1 DEF AltType
      <4>4. QED
        BY <4>1, <4>2, <4>3 DEF AltType
    <3>5. Filing(data, Alts \cup {b}, cextra, r) /\ b \in AltType /\ b.at = cur.at
      <4>1. /\ data \in Seq(Nat) /\ pos \in Starts(data) /\ \A x \in Alts : x.at < cur.at
            /\ m \in Nat /\ r \in Nat
            /\ Byte(data, pos + 1) = ENDPOINT /\ Byte(data, pos) >= 7
            /\ \/ m = NoCompanion /\ r = pos + Byte(data, pos)
               \/ /\ m = pos + Byte(data, pos) /\ m \in Starts(data) /\ r = m + Byte(data, m)
                  /\ Byte(data, m + 1) = COMPANION /\ Byte(data, m) >= 6
        BY <1>2, <1>5, <2>1, <2>2
      <4>2. QED
        BY <4>1, <3>2, <3>3, <3>4, FileEndpoint
    <3>6. QED
      BY <3>1, <3>5
  <2>4. cur' # NoAlt
    <3>1. cur.at >= 9
      <4>1. cur \in AllAlts
        BY <2>2
      <4>2. cur.at \in Starts(data)
        BY <1>2, <4>1 DEF Filing, IfacesFiled
      <4>3. QED
        BY <1>2, <4>2, StartsFacts
    <3>2. NoAlt.at = 0
      BY DEF NoAlt
    <3>3. QED
      BY <2>3, <3>1, <3>2
  <2>5. AllAlts' = Alts \cup {cur'}
    BY <1>3, <2>4 DEF AllAlts
  <2>6. ConfigTypes'
    BY <1>3, <1>5, <2>1, <2>3 DEF CfgInv, ConfigTypes
  <2>7. ParseInv'
    <3>1. \A i, j \in DOMAIN saved : i < j => saved[i].at < saved[j].at
      BY DEF CfgInv, ParseInv
    <3>2. \A a \in Alts' : a.at < cur'.at
      BY <1>3, <2>2, <2>3
    <3>3. Filing(data', AllAlts', cextra', pos') /\ pos' \in Walk(data', 9, 1)
      BY <1>3, <1>5, <2>1, <2>3, <2>5
    <3>4. QED
      BY <1>2, <1>3, <1>5, <2>4, <3>1, <3>2, <3>3 DEF ParseInv
  <2>8. QED
    BY <1>2, <1>3, <1>5, <2>6, <2>7, ParseStep
<1>6. QED
  BY <1>4, <1>5 DEF parseEndpoint

LEMMA ExtraStep == CfgInv /\ parseExtra => CfgInv'
<1> SUFFICES ASSUME CfgInv, parseExtra PROVE CfgInv'
  OBVIOUS
<1>1. Parsing(Type # INTERFACE /\ (Type = ENDPOINT => cur = NoAlt))
  BY DEF parseExtra
<1>2. /\ pc = "parse" /\ Type # INTERFACE /\ (Type = ENDPOINT => cur = NoAlt)
      /\ pos \in Starts(data) /\ data \in Seq(Nat)
      /\ Length = Byte(data, pos) /\ Length \in Nat /\ pos \in Nat
      /\ pos + Length \in Walk(data, 9, 1) /\ pos + Length \in Nat
      /\ Type = Byte(data, pos + 1) /\ pos >= 9
      /\ result = "none" /\ Filing(data, AllAlts, cextra, pos)
      /\ cur \in AltType /\ cextra \in Seq(Nat)
  BY <1>1, AtDescriptor
<1>3. /\ UNCHANGED <<os, dev, data, rpos, rifs, reps, saved, pc, result>> /\ Alts' = Alts
      /\ pos' = pos + Length
  BY DEF parseExtra, ParseKeeps, fetchVars, readVars, Alts
<1>4. CASE cur = NoAlt
  <2>1. cextra' = Append(cextra, pos) /\ cur' = cur
    BY <1>4 DEF parseExtra
  <2>2. saved = <<>> /\ AllAlts = {}
    BY <1>2, <1>4, NoAlts DEF CfgInv, ParseInv
  <2>3. Filing(data, {}, Append(cextra, pos), pos + Byte(data, pos))
    BY <1>2, <2>2, FileHead
  <2>4. AllAlts' = {}
    BY <1>3, <2>1, <2>2 DEF AllAlts
  <2>5. Append(cextra, pos) \in Seq(Nat)
    BY <1>2
  <2>6. ConfigTypes'
    BY <1>2, <1>3, <2>1, <2>5 DEF CfgInv, ConfigTypes
  <2>7. ParseInv'
    <3>1. Filing(data', AllAlts', cextra', pos') /\ pos' \in Walk(data', 9, 1)
      BY <1>2, <1>3, <2>1, <2>3, <2>4
    <3>2. saved' = <<>> /\ cur' = NoAlt /\ result' = "none"
      BY <1>2, <1>3, <1>4, <2>1, <2>2
    <3>3. QED
      BY <3>1, <3>2 DEF ParseInv
  <2>8. QED
    BY <1>2, <1>3, <2>6, <2>7, ParseStep
<1>5. CASE cur # NoAlt
  <2>1. cur' = [cur EXCEPT !.extra = Append(@, pos)] /\ cextra' = cextra
    BY <1>5 DEF parseExtra
  <2>2. AllAlts = Alts \cup {cur} /\ \A a \in Alts : a.at < cur.at
    BY <1>2, <1>5, OpenInterface
  <2>3. /\ Filing(data, Alts \cup {cur'}, cextra, pos + Byte(data, pos))
        /\ cur' \in AltType /\ cur'.at = cur.at
    <3>1. PICK b : b = cur'
      OBVIOUS
    <3>2. Filing(data, Alts \cup {cur}, cextra, pos)
      BY <1>2, <2>2
    <3>4. /\ b \in AltType /\ b.at = cur.at /\ b.eps = cur.eps
          /\ b.extra = Append(cur.extra, pos)
      <4>2. b = [cur EXCEPT !.extra = Append(@, pos)]
        BY <2>1, <3>1
      <4>3. Append(cur.extra, pos) \in Seq(Nat)
        BY <1>2 DEF AltType
      <4>4. QED
        BY <1>2, <4>2, <4>3 DEF AltType
    <3>5. Filing(data, Alts \cup {b}, cextra, pos + Byte(data, pos)) /\ b \in AltType /\ b.at = cur.at
      <4>1. /\ data \in Seq(Nat) /\ pos \in Starts(data) /\ \A x \in Alts : x.at < cur.at
            /\ Byte(data, pos + 1) # ENDPOINT /\ Byte(data, pos + 1) # INTERFACE
        BY <1>2, <1>5, <2>2
      <4>2. QED
        BY <4>1, <3>2, <3>4, FileExtra
    <3>6. QED
      BY <3>1, <3>5
  <2>4. cur' # NoAlt
    <3>1. cur.at >= 9
      <4>1. cur \in AllAlts
        BY <2>2
      <4>2. cur.at \in Starts(data)
        BY <1>2, <4>1 DEF Filing, IfacesFiled
      <4>3. QED
        BY <1>2, <4>2, StartsFacts
    <3>2. NoAlt.at = 0
      BY DEF NoAlt
    <3>3. QED
      BY <2>3, <3>1, <3>2
  <2>5. AllAlts' = Alts \cup {cur'}
    BY <1>3, <2>4 DEF AllAlts
  <2>6. ConfigTypes'
    BY <1>2, <1>3, <2>1, <2>3 DEF CfgInv, ConfigTypes
  <2>7. ParseInv'
    <3>1. \A i, j \in DOMAIN saved : i < j => saved[i].at < saved[j].at
      BY DEF CfgInv, ParseInv
    <3>2. \A a \in Alts' : a.at < cur'.at
      BY <1>3, <2>2, <2>3
    <3>3. Filing(data', AllAlts', cextra', pos') /\ pos' \in Walk(data', 9, 1)
      BY <1>2, <1>3, <2>1, <2>3, <2>5
    <3>4. QED
      BY <1>2, <1>3, <2>4, <3>1, <3>2, <3>3 DEF ParseInv
  <2>8. QED
    BY <1>2, <1>3, <2>6, <2>7, ParseStep
<1>6. QED
  BY <1>4, <1>5

LEMMA EndStep == CfgInv /\ parseEnd => CfgInv'
<1> SUFFICES ASSUME CfgInv, parseEnd PROVE CfgInv'
  OBVIOUS
<1>1. /\ pc = "parse" /\ Len(data) >= 9 /\ ~MoreToParse /\ saved' = SaveCurrent
      /\ pc' = "read" /\ result' = "ok"
      /\ UNCHANGED <<os, dev, data, pos, cur, cextra, rpos, rifs, reps>>
  BY DEF parseEnd, ParseKeeps, fetchVars, readVars
<1>2. /\ ToSet(SaveCurrent) = AllAlts /\ SaveCurrent \in Seq(AltType)
      /\ \A i, j \in DOMAIN SaveCurrent : i < j => SaveCurrent[i].at < SaveCurrent[j].at
  BY <1>1, SavedAlts DEF CfgInv
<1>3. Alts' = AllAlts /\ AllAlts' = AllAlts
  <2>1. Alts' = AllAlts
    BY <1>1, <1>2 DEF Alts
  <2>2. AllAlts' = Alts' \cup ({cur} \ {NoAlt})
    BY <1>1 DEF AllAlts
  <2>3. QED
    BY <2>1, <2>2 DEF AllAlts
<1>4. ~Whole(data, pos, 1)
  BY <1>1, MoreIsWhole DEF CfgInv
<1>5. ConfigTypes'
  BY <1>1, <1>2 DEF CfgInv, ConfigTypes
<1>6. ParseInv'
  <2>1. pos \in Walk(data, 9, 1) /\ Filing(data, AllAlts, cextra, pos)
    BY DEF CfgInv, ParseInv
  <2>2. QED
    BY <1>1, <1>2, <1>3, <1>4, <2>1 DEF ParseInv
<1>7. QED
  BY <1>1, <1>5, <1>6, ParseStep

LEMMA TooShortStep == CfgInv /\ parseTooShort => CfgInv'
<1> SUFFICES ASSUME CfgInv, parseTooShort PROVE CfgInv'
  OBVIOUS
<1>1. /\ pc = "parse" /\ pc' = "read" /\ result' = "short"
      /\ UNCHANGED <<os, dev, data, pos, cur, saved, cextra, rpos, rifs, reps>>
  BY DEF parseTooShort, Fail, ParseKeeps, fetchVars, readVars
<1>2. Alts' = Alts /\ AllAlts' = AllAlts
  BY <1>1 DEF Alts, AllAlts
<1>3. ConfigTypes'
  BY <1>1 DEF CfgInv, ConfigTypes
<1>4. ParseInv'
  BY <1>1, <1>2 DEF CfgInv, ParseInv
<1>5. QED
  BY <1>1, <1>3, <1>4, ParseStep

-----------------------------------------------------------------------------
(* Flattening and sorting                                                  *)

LEMMA SameFlatten == ASSUME NEW seqs PROVE S!FlattenSeq(seqs) = FlattenSeq(seqs)
BY Zenon DEF S!FlattenSeq, FlattenSeq

\* Flattening keeps the elements.
LEMMA FlattenKeeps ==
  ASSUME NEW seqs \in Seq(Seq(Nat))
  PROVE  /\ FlattenSeq(seqs) \in Seq(Nat)
         /\ ToSet(FlattenSeq(seqs)) = UNION {ToSet(seqs[i]) : i \in DOMAIN seqs}
<1>0. PICK n \in Nat : n = Len(seqs)
  BY LenProperties
<1>1. DOMAIN seqs = 1..n /\ \A i \in 1..n : seqs[i] \in Seq(Nat)
  BY <1>0, ElementOfSeq
<1>2. CASE n = 0
  <2>1. seqs = <<>>
    BY <1>0, <1>2, EmptySeq
  <2>2. S!FlattenSeq(seqs) = <<>>
    BY <1>0, <1>2, <2>1 DEF S!FlattenSeq
  <2>3. FlattenSeq(seqs) = <<>>
    BY <2>2, SameFlatten
  <2>4. <<>> \in Seq(Nat) /\ ToSet(<<>>) = {}
    BY DEF ToSet
  <2>5. DOMAIN seqs = {}
    BY <1>1, <1>2
  <2>6. QED
    BY <2>3, <2>4, <2>5
<1>3. CASE n # 0
  <2>1. PICK f \in [1..n -> Seq(Nat)] : Flattens(f, seqs) /\ FlattenSeq(seqs) = f[n]
    <3>1. Len(seqs) > 0
      BY <1>0, <1>3
    <3>2. \E f \in [1..Len(seqs) -> Seq(Nat)] :
            Flattens(f, seqs) /\ S!FlattenSeq(seqs) = f[Len(seqs)]
      BY <3>1, FlattenSolved
    <3>3. S!FlattenSeq(seqs) = FlattenSeq(seqs)
      BY SameFlatten
    <3>4. QED
      BY <1>0, <3>2, <3>3
  <2> DEFINE T == {k \in 0..n : k = 0 \/ ToSet(f[k]) = UNION {ToSet(seqs[i]) : i \in 1..k}}
  <2>2. 0 \in T
    OBVIOUS
  <2>3. ASSUME NEW k \in 1..n, k - 1 \in T PROVE k \in T
    <3>1. f[k] = IF k = 1 THEN seqs[k] ELSE f[k - 1] \o seqs[k]
      BY <1>0, <2>1 DEF Flattens
    <3>2. CASE k = 1
      <4>1. UNION {ToSet(seqs[i]) : i \in 1..1} = ToSet(seqs[1])
        OBVIOUS
      <4>2. QED
        BY <3>1, <3>2, <4>1
    <3>3. CASE k # 1
      <4>1. k - 1 \in 1..n /\ ToSet(f[k - 1]) = UNION {ToSet(seqs[i]) : i \in 1..(k - 1)}
        BY <2>3, <3>3
      <4>2. PICK u \in Seq(Nat) : u = f[k - 1]
        BY <4>1
      <4>3. PICK v \in Seq(Nat) : v = seqs[k]
        BY <1>1
      <4>4. ToSet(u \o v) = ToSet(u) \cup ToSet(v)
        <5>1. Range(u \o v) = Range(u) \cup Range(v)
          BY RangeConcatenation
        <5>2. ToSet(u \o v) = Range(u \o v) /\ ToSet(u) = Range(u) /\ ToSet(v) = Range(v)
          BY DEF ToSet, Range
        <5>3. QED
          BY <5>1, <5>2
      <4>5. 1..k = (1..(k - 1)) \cup {k}
        BY <3>3
      <4>6. UNION {ToSet(seqs[i]) : i \in 1..k}
              = (UNION {ToSet(seqs[i]) : i \in 1..(k - 1)}) \cup ToSet(seqs[k])
        BY <4>5
      <4>7. f[k] = u \o v /\ ToSet(u) = UNION {ToSet(seqs[i]) : i \in 1..(k - 1)}
        BY <3>1, <3>3, <4>1, <4>2, <4>3
      <4>8. ToSet(f[k]) = UNION {ToSet(seqs[i]) : i \in 1..k}
        BY <4>3, <4>4, <4>6, <4>7
      <4>9. k \in 0..n
        OBVIOUS
      <4>10. QED
        BY <4>8, <4>9
    <3>4. QED
      BY <3>2, <3>3
  <2> HIDE DEF T
  <2>4. 0..n \subseteq T
    BY <1>0, <2>2, <2>3, InductionTo
  <2>5. n \in 0..n /\ n \in 1..n
    BY <1>3
  <2>6. ToSet(f[n]) = UNION {ToSet(seqs[i]) : i \in 1..n}
    BY <1>3, <2>4, <2>5 DEF T
  <2>7. f[n] \in Seq(Nat)
    BY <2>5
  <2>8. QED
    BY <1>1, <2>1, <2>6, <2>7
<1>4. QED
  BY <1>2, <1>3

\* An order of a finite set comes to each of its elements.
LEMMA OrderCovers ==
  ASSUME NEW A, IsFiniteSet(A), NEW order \in SetToSeqs(A)
  PROVE  /\ order \in Seq(A) /\ DOMAIN order = 1..Len(order) /\ Len(order) \in Nat
         /\ \A a \in A : \E i \in DOMAIN order : order[i] = a
<1>1. PICK n \in Nat : n = Cardinality(A)
  BY FS_CardinalityType
<1>2. order \in [1..n -> A] /\ \A i, j \in 1..n : i # j => order[i] # order[j]
  BY <1>1 DEF SetToSeqs
<1>3. order \in Injection(1..n, A)
  BY <1>2 DEF Injection, IsInjective
<1>4. IsFiniteSet(1..n) /\ Cardinality(1..n) = n
  <2>1. 1 \in Int /\ n \in Int
    OBVIOUS
  <2>2. IsFiniteSet(1..n) /\ Cardinality(1..n) = IF 1 > n THEN 0 ELSE n - 1 + 1
    BY <2>1, FS_Interval
  <2>3. QED
    BY <2>2
<1>5. order \in Surjection(1..n, A)
  BY <1>1, <1>3, <1>4, FS_Injection
<1>6. \A a \in A : \E i \in 1..n : order[i] = a
  BY <1>5 DEF Surjection
<1>7. order \in Seq(A) /\ Len(order) = n /\ DOMAIN order = 1..n
  BY <1>2
<1>8. QED
  BY <1>6, <1>7

-----------------------------------------------------------------------------
(* ReadConfigDescriptor                                                    *)

\* The hypotheses of ParsersAgree: Unmarshal accepts what the device sends, all of
\* it arrives and fits the buffer, no descriptor ends one parser only.
Honest ==
    /\ result = "ok" /\ Byte(dev, 0) = 9 /\ Len(dev) = TotalLength
    /\ os = "linux" =>
         /\ Len(dev) <= BufLen
         /\ \A p \in Walk(data, 9, 1) : p + 2 <= Len(data) => p + Byte(data, p) <= Len(data)
    /\ os = "windows" => \A p \in Starts(data) : Byte(data, p) # 1

\* The complete interfaces and endpoints before q.
IfacesBelow(d, q) == {p \in Starts(d) : p < q /\ Byte(d, p + 1) = INTERFACE /\ Byte(d, p) >= 9}
EndpointsBelow(d, q) == {p \in Starts(d) : p < q /\ Byte(d, p + 1) = ENDPOINT /\ Byte(d, p) >= 7}

ListedSoFar ==
    /\ rpos \in Walk(data, 9, 1) \/ rpos >= Len(data)
    /\ ToSet(rifs) = IfacesBelow(data, rpos)
    /\ ToSet(reps) = EndpointsBelow(data, rpos)

Flattened ==
    /\ ToSet(rifs) = {saved[i].at : i \in ListedAlts}
    /\ ToSet(reps) = UNION {Places(ToSet(saved[i].eps)) : i \in ListedAlts}

ReadInv ==
    /\ pc = "reading" => os # "darwin"
    /\ rpos < 256 \/ rpos <= Len(Buf)
    /\ Honest /\ os # "darwin" /\ pc \in {"reading", "returned"} => ListedSoFar
    /\ Honest /\ os # "darwin" /\ pc = "returned" => \A p \in Starts(data) : p < rpos
    /\ os = "darwin" /\ result = "ok" /\ pc = "returned" => Flattened

LEMMA BufBytes == ConfigTypes => Bytes(Buf)
<1> SUFFICES ASSUME ConfigTypes PROVE Bytes(Buf)
  OBVIOUS
<1>1. Bytes(data) /\ Bytes(dev) /\ BufLen \in Nat
  BY BufLenAssumption DEF ConfigTypes
<1>2. Bytes(Answer(BufLen))
  BY <1>1, AnswerBytes
<1>3. QED
  BY <1>1, <1>2 DEF Buf

\* The buffer holds the data, and zeros behind it on Linux.
LEMMA BufHolds ==
  ASSUME CfgInv, Honest, os # "darwin"
  PROVE  /\ data \in Seq(Nat) /\ Len(data) \in Nat /\ Len(data) >= 9
         /\ RTotal = Len(data) /\ Len(Buf) \in Nat /\ Len(data) <= Len(Buf)
         /\ os = "windows" => Len(Buf) = Len(data)
         /\ \A i \in Nat : i < Len(data) => Byte(Buf, i) = Byte(data, i)
         /\ \A i \in Nat : ~(i < Len(data)) /\ i < Len(Buf) => Byte(Buf, i) = 0
         /\ Byte(Buf, 0) = 9
<1>1. /\ Bytes(dev) /\ Len(dev) >= 9 /\ data = Fetched /\ Len(dev) = TotalLength
      /\ os \in {"linux", "windows", "darwin"} /\ data \in Seq(Nat) /\ dev \in Seq(Nat)
      /\ Byte(dev, 0) = 9
  BY DEF CfgInv, ConfigTypes, FetchInv, Honest, Bytes
<1>2. PICK n \in Nat : n = Len(dev)
  BY <1>1
<1>3. Len(data) = n /\ \A i \in Nat : i < n => Byte(data, i) = Byte(dev, i)
  BY <1>1, <1>2, FetchedBytes
<1>4. TotalLength = Word(dev, 2) /\ TotalLength = n
  BY <1>1, <1>2, TotalIsNat
<1>5. CASE os = "windows"
  <2>1. Buf = data
    BY <1>5 DEF Buf
  <2>2. Byte(data, 2) = Byte(dev, 2) /\ Byte(data, 3) = Byte(dev, 3) /\ Byte(data, 0) = 9
    BY <1>1, <1>2, <1>3
  <2>3. RTotal = n
    BY <1>4, <2>1, <2>2 DEF RTotal, Word
  <2>4. QED
    BY <1>1, <1>2, <1>3, <2>1, <2>2, <2>3
<1>6. CASE os = "linux"
  <2>1. PICK m \in Nat : m = BufLen /\ n <= m
    BY <1>2, <1>6, BufLenAssumption DEF Honest
  <2>2. Buf = Answer(m)
    BY <1>6, <2>1 DEF Buf
  <2>3. /\ Len(Answer(m)) = m
        /\ \A i \in Nat : i < m /\ i < n => Byte(Answer(m), i) = Byte(dev, i)
        /\ \A i \in Nat : i < m /\ ~(i < n) => Byte(Answer(m), i) = 0
    BY <1>1, <1>2, AnswerBytes
  <2>4. \A i \in Nat : i < n => Byte(Buf, i) = Byte(data, i)
    BY <1>3, <2>1, <2>2, <2>3
  <2>5. Byte(Buf, 2) = Byte(dev, 2) /\ Byte(Buf, 3) = Byte(dev, 3) /\ Byte(Buf, 0) = 9
    <3>1. 0 < n /\ 2 < n /\ 3 < n /\ 0 \in Nat /\ 2 \in Nat /\ 3 \in Nat
      BY <1>1, <1>2
    <3>2. Byte(Buf, 2) = Byte(data, 2) /\ Byte(Buf, 3) = Byte(data, 3) /\ Byte(Buf, 0) = Byte(data, 0)
      BY <2>4, <3>1
    <3>3. Byte(data, 2) = Byte(dev, 2) /\ Byte(data, 3) = Byte(dev, 3) /\ Byte(data, 0) = Byte(dev, 0)
      BY <1>3, <3>1
    <3>4. QED
      BY <1>1, <3>2, <3>3
  <2>6. RTotal = n
    BY <1>4, <2>5 DEF RTotal, Word
  <2>7. QED
    BY <1>1, <1>2, <1>3, <1>6, <2>1, <2>2, <2>3, <2>4, <2>5, <2>6
<1>7. QED
  BY <1>1, <1>5, <1>6

\* Steps of ReadConfigDescriptor keep what Unmarshal did.
LEMMA ReadKeeps ==
  ASSUME CfgInv, UNCHANGED <<fetchVars, parseVars>>, pc \in {"read", "reading", "returned"},
         pc' \in {"reading", "returned"}, rpos' \in Nat, rifs' \in Seq(Nat), reps' \in Seq(Nat)
  PROVE  CfgInv'
<1>1. UNCHANGED <<os, dev, data, pos, cur, saved, cextra, result>>
  BY DEF fetchVars, parseVars
<1>2. Fetched' = Fetched /\ AllAlts' = AllAlts /\ Alts' = Alts
  BY <1>1 DEF Fetched, Received, TotalLength, Answer, Word, AllAlts, Alts
<1>3. ConfigTypes'
  BY <1>1 DEF CfgInv, ConfigTypes
<1>4. FetchInv'
  BY <1>1, <1>2 DEF CfgInv, FetchInv
<1>5. ParseInv'
  BY <1>1, <1>2 DEF CfgInv, ParseInv
<1>6. QED
  BY <1>3, <1>4, <1>5 DEF CfgInv

\* What the steps of ReadConfigDescriptor read stays as it is.
LEMMA ReadSame ==
  ASSUME UNCHANGED <<fetchVars, parseVars>>
  PROVE  /\ Honest' = Honest /\ Buf' = Buf /\ data' = data /\ os' = os /\ result' = result
         /\ ListedAlts' = ListedAlts /\ saved' = saved
<1>1. UNCHANGED <<os, dev, data, saved, result>>
  BY DEF fetchVars, parseVars
<1>2. QED
  BY <1>1 DEF Honest, Buf, Answer, TotalLength, Word, ListedAlts, InterfaceNumber

LEMMA StartReads == CfgInv /\ ReadInv /\ readStart => CfgInv' /\ ReadInv'
<1> SUFFICES ASSUME CfgInv, ReadInv, readStart PROVE CfgInv' /\ ReadInv'
  OBVIOUS
<1>1. /\ pc = "read" /\ os # "darwin" /\ Len(Buf) >= 9 /\ pc' = "reading" /\ rpos' = Byte(Buf, 0)
      /\ UNCHANGED <<fetchVars, parseVars>> /\ rifs' = rifs /\ reps' = reps
  BY DEF readStart
<1>2. rifs = <<>> /\ reps = <<>> /\ ToSet(rifs) = {} /\ ToSet(reps) = {}
  BY <1>1 DEF CfgInv, FetchInv, ToSet
<1>3. /\ Honest' = Honest /\ Buf' = Buf /\ data' = data /\ os' = os /\ result' = result
  BY <1>1, ReadSame
<1>4. Byte(Buf, 0) \in Nat /\ Byte(Buf, 0) < 256
  <2>1. Bytes(Buf)
    BY BufBytes DEF CfgInv
  <2>2. 0 \in Nat /\ 0 < Len(Buf)
    <3>1. PICK n \in Nat : n = Len(Buf)
      BY <2>1 DEF Bytes
    <3>2. QED
      BY <1>1, <3>1
  <2>3. QED
    BY <2>1, <2>2, ByteIsSmall
<1>5. CfgInv'
  <2>1. rifs \in Seq(Nat) /\ reps \in Seq(Nat)
    BY DEF CfgInv, ConfigTypes
  <2>2. QED
    BY <1>1, <1>4, <2>1, ReadKeeps
<1>6. ASSUME Honest PROVE ListedSoFar'
  <2>1. data \in Seq(Nat) /\ Byte(Buf, 0) = 9
    BY <1>1, <1>6, BufHolds
  <2>2. \A p \in Starts(data) : p \in Nat /\ p >= 9
    BY <2>1, StartsFacts
  <2>3. 9 \in Walk(data, 9, 1)
    BY <2>1, StartsFacts
  <2>4. IfacesBelow(data, 9) = {} /\ EndpointsBelow(data, 9) = {}
    BY <2>2 DEF IfacesBelow, EndpointsBelow
  <2>5. rpos' = 9 /\ ToSet(rifs') = {} /\ ToSet(reps') = {}
    BY <1>1, <1>2, <2>1
  <2>6. QED
    BY <1>3, <2>3, <2>4, <2>5 DEF ListedSoFar
<1>7. QED
  BY <1>1, <1>3, <1>4, <1>5, <1>6 DEF ReadInv

LEMMA RefusedReads == CfgInv /\ ReadInv /\ readRefused => CfgInv' /\ ReadInv'
<1> SUFFICES ASSUME CfgInv, ReadInv, readRefused PROVE CfgInv' /\ ReadInv'
  OBVIOUS
<1>1. /\ pc = "read" /\ pc' = "returned" /\ UNCHANGED <<fetchVars, parseVars>>
      /\ rpos' = rpos /\ rifs' = rifs /\ reps' = reps
      /\ IF os = "darwin" THEN result # "ok" ELSE Len(Buf) < 9
  BY DEF readRefused, readVars
<1>2. /\ Honest' = Honest /\ Buf' = Buf /\ data' = data /\ os' = os /\ result' = result
  BY <1>1, ReadSame
<1>3. CfgInv'
  <2>1. rpos \in Nat /\ rifs \in Seq(Nat) /\ reps \in Seq(Nat)
    BY DEF CfgInv, ConfigTypes
  <2>2. QED
    BY <1>1, <2>1, ReadKeeps
<1>4. ~(Honest /\ os # "darwin")
  <2>1. SUFFICES ASSUME Honest, os # "darwin" PROVE FALSE
    OBVIOUS
  <2>2. Len(data) \in Nat /\ Len(data) >= 9 /\ Len(Buf) \in Nat /\ Len(data) <= Len(Buf)
    BY <2>1, BufHolds
  <2>3. QED
    BY <1>1, <2>1, <2>2
<1>5. QED
  BY <1>1, <1>2, <1>3, <1>4 DEF ReadInv

\* Reading goes on from a descriptor to the one behind it.
LEMMA ReadOn ==
  ASSUME CfgInv, Honest, os # "darwin", ListedSoFar, readDescriptor
  PROVE  ListedSoFar'
<1> DEFINE W == Walk(data, 9, 1)
           n == Len(data)
<1>1. /\ Reading /\ rpos' = rpos + RLength /\ UNCHANGED <<fetchVars, parseVars>>
      /\ rifs' = IF RType = INTERFACE /\ RLength >= 9 THEN Append(rifs, rpos) ELSE rifs
      /\ reps' = IF RType = ENDPOINT /\ RLength >= 7 THEN Append(reps, rpos) ELSE reps
  BY DEF readDescriptor, Complete, Advance
<1>2. /\ data \in Seq(Nat) /\ n \in Nat /\ n >= 9
      /\ RTotal = n /\ Len(Buf) \in Nat /\ n <= Len(Buf)
      /\ os = "windows" => Len(Buf) = n
      /\ \A i \in Nat : i < n => Byte(Buf, i) = Byte(data, i)
      /\ \A i \in Nat : ~(i < n) /\ i < Len(Buf) => Byte(Buf, i) = 0
  BY BufHolds
<1>3. /\ rpos \in Nat /\ rifs \in Seq(Nat) /\ reps \in Seq(Nat) /\ os \in {"linux", "windows"}
  BY DEF CfgInv, ConfigTypes
<1>4. rpos < n /\ rpos + 2 <= Len(Buf) /\ RLength >= MinLength /\ rpos + RLength <= Len(Buf)
  BY <1>1, <1>2 DEF Reading
<1>5. rpos \in W /\ RLength = Byte(data, rpos) /\ RLength \in Nat
  <2>1. rpos \in W
    BY <1>2, <1>3, <1>4 DEF ListedSoFar
  <2>2. RLength = Byte(data, rpos)
    BY <1>2, <1>3, <1>4 DEF RLength
  <2>3. QED
    BY <1>2, <1>3, <2>1, <2>2, ByteIsNat
<1>6. /\ ToSet(Append(rifs, rpos)) = ToSet(rifs) \cup {rpos}
      /\ ToSet(Append(reps, rpos)) = ToSet(reps) \cup {rpos}
  <2>1. \A s \in Seq(Nat), x \in Nat : ToSet(Append(s, x)) = ToSet(s) \cup {x}
    BY AppendNumber
  <2>2. QED
    BY <1>3, <2>1
<1>7. data' = data
  BY <1>1, ReadSame
<1>8. CASE Whole(data, rpos, 1)
  <2>1. rpos \in Starts(data) /\ rpos + RLength \in W /\ RLength >= 1
    BY <1>2, <1>5, <1>8, StartsFacts
  <2>2. \A p \in Starts(data) : p \in Nat /\ (rpos < p => rpos + RLength <= p)
    BY <1>2, <1>5, <2>1, StartsFacts
  <2>3. \A p \in Starts(data) : p < rpos + RLength <=> p < rpos \/ p = rpos
    BY <1>3, <1>5, <2>1, <2>2
  <2>4. RType = Byte(data, rpos + 1)
    <3>1. rpos + 1 \in Nat /\ rpos + 1 < n
      BY <1>2, <1>3, <1>8 DEF Whole
    <3>2. QED
      BY <1>2, <3>1 DEF RType
  <2>5. ToSet(rifs') = IfacesBelow(data, rpos + RLength)
    BY <1>1, <1>5, <1>6, <2>1, <2>3, <2>4 DEF ListedSoFar, IfacesBelow
  <2>6. ToSet(reps') = EndpointsBelow(data, rpos + RLength)
    BY <1>1, <1>5, <1>6, <2>1, <2>3, <2>4 DEF ListedSoFar, EndpointsBelow
  <2>7. QED
    BY <1>1, <1>7, <2>1, <2>5, <2>6 DEF ListedSoFar
<1>9. CASE ~Whole(data, rpos, 1)
  <2>1. \A p \in Starts(data) : p < rpos /\ p \in Nat
    BY <1>2, <1>5, <1>9, StartsFacts
  <2>2. os = "linux"
    <3>1. SUFFICES ASSUME os = "windows" PROVE FALSE
      BY <1>3
    <3>2. rpos + 2 <= n /\ RLength >= 2 /\ rpos + RLength <= n
      BY <1>2, <1>4, <3>1 DEF MinLength
    <3>3. QED
      BY <1>5, <1>9, <3>2 DEF Whole
  <2>3. ~(RType = INTERFACE /\ RLength >= 9) /\ ~(RType = ENDPOINT /\ RLength >= 7)
    <3>1. CASE rpos + 2 <= n
      <4>1. rpos + Byte(data, rpos) <= n
        BY <1>5, <2>2, <3>1 DEF Honest
      <4>2. ~(RLength >= 1)
        BY <1>5, <1>9, <3>1, <4>1 DEF Whole
      <4>3. QED
        BY <1>5, <4>2
    <3>2. CASE ~(rpos + 2 <= n)
      <4>1. rpos + 1 \in Nat /\ ~(rpos + 1 < n) /\ rpos + 1 < Len(Buf)
        BY <1>2, <1>3, <1>4, <3>2
      <4>2. RType = 0
        BY <1>2, <4>1 DEF RType
      <4>3. QED
        BY <4>2 DEF INTERFACE, ENDPOINT
    <3>3. QED
      BY <3>1, <3>2
  <2>4. rifs' = rifs /\ reps' = reps
    BY <1>1, <2>3
  <2>5. IfacesBelow(data, rpos + RLength) = IfacesBelow(data, rpos)
    BY <1>3, <1>5, <2>1 DEF IfacesBelow
  <2>6. EndpointsBelow(data, rpos + RLength) = EndpointsBelow(data, rpos)
    BY <1>3, <1>5, <2>1 DEF EndpointsBelow
  <2>7. rpos + RLength \in W \/ rpos + RLength >= n
    <3>1. CASE rpos + 2 <= n
      <4>1. rpos + Byte(data, rpos) <= n
        BY <1>5, <2>2, <3>1 DEF Honest
      <4>2. ~(RLength >= 1)
        BY <1>5, <1>9, <3>1, <4>1 DEF Whole
      <4>3. rpos + RLength = rpos
        BY <1>3, <1>5, <4>2
      <4>4. QED
        BY <1>5, <4>3
    <3>2. CASE ~(rpos + 2 <= n)
      <4>1. CASE RLength = 0
        <5>1. rpos + RLength = rpos
          BY <1>3, <4>1
        <5>2. QED
          BY <1>5, <5>1
      <4>2. CASE RLength # 0
        <5>1. rpos + RLength >= n
          BY <1>2, <1>3, <1>5, <3>2, <4>2
        <5>2. QED
          BY <5>1
      <4>3. QED
        BY <4>1, <4>2
    <3>3. QED
      BY <3>1, <3>2
  <2>8. QED
    BY <1>1, <1>7, <2>4, <2>5, <2>6, <2>7 DEF ListedSoFar
<1>10. QED
  BY <1>8, <1>9

LEMMA DescriptorReads == CfgInv /\ ReadInv /\ readDescriptor => CfgInv' /\ ReadInv'
<1> SUFFICES ASSUME CfgInv, ReadInv, readDescriptor PROVE CfgInv' /\ ReadInv'
  OBVIOUS
<1>1. /\ pc = "reading" /\ pc' = "reading" /\ Reading /\ rpos' = rpos + RLength
      /\ UNCHANGED <<fetchVars, parseVars>>
      /\ rifs' = IF RType = INTERFACE /\ RLength >= 9 THEN Append(rifs, rpos) ELSE rifs
      /\ reps' = IF RType = ENDPOINT /\ RLength >= 7 THEN Append(reps, rpos) ELSE reps
  BY DEF readDescriptor, Complete, Advance
<1>2. rpos \in Nat /\ rifs \in Seq(Nat) /\ reps \in Seq(Nat) /\ Buf \in Seq(Nat)
  BY BufBytes DEF CfgInv, ConfigTypes, Bytes
<1>3. RLength \in Nat
  BY <1>2, ByteIsNat DEF RLength
<1>4. CfgInv'
  <2>1. Append(rifs, rpos) \in Seq(Nat) /\ Append(reps, rpos) \in Seq(Nat)
    BY <1>2
  <2>2. rpos' \in Nat /\ rifs' \in Seq(Nat) /\ reps' \in Seq(Nat)
    BY <1>1, <1>2, <1>3, <2>1
  <2>3. QED
    BY <1>1, <2>2, ReadKeeps
<1>5. /\ Honest' = Honest /\ Buf' = Buf /\ os' = os
  BY <1>1, ReadSame
<1>6. rpos' <= Len(Buf')
  BY <1>1, <1>5 DEF Reading
<1>7. Honest /\ os # "darwin" => ListedSoFar'
  BY <1>1, ReadOn DEF ReadInv
<1>8. QED
  BY <1>1, <1>4, <1>5, <1>6, <1>7 DEF ReadInv

LEMMA ReturnReads == CfgInv /\ ReadInv /\ readReturn => CfgInv' /\ ReadInv'
<1> SUFFICES ASSUME CfgInv, ReadInv, readReturn PROVE CfgInv' /\ ReadInv'
  OBVIOUS
<1>1. /\ pc = "reading" /\ pc' = "returned" /\ ~Reading /\ UNCHANGED <<fetchVars, parseVars>>
      /\ rpos' = rpos /\ rifs' = rifs /\ reps' = reps
  BY DEF readReturn, readVars
<1>2. /\ Honest' = Honest /\ Buf' = Buf /\ data' = data /\ os' = os /\ result' = result
  BY <1>1, ReadSame
<1>3. rpos \in Nat /\ rifs \in Seq(Nat) /\ reps \in Seq(Nat)
  BY DEF CfgInv, ConfigTypes
<1>4. CfgInv'
  BY <1>1, <1>3, ReadKeeps
<1>5. ASSUME Honest, os # "darwin" PROVE ListedSoFar' /\ \A p \in Starts(data) : p < rpos
  <2>1. ListedSoFar
    BY <1>1, <1>5 DEF ReadInv
  <2>2. ListedSoFar'
    BY <1>1, <1>2, <2>1 DEF ListedSoFar
  <2>3. /\ data \in Seq(Nat) /\ Len(data) \in Nat
        /\ RTotal = Len(data) /\ Len(Buf) \in Nat /\ Len(data) <= Len(Buf)
        /\ os = "windows" => Len(Buf) = Len(data)
        /\ \A i \in Nat : i < Len(data) => Byte(Buf, i) = Byte(data, i)
    BY <1>5, BufHolds
  <2>4. \A p \in Starts(data) : p \in Nat /\ Whole(data, p, 1)
    BY <2>3, StartsFacts
  <2>5. ASSUME rpos >= Len(data), NEW p \in Starts(data) PROVE p < rpos
    <3>1. p + 2 <= Len(data) /\ p \in Nat
      BY <2>4 DEF Whole
    <3>2. QED
      BY <1>3, <2>3, <2>5, <3>1
  <2>6. ASSUME rpos < Len(data), rpos \in Walk(data, 9, 1), NEW p \in Starts(data) PROVE p < rpos
    <3>1. RLength = Byte(data, rpos) /\ RLength \in Nat
      BY <1>3, <2>3, <2>6, ByteIsNat DEF RLength
    <3>2. ~Whole(data, rpos, 1)
      <4>1. SUFFICES ASSUME Whole(data, rpos, 1) PROVE FALSE
        OBVIOUS
      <4>2. rpos \in Starts(data)
        BY <2>3, <2>6, <4>1, StartsFacts
      <4>3. rpos + 2 <= Len(data) /\ RLength >= 1 /\ rpos + RLength <= Len(data)
        BY <3>1, <4>1 DEF Whole
      <4>4. rpos + 2 <= Len(Buf) /\ rpos + RLength <= Len(Buf)
        BY <1>3, <2>3, <3>1, <4>3
      <4>5. RLength >= MinLength
        <5>1. CASE os = "windows"
          <6>1. Byte(data, rpos) # 1
            BY <1>5, <4>2, <5>1 DEF Honest
          <6>2. QED
            BY <3>1, <4>3, <5>1, <6>1 DEF MinLength
        <5>2. CASE os # "windows"
          BY <3>1, <5>2 DEF MinLength
        <5>3. QED
          BY <5>1, <5>2
      <4>6. QED
        BY <1>1, <2>3, <2>6, <4>4, <4>5 DEF Reading
    <3>3. QED
      BY <2>3, <2>6, <3>2, StartsFacts
  <2>7. QED
    BY <1>3, <2>1, <2>2, <2>3, <2>5, <2>6 DEF ListedSoFar
<1>6. (rpos < 256 \/ rpos <= Len(Buf))'
  BY <1>1, <1>2 DEF ReadInv
<1>7. (os = "darwin" /\ result = "ok" /\ pc = "returned" => Flattened)'
  <2>1. os # "darwin"
    BY <1>1 DEF ReadInv
  <2>2. QED
    BY <1>2, <2>1
<1>8. (Honest /\ os # "darwin" => ListedSoFar /\ \A p \in Starts(data) : p < rpos)'
  BY <1>1, <1>2, <1>5
<1>9. QED
  BY <1>1, <1>4, <1>6, <1>7, <1>8 DEF ReadInv

\* macOS: the parsed configuration in the order of the interface numbers.
LEMMA FlattenReads == CfgInv /\ ReadInv /\ readFlatten => CfgInv' /\ ReadInv'
<1> SUFFICES ASSUME CfgInv, ReadInv, readFlatten PROVE CfgInv' /\ ReadInv'
  OBVIOUS
<1>1. /\ pc = "read" /\ os = "darwin" /\ result = "ok" /\ pc' = "returned"
      /\ UNCHANGED <<fetchVars, parseVars>> /\ rpos' = rpos
  BY DEF readFlatten
<1>2. PICK order \in SetToSeqs(ListedAlts) :
        /\ rifs' = [i \in DOMAIN order |-> saved[order[i]].at]
        /\ reps' = FlattenSeq([i \in DOMAIN order |->
                     [j \in DOMAIN saved[order[i]].eps |-> saved[order[i]].eps[j].at]])
  BY DEF readFlatten
<1>3. PICK n \in Nat : n = Len(saved) /\ DOMAIN saved = 1..n
  BY DEF CfgInv, ConfigTypes
<1>4. ListedAlts \subseteq 1..n /\ IsFiniteSet(ListedAlts)
  <2>1. ListedAlts \subseteq 1..n
    BY <1>3 DEF ListedAlts
  <2>2. IsFiniteSet(1..n)
    BY FS_Interval
  <2>3. QED
    BY <2>1, <2>2, FS_Subset
<1>5. /\ order \in Seq(ListedAlts) /\ DOMAIN order = 1..Len(order) /\ Len(order) \in Nat
      /\ \A a \in ListedAlts : \E i \in DOMAIN order : order[i] = a
  BY <1>4, OrderCovers
<1>6. PICK m \in Nat : m = Len(order) /\ DOMAIN order = 1..m
  BY <1>5
<1>7. \A i \in 1..m : order[i] \in ListedAlts
  BY <1>5, <1>6
<1>8. \A k \in ListedAlts : saved[k] \in AltType
  BY <1>3, <1>4 DEF CfgInv, ConfigTypes
<1> DEFINE places(k) == [j \in DOMAIN saved[k].eps |-> saved[k].eps[j].at]
           lists == [i \in 1..m |-> places(order[i])]
<1>9. ASSUME NEW k \in ListedAlts
      PROVE  places(k) \in Seq(Nat) /\ ToSet(places(k)) = Places(ToSet(saved[k].eps))
  <2>1. PICK s : s = saved[k].eps
    OBVIOUS
  <2>2. s \in Seq([at : Nat, comp : Nat])
    BY <1>8, <2>1 DEF AltType
  <2>3. PICK l \in Nat : l = Len(s) /\ DOMAIN s = 1..l
    BY <2>2
  <2>4. \A j \in 1..l : s[j].at \in Nat
    <3>1. PICK V : V = [at : Nat, comp : Nat]
      OBVIOUS
    <3>2. s \in Seq(V)
      BY <2>2, <3>1
    <3>3. \A j \in 1..l : s[j] \in V
      BY <2>3, <3>2, ElementOfSeq
    <3>4. QED
      BY <3>1, <3>3
  <2>5. places(k) = [j \in 1..l |-> s[j].at]
    BY <2>1, <2>3
  <2>6. [j \in 1..l |-> s[j].at] \in Seq(Nat)
    BY <2>4
  <2>7. ToSet([j \in 1..l |-> s[j].at]) = Places(ToSet(s))
    BY <2>3 DEF ToSet, Places
  <2>8. QED
    BY <2>1, <2>5, <2>6, <2>7
<1> HIDE DEF places
<1>10. lists \in Seq(Seq(Nat)) /\ DOMAIN lists = 1..m /\ \A i \in 1..m : lists[i] = places(order[i])
  <2>1. \A i \in 1..m : places(order[i]) \in Seq(Nat)
    BY <1>7, <1>9
  <2>2. QED
    BY <2>1
<1>11. reps' = FlattenSeq(lists)
  BY <1>2, <1>6 DEF places
<1> HIDE DEF lists
<1>12. reps' \in Seq(Nat) /\ ToSet(reps') = UNION {Places(ToSet(saved[k].eps)) : k \in ListedAlts}
  <2>1. /\ FlattenSeq(lists) \in Seq(Nat)
        /\ ToSet(FlattenSeq(lists)) = UNION {ToSet(lists[i]) : i \in DOMAIN lists}
    BY <1>10, FlattenKeeps
  <2>2. \A i \in 1..m : ToSet(lists[i]) = Places(ToSet(saved[order[i]].eps))
    BY <1>7, <1>9, <1>10
  <2>3. UNION {ToSet(lists[i]) : i \in 1..m} = UNION {Places(ToSet(saved[order[i]].eps)) : i \in 1..m}
    BY <2>2
  <2>4. {order[i] : i \in 1..m} = ListedAlts
    BY <1>5, <1>6, <1>7
  <2>5. UNION {Places(ToSet(saved[order[i]].eps)) : i \in 1..m}
          = UNION {Places(ToSet(saved[k].eps)) : k \in ListedAlts}
    BY <2>4
  <2>6. QED
    BY <1>10, <1>11, <2>1, <2>3, <2>5
<1>13. rifs' \in Seq(Nat) /\ ToSet(rifs') = {saved[k].at : k \in ListedAlts}
  <2>1. \A i \in 1..m : saved[order[i]].at \in Nat
    BY <1>7, <1>8 DEF AltType
  <2>2. rifs' = [i \in 1..m |-> saved[order[i]].at]
    BY <1>2, <1>6
  <2>3. [i \in 1..m |-> saved[order[i]].at] \in Seq(Nat)
    BY <2>1
  <2>4. ToSet([i \in 1..m |-> saved[order[i]].at]) = {saved[order[i]].at : i \in 1..m}
    BY DEF ToSet
  <2>5. {saved[order[i]].at : i \in 1..m} = {saved[k].at : k \in ListedAlts}
    BY <1>5, <1>6, <1>7
  <2>6. QED
    BY <2>2, <2>3, <2>4, <2>5
<1>14. CfgInv'
  <2>1. rpos \in Nat
    BY DEF CfgInv, ConfigTypes
  <2>2. QED
    BY <1>1, <1>12, <1>13, <2>1, ReadKeeps
<1>15. /\ Honest' = Honest /\ Buf' = Buf /\ os' = os /\ result' = result
       /\ ListedAlts' = ListedAlts /\ saved' = saved
  BY <1>1, ReadSame
<1>16. Flattened'
  BY <1>12, <1>13, <1>15 DEF Flattened
<1>17. QED
  BY <1>1, <1>14, <1>15, <1>16 DEF ReadInv

LEMMA InitReads == Init => CfgInv /\ ReadInv
<1> SUFFICES ASSUME Init PROVE CfgInv /\ ReadInv
  OBVIOUS
<1>1. pc = "fetch" /\ rpos = 0
  BY DEF Init
<1>2. QED
  BY <1>1, InitConfig DEF ReadInv

LEMMA NextConfig == CfgInv /\ ReadInv /\ Next => CfgInv' /\ ReadInv'
<1> SUFFICES ASSUME CfgInv, ReadInv, Next PROVE CfgInv' /\ ReadInv'
  OBVIOUS
<1>1. CASE fetch \/ Unmarshal
  <2>1. CfgInv'
    BY <1>1, FetchStep, TooShortStep, InterfaceStep, EndpointStep, ExtraStep, EndStep DEF Unmarshal
  <2>2. rpos' = 0
    <3>1. rpos = 0 /\ UNCHANGED readVars
      BY <1>1 DEF CfgInv, FetchInv, fetch, Unmarshal, parseTooShort, parseInterface, parseEndpoint,
         parseExtra, parseEnd, Parsing, ParseKeeps
    <3>2. QED
      BY <3>1 DEF readVars
  <2>3. pc' \in {"parse", "read"}
    BY <1>1 DEF fetch, Unmarshal, parseTooShort, parseInterface, parseEndpoint,
         parseExtra, parseEnd, Parsing, Fail
  <2>4. QED
    BY <2>1, <2>2, <2>3 DEF ReadInv
<1>2. CASE ReadConfigDescriptor
  BY <1>2, StartReads, RefusedReads, FlattenReads, DescriptorReads, ReturnReads DEF ReadConfigDescriptor
<1>3. QED
  BY <1>1, <1>2 DEF Next

-----------------------------------------------------------------------------
(* What the invariant says of the parsed configuration                     *)

\* A walk stays within the data.
LEMMA WalkWithin ==
  ASSUME NEW d \in Seq(Nat), NEW p \in Walk(d, 9, 1)
  PROVE  p = 9 \/ (p \in Nat /\ p >= 9 /\ p <= Len(d))
<1> DEFINE X == {x \in Nat : x = 9 \/ (x >= 9 /\ x <= Len(d))}
           W == Walk(d, 9, 1)
<1>1. 9 \in X
  OBVIOUS
<1>2. ASSUME NEW x \in X \cap W, Whole(d, x, 1) PROVE x + Byte(d, x) \in X
  <2>1. x \in Nat /\ Byte(d, x) \in Nat /\ x >= 9
    BY ByteIsNat
  <2>2. x + Byte(d, x) <= Len(d)
    BY <1>2 DEF Whole
  <2>3. QED
    BY <2>1, <2>2
<1> HIDE DEF X, W
<1>3. W \subseteq X
  <2>1. 9 \in Nat /\ 1 \in Nat \ {0}
    OBVIOUS
  <2>2. \A Y : /\ 9 \in Y
               /\ \A x \in Y \cap W : Whole(d, x, 1) => x + Byte(d, x) \in Y
               => W \subseteq Y
    BY <2>1, WalkFacts DEF W
  <2>3. QED
    BY <1>1, <1>2, <2>2
<1>4. p \in X
  BY <1>3 DEF W
<1>5. QED
  BY <1>4 DEF X

LEMMA StartWithin ==
  ASSUME NEW d \in Seq(Nat), NEW p \in Starts(d)
  PROVE  /\ p \in Nat /\ p >= 9 /\ Byte(d, p) \in Nat /\ p + Byte(d, p) <= Len(d) /\ p + 2 <= Len(d)
         /\ Len(d) \in Nat
BY StartsFacts DEF Whole

LEMMA ConfigTypeOK == CfgInv /\ ReadInv => TypeOK
<1> SUFFICES ASSUME CfgInv, ReadInv PROVE TypeOK
  OBVIOUS
<1>1. data \in Seq(Nat) /\ Len(data) \in Nat
  BY DEF CfgInv, ConfigTypes, Bytes
<1>2. pos = 9 \/ pos \in 9..Len(data)
  <2>1. pos \in Walk(data, 9, 1)
    BY DEF CfgInv, ParseInv
  <2>2. QED
    BY <1>1, <2>1, WalkWithin
<1>3. rpos \in 0..(Len(Buf) + 255)
  <2>1. PICK n \in Nat : n = Len(Buf)
    BY BufBytes DEF CfgInv, Bytes
  <2>2. rpos \in Nat /\ (rpos < 256 \/ rpos <= n)
    BY <2>1 DEF CfgInv, ConfigTypes, ReadInv
  <2>3. QED
    BY <2>1, <2>2
<1>4. \A i \in DOMAIN cextra : cextra[i] \in 9..Len(data)
  <2>1. ASSUME NEW p \in ToSet(cextra) PROVE p \in 9..Len(data)
    <3>1. p \in Starts(data)
      BY DEF CfgInv, ParseInv, Filing, HeadFiled
    <3>2. p \in Nat /\ p >= 9 /\ p + 2 <= Len(data)
      BY <1>1, <3>1, StartWithin
    <3>3. QED
      BY <1>1, <3>2
  <2>2. QED
    BY <2>1 DEF ToSet
<1>5. cur.at < Len(data) + 1
  <2>1. CASE cur = NoAlt
    BY <1>1, <2>1 DEF NoAlt
  <2>2. CASE cur # NoAlt
    <3>1. cur.at \in Starts(data)
      BY <2>2 DEF CfgInv, ParseInv, Filing, IfacesFiled, AllAlts
    <3>2. QED
      BY <1>1, <3>1, StartWithin
  <2>3. QED
    BY <2>1, <2>2
<1>6. QED
  BY <1>2, <1>3, <1>4, <1>5 DEF TypeOK, CfgInv, ConfigTypes

LEMMA ConfigFields == CfgInv => FieldsInDescriptor
<1> SUFFICES ASSUME CfgInv PROVE FieldsInDescriptor
  OBVIOUS
<1>1. data \in Seq(Nat) /\ Filing(data, AllAlts, cextra, pos)
  BY DEF CfgInv, ConfigTypes, Bytes, ParseInv
<1>2. ASSUME NEW p \in Starts(data), NEW n \in Nat, Byte(data, p) >= n
      PROVE  Byte(data, p) >= n /\ p + n <= Len(data)
  <2>1. p \in Nat /\ Byte(data, p) \in Nat /\ p + Byte(data, p) <= Len(data) /\ Len(data) \in Nat
    BY <1>1, StartWithin
  <2>2. QED
    BY <1>2, <2>1
<1>3. ASSUME NEW a \in AllAlts
      PROVE  Byte(data, a.at) >= 9 /\ a.at + 9 <= Len(data)
  <2>1. a.at \in Starts(data) /\ Byte(data, a.at) >= 9
    BY <1>1 DEF Filing, IfacesFiled
  <2>2. QED
    BY <1>2, <2>1
<1>4. ASSUME NEW a \in AllAlts, NEW e \in ToSet(a.eps)
      PROVE  Byte(data, e.at) >= 7 /\ e.at + 7 <= Len(data)
  <2>1. e.at \in Starts(data) /\ Byte(data, e.at) >= 7
    BY <1>1 DEF Filing, EndpointsFiled
  <2>2. QED
    BY <1>2, <2>1
<1>5. ASSUME NEW a \in AllAlts, NEW e \in ToSet(a.eps), e.comp # NoCompanion
      PROVE  Byte(data, e.comp) >= 6 /\ e.comp + 6 <= Len(data)
  <2>1. e.comp \in Starts(data) /\ Byte(data, e.comp) >= 6
    BY <1>1, <1>5 DEF Filing, CompanionsFiled
  <2>2. QED
    BY <1>2, <2>1
<1>6. QED
  BY <1>3, <1>4, <1>5 DEF FieldsInDescriptor, AllAlts, Alts

\* The parsed configuration, when the parser has come to the end.
LEMMA ParsedAll ==
  ASSUME CfgInv, result = "ok"
  PROVE  /\ data \in Seq(Nat) /\ Len(data) >= 9 /\ Filing(data, Alts, cextra, pos)
         /\ \A p \in Starts(data) : p < pos /\ p \in Nat /\ p >= 9 /\ FiledIn(Alts, cextra, p)
         /\ \A i, j \in DOMAIN saved : i < j => saved[i].at < saved[j].at
<1>1. /\ data \in Seq(Nat) /\ Len(data) >= 9 /\ AllAlts = Alts /\ Filing(data, Alts, cextra, pos)
      /\ pos \in Walk(data, 9, 1) /\ ~Whole(data, pos, 1)
      /\ \A i, j \in DOMAIN saved : i < j => saved[i].at < saved[j].at
  BY DEF CfgInv, ConfigTypes, Bytes, ParseInv
<1>2. \A p \in Starts(data) : p < pos /\ p \in Nat /\ p >= 9
  BY <1>1, StartsFacts
<1>3. \A p \in Starts(data) : FiledIn(Alts, cextra, p)
  BY <1>1, <1>2 DEF Filing, AllFiled
<1>4. QED
  BY <1>1, <1>2, <1>3

LEMMA ConfigNothingLost == CfgInv => NothingLostOrDoubled
<1> SUFFICES ASSUME CfgInv, result = "ok"
             PROVE  NothingLostOrDoubled
  BY DEF NothingLostOrDoubled
<1> DEFINE ifs == {a.at : a \in Alts}
           eps == Places(Endpoints)
<1>1. /\ data \in Seq(Nat) /\ Filing(data, Alts, cextra, pos)
      /\ \A p \in Starts(data) : p < pos /\ p \in Nat /\ p >= 9 /\ FiledIn(Alts, cextra, p)
      /\ \A i, j \in DOMAIN saved : i < j => saved[i].at < saved[j].at
  BY ParsedAll
<1>2. ASSUME NEW p \in ifs
      PROVE  p \in Starts(data) /\ Byte(data, p + 1) = INTERFACE
  BY <1>1 DEF Filing, IfacesFiled
<1>3. ASSUME NEW p \in eps
      PROVE  p \in Starts(data) /\ Byte(data, p + 1) = ENDPOINT
  BY <1>1 DEF Filing, EndpointsFiled, Places, Endpoints
<1>4. ASSUME NEW p \in Companions
      PROVE  p \in Starts(data) /\ Byte(data, p + 1) = COMPANION
  BY <1>1 DEF Filing, CompanionsFiled, Companions, Endpoints
<1>5. ASSUME NEW p \in Extras
      PROVE  p \in Starts(data) /\ Byte(data, p + 1) # INTERFACE /\ Byte(data, p + 1) # ENDPOINT
  BY <1>1 DEF Filing, ExtrasFiled, Extras
<1>6. Companions \cap Extras = {}
  <2>1. SUFFICES ASSUME NEW p \in Companions \cap Extras PROVE FALSE
    OBVIOUS
  <2>2. PICK a \in Alts : \E e \in ToSet(a.eps) : e.comp = p
    BY DEF Companions, Endpoints
  <2>3. PICK b \in Alts : p \in ToSet(b.extra)
    BY DEF Extras
  <2>4. \A x, y \in Alts : \A q \in ToSet(x.extra) : \A f \in ToSet(y.eps) : f.comp # q
    BY <1>1 DEF Filing, ExtrasApart
  <2>5. QED
    BY <2>2, <2>3, <2>4
<1>7. ASSUME NEW p \in ToSet(cextra) PROVE p \in Starts(data) /\ \A a \in Alts : p < a.at
  BY <1>1 DEF Filing, HeadFiled
<1>8. ASSUME NEW p \in Starts(data)
      PROVE  p \in ifs \cup eps \cup Companions \cup Extras \cup ToSet(cextra)
  <2>1. FiledIn(Alts, cextra, p) /\ p # NoCompanion
    BY <1>1 DEF NoCompanion
  <2>2. CASE p \in ToSet(cextra)
    BY <2>2
  <2>3. CASE \E a \in Alts : a.at = p \/ p \in ToSet(a.extra)
    BY <2>3 DEF Extras
  <2>4. CASE \E a \in Alts : \E e \in ToSet(a.eps) : e.at = p \/ e.comp = p
    BY <2>1, <2>4 DEF Companions, Endpoints, Places
  <2>5. QED
    BY <2>1, <2>2, <2>3, <2>4 DEF FiledIn
<1>9. Starts(data) = ifs \cup eps \cup Companions \cup Extras \cup ToSet(cextra)
  <2> HIDE DEF ifs, eps
  <2>1. QED
    BY <1>2, <1>3, <1>4, <1>5, <1>7, <1>8
<1>10. /\ ifs \cap (eps \cup Companions \cup Extras) = {}
       /\ eps \cap (Companions \cup Extras) = {} /\ Companions \cap Extras = {}
  <2> HIDE DEF ifs, eps
  <2>1. QED
    BY <1>2, <1>3, <1>4, <1>5, <1>6 DEF INTERFACE, ENDPOINT, COMPANION
<1>11. /\ Ascending(cextra) /\ \A a \in Alts, p \in ToSet(cextra) : p < a.at
  BY <1>1, <1>7 DEF Filing, InOrder
<1>12. ASSUME NEW a \in Alts
       PROVE  /\ Ascending(a.extra) /\ \A i, j \in DOMAIN a.eps : i < j => a.eps[i].at < a.eps[j].at
              /\ \A p \in Places(ToSet(a.eps)) \cup ToSet(a.extra) : LastBefore(a, p)
  <2>1. Ascending(a.extra) /\ \A i, j \in DOMAIN a.eps : i < j => a.eps[i].at < a.eps[j].at
    BY <1>1 DEF Filing, InOrder
  <2>2. ASSUME NEW e \in ToSet(a.eps) PROVE LastBefore(a, e.at)
    BY <1>1 DEF Filing, EndpointsFiled, NearestFiled, LastBefore
  <2>3. ASSUME NEW p \in ToSet(a.extra) PROVE LastBefore(a, p)
    BY <1>1 DEF Filing, ExtrasFiled, NearestFiled, LastBefore
  <2>4. QED
    BY <2>1, <2>2, <2>3 DEF Places
<1>13. \A e \in Endpoints : e.comp # NoCompanion => e.comp = e.at + Byte(data, e.at)
  BY <1>1 DEF Filing, CompanionsFiled, Endpoints
<1>14. QED
  BY <1>1, <1>9, <1>10, <1>11, <1>12, <1>13 DEF NothingLostOrDoubled

\* The first of the elements that match.
LEMMA FirstFound ==
  ASSUME NEW s, NEW M, M \subseteq Nat, M # {}
  PROVE  \E i \in M : FirstOf(s, M) = {s[i]} /\ \A j \in M : i <= j
<1> DEFINE least(i) == \A j \in M : i <= j
<1>1. \E i \in M : least(i)
  BY LeastNat
<1>2. PICK i : i = CHOOSE k \in M : least(k)
  OBVIOUS
<1>3. i \in M /\ least(i)
  BY <1>1, <1>2
<1>4. FirstOf(s, M) = {s[i]}
  BY <1>2 DEF FirstOf
<1>5. QED
  BY <1>3, <1>4

\* The numbers of an interface and an endpoint are bytes.
LEMMA NumberIsByte ==
  ASSUME CfgInv, NEW a \in AllAlts
  PROVE  /\ InterfaceNumber(a) \in Nat /\ InterfaceNumber(a) < 256
         /\ InterfaceNumber(a) # 255 <=> InterfaceNumber(a) \in Listed
<1>1. Bytes(data) /\ Filing(data, AllAlts, cextra, pos) /\ data \in Seq(Nat)
  BY DEF CfgInv, ConfigTypes, Bytes, ParseInv
<1>2. a.at \in Starts(data) /\ Byte(data, a.at) >= 9
  BY <1>1 DEF Filing, IfacesFiled
<1>3. a.at \in Nat /\ Byte(data, a.at) \in Nat /\ a.at + Byte(data, a.at) <= Len(data) /\ Len(data) \in Nat
  BY <1>1, <1>2, StartWithin
<1>4. a.at + 2 \in Nat /\ a.at + 2 < Len(data)
  BY <1>2, <1>3
<1>5. InterfaceNumber(a) \in Nat /\ InterfaceNumber(a) < 256
  BY <1>1, <1>4, ByteIsSmall DEF InterfaceNumber
<1>6. QED
  BY <1>5 DEF Listed

\* FindEndpoint comes to the first interface, by number and then as they were
\* added, that has an endpoint with the address.
LEMMA FirstByNumber ==
  ASSUME CfgInv, NEW M, M \subseteq ListedAlts, M # {}
  PROVE  \E k \in M : \A j \in M : Before(k, j)
<1>1. PICK n \in Nat : n = Len(saved) /\ DOMAIN saved = 1..n
  BY DEF CfgInv, ConfigTypes
<1>2. \A i \in M : i \in Nat /\ InterfaceNumber(saved[i]) \in Nat
  <2>1. ASSUME NEW i \in M PROVE i \in Nat /\ InterfaceNumber(saved[i]) \in Nat
    <3>1. i \in 1..n
      BY <1>1 DEF ListedAlts
    <3>2. saved[i] \in AllAlts
      BY <1>1, <3>1 DEF AllAlts, Alts, ToSet
    <3>3. QED
      BY <3>1, <3>2, NumberIsByte
  <2>2. QED
    BY <2>1
<1> DEFINE num(i) == InterfaceNumber(saved[i])
<1>3. PICK x \in {num(i) : i \in M} : \A y \in {num(i) : i \in M} : x <= y
  <2>1. {num(i) : i \in M} \in SUBSET Nat /\ {num(i) : i \in M} # {}
    BY <1>2
  <2>2. QED
    BY <2>1, LeastNat
<1> DEFINE T == {i \in M : num(i) = x}
<1>4. PICK k \in T : \A j \in T : k <= j
  <2>1. T \in SUBSET Nat /\ T # {}
    BY <1>2, <1>3
  <2> HIDE DEF T
  <2>2. QED
    BY <2>1, LeastNat
<1>5. ASSUME NEW j \in M PROVE Before(k, j)
  <2>1. num(k) = x /\ x <= num(j) /\ num(j) \in Nat /\ x \in Nat
    BY <1>2, <1>3, <1>4
  <2>2. CASE num(j) = x
    <3>1. k <= j
      BY <1>4, <2>2
    <3>2. QED
      BY <2>1, <2>2, <3>1 DEF Before
  <2>3. CASE num(j) # x
    <3>1. num(k) < num(j)
      BY <2>1, <2>3
    <3>2. QED
      BY <3>1 DEF Before
  <2>4. QED
    BY <2>2, <2>3
<1>6. QED
  BY <1>4, <1>5

\* An endpoint of an interface is found there by its address.
LEMMA EndpointFound ==
  ASSUME NEW a \in AltType, NEW e \in ToSet(a.eps)
  PROVE  /\ EndpointsAt(a, EndpointAddr(e)) # {}
         /\ \E f \in ToSet(a.eps) : EndpointsAt(a, EndpointAddr(e)) = {f}
<1> DEFINE M == {k \in DOMAIN a.eps : EndpointAddr(a.eps[k]) = EndpointAddr(e)}
<1>1. PICK i \in DOMAIN a.eps : a.eps[i] = e
  BY DEF ToSet
<1>2. M \subseteq Nat /\ M # {}
  <2>1. DOMAIN a.eps = 1..Len(a.eps)
    BY DEF AltType
  <2>2. QED
    BY <1>1, <2>1
<1>3. PICK k \in M : FirstOf(a.eps, M) = {a.eps[k]}
  <2> HIDE DEF M
  <2>1. QED
    BY <1>2, FirstFound
<1>4. EndpointsAt(a, EndpointAddr(e)) = {a.eps[k]} /\ a.eps[k] \in ToSet(a.eps)
  BY <1>3 DEF EndpointsAt, ToSet
<1>5. QED
  BY <1>4

LEMMA EndpointHasAddress ==
  ASSUME NEW a \in AltType, NEW addr, NEW f \in EndpointsAt(a, addr)
  PROVE  f \in ToSet(a.eps) /\ EndpointAddr(f) = addr
<1> DEFINE M == {k \in DOMAIN a.eps : EndpointAddr(a.eps[k]) = addr}
<1>1. M \subseteq Nat
  <2>1. DOMAIN a.eps = 1..Len(a.eps)
    BY DEF AltType
  <2>2. QED
    BY <2>1
<1>2. f \in FirstOf(a.eps, M)
  BY DEF EndpointsAt
<1>3. M # {}
  BY <1>2 DEF FirstOf
<1>4. PICK k \in M : FirstOf(a.eps, M) = {a.eps[k]}
  <2> HIDE DEF M
  <2>1. QED
    BY <1>1, <1>3, FirstFound
<1>5. QED
  BY <1>2, <1>4 DEF ToSet

LEMMA ConfigLookups == CfgInv => LookupsComplete
<1> SUFFICES ASSUME CfgInv, result = "ok", NEW a \in Alts, InterfaceNumber(a) # 255
             PROVE  LET matched == InterfaceAltSetting(InterfaceNumber(a), AlternateSetting(a)) IN
                    /\ \E b \in matched : /\ b.at <= a.at /\ InterfaceNumber(b) = InterfaceNumber(a)
                                        /\ AlternateSetting(b) = AlternateSetting(a)
                    /\ \A e \in ToSet(a.eps) :
                         /\ \E f \in FindEndpoint(EndpointAddr(e)) : EndpointAddr(f) = EndpointAddr(e)
                         /\ a \in matched /\ e \in EndpointsAt(a, EndpointAddr(e)) =>
                              SSEndpointCompanion(InterfaceNumber(a), AlternateSetting(a), EndpointAddr(e))
                                = {e.comp} \ {NoCompanion}
  BY DEF LookupsComplete
<1> DEFINE n == InterfaceNumber(a)
           alt == AlternateSetting(a)
           matched == InterfaceAltSetting(n, alt)
           M == {i \in AltSettings(n) : AlternateSetting(saved[i]) = alt}
<1>1. PICK l \in Nat : l = Len(saved) /\ DOMAIN saved = 1..l
  BY DEF CfgInv, ConfigTypes
<1>2. PICK i \in 1..l : saved[i] = a
  BY <1>1 DEF Alts, ToSet
<1>3. \A k \in 1..l : saved[k] \in AltType
  BY <1>1 DEF CfgInv, ConfigTypes
<1>4. \A j, k \in 1..l : j < k => saved[j].at < saved[k].at
  BY <1>1, ParsedAll
<1>5. n \in Listed
  BY NumberIsByte DEF AllAlts
<1>6. i \in M /\ M \subseteq 1..l
  BY <1>1, <1>2, <1>5 DEF AltSettings
<1>7. PICK k \in M : matched = {saved[k]} /\ \A j \in M : k <= j
  <2>1. M \subseteq Nat /\ M # {}
    BY <1>6
  <2> HIDE DEF M, n, alt
  <2>2. matched = FirstOf(saved, M)
    BY DEF InterfaceAltSetting, M
  <2>3. QED
    BY <2>1, <2>2, FirstFound
<1>8. \E b \in matched : b.at <= a.at /\ InterfaceNumber(b) = n /\ AlternateSetting(b) = alt
  <2>1. k \in 1..l /\ InterfaceNumber(saved[k]) = n /\ AlternateSetting(saved[k]) = alt
    BY <1>6, <1>7 DEF AltSettings
  <2>2. saved[k].at <= a.at
    <3>1. k <= i
      BY <1>6, <1>7
    <3>2. saved[k].at \in Nat /\ saved[i].at \in Nat
      BY <1>3, <2>1 DEF AltType
    <3>3. CASE k = i
      BY <1>2, <3>2, <3>3
    <3>4. CASE k # i
      BY <1>2, <1>4, <2>1, <3>1, <3>2, <3>4
    <3>5. QED
      BY <3>3, <3>4
  <2>3. QED
    BY <1>7, <2>1, <2>2
<1>9. ASSUME NEW e \in ToSet(a.eps)
      PROVE  \E f \in FindEndpoint(EndpointAddr(e)) : EndpointAddr(f) = EndpointAddr(e)
  <2> DEFINE addr == EndpointAddr(e)
             has == {j \in ListedAlts : EndpointsAt(saved[j], addr) # {}}
  <2>1. i \in has
    <3>1. a \in AltType
      BY <1>2, <1>3
    <3>2. EndpointsAt(a, addr) # {}
      BY <3>1, EndpointFound
    <3>3. QED
      BY <1>1, <1>2, <1>5, <3>2 DEF ListedAlts
  <2>2. PICK j \in has : \A m \in has : Before(j, m)
    <3>1. has \subseteq ListedAlts /\ has # {}
      BY <2>1
    <3> HIDE DEF has
    <3>2. QED
      BY <3>1, FirstByNumber
  <2>3. PICK f : f \in EndpointsAt(saved[j], addr)
    BY <2>2
  <2>4. f \in FindEndpoint(addr)
    BY <2>2, <2>3 DEF FindEndpoint
  <2>5. saved[j] \in AltType
    BY <1>1, <1>3, <2>2 DEF ListedAlts
  <2>6. EndpointAddr(f) = addr
    <3> HIDE DEF addr
    <3>1. QED
      BY <2>3, <2>5, EndpointHasAddress
  <2>7. QED
    BY <2>4, <2>6
<1>10. ASSUME NEW e \in ToSet(a.eps), a \in matched, e \in EndpointsAt(a, EndpointAddr(e))
       PROVE  SSEndpointCompanion(n, alt, EndpointAddr(e)) = {e.comp} \ {NoCompanion}
  <2>1. a \in AltType
    BY <1>2, <1>3
  <2>2. EndpointsAt(a, EndpointAddr(e)) = {e}
    BY <1>10, <2>1, EndpointFound
  <2>3. matched = {a}
    BY <1>7, <1>10
  <2>4. UNION {EndpointsAt(b, EndpointAddr(e)) : b \in matched} = {e}
    <3> HIDE DEF matched
    <3>1. QED
      BY <2>2, <2>3
  <2>5. QED
    BY <2>4 DEF SSEndpointCompanion
<1>11. QED
  BY <1>8, <1>9, <1>10

\* The parser files every interface, and every endpoint behind one, as such.
LEMMA ParsedKinds ==
  ASSUME CfgInv, result = "ok", NEW p \in Starts(data)
  PROVE  /\ Byte(data, p + 1) = INTERFACE => \E a \in Alts : a.at = p
         /\ Byte(data, p + 1) = ENDPOINT /\ (\E a \in Alts : a.at < p)
              => \E a \in Alts : \E e \in ToSet(a.eps) : e.at = p
<1>1. /\ data \in Seq(Nat) /\ Filing(data, Alts, cextra, pos)
      /\ p \in Nat /\ p >= 9 /\ FiledIn(Alts, cextra, p)
  BY ParsedAll
<1>2. ASSUME p \in ToSet(cextra)
      PROVE  Byte(data, p + 1) # INTERFACE /\ \A a \in Alts : p < a.at
  BY <1>1, <1>2 DEF Filing, HeadFiled
<1>3. \A a \in Alts : Byte(data, a.at + 1) = INTERFACE /\ a.at \in Nat
  BY <1>1 DEF Filing, IfacesFiled, AltType
<1>4. \A a \in Alts : \A q \in ToSet(a.extra) :
        Byte(data, q + 1) # INTERFACE /\ Byte(data, q + 1) # ENDPOINT
  BY <1>1 DEF Filing, ExtrasFiled
<1>5. \A a \in Alts : \A e \in ToSet(a.eps) : Byte(data, e.at + 1) = ENDPOINT
  BY <1>1 DEF Filing, EndpointsFiled
<1>6. \A a \in Alts : \A e \in ToSet(a.eps) : e.comp = p => Byte(data, p + 1) = COMPANION
  BY <1>1 DEF Filing, CompanionsFiled, NoCompanion
<1>7. INTERFACE # ENDPOINT /\ COMPANION # INTERFACE /\ COMPANION # ENDPOINT
  BY DEF INTERFACE, ENDPOINT, COMPANION
<1>8. ASSUME Byte(data, p + 1) = INTERFACE PROVE \E a \in Alts : a.at = p
  <2>1. ~(p \in ToSet(cextra))
    BY <1>2, <1>8
  <2>2. QED
    BY <1>1, <1>4, <1>5, <1>6, <1>7, <1>8, <2>1 DEF FiledIn
<1>9. ASSUME Byte(data, p + 1) = ENDPOINT, NEW b \in Alts, b.at < p
      PROVE  \E a \in Alts : \E e \in ToSet(a.eps) : e.at = p
  <2>1. ~(p \in ToSet(cextra))
    <3>1. SUFFICES ASSUME p < b.at PROVE FALSE
      BY <1>2
    <3>2. QED
      BY <1>1, <1>3, <1>9, <3>1
  <2>2. \A a \in Alts : a.at # p
    BY <1>3, <1>7, <1>9
  <2>3. QED
    BY <1>1, <1>4, <1>6, <1>7, <1>9, <2>1, <2>2 DEF FiledIn
<1>10. QED
  BY <1>8, <1>9

LEMMA ConfigAgree == CfgInv /\ ReadInv => ParsersAgree
<1> DEFINE alts == {a \in Alts : os = "darwin" => InterfaceNumber(a) # 255}
<1> SUFFICES ASSUME CfgInv, ReadInv, pc = "returned", Honest
             PROVE  /\ ToSet(rifs) = {a.at : a \in alts}
                    /\ {p \in ToSet(reps) : \E a \in Alts : a.at < p}
                         = UNION {Places(ToSet(a.eps)) : a \in alts}
  BY DEF ParsersAgree, Honest
<1>1. /\ data \in Seq(Nat) /\ Filing(data, Alts, cextra, pos) /\ result = "ok" /\ AllAlts = Alts
  BY ParsedAll DEF Honest, CfgInv, ParseInv
<1>2. \A a \in Alts : \A p \in Places(ToSet(a.eps)) : a.at < p
  BY <1>1 DEF Filing, EndpointsFiled, Places
<1>3. CASE os # "darwin"
  <2>1. alts = Alts
    BY <1>3
  <2>2. ToSet(rifs) = IfacesBelow(data, rpos) /\ ToSet(reps) = EndpointsBelow(data, rpos)
    BY <1>3 DEF ReadInv, ListedSoFar
  <2>3. \A p \in Starts(data) : p < rpos
    BY <1>3 DEF ReadInv
  <2>4. ToSet(rifs) = {a.at : a \in Alts}
    <3>1. ASSUME NEW p \in ToSet(rifs) PROVE \E a \in Alts : a.at = p
      BY <1>1, <2>2, ParsedKinds DEF IfacesBelow
    <3>2. ASSUME NEW a \in Alts PROVE a.at \in ToSet(rifs)
      BY <1>1, <2>2, <2>3 DEF Filing, IfacesFiled, IfacesBelow
    <3>3. QED
      BY <3>1, <3>2
  <2>5. ASSUME NEW p \in ToSet(reps), \E a \in Alts : a.at < p
        PROVE  \E a \in Alts : p \in Places(ToSet(a.eps))
    <3>1. p \in Starts(data) /\ Byte(data, p + 1) = ENDPOINT
      BY <2>2 DEF EndpointsBelow
    <3>2. PICK a \in Alts : \E e \in ToSet(a.eps) : e.at = p
      BY <1>1, <2>5, <3>1, ParsedKinds
    <3>3. QED
      BY <3>2 DEF Places
  <2>6. ASSUME NEW a \in Alts, NEW p \in Places(ToSet(a.eps))
        PROVE  p \in ToSet(reps) /\ a.at < p
    <3>1. PICK e \in ToSet(a.eps) : e.at = p
      BY DEF Places
    <3>2. e.at \in Starts(data) /\ Byte(data, e.at + 1) = ENDPOINT /\ Byte(data, e.at) >= 7
      BY <1>1 DEF Filing, EndpointsFiled
    <3>3. QED
      BY <1>2, <2>2, <2>3, <3>1, <3>2 DEF EndpointsBelow
  <2>7. QED
    BY <2>1, <2>4, <2>5, <2>6
<1>4. CASE os = "darwin"
  <2>1. /\ ToSet(rifs) = {saved[i].at : i \in ListedAlts}
        /\ ToSet(reps) = UNION {Places(ToSet(saved[i].eps)) : i \in ListedAlts}
    BY <1>1, <1>4 DEF ReadInv, Flattened
  <2>2. {saved[i] : i \in ListedAlts} = alts
    <3>1. \A i \in DOMAIN saved : InterfaceNumber(saved[i]) # 255 <=> InterfaceNumber(saved[i]) \in Listed
      BY <1>1, NumberIsByte DEF Alts, ToSet
    <3>2. QED
      BY <1>4, <3>1 DEF ListedAlts, Alts, ToSet
  <2>3. {saved[i].at : i \in ListedAlts} = {a.at : a \in alts}
    <3> HIDE DEF alts
    <3>1. QED
      BY <2>2
  <2>4. UNION {Places(ToSet(saved[i].eps)) : i \in ListedAlts} = UNION {Places(ToSet(a.eps)) : a \in alts}
    <3> HIDE DEF alts
    <3>1. QED
      BY <2>2
  <2>5. \A p \in ToSet(reps) : \E a \in Alts : a.at < p
    BY <1>2, <2>1, <2>4
  <2>6. QED
    BY <2>1, <2>3, <2>4, <2>5
<1>5. QED
  BY <1>3, <1>4

-----------------------------------------------------------------------------
(* Where transfers go on Windows                                           *)

\* The scan of the raw bytes starts where Unmarshal does.
LEMMA HeaderLength ==
  ASSUME CfgInv, os = "windows", result = "ok", Byte(dev, 0) = 9
  PROVE  Byte(data, 0) = 9
<1>1. /\ Bytes(dev) /\ Len(dev) >= 9 /\ data = Fetched /\ data \in Seq(Nat) /\ Len(data) >= 9
      /\ dev \in Seq(Nat)
  BY DEF CfgInv, ConfigTypes, FetchInv, ParseInv, Bytes
<1>2. data = Received
  BY <1>1 DEF Fetched
<1>3. PICK m \in Nat : m = Len(dev)
  BY <1>1
<1>4. PICK t \in Nat : t = TotalLength
  BY <1>1, TotalIsNat
<1>5. PICK l \in Nat : l = (IF m < t THEN m ELSE t) /\ l <= m
  OBVIOUS
<1>6. data = SubSeq(dev, 1, l)
  BY <1>2, <1>3, <1>4, <1>5 DEF Received
<1>7. Len(SubSeq(dev, 1, l)) = l /\ \A i \in 1..l : SubSeq(dev, 1, l)[i] = dev[i]
  BY <1>1, <1>3, <1>5
<1>8. 1 \in 1..l
  BY <1>1, <1>6, <1>7
<1>9. Byte(data, 0) = dev[1] /\ Byte(dev, 0) = dev[1]
  BY <1>1, <1>3, <1>5, <1>6, <1>7, <1>8 DEF Byte
<1>10. QED
  BY <1>9

\* The scan visits every descriptor, if none is a lone byte.
LEMMA ScanVisitsAll ==
  ASSUME NEW d \in Seq(Nat), \A p \in Starts(d) : Byte(d, p) # 1
  PROVE  {p \in Walk(d, 9, 2) : Whole(d, p, 2)} = Starts(d)
<1> DEFINE V == Walk(d, 9, 1)
           W == Walk(d, 9, 2)
<1>1. /\ V \subseteq Nat /\ 9 \in V
      /\ \A p \in V : Whole(d, p, 1) => p + Byte(d, p) \in V
      /\ \A X : 9 \in X /\ (\A p \in X \cap V : Whole(d, p, 1) => p + Byte(d, p) \in X) => V \subseteq X
  <2>1. 9 \in Nat /\ 1 \in Nat \ {0}
    OBVIOUS
  <2>2. QED
    BY <2>1, WalkFacts
<1>2. /\ W \subseteq Nat /\ 9 \in W
      /\ \A p \in W : Whole(d, p, 2) => p + Byte(d, p) \in W
      /\ \A X : 9 \in X /\ (\A p \in X \cap W : Whole(d, p, 2) => p + Byte(d, p) \in X) => W \subseteq X
  <2>1. 9 \in Nat /\ 2 \in Nat \ {0}
    OBVIOUS
  <2>2. QED
    BY <2>1, WalkFacts
<1>3. Starts(d) = {p \in V : Whole(d, p, 1)}
  BY DEF Starts
<1> HIDE DEF V, W
<1>4. ASSUME NEW p \in Nat, Whole(d, p, 2) PROVE Whole(d, p, 1)
  <2>1. Byte(d, p) \in Nat
    BY ByteIsNat
  <2>2. QED
    BY <1>4, <2>1 DEF Whole
<1>5. ASSUME NEW p \in V, Whole(d, p, 1) PROVE Whole(d, p, 2)
  <2>1. p \in Starts(d) /\ p \in Nat
    BY <1>1, <1>3, <1>5
  <2>2. Byte(d, p) # 1 /\ Byte(d, p) \in Nat
    BY <2>1, ByteIsNat
  <2>3. QED
    BY <1>5, <2>2 DEF Whole
<1>6. W \subseteq V
  BY <1>1, <1>2, <1>4
<1>7. V \subseteq W
  BY <1>1, <1>2, <1>5
<1>8. QED
  BY <1>1, <1>3, <1>4, <1>5, <1>6, <1>7 DEF W

LEMMA LeastIs ==
  ASSUME NEW M, M \subseteq Nat, NEW x \in M, \A y \in M : x <= y
  PROVE  Min(M) = x
<1>1. ASSUME NEW y \in M, \A z \in M : y <= z PROVE y = x
  BY <1>1
<1>2. QED
  BY <1>1 DEF Min

LEMMA GreatestIs ==
  ASSUME NEW M, M \subseteq Nat, NEW x \in M, \A y \in M : y <= x
  PROVE  Max(M) = x
<1>1. ASSUME NEW y \in M, \A z \in M : y >= z PROVE y = x
  BY <1>1
<1>2. \A y \in M : x >= y
  OBVIOUS
<1>3. QED
  BY <1>1, <1>2 DEF Max

LEMMA EndpointRouted == CfgInv => EndpointFindsInterface
<1> SUFFICES ASSUME CfgInv, Parsed, \A p \in Starts(data) : Byte(data, p) # 1,
                    NEW a \in Alts, NEW e \in ToSet(a.eps),
                    \A p \in Starts(data) : p < e.at /\ Byte(data, p + 1) = ENDPOINT
                                              => Byte(data, p + 2) # EndpointAddr(e)
             PROVE  endpointInterface(EndpointAddr(e)) = {InterfaceNumber(a)}
  BY DEF EndpointFindsInterface
<1>1. /\ data \in Seq(Nat) /\ Filing(data, Alts, cextra, pos) /\ result = "ok" /\ AllAlts = Alts
      /\ \A p \in Starts(data) : p \in Nat
  BY ParsedAll DEF Parsed, CfgInv, ParseInv
<1>2. Walked = Starts(data)
  <2>1. Byte(data, 0) = 9
    BY HeaderLength DEF Parsed
  <2>2. QED
    BY <1>1, <2>1, ScanVisitsAll DEF Walked
<1> DEFINE hits == {p \in Walked : /\ Byte(data, p + 1) = ENDPOINT
                                   /\ Byte(data, p) >= 3 /\ Byte(data, p + 2) = EndpointAddr(e)}
           before == {q \in Walked : q < e.at /\ Byte(data, q + 1) = INTERFACE /\ Byte(data, q) >= 9}
<1>3. /\ e.at \in Starts(data) /\ Byte(data, e.at + 1) = ENDPOINT /\ Byte(data, e.at) >= 7
      /\ a.at < e.at /\ \A b \in Alts : b.at < e.at => b.at <= a.at
      /\ a.at \in Starts(data) /\ Byte(data, a.at + 1) = INTERFACE /\ Byte(data, a.at) >= 9
  BY <1>1 DEF Filing, EndpointsFiled, IfacesFiled, NearestFiled
<1>4. Min(hits) = e.at /\ hits # {}
  <2>1. Byte(data, e.at) \in Nat
    BY <1>1, <1>3, ByteIsNat
  <2>2. e.at \in hits
    BY <1>2, <1>3, <2>1 DEF EndpointAddr
  <2>3. ASSUME NEW p \in hits PROVE e.at <= p
    <3>1. p \in Starts(data) /\ ~(p < e.at)
      BY <1>2
    <3>2. p \in Nat /\ e.at \in Nat
      BY <1>1, <1>3, <3>1
    <3>3. QED
      BY <3>1, <3>2
  <2>4. hits \subseteq Nat
    BY <1>1, <1>2
  <2> HIDE DEF hits
  <2>5. QED
    BY <2>2, <2>3, <2>4, LeastIs
<1>5. Max(before) = a.at /\ before # {}
  <2>1. a.at \in before
    BY <1>2, <1>3
  <2>2. ASSUME NEW q \in before PROVE q <= a.at
    <3>1. q \in Starts(data) /\ Byte(data, q + 1) = INTERFACE /\ q < e.at
      BY <1>2
    <3>2. PICK b \in Alts : b.at = q
      BY <1>1, <3>1, ParsedKinds
    <3>3. QED
      BY <1>3, <3>1, <3>2
  <2>3. before \subseteq Nat
    BY <1>1, <1>2
  <2> HIDE DEF before
  <2>4. QED
    BY <2>1, <2>2, <2>3, GreatestIs
<1>6. CurIface(e.at) = InterfaceNumber(a)
  BY <1>5 DEF CurIface, InterfaceNumber
<1>7. QED
  BY <1>4, <1>6 DEF endpointInterface

\* An interface that has an open collection gets the lowest of them.
LEMMA CollectionFound ==
  ASSUME NEW list \in Candidates, NEW n, \E i \in openHIDDevice(list) : list[i].iface = n
  PROVE  \E c \in collectionForInterface(list, n) :
           /\ \E i \in openHIDDevice(list) : list[i] = c
           /\ c.iface = n
           /\ \A j \in openHIDDevice(list) : list[j].iface = n => c.collection <= list[j].collection
<1> DEFINE mine == {i \in openHIDDevice(list) : list[i].iface = n}
           M == {i \in mine : \A j \in mine : list[i].collection <= list[j].collection}
           Z == {list[i].collection : i \in mine}
<1>1. PICK V : V = [own : BOOLEAN, usable : BOOLEAN, opens : BOOLEAN, iface : Nat, collection : Nat]
  OBVIOUS
<1>2. list \in Seq(V)
  BY <1>1, CandidatesAssumption
<1>3. PICK l \in Nat : l = Len(list) /\ DOMAIN list = 1..l
  BY <1>2
<1>4. \A i \in 1..l : list[i] \in V
  BY <1>2, <1>3, ElementOfSeq
<1>5. \A i \in 1..l : list[i].collection \in Nat
  BY <1>1, <1>4
<1>6. mine \subseteq 1..l /\ mine # {}
  BY <1>3 DEF openHIDDevice
<1>7. PICK x \in Z : \A y \in Z : x <= y
  <2>1. Z \in SUBSET Nat /\ Z # {}
    BY <1>5, <1>6
  <2> HIDE DEF Z
  <2>2. QED
    BY <2>1, LeastNat
<1>8. M # {} /\ M \subseteq Nat
  BY <1>6, <1>7
<1>9. PICK k \in M : FirstOf(list, M) = {list[k]}
  <2> HIDE DEF M
  <2>1. QED
    BY <1>8, FirstFound
<1>10. collectionForInterface(list, n) = {list[k]}
  BY <1>9 DEF collectionForInterface
<1>11. QED
  BY <1>9, <1>10

LEMMA HidRouted == CfgInv => HidEndpointServed
<1> SUFFICES ASSUME CfgInv, Parsed, NEW list \in Candidates, NEW a \in Alts, NEW e \in ToSet(a.eps),
                    IsInterrupt(e), InterfaceNumber(a) # 255,
                    \E c \in {list[i] : i \in openHIDDevice(list)} : c.iface = InterfaceNumber(a),
                    \A b \in Alts : \A f \in ToSet(b.eps) :
                      EndpointAddr(f) = EndpointAddr(e) => InterfaceNumber(b) = InterfaceNumber(a)
             PROVE  LET open == {list[i] : i \in openHIDDevice(list)} IN
                    \E c \in interruptCollection(list, EndpointAddr(e)) :
                      /\ c \in open /\ c.iface = InterfaceNumber(a)
                      /\ \A d \in open : d.iface = c.iface => c.collection <= d.collection
  BY DEF HidEndpointServed
<1> DEFINE n == InterfaceNumber(a)
           addr == EndpointAddr(e)
<1>1. n \in Listed /\ n \in Nat
  BY NumberIsByte DEF AllAlts
<1>2. PICK i \in DOMAIN saved : saved[i] = a
  BY DEF Alts, ToSet
<1>3. PICK c \in collectionForInterface(list, n) :
           /\ \E j \in openHIDDevice(list) : list[j] = c
           /\ c.iface = n
           /\ \A j \in openHIDDevice(list) : list[j].iface = n => c.collection <= list[j].collection
  <2>1. \E j \in openHIDDevice(list) : list[j].iface = n
    OBVIOUS
  <2> HIDE DEF n
  <2>2. QED
    BY <2>1, CollectionFound
<1>4. Maps(list, addr) = {n}
  <2>1. n \in Maps(list, addr)
    BY <1>1, <1>2, <1>3 DEF Maps, ListedAlts
  <2>2. ASSUME NEW m \in Maps(list, addr) PROVE m = n
    <3>1. PICK k \in ListedAlts : /\ m = InterfaceNumber(saved[k])
                                  /\ \E f \in ToSet(saved[k].eps) : EndpointAddr(f) = addr
      BY DEF Maps
    <3>2. saved[k] \in Alts
      BY <3>1 DEF ListedAlts, Alts, ToSet
    <3>3. QED
      BY <3>1, <3>2
  <2>3. QED
    BY <2>1, <2>2
<1>5. Min({n}) = n
  BY <1>1, LeastIs
<1>6. interruptCollection(list, addr) = collectionForInterface(list, n)
  BY <1>3, <1>4, <1>5 DEF interruptCollection, mapEndpoints, Parsed
<1>7. QED
  BY <1>3, <1>6

-----------------------------------------------------------------------------
(* Every configuration                                                     *)

ConfigInv == part = "config" => CfgInv /\ ReadInv

LEMMA ConfigInvHolds == MCSpec => []ConfigInv
<1>1. MCInit => ConfigInv
  BY InitReads DEF MCInit, ConfigInv
<1>2. ConfigInv /\ [MCNext]_allVars => ConfigInv'
  <2> SUFFICES ASSUME ConfigInv, [MCNext]_allVars PROVE ConfigInv'
    OBVIOUS
  <2>1. CASE part = "config" /\ Next /\ UNCHANGED part
    BY <2>1, NextConfig DEF ConfigInv
  <2>2. CASE part' = part /\ part # "config"
    BY <2>2 DEF ConfigInv
  <2>3. CASE UNCHANGED allVars
    <3>1. UNCHANGED <<part, os, dev, pc, data, pos, cur, saved, cextra, result, rpos, rifs, reps>>
      BY <2>3 DEF allVars, vars, fetchVars, parseVars, readVars
    <3>2. CfgInv' = CfgInv
      BY <3>1 DEF CfgInv, ConfigTypes, FetchInv, ParseInv, Fetched, Received, TotalLength, Answer,
         Word, AllAlts, Alts
    <3>3. ReadInv' = ReadInv
      BY <3>1 DEF ReadInv, Honest, ListedSoFar, Flattened, Buf, Answer, TotalLength, Word,
         ListedAlts, InterfaceNumber
    <3>4. QED
      BY <3>1, <3>2, <3>3 DEF ConfigInv
  <2>4. QED
    BY <2>1, <2>2, <2>3 DEF MCNext
<1>3. QED
  BY <1>1, <1>2, PTL DEF MCSpec

\* Whatever a device sends: fields come from their own descriptor, no descriptor is
\* lost or doubled, lookups find what is there, and Unmarshal and
\* ReadConfigDescriptor list the same on the three systems.
THEOREM ConfigIsRead == MCSpec => []ConfigRead
<1>1. ConfigInv => ConfigRead
  BY ConfigTypeOK, ConfigFields, ConfigNothingLost, ConfigLookups, ConfigAgree DEF ConfigInv, ConfigRead
<1>2. QED
  BY <1>1, ConfigInvHolds, PTL

\* On Windows a transfer goes to the interface, and an interrupt report to the
\* collection, of its endpoint: endpointInterface and mapEndpoints, for any
\* configuration and any list of collections.
THEOREM EndpointsAreRouted == MCSpec => []EndpointsRouted
<1>1. ConfigInv => EndpointsRouted
  BY EndpointRouted, HidRouted DEF ConfigInv, EndpointsRouted
<1>2. QED
  BY <1>1, ConfigInvHolds, PTL
=============================================================================
