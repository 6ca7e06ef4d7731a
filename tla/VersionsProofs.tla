--------------------------- MODULE VersionsProofs ---------------------------
(***************************************************************************)
(* Proofs about versions and constraints, for any segments whose two       *)
(* orders, by value and by bytes, have no cycle together                   *)
(* (OrderIsTransitive), and for versions and lists of any length.          *)
(*                                                                         *)
(* The comparison is then a total preorder with a least version, <<Zero>>, *)
(* and with a next version above each; the scans of version.go keep bounds *)
(* that mean what the constraints read so far mean, and the versions       *)
(* between two bounds determine how the bounds are rendered.               *)
(***************************************************************************)
EXTENDS Versions, SequenceTheorems, FiniteSetTheorems, WellFoundedInduction, TLAPS

\* A nonempty set of positions has a first one.
LEMMA FirstOfSome ==
  ASSUME NEW T \in SUBSET Nat, T # {}
  PROVE  \E x \in T : \A y \in T : x <= y
<1>1. PICK x \in T : \A y \in T : <<y, x>> \notin OpToRel(<, Nat)
  BY NatLessThanWellFounded, WFMin, Zenon
<1>2. \A y \in T : ~(y < x)
  BY <1>1, Zenon DEF OpToRel
<1> QED BY <1>2

-----------------------------------------------------------------------------
(* One position.                                                           *)

\* What the comparison of one position is, with the padding of the shorter
\* version below every segment.
LEMMA SegmentOrderIs ==
  ASSUME NEW v \in Seq(Segment), NEW w \in Seq(Segment), NEW k \in Nat
  PROVE  /\ k \in DOMAIN v /\ k \in DOMAIN w => SegmentOrder(v, w, k) = Order(v[k], w[k])
         /\ k \in DOMAIN v /\ k \notin DOMAIN w => SegmentOrder(v, w, k) = 1
         /\ k \notin DOMAIN v /\ k \in DOMAIN w => SegmentOrder(v, w, k) = -1
         /\ k \notin DOMAIN v /\ k \notin DOMAIN w => SegmentOrder(v, w, k) = 0
<1>1. /\ k \in DOMAIN v => v[k] \in Segment /\ Lex[v[k]] \in Nat \ {0}
      /\ k \in DOMAIN w => w[k] \in Segment /\ Lex[w[k]] \in Nat \ {0}
  BY SegmentsAssumption, LenProperties
<1> QED BY <1>1 DEF SegmentOrder, Order, Sign

\* The order of two segments is -1, 0 or 1, the other way round the negative,
\* and 0 only between spellings of one segment.
LEMMA OrderIsSign ==
  ASSUME NEW s \in Segment, NEW t \in Segment
  PROVE  /\ Order(s, t) \in {-1, 0, 1} /\ Order(t, s) = - Order(s, t) /\ Order(s, s) = 0
         /\ Order(s, t) = 0 => Trimmed[s] = Trimmed[t]
<1>1. /\ Lex[s] \in Nat /\ Lex[t] \in Nat
      /\ Numeric(s) => Value[s] \in Nat
      /\ Numeric(t) => Value[t] \in Nat
  BY SegmentsAssumption DEF Numeric
<1>2. Order(s, t) = 0 => (Numeric(s) /\ Value[s] = Value[t]) \/ s = t
  BY <1>1, SegmentsAssumption DEF Order, Sign
<1> QED BY <1>1, <1>2, TrimmingAssumption DEF Order, Sign

\* The order of two positions is a sign, antisymmetric,
LEMMA SegmentOrderIsSign ==
  ASSUME NEW v \in Seq(Segment), NEW w \in Seq(Segment), NEW k \in Nat
  PROVE  /\ SegmentOrder(v, w, k) \in {-1, 0, 1}
         /\ SegmentOrder(w, v, k) = - SegmentOrder(v, w, k)
<1>1. /\ k \in DOMAIN v => v[k] \in Segment
      /\ k \in DOMAIN w => w[k] \in Segment
  BY LenProperties
<1>2. CASE k \in DOMAIN v /\ k \in DOMAIN w
  BY <1>1, <1>2, SegmentOrderIs, OrderIsSign
<1>3. CASE ~(k \in DOMAIN v /\ k \in DOMAIN w)
  BY <1>3, SegmentOrderIs
<1> QED BY <1>2, <1>3

\* and transitive if the order of the segments is.
LEMMA SegmentOrderTransitive ==
  ASSUME OrderIsTransitive, NEW u \in Seq(Segment), NEW v \in Seq(Segment),
         NEW w \in Seq(Segment), NEW k \in Nat,
         SegmentOrder(u, v, k) <= 0, SegmentOrder(v, w, k) <= 0
  PROVE  /\ SegmentOrder(u, w, k) <= 0
         /\ SegmentOrder(u, w, k) = 0 => SegmentOrder(u, v, k) = 0 /\ SegmentOrder(v, w, k) = 0
<1>1. /\ k \in DOMAIN u => u[k] \in Segment
      /\ k \in DOMAIN v => v[k] \in Segment
      /\ k \in DOMAIN w => w[k] \in Segment
  BY LenProperties
<1>2. CASE k \in DOMAIN u /\ k \in DOMAIN v /\ k \in DOMAIN w
  <2>1. /\ SegmentOrder(u, v, k) = Order(u[k], v[k]) /\ SegmentOrder(v, w, k) = Order(v[k], w[k])
        /\ SegmentOrder(u, w, k) = Order(u[k], w[k])
    BY <1>2, SegmentOrderIs
  <2>2. Order(u[k], w[k]) <= 0
    BY <1>1, <1>2, <2>1 DEF OrderIsTransitive
  <2>3. ASSUME Order(u[k], w[k]) = 0 PROVE Order(u[k], v[k]) = 0 /\ Order(v[k], w[k]) = 0
    <3>1. /\ Order(w[k], u[k]) <= 0
          /\ Order(u[k], v[k]) \in {-1, 0, 1} /\ Order(v[k], u[k]) = - Order(u[k], v[k])
          /\ Order(v[k], w[k]) \in {-1, 0, 1} /\ Order(w[k], v[k]) = - Order(v[k], w[k])
      BY <1>1, <1>2, <2>3, OrderIsSign
    <3>2. Order(v[k], u[k]) <= 0 /\ Order(w[k], v[k]) <= 0
      BY <1>1, <1>2, <2>1, <3>1 DEF OrderIsTransitive
    <3> QED BY <3>1, <3>2, <2>1
  <2> QED BY <2>1, <2>2, <2>3
<1>3. CASE ~(k \in DOMAIN u /\ k \in DOMAIN v /\ k \in DOMAIN w)
  <2>1. k \in DOMAIN u => k \in DOMAIN v
    BY SegmentOrderIs
  <2>2. k \in DOMAIN v => k \in DOMAIN w
    BY SegmentOrderIs
  <2> QED BY <1>3, <2>1, <2>2, SegmentOrderIs
<1> QED BY <1>2, <1>3

-----------------------------------------------------------------------------
(* Whole versions.                                                         *)

Position == Nat \ {0}

\* Versions compare equal when every position does; otherwise the first
\* position that does not decides.
LEMMA CompareIs ==
  ASSUME NEW v \in Seq(Segment), NEW w \in Seq(Segment)
  PROVE  \/ /\ CompareVersions(v, w) = 0
            /\ \A k \in Position : SegmentOrder(v, w, k) = 0
         \/ \E k \in Position :
              /\ CompareVersions(v, w) = SegmentOrder(v, w, k) /\ SegmentOrder(v, w, k) # 0
              /\ \A j \in Position : j < k => SegmentOrder(v, w, j) = 0
<1> DEFINE differ == {k \in DOMAIN v \cup DOMAIN w : SegmentOrder(v, w, k) # 0}
           first == CHOOSE k \in differ : \A j \in differ : k <= j
<1>1. DOMAIN v \subseteq Position /\ DOMAIN w \subseteq Position
  BY LenProperties DEF Position
<1>2. \A k \in Position : SegmentOrder(v, w, k) # 0 => k \in differ
  BY SegmentOrderIs DEF Position
<1>3. CASE differ = {}
  BY <1>2, <1>3 DEF CompareVersions
<1>4. CASE differ # {}
  <2>1. differ \in SUBSET Nat
    BY <1>1 DEF Position
  <2>2. \E k \in differ : \A j \in differ : k <= j
    BY <1>4, <2>1, FirstOfSome
  <2>3. first \in differ /\ \A j \in differ : first <= j
    BY <2>2
  <2>4. CompareVersions(v, w) = SegmentOrder(v, w, first)
    BY <1>4 DEF CompareVersions
  <2>5. first \in Position /\ SegmentOrder(v, w, first) # 0
    BY <1>1, <2>3
  <2>6. ASSUME NEW j \in Position, j < first PROVE SegmentOrder(v, w, j) = 0
    BY <1>2, <2>3, <2>5, <2>6 DEF Position
  <2> HIDE DEF first
  <2> QED BY <2>4, <2>5, <2>6
<1> QED BY <1>3, <1>4

\* The first position that differs is the one found.
LEMMA FirstDecides ==
  ASSUME NEW v \in Seq(Segment), NEW w \in Seq(Segment), NEW k \in Position,
         \A j \in Position : j < k => SegmentOrder(v, w, j) = 0,
         SegmentOrder(v, w, k) # 0
  PROVE  CompareVersions(v, w) = SegmentOrder(v, w, k)
<1>1. PICK m \in Position :
        /\ CompareVersions(v, w) = SegmentOrder(v, w, m) /\ SegmentOrder(v, w, m) # 0
        /\ \A j \in Position : j < m => SegmentOrder(v, w, j) = 0
  BY CompareIs
<1>2. m = k
  BY <1>1 DEF Position
<1> QED BY <1>1, <1>2

\* The comparison is a sign, and antisymmetric.
LEMMA CompareIsSign ==
  ASSUME NEW v \in Seq(Segment), NEW w \in Seq(Segment)
  PROVE  /\ CompareVersions(v, w) \in {-1, 0, 1}
         /\ CompareVersions(w, v) = - CompareVersions(v, w)
<1>1. \A k \in Position : /\ SegmentOrder(v, w, k) \in {-1, 0, 1}
                          /\ SegmentOrder(w, v, k) = - SegmentOrder(v, w, k)
  BY SegmentOrderIsSign DEF Position
<1>2. CASE \A k \in Position : SegmentOrder(v, w, k) = 0
  <2>1. \A k \in Position : SegmentOrder(w, v, k) = 0
    BY <1>1, <1>2
  <2>2. CompareVersions(v, w) = 0 /\ CompareVersions(w, v) = 0
    BY <1>2, <2>1, CompareIs
  <2>3. /\ CompareVersions(v, w) \in {-1, 0, 1} /\ CompareVersions(w, v) \in Int
        /\ CompareVersions(v, w) + CompareVersions(w, v) = 0
    BY <2>2
  <2> QED BY <2>3
<1>3. CASE ~\A k \in Position : SegmentOrder(v, w, k) = 0
  <2>1. PICK k \in Position :
          /\ CompareVersions(v, w) = SegmentOrder(v, w, k) /\ SegmentOrder(v, w, k) # 0
          /\ \A j \in Position : j < k => SegmentOrder(v, w, j) = 0
    BY <1>3, CompareIs
  <2>2. SegmentOrder(w, v, k) # 0 /\ \A j \in Position : j < k => SegmentOrder(w, v, j) = 0
    BY <1>1, <2>1
  <2>3. CompareVersions(w, v) = SegmentOrder(w, v, k)
    BY <2>2, FirstDecides
  <2> QED BY <1>1, <2>1, <2>3
<1> QED BY <1>2, <1>3

\* Up to and including the first position that differs, nothing is greater.
LEMMA NotGreaterUpTo ==
  ASSUME NEW v \in Seq(Segment), NEW w \in Seq(Segment), NEW k \in Position,
         CompareVersions(v, w) <= 0, \A j \in Position : j < k => SegmentOrder(v, w, j) = 0
  PROVE  SegmentOrder(v, w, k) <= 0
<1>1. SegmentOrder(v, w, k) \in {-1, 0, 1}
  BY SegmentOrderIsSign DEF Position
<1> QED BY <1>1, FirstDecides

\* The comparison is transitive; equal ends leave nothing between them.
LEMMA CompareTransitive ==
  ASSUME OrderIsTransitive, NEW u \in Seq(Segment), NEW v \in Seq(Segment),
         NEW w \in Seq(Segment), CompareVersions(u, v) <= 0, CompareVersions(v, w) <= 0
  PROVE  /\ CompareVersions(u, w) <= 0
         /\ CompareVersions(u, w) = 0 => CompareVersions(u, v) = 0 /\ CompareVersions(v, w) = 0
<1> DEFINE D == {k \in Position : SegmentOrder(u, v, k) # 0 \/ SegmentOrder(v, w, k) # 0}
<1>1. CASE D = {}
  <2>1. \A k \in Position : SegmentOrder(u, v, k) = 0 /\ SegmentOrder(v, w, k) = 0
    BY <1>1
  <2>2. \A k \in Position : SegmentOrder(u, w, k) = 0
    <3> SUFFICES ASSUME NEW k \in Position PROVE SegmentOrder(u, w, k) = 0
      OBVIOUS
    <3>1. SegmentOrder(u, w, k) <= 0
      BY <2>1, SegmentOrderTransitive DEF Position
    <3>2. SegmentOrder(v, u, k) = 0 /\ SegmentOrder(w, v, k) = 0
      BY <2>1, SegmentOrderIsSign DEF Position
    <3>3. SegmentOrder(w, u, k) <= 0
      BY <3>2, SegmentOrderTransitive DEF Position
    <3>4. SegmentOrder(w, u, k) = - SegmentOrder(u, w, k) /\ SegmentOrder(u, w, k) \in {-1, 0, 1}
      BY SegmentOrderIsSign DEF Position
    <3> QED BY <3>1, <3>3, <3>4
  <2>3. CompareVersions(u, w) = 0 /\ CompareVersions(u, v) = 0 /\ CompareVersions(v, w) = 0
    BY <2>1, <2>2, CompareIs
  <2> QED BY <2>3
<1>2. CASE D # {}
  <2>1. PICK m \in D : \A j \in D : m <= j
    <3>1. D \in SUBSET Nat
      BY DEF Position
    <3> HIDE DEF D
    <3> QED BY <1>2, <3>1, FirstOfSome
  <2>2. m \in Position /\ \A j \in Position : j < m => SegmentOrder(u, v, j) = 0 /\ SegmentOrder(v, w, j) = 0
    BY <2>1 DEF Position
  <2>3. SegmentOrder(u, v, m) <= 0 /\ SegmentOrder(v, w, m) <= 0
    BY <2>2, NotGreaterUpTo
  <2>4. SegmentOrder(u, w, m) <= 0 /\ SegmentOrder(u, w, m) # 0
    BY <2>1, <2>2, <2>3, SegmentOrderTransitive DEF Position
  <2>5. ASSUME NEW j \in Position, j < m PROVE SegmentOrder(u, w, j) = 0
    <3>1. SegmentOrder(u, v, j) = 0 /\ SegmentOrder(v, w, j) = 0
      BY <2>2, <2>5
    <3>2. SegmentOrder(v, u, j) = 0 /\ SegmentOrder(w, v, j) = 0
      BY <3>1, SegmentOrderIsSign DEF Position
    <3>3. SegmentOrder(u, w, j) <= 0 /\ SegmentOrder(w, u, j) <= 0
      BY <3>1, <3>2, SegmentOrderTransitive DEF Position
    <3>4. SegmentOrder(w, u, j) = - SegmentOrder(u, w, j) /\ SegmentOrder(u, w, j) \in {-1, 0, 1}
      BY SegmentOrderIsSign DEF Position
    <3> QED BY <3>3, <3>4
  <2>6. CompareVersions(u, w) = SegmentOrder(u, w, m)
    BY <2>2, <2>4, <2>5, FirstDecides
  <2> QED BY <2>4, <2>6
<1> QED BY <1>1, <1>2

\* What the scans need of the comparison, for three versions at a time.
LEMMA Preorder ==
  ASSUME OrderIsTransitive, NEW u \in Seq(Segment), NEW v \in Seq(Segment), NEW w \in Seq(Segment)
  PROVE  /\ CompareVersions(u, v) <= 0 /\ CompareVersions(v, w) <= 0 => CompareVersions(u, w) <= 0
         /\ CompareVersions(u, v) < 0 /\ CompareVersions(v, w) <= 0 => CompareVersions(u, w) < 0
         /\ CompareVersions(u, v) <= 0 /\ CompareVersions(v, w) < 0 => CompareVersions(u, w) < 0
<1>1. /\ CompareVersions(u, v) \in {-1, 0, 1} /\ CompareVersions(v, w) \in {-1, 0, 1}
      /\ CompareVersions(u, w) \in {-1, 0, 1}
  BY CompareIsSign
<1>2. CompareVersions(u, v) <= 0 /\ CompareVersions(v, w) <= 0 =>
        /\ CompareVersions(u, w) <= 0
        /\ CompareVersions(u, w) = 0 => CompareVersions(u, v) = 0 /\ CompareVersions(v, w) = 0
  BY CompareTransitive
<1> QED BY <1>1, <1>2

\* Versions that compare equal are interchangeable.
LEMMA EqualCompareAlike ==
  ASSUME OrderIsTransitive, NEW u \in Seq(Segment), NEW v \in Seq(Segment), NEW w \in Seq(Segment),
         CompareVersions(v, w) = 0
  PROVE  CompareVersions(u, v) = CompareVersions(u, w) /\ CompareVersions(v, u) = CompareVersions(w, u)
<1>1. /\ CompareVersions(u, v) \in {-1, 0, 1} /\ CompareVersions(u, w) \in {-1, 0, 1}
      /\ CompareVersions(v, u) = - CompareVersions(u, v)
      /\ CompareVersions(w, u) = - CompareVersions(u, w)
      /\ CompareVersions(w, v) = 0
  BY CompareIsSign
<1>2. CompareVersions(u, v) <= 0 <=> CompareVersions(u, w) <= 0
  BY <1>1, Preorder
<1>3. CompareVersions(u, v) < 0 <=> CompareVersions(u, w) < 0
  BY <1>1, Preorder
<1> QED BY <1>1, <1>2, <1>3

\* 0 is the least version: the floor of the grammar.
LEMMA ZeroIsLeast ==
  ASSUME NEW v, IsVersion(v)
  PROVE  <<Zero>> \in Seq(Segment) /\ CompareVersions(v, <<Zero>>) >= 0
<1> DEFINE z == <<Zero>>
<1>1. /\ v \in Seq(Segment) /\ v # <<>> /\ Numeric(v[1]) /\ z \in Seq(Segment)
      /\ Len(v) \in Nat \ {0} /\ DOMAIN v = 1..Len(v) /\ v[1] \in Segment
  BY SegmentsAssumption, EmptySeq, LenProperties DEF IsVersion
<1>2. DOMAIN z = {1} /\ z[1] = Zero
  OBVIOUS
<1>3. \A k \in Position : SegmentOrder(v, z, k) >= 0
  <2> SUFFICES ASSUME NEW k \in Position PROVE SegmentOrder(v, z, k) >= 0
    OBVIOUS
  <2>1. CASE k = 1
    <3>1. SegmentOrder(v, z, 1) = Order(v[1], Zero)
      <4>1. 1 \in DOMAIN v /\ 1 \in DOMAIN z /\ 1 \in Nat
        BY <1>1, <1>2
      <4> HIDE DEF z
      <4> QED BY <1>1, <1>2, <4>1, SegmentOrderIs
    <3>2. Value[v[1]] \in Nat /\ Value[Zero] = 0 /\ Numeric(Zero)
      BY <1>1, SegmentsAssumption DEF Numeric
    <3> QED BY <1>1, <2>1, <3>1, <3>2 DEF Order, Sign
  <2>2. CASE k # 1
    <3>1. k \notin DOMAIN z /\ k \in Nat
      BY <1>2, <2>2 DEF Position
    <3> HIDE DEF z
    <3> QED BY <1>1, <3>1, SegmentOrderIs
  <2> QED BY <2>1, <2>2
<1> HIDE DEF z
<1>4. CompareVersions(v, z) >= 0
  BY <1>1, <1>3, CompareIs
<1> QED BY <1>1, <1>4 DEF z

-----------------------------------------------------------------------------
(* The next version, the canonical one, and the constraint they stand in.  *)

\* A version with one more segment, the least one.
LEMMA NextVersionIs ==
  ASSUME NEW v \in Seq(Segment)
  PROVE  LET n == NextVersion(v) IN
         /\ n \in Seq(Segment) /\ Len(v) \in Nat /\ DOMAIN v = 1..Len(v) /\ DOMAIN n = 1..(Len(v) + 1)
         /\ n[Len(v) + 1] = Dash /\ \A k \in 1..Len(v) : n[k] = v[k]
BY SegmentsAssumption, AppendProperties, LenProperties DEF NextVersion

\* No segment is below the least one.
LEMMA AtLeastDash ==
  ASSUME NEW s \in Segment PROVE Order(s, Dash) >= 0
BY SegmentsAssumption DEF Order, Sign, Numeric

\* Whatever is above v is not below the next version of v.
LEMMA NextVersionIsNext ==
  ASSUME NEW v \in Seq(Segment), NEW w \in Seq(Segment), CompareVersions(w, v) > 0
  PROVE  CompareVersions(w, NextVersion(v)) >= 0
<1> DEFINE n == NextVersion(v)
           L == Len(v)
<1>1. /\ n \in Seq(Segment) /\ L \in Nat /\ DOMAIN v = 1..L /\ DOMAIN n = 1..(L + 1)
      /\ n[L + 1] = Dash /\ \A k \in 1..L : n[k] = v[k]
  BY NextVersionIs
<1>2. /\ Len(w) \in Nat /\ DOMAIN w = 1..Len(w) /\ \A k \in DOMAIN w : w[k] \in Segment
      /\ \A k \in 1..L : v[k] \in Segment
  BY <1>1, LenProperties
<1> HIDE DEF n, L
<1>3. \A k \in 1..L : SegmentOrder(w, n, k) = SegmentOrder(w, v, k)
  <2> SUFFICES ASSUME NEW k \in 1..L PROVE SegmentOrder(w, n, k) = SegmentOrder(w, v, k)
    OBVIOUS
  <2>1. k \in Nat /\ k \in DOMAIN v /\ k \in DOMAIN n /\ n[k] = v[k]
    BY <1>1
  <2> QED BY <1>1, <2>1, SegmentOrderIs, SMTT(40)
<1>4. PICK m \in Position :
        /\ SegmentOrder(w, v, m) > 0
        /\ \A j \in Position : j < m => SegmentOrder(w, v, j) = 0
  BY CompareIs
<1>5. CASE m <= L
  <2>1. \A j \in Position : j < m => SegmentOrder(w, n, j) = 0
    BY <1>1, <1>3, <1>4, <1>5 DEF Position
  <2>2. SegmentOrder(w, n, m) = SegmentOrder(w, v, m)
    BY <1>1, <1>3, <1>5 DEF Position
  <2>3. SegmentOrder(w, v, m) \in {-1, 0, 1}
    BY SegmentOrderIsSign DEF Position
  <2>4. CompareVersions(w, n) = SegmentOrder(w, n, m)
    BY <1>1, <1>4, <2>1, <2>2, <2>3, FirstDecides
  <2> QED BY <1>4, <2>2, <2>3, <2>4 DEF n
<1>6. CASE m > L
  <2>1. L + 1 \in DOMAIN w /\ L + 1 \in Nat
    <3>1. m \notin DOMAIN v /\ m \in Nat
      BY <1>1, <1>6 DEF Position
    <3>2. m \in DOMAIN w
      BY <1>4, <3>1, SegmentOrderIs
    <3> QED BY <1>1, <1>2, <1>6, <3>1, <3>2
  <2>2. \A k \in Position : SegmentOrder(w, n, k) >= 0
    <3> SUFFICES ASSUME NEW k \in Position PROVE SegmentOrder(w, n, k) >= 0
      OBVIOUS
    <3>1. CASE k <= L
      BY <1>1, <1>3, <1>4, <1>6, <3>1 DEF Position
    <3>2. CASE k = L + 1
      <4>1. k \in DOMAIN n /\ n[k] = Dash /\ k \in DOMAIN w /\ k \in Nat
        BY <1>1, <2>1, <3>2
      <4>2. SegmentOrder(w, n, k) = Order(w[k], Dash)
        BY <1>1, <4>1, SegmentOrderIs
      <4> QED BY <1>2, <4>1, <4>2, AtLeastDash
    <3>3. CASE k > L + 1
      <4>1. k \notin DOMAIN n /\ k \in Nat
        BY <1>1, <3>3 DEF Position
      <4> QED BY <1>1, <4>1, SegmentOrderIs
    <3> QED BY <1>1, <3>1, <3>2, <3>3 DEF Position
  <2>3. CompareVersions(w, n) >= 0
    BY <1>1, <2>2, CompareIs
  <2> QED BY <2>3 DEF n
<1> QED BY <1>1, <1>5, <1>6 DEF Position

\* The next version is above the one it is next to,
LEMMA NextVersionIsAbove ==
  ASSUME NEW v \in Seq(Segment)
  PROVE  CompareVersions(NextVersion(v), v) > 0
<1> DEFINE n == NextVersion(v)
           L == Len(v)
<1>1. /\ n \in Seq(Segment) /\ L \in Nat /\ DOMAIN v = 1..L /\ DOMAIN n = 1..(L + 1)
      /\ \A k \in 1..L : n[k] = v[k]
  BY NextVersionIs
<1>2. \A k \in 1..L : v[k] \in Segment
  BY <1>1, LenProperties
<1> HIDE DEF n, L
<1>3. \A k \in Position : k < L + 1 => SegmentOrder(n, v, k) = 0
  <2> SUFFICES ASSUME NEW k \in Position, k < L + 1 PROVE SegmentOrder(n, v, k) = 0
    OBVIOUS
  <2>1. k \in Nat /\ k \in 1..L /\ k \in DOMAIN n /\ k \in DOMAIN v
    BY <1>1 DEF Position
  <2> QED BY <1>1, <1>2, <2>1, SegmentOrderIs, OrderIsSign
<1>4. SegmentOrder(n, v, L + 1) = 1
  <2>1. L + 1 \in Nat /\ L + 1 \in DOMAIN n /\ L + 1 \notin DOMAIN v
    BY <1>1
  <2> QED BY <1>1, <2>1, SegmentOrderIs
<1>5. L + 1 \in Position
  BY <1>1 DEF Position
<1>6. CompareVersions(n, v) = 1
  BY <1>1, <1>3, <1>4, <1>5, FirstDecides
<1> QED BY <1>6 DEF n

\* so being above v is being at least the next version of v.
LEMMA AboveIsFromNext ==
  ASSUME OrderIsTransitive, NEW v \in Seq(Segment), NEW w \in Seq(Segment)
  PROVE  CompareVersions(w, v) > 0 <=> CompareVersions(w, NextVersion(v)) >= 0
<1> DEFINE n == NextVersion(v)
<1>1. n \in Seq(Segment) /\ CompareVersions(n, v) > 0
  BY NextVersionIs, NextVersionIsAbove
<1>2. CompareVersions(w, v) > 0 => CompareVersions(w, n) >= 0
  BY NextVersionIsNext
<1> HIDE DEF n
<1>3. /\ CompareVersions(v, n) = - CompareVersions(n, v) /\ CompareVersions(n, v) \in {-1, 0, 1}
      /\ CompareVersions(n, w) = - CompareVersions(w, n) /\ CompareVersions(w, n) \in {-1, 0, 1}
      /\ CompareVersions(v, w) = - CompareVersions(w, v) /\ CompareVersions(w, v) \in {-1, 0, 1}
  BY <1>1, CompareIsSign
<1>4. CompareVersions(w, n) >= 0 => CompareVersions(w, v) > 0
  BY <1>1, <1>3, Preorder
<1> QED BY <1>2, <1>4 DEF n

\* The next version of a version is one, and one that ends in the least
\* segment is a next version.
LEMMA NextVersionIsVersion ==
  ASSUME NEW v, IsVersion(v)
  PROVE  /\ IsVersion(NextVersion(v))
         /\ v[Len(v)] = Dash => LET y == SubSeq(v, 1, Len(v) - 1)
                                IN IsVersion(y) /\ NextVersion(y) = v
<1> DEFINE n == NextVersion(v)
           L == Len(v)
           y == SubSeq(v, 1, L - 1)
<1>1. v \in Seq(Segment) /\ L \in Nat \ {0} /\ Numeric(v[1]) /\ \A k \in 1..L : v[k] \in Segment
  BY EmptySeq, LenProperties DEF IsVersion
<1>2. IsVersion(n)
  <2>1. n \in Seq(Segment) /\ n # <<>>
    BY <1>1, SegmentsAssumption, AppendProperties DEF NextVersion
  <2>2. n[1] = v[1]
    BY <1>1, NextVersionIs
  <2> HIDE DEF n
  <2> QED BY <1>1, <2>1, <2>2 DEF IsVersion
<1>3. ASSUME v[L] = Dash PROVE IsVersion(y) /\ NextVersion(y) = v
  <2>1. L > 1
    BY <1>1, <1>3, SegmentsAssumption
  <2>2. y \in Seq(Segment) /\ Len(y) = L - 1 /\ y[1] = v[1]
    <3>1. 1 \in Int /\ L - 1 \in Int /\ \A k \in 1..(L - 1) : v[k] \in Segment
      BY <1>1
    <3>2. /\ y \in Seq(Segment) /\ Len(y) = IF 1 <= L - 1 THEN L - 1 - 1 + 1 ELSE 0
          /\ \A k \in 1 .. L - 1 - 1 + 1 : y[k] = v[1 + k - 1]
      BY <3>1, SubSeqProperties
    <3> HIDE DEF y
    <3> QED BY <1>1, <2>1, <3>2
  <2>3. v = y \o <<v[L]>>
    <3>1. 1 \in 1..L /\ L \in 1..L /\ SubSeq(v, 1, L) = v
      BY <1>1, SubSeqFull
    <3>2. SubSeq(v, 1, L) = SubSeq(v, 1, L - 1) \o <<v[L]>>
      BY <1>1, <3>1, SubSeqRecursiveSecond
    <3> QED BY <3>1, <3>2
  <2> HIDE DEF y, L
  <2>4. y # <<>>
    BY <2>1, <2>2, EmptySeq, <1>1
  <2>5. NextVersion(y) = y \o <<Dash>>
    BY <2>2, SegmentsAssumption, AppendIsConcat DEF NextVersion
  <2> QED BY <1>1, <1>3, <2>2, <2>3, <2>4, <2>5 DEF IsVersion
<1> QED BY <1>2, <1>3

\* The canonical spelling of a version is one, and compares equal.
LEMMA CanonicalIsEqual ==
  ASSUME NEW v, IsVersion(v)
  PROVE  IsVersion(CanonicalVersion(v)) /\ CompareVersions(v, CanonicalVersion(v)) = 0
<1> DEFINE c == CanonicalVersion(v)
<1>1. /\ v \in Seq(Segment) /\ Len(v) \in Nat \ {0} /\ DOMAIN v = 1..Len(v) /\ Numeric(v[1])
      /\ \A k \in 1..Len(v) : v[k] \in Segment
  BY EmptySeq, LenProperties DEF IsVersion
<1>2. c \in [1..Len(v) -> Segment] /\ \A k \in 1..Len(v) : c[k] = Trimmed[v[k]]
  BY <1>1, TrimmingAssumption DEF CanonicalVersion
<1> HIDE DEF c
<1>3. c \in Seq(Segment) /\ Len(c) = Len(v) /\ DOMAIN c = 1..Len(v)
  <2>1. c \in Seq(Segment)
    BY <1>1, <1>2, SeqDef
  <2> QED BY <1>1, <1>2, <2>1, LenProperties
<1>4. IsVersion(c)
  <2>1. c # <<>>
    BY <1>1, <1>3, EmptySeq
  <2>2. Numeric(c[1])
    BY <1>1, <1>2, TrimmingAssumption DEF Numeric
  <2> QED BY <1>3, <2>1, <2>2 DEF IsVersion
<1>5. \A k \in Position : SegmentOrder(v, c, k) = 0
  <2> SUFFICES ASSUME NEW k \in Position PROVE SegmentOrder(v, c, k) = 0
    OBVIOUS
  <2>1. CASE k \in 1..Len(v)
    <3>1. SegmentOrder(v, c, k) = Order(v[k], Trimmed[v[k]])
      BY <1>1, <1>2, <1>3, <2>1, SegmentOrderIs
    <3>2. v[k] \in Segment /\ Trimmed[v[k]] \in Segment /\ Value[Trimmed[v[k]]] = Value[v[k]]
      BY <1>1, <2>1, TrimmingAssumption
    <3>3. CASE Numeric(v[k])
      BY <3>1, <3>2, <3>3, SegmentsAssumption DEF Order, Sign, Numeric
    <3>4. CASE ~Numeric(v[k])
      BY <3>1, <3>2, <3>4, TrimmingAssumption, OrderIsSign
    <3> QED BY <3>3, <3>4
  <2>2. CASE k \notin 1..Len(v)
    BY <1>1, <1>3, <2>2, SegmentOrderIs DEF Position
  <2> QED BY <2>1, <2>2
<1>6. CompareVersions(v, c) = 0
  BY <1>1, <1>3, <1>5, CompareIs
<1> QED BY <1>4, <1>6 DEF c

-----------------------------------------------------------------------------
(* Constraints.                                                            *)

\* Versions that compare equal satisfy the same constraints,
LEMMA HoldsAlike ==
  ASSUME OrderIsTransitive, NEW v \in Seq(Segment), NEW w \in Seq(Segment),
         CompareVersions(v, w) = 0, NEW c \in Constraints
  PROVE  ConstraintHolds(v, c) <=> ConstraintHolds(w, c)
<1>1. c.version \in Seq(Segment) /\ c.op \in Op
  BY DEF Constraints
<1>2. CompareVersions(v, c.version) = CompareVersions(w, c.version)
  BY <1>1, EqualCompareAlike
<1> QED BY <1>1, <1>2 DEF ConstraintHolds, Op

\* and constraints whose versions do admit the same versions.
LEMMA AdmitAlike ==
  ASSUME OrderIsTransitive, NEW v \in Seq(Segment), NEW c \in Constraints, NEW d \in Constraints,
         c.op = d.op, CompareVersions(c.version, d.version) = 0
  PROVE  ConstraintHolds(v, c) <=> ConstraintHolds(v, d)
<1>1. c.version \in Seq(Segment) /\ d.version \in Seq(Segment) /\ c.op \in Op
  BY DEF Constraints
<1>2. CompareVersions(v, c.version) = CompareVersions(v, d.version)
  BY <1>1, EqualCompareAlike
<1> QED BY <1>1, <1>2 DEF ConstraintHolds, Op

\* A lower bound that replaces another says at least as much, and one that
\* does not says nothing new.
LEMMA TighterLo ==
  ASSUME OrderIsTransitive, NEW v \in Seq(Segment), NEW c \in Constraints, NEW b \in Constraints,
         c.op \in Lower, b.op \in Lower
  PROVE  /\ TightensLo(c, b) /\ ConstraintHolds(v, c) => ConstraintHolds(v, b)
         /\ ~TightensLo(c, b) /\ ConstraintHolds(v, b) => ConstraintHolds(v, c)
<1> DEFINE x == c.version
           y == b.version
<1>1. x \in Seq(Segment) /\ y \in Seq(Segment)
  BY DEF Constraints
<1>2. /\ TightensLo(c, b) <=> \/ CompareVersions(x, y) > 0
                              \/ CompareVersions(x, y) = 0 /\ c.op = ">" /\ b.op # ">"
      /\ c.op = ">" => (ConstraintHolds(v, c) <=> CompareVersions(v, x) > 0)
      /\ c.op = ">=" => (ConstraintHolds(v, c) <=> CompareVersions(v, x) >= 0)
      /\ b.op = ">" => (ConstraintHolds(v, b) <=> CompareVersions(v, y) > 0)
      /\ b.op = ">=" => (ConstraintHolds(v, b) <=> CompareVersions(v, y) >= 0)
  BY DEF TightensLo, ConstraintHolds
<1> HIDE DEF x, y
<1>3. /\ CompareVersions(x, y) \in {-1, 0, 1} /\ CompareVersions(y, x) = - CompareVersions(x, y)
      /\ CompareVersions(v, x) \in {-1, 0, 1} /\ CompareVersions(x, v) = - CompareVersions(v, x)
      /\ CompareVersions(v, y) \in {-1, 0, 1} /\ CompareVersions(y, v) = - CompareVersions(v, y)
  BY <1>1, CompareIsSign
<1>4. /\ CompareVersions(y, x) <= 0 /\ CompareVersions(x, v) <= 0 => CompareVersions(y, v) <= 0
      /\ CompareVersions(y, x) < 0 /\ CompareVersions(x, v) <= 0 => CompareVersions(y, v) < 0
      /\ CompareVersions(y, x) <= 0 /\ CompareVersions(x, v) < 0 => CompareVersions(y, v) < 0
      /\ CompareVersions(x, y) <= 0 /\ CompareVersions(y, v) <= 0 => CompareVersions(x, v) <= 0
      /\ CompareVersions(x, y) < 0 /\ CompareVersions(y, v) <= 0 => CompareVersions(x, v) < 0
      /\ CompareVersions(x, y) <= 0 /\ CompareVersions(y, v) < 0 => CompareVersions(x, v) < 0
  BY <1>1, Preorder
<1> QED BY <1>2, <1>3, <1>4 DEF Lower

\* The same of upper bounds.
LEMMA TighterHi ==
  ASSUME OrderIsTransitive, NEW v \in Seq(Segment), NEW c \in Constraints, NEW b \in Constraints,
         c.op \in Upper, b.op \in Upper
  PROVE  /\ TightensHi(c, b) /\ ConstraintHolds(v, c) => ConstraintHolds(v, b)
         /\ ~TightensHi(c, b) /\ ConstraintHolds(v, b) => ConstraintHolds(v, c)
<1> DEFINE x == c.version
           y == b.version
<1>1. x \in Seq(Segment) /\ y \in Seq(Segment)
  BY DEF Constraints
<1>2. b # NoBound
  BY EntriesAssumption
<1>3. /\ TightensHi(c, b) <=> \/ CompareVersions(x, y) < 0
                              \/ CompareVersions(x, y) = 0 /\ c.op = "<" /\ b.op # "<"
      /\ c.op = "<" => (ConstraintHolds(v, c) <=> CompareVersions(v, x) < 0)
      /\ c.op = "<=" => (ConstraintHolds(v, c) <=> CompareVersions(v, x) <= 0)
      /\ b.op = "<" => (ConstraintHolds(v, b) <=> CompareVersions(v, y) < 0)
      /\ b.op = "<=" => (ConstraintHolds(v, b) <=> CompareVersions(v, y) <= 0)
  BY <1>2 DEF TightensHi, ConstraintHolds
<1> HIDE DEF x, y
<1>4. /\ CompareVersions(x, y) \in {-1, 0, 1} /\ CompareVersions(y, x) = - CompareVersions(x, y)
      /\ CompareVersions(v, x) \in {-1, 0, 1} /\ CompareVersions(v, y) \in {-1, 0, 1}
  BY <1>1, CompareIsSign
<1>5. /\ CompareVersions(v, x) <= 0 /\ CompareVersions(x, y) <= 0 => CompareVersions(v, y) <= 0
      /\ CompareVersions(v, x) < 0 /\ CompareVersions(x, y) <= 0 => CompareVersions(v, y) < 0
      /\ CompareVersions(v, x) <= 0 /\ CompareVersions(x, y) < 0 => CompareVersions(v, y) < 0
      /\ CompareVersions(v, y) <= 0 /\ CompareVersions(y, x) <= 0 => CompareVersions(v, x) <= 0
      /\ CompareVersions(v, y) < 0 /\ CompareVersions(y, x) <= 0 => CompareVersions(v, x) < 0
      /\ CompareVersions(v, y) <= 0 /\ CompareVersions(y, x) < 0 => CompareVersions(v, x) < 0
  BY <1>1, Preorder
<1> QED BY <1>3, <1>4, <1>5 DEF Upper

\* A normalized bound is a bound of the same side, the lower ones inclusive,
LEMMA NormalizeIs ==
  ASSUME NEW c, IsConstraint(c), c.op # "="
  PROVE  /\ IsConstraint(Normalize(c))
         /\ \/ c.op \in Lower /\ Normalize(c).op = ">="
            \/ c.op \in Upper /\ Normalize(c).op \in Upper
<1>1. IsVersion(c.version) /\ c.op \in Op /\ c \in Constraints
  BY DEF IsConstraint, Constraints
<1>2. CASE c.op = ">"
  <2>1. Normalize(c) = Constraint(">=", NextVersion(c.version))
    BY <1>2 DEF Normalize
  <2>2. IsVersion(NextVersion(c.version))
    BY <1>1, NextVersionIsVersion
  <2> QED BY <1>2, <2>1, <2>2 DEF IsConstraint, Constraints, Constraint, IsVersion, Op, Lower
<1>3. CASE c.op = "<" /\ c.version[Len(c.version)] = Dash
  <2> DEFINE y == SubSeq(c.version, 1, Len(c.version) - 1)
  <2>1. Normalize(c) = Constraint("<=", y)
    BY <1>3 DEF Normalize
  <2>2. IsVersion(y)
    BY <1>1, <1>3, NextVersionIsVersion
  <2> HIDE DEF y
  <2> QED BY <1>3, <2>1, <2>2 DEF IsConstraint, Constraints, Constraint, IsVersion, Op, Upper
<1>4. CASE c.op # ">" /\ ~(c.op = "<" /\ c.version[Len(c.version)] = Dash)
  BY <1>1, <1>4 DEF Normalize, Op, Lower, Upper
<1> QED BY <1>2, <1>3, <1>4

\* and admits the same versions.
LEMMA NormalizeMeans ==
  ASSUME OrderIsTransitive, NEW v \in Seq(Segment), NEW c, IsConstraint(c), c.op # "="
  PROVE  ConstraintHolds(v, Normalize(c)) <=> ConstraintHolds(v, c)
<1> DEFINE x == c.version
<1>1. IsVersion(x) /\ x \in Seq(Segment)
  BY DEF IsConstraint, IsVersion
<1>2. CASE c.op = ">"
  <2>1. Normalize(c) = Constraint(">=", NextVersion(x))
    BY <1>2 DEF Normalize
  <2> HIDE DEF x
  <2>2. CompareVersions(v, x) > 0 <=> CompareVersions(v, NextVersion(x)) >= 0
    BY <1>1, AboveIsFromNext
  <2> QED BY <1>2, <2>1, <2>2 DEF ConstraintHolds, Constraint, x
<1>3. CASE c.op = "<" /\ x[Len(x)] = Dash
  <2> DEFINE y == SubSeq(x, 1, Len(x) - 1)
  <2>1. Normalize(c) = Constraint("<=", y)
    BY <1>3 DEF Normalize
  <2>2. IsVersion(y) /\ NextVersion(y) = x
    BY <1>1, <1>3, NextVersionIsVersion
  <2> HIDE DEF x, y
  <2>3. y \in Seq(Segment)
    BY <2>2 DEF IsVersion
  <2>4. CompareVersions(v, y) > 0 <=> CompareVersions(v, x) >= 0
    BY <2>2, <2>3, AboveIsFromNext
  <2>5. CompareVersions(v, y) \in {-1, 0, 1} /\ CompareVersions(v, x) \in {-1, 0, 1}
    BY <1>1, <2>3, CompareIsSign
  <2>6. ConstraintHolds(v, c) <=> CompareVersions(v, x) < 0
    BY <1>3 DEF ConstraintHolds, x
  <2>7. ConstraintHolds(v, Normalize(c)) <=> CompareVersions(v, y) <= 0
    BY <2>1 DEF ConstraintHolds, Constraint
  <2> QED BY <2>4, <2>5, <2>6, <2>7
<1>4. CASE c.op # ">" /\ ~(c.op = "<" /\ x[Len(x)] = Dash)
  BY <1>4 DEF Normalize
<1> QED BY <1>2, <1>3, <1>4

\* Nothing lies between inverted bounds,
LEMMA InvertedAdmitNothing ==
  ASSUME OrderIsTransitive, NEW v \in Seq(Segment), NEW b \in Constraints, NEW c \in Constraints,
         b.op \in Lower, c.op \in Upper, Inverted(b, c),
         ConstraintHolds(v, b), ConstraintHolds(v, c)
  PROVE  FALSE
<1> DEFINE x == IF b.op = ">" THEN NextVersion(b.version) ELSE b.version
           y == c.version
<1>1. x \in Seq(Segment) /\ y \in Seq(Segment)
  BY NextVersionIs DEF Constraints
<1>2. CompareVersions(v, x) >= 0
  <2>1. b.version \in Seq(Segment)
    BY DEF Constraints
  <2>2. CASE b.op = ">"
    BY <2>1, <2>2, AboveIsFromNext DEF ConstraintHolds
  <2>3. CASE b.op = ">="
    BY <2>3 DEF ConstraintHolds
  <2> QED BY <2>2, <2>3 DEF Lower
<1>3. /\ CompareVersions(x, y) > 0 \/ (CompareVersions(x, y) = 0 /\ c.op = "<")
      /\ CompareVersions(v, y) <= 0 /\ (c.op = "<" => CompareVersions(v, y) < 0)
  <2>1. CompareVersions(x, y) > 0 \/ (CompareVersions(x, y) = 0 /\ c.op = "<")
    BY DEF Inverted
  <2> HIDE DEF x
  <2>2. CompareVersions(v, y) \in {-1, 0, 1}
    BY <1>1, CompareIsSign
  <2>3. /\ c.op = "<" => (ConstraintHolds(v, c) <=> CompareVersions(v, y) < 0)
        /\ c.op = "<=" => (ConstraintHolds(v, c) <=> CompareVersions(v, y) <= 0)
    BY DEF ConstraintHolds
  <2> HIDE DEF y
  <2> QED BY <2>1, <2>2, <2>3 DEF Upper
<1> HIDE DEF x, y
<1>4. /\ CompareVersions(v, x) \in {-1, 0, 1} /\ CompareVersions(x, v) = - CompareVersions(v, x)
      /\ CompareVersions(v, y) \in {-1, 0, 1} /\ CompareVersions(x, y) \in {-1, 0, 1}
  BY <1>1, CompareIsSign
<1>5. /\ CompareVersions(x, v) <= 0 /\ CompareVersions(v, y) <= 0 => CompareVersions(x, y) <= 0
      /\ CompareVersions(x, v) <= 0 /\ CompareVersions(v, y) < 0 => CompareVersions(x, y) < 0
  BY <1>1, Preorder
<1> QED BY <1>2, <1>3, <1>4, <1>5

\* and the lower end is between bounds that are not.
LEMMA UprightAdmitTheLowerEnd ==
  ASSUME NEW b \in Constraints, b.op \in Lower
  PROVE  LET x == IF b.op = ">" THEN NextVersion(b.version) ELSE b.version IN
         /\ x \in Seq(Segment) /\ ConstraintHolds(x, b)
         /\ \A c \in Constraints : c.op \in Upper /\ ~Inverted(b, c) => ConstraintHolds(x, c)
<1> DEFINE x == IF b.op = ">" THEN NextVersion(b.version) ELSE b.version
<1>1. b.version \in Seq(Segment) /\ x \in Seq(Segment)
  BY NextVersionIs DEF Constraints
<1>2. ConstraintHolds(x, b)
  <2>1. CASE b.op = ">"
    BY <1>1, <2>1, NextVersionIsAbove DEF ConstraintHolds
  <2>2. CASE b.op = ">="
    <3>1. CompareVersions(b.version, b.version) \in {-1, 0, 1}
          /\ CompareVersions(b.version, b.version) = - CompareVersions(b.version, b.version)
      BY <1>1, CompareIsSign
    <3> QED BY <2>2, <3>1 DEF ConstraintHolds
  <2> QED BY <2>1, <2>2 DEF Lower
<1>3. ASSUME NEW c \in Constraints, c.op \in Upper, ~Inverted(b, c)
      PROVE  ConstraintHolds(x, c)
  <2>1. ~(CompareVersions(x, c.version) > 0 \/ (CompareVersions(x, c.version) = 0 /\ c.op = "<"))
    BY <1>3 DEF Inverted
  <2>2. c.version \in Seq(Segment)
    BY DEF Constraints
  <2> HIDE DEF x
  <2>3. CompareVersions(x, c.version) \in {-1, 0, 1}
    BY <1>1, <2>2, CompareIsSign
  <2>4. /\ c.op = "<" => (ConstraintHolds(x, c) <=> CompareVersions(x, c.version) < 0)
        /\ c.op = "<=" => (ConstraintHolds(x, c) <=> CompareVersions(x, c.version) <= 0)
    BY DEF ConstraintHolds
  <2> QED BY <1>3, <2>1, <2>3, <2>4 DEF Upper
<1> QED BY <1>1, <1>2, <1>3

\* What is rendered is made of constraints,
LEMMA RenderedIs ==
  ASSUME NEW b, NEW c, IsBound(b), IsBound(c)
  PROVE  \A d \in Rendered(b, c) : IsConstraint(d)
<1> SUFFICES ASSUME NEW d \in Rendered(b, c) PROVE IsConstraint(d)
  OBVIOUS
<1>1. PICK e : IsConstraint(e) /\ d = Constraint(e.op, CanonicalVersion(e.version))
  <2>1. IsConstraint(b) => IsConstraint(Constraint("=", b.version))
    BY DEF IsConstraint, Constraints, Constraint, Op
  <2> QED BY <2>1 DEF Rendered, IsBound
<1>2. IsVersion(CanonicalVersion(e.version)) /\ e.op \in Op
  BY <1>1, CanonicalIsEqual DEF IsConstraint, Constraints
<1> QED BY <1>1, <1>2 DEF IsConstraint, Constraints, Constraint, IsVersion

\* the canonical spelling of one admits the same versions,
LEMMA CanonicalAdmits ==
  ASSUME OrderIsTransitive, NEW v \in Seq(Segment), NEW e, IsConstraint(e)
  PROVE  ConstraintHolds(v, Constraint(e.op, CanonicalVersion(e.version))) <=> ConstraintHolds(v, e)
<1> DEFINE d == Constraint(e.op, CanonicalVersion(e.version))
<1>1. /\ IsVersion(CanonicalVersion(e.version)) /\ e.op \in Op
      /\ CompareVersions(e.version, CanonicalVersion(e.version)) = 0 /\ e \in Constraints
  BY CanonicalIsEqual DEF IsConstraint, Constraints
<1>2. d \in Constraints /\ d.op = e.op /\ d.version = CanonicalVersion(e.version)
  BY <1>1 DEF Constraints, Constraint, IsVersion
<1> HIDE DEF d
<1>3. ConstraintHolds(v, e) <=> ConstraintHolds(v, d)
  BY <1>1, <1>2, AdmitAlike
<1> QED BY <1>3 DEF d

\* and together they admit what the bounds admit; nothing is rendered only of
\* no bounds.
LEMMA RenderedMeans ==
  ASSUME OrderIsTransitive, NEW v \in Seq(Segment), NEW b, NEW c, IsBound(b), IsBound(c)
  PROVE  /\ Rendered(b, c) = {} <=> b = NoBound /\ c = NoBound
         /\ (\A d \in Rendered(b, c) : ConstraintHolds(v, d)) <=> Within(v, b) /\ Within(v, c)
<1> DEFINE meet == /\ b # NoBound /\ c # NoBound /\ b.op = ">=" /\ c.op = "<="
                   /\ CompareVersions(b.version, c.version) = 0
           canon(e) == Constraint(e.op, CanonicalVersion(e.version))
<1>1. CASE meet
  <2> DEFINE p == Constraint("=", b.version)
  <2>1. Rendered(b, c) = {canon(p)}
    BY <1>1 DEF Rendered
  <2>2. /\ b.version \in Seq(Segment) /\ c.version \in Seq(Segment) /\ IsConstraint(p)
        /\ p.op = "=" /\ p.version = b.version
    BY <1>1 DEF IsBound, IsConstraint, IsVersion, Constraints, Constraint, Op
  <2>3. CompareVersions(v, b.version) = CompareVersions(v, c.version)
    BY <1>1, <2>2, EqualCompareAlike
  <2>4. CompareVersions(v, b.version) \in {-1, 0, 1}
    BY <2>2, CompareIsSign
  <2>5. /\ Within(v, b) <=> CompareVersions(v, b.version) >= 0
        /\ Within(v, c) <=> CompareVersions(v, c.version) <= 0
    BY <1>1 DEF Within, ConstraintHolds
  <2>6. ConstraintHolds(v, p) <=> CompareVersions(v, b.version) = 0
    BY <2>2 DEF ConstraintHolds
  <2> HIDE DEF p
  <2>7. ConstraintHolds(v, canon(p)) <=> ConstraintHolds(v, p)
    BY <2>2, CanonicalAdmits
  <2>8. (\A d \in Rendered(b, c) : ConstraintHolds(v, d)) <=> ConstraintHolds(v, canon(p))
    BY <2>1
  <2>9. Rendered(b, c) # {} /\ b # NoBound
    BY <1>1, <2>1
  <2> QED BY <2>3, <2>4, <2>5, <2>6, <2>7, <2>8, <2>9
<1>2. CASE ~meet
  <2>1. Rendered(b, c) = {canon(e) : e \in {b, c} \ {NoBound}}
    BY <1>2 DEF Rendered
  <2>2. \A e \in {b, c} \ {NoBound} : ConstraintHolds(v, canon(e)) <=> ConstraintHolds(v, e)
    BY CanonicalAdmits DEF IsBound
  <2> HIDE DEF canon
  <2>3. (\A d \in Rendered(b, c) : ConstraintHolds(v, d)) <=>
          \A e \in {b, c} \ {NoBound} : ConstraintHolds(v, canon(e))
    BY <2>1
  <2>4. Rendered(b, c) = {} <=> b = NoBound /\ c = NoBound
    BY <2>1
  <2>5. (\A e \in {b, c} \ {NoBound} : ConstraintHolds(v, e)) <=> Within(v, b) /\ Within(v, c)
    BY DEF Within
  <2> QED BY <2>2, <2>3, <2>4, <2>5
<1> QED BY <1>1, <1>2

-----------------------------------------------------------------------------
(* Types.  Nothing here depends on how versions compare.                   *)

\* An entry is a list of constraints whose ends are among the probes.
LEMMA WrittenIs ==
  ASSUME NEW n \in 1..MaxEntries, NEW w \in Written[n]
  PROVE  /\ w \in Seq(Constraints) /\ Len(w) \in Nat /\ DOMAIN w = 1..Len(w)
         /\ \A k \in DOMAIN w : /\ IsConstraint(w[k])
                                /\ w[k].version \in Probe /\ NextVersion(w[k].version) \in Probe
BY EntriesAssumption, ProbeAssumption, LenProperties

\* The floor of the grammar is a constraint.
LEMMA FloorIs ==
  LET f == Constraint(">=", <<Zero>>) IN
  IsConstraint(f) /\ f # NoBound /\ f.op = ">=" /\ f.version = <<Zero>>
<1> DEFINE z == <<Zero>>
<1>1. z \in Seq(Segment) /\ z # <<>> /\ z[1] = Zero
  BY SegmentsAssumption
<1>2. Numeric(Zero)
  BY SegmentsAssumption DEF Numeric
<1> HIDE DEF z
<1>3. IsConstraint(Constraint(">=", z))
  BY <1>1, <1>2 DEF IsConstraint, Constraints, Constraint, Op, IsVersion
<1>4. Constraint(">=", z) # NoBound
  BY <1>3, EntriesAssumption DEF IsConstraint
<1> QED BY <1>3, <1>4 DEF Constraint, z

\* simplifyConstraints finds the first pin when there is one.
LEMMA FirstPinIs ==
  ASSUME cs \in Seq(Constraints), HasPin
  PROVE  LET first == CHOOSE k \in DOMAIN cs :
                        cs[k].op = "=" /\ \A j \in 1..(k - 1) : cs[j].op # "="
         IN first \in DOMAIN cs /\ cs[first].op = "="
<1> DEFINE P == {k \in DOMAIN cs : cs[k].op = "="}
<1>1. Len(cs) \in Nat /\ DOMAIN cs = 1..Len(cs)
  BY LenProperties
<1>2. PICK m \in P : \A j \in P : m <= j
  <2>1. P \in SUBSET Nat /\ P # {}
    BY <1>1 DEF HasPin
  <2> HIDE DEF P
  <2> QED BY <2>1, FirstOfSome
<1>3. m \in DOMAIN cs /\ cs[m].op = "=" /\ \A j \in 1..(m - 1) : cs[j].op # "="
  BY <1>1, <1>2
<1> QED BY <1>3

\* The types, with what the entry being read is, are kept by every step.
LEMMA ReadingStep ==
  ASSUME VTypeOK, Reading, [Next]_vars PROVE VTypeOK' /\ Reading'
<1>1. Len(cs) \in Nat /\ DOMAIN cs = 1..Len(cs) /\ i \in Nat
  BY LenProperties DEF VTypeOK, Reading
<1>2. CASE Start
  <2>1. PICK n \in 1..MaxEntries : cs' \in Written[n]
    <3>1. Cardinality(done) \in Nat
      BY FS_CardinalityType DEF Reading
    <3>2. Cardinality(done) + 1 \in 1..MaxEntries
      BY <1>2, <3>1, EntriesAssumption DEF Start
    <3> QED BY <1>2, <3>2 DEF Start
  <2>2. cs' \in Seq(Constraints) /\ Len(cs') \in Nat /\ \A k \in DOMAIN cs' : IsConstraint(cs'[k])
    BY <2>1, WrittenIs
  <2>3. i' = 1 /\ pin' = NoBound /\ lo' = NoBound /\ hi' = NoBound /\ done' = done
        /\ pc' \in {"simplify", "pins"}
    BY <1>2 DEF Start
  <2>4. VTypeOK'
    BY <2>2, <2>3 DEF VTypeOK, IsBound
  <2> QED BY <2>1, <2>2, <2>3, <2>4 DEF Reading
<1>3. CASE ScanPin
  <2>1. /\ cs' = cs /\ lo' = lo /\ hi' = hi /\ done' = done /\ i' = i + 1 /\ i <= Len(cs)
        /\ pc = "pins" /\ pc' \in {"pins", "refused"} /\ pin' \in {pin, cs[i]}
    BY <1>3 DEF ScanPin
  <2>2. IsBound(pin')
    BY <1>1, <2>1 DEF VTypeOK, IsBound
  <2> QED BY <1>1, <2>1, <2>2 DEF VTypeOK, Reading
<1>4. CASE AfterPins
  <2>1. /\ cs' = cs /\ pin' = pin /\ hi' = NoBound /\ done' = done /\ i' = 1 /\ pc = "pins"
        /\ pc' \in {"simplify", "refused", "bounds"} /\ lo' \in {NoBound, Constraint(">=", <<Zero>>)}
    BY <1>4 DEF AfterPins
  <2>2. IsBound(lo') /\ IsBound(hi')
    BY <2>1, FloorIs DEF IsBound
  <2> QED BY <1>1, <2>1, <2>2 DEF VTypeOK, Reading
<1>5. CASE ScanBound
  <2>1. /\ cs' = cs /\ pin' = pin /\ done' = done /\ i' = i + 1 /\ i <= Len(cs) /\ pc' = pc
        /\ lo' \in {lo, cs[i]} /\ hi' \in {hi, cs[i]}
    BY <1>5 DEF ScanBound
  <2>2. IsBound(lo') /\ IsBound(hi')
    BY <1>1, <2>1 DEF VTypeOK, IsBound
  <2> QED BY <1>1, <2>1, <2>2 DEF VTypeOK, Reading
<1>6. CASE AfterBounds
  <2>1. /\ cs' = cs /\ pin' = pin /\ lo' = NoBound /\ hi' = NoBound /\ done' = done /\ i' = 1
        /\ pc = "bounds" /\ pc' \in {"simplify", "refused"}
    BY <1>6 DEF AfterBounds
  <2> QED BY <1>1, <2>1 DEF VTypeOK, Reading, IsBound
<1>7. ASSUME NEW form, Finish(form), \A c \in form : IsConstraint(c)
      PROVE  VTypeOK' /\ Reading'
  <2>1. /\ pc' = "idle" /\ cs' = <<>> /\ i' = 1 /\ pin' = NoBound /\ lo' = NoBound /\ hi' = NoBound
        /\ done' = done \cup {[written |-> cs, form |-> form]}
    BY <1>7 DEF Finish
  <2>2. \A e \in done' : \A c \in e.form : IsConstraint(c)
    BY <1>7, <2>1 DEF VTypeOK
  <2>3. IsFiniteSet(done')
    BY <2>1, FS_AddElement DEF Reading
  <2>4. cs' \in Seq(Constraints) /\ Len(cs') = 0 /\ DOMAIN cs' = {}
    BY <2>1
  <2> QED BY <2>1, <2>2, <2>3, <2>4 DEF VTypeOK, Reading, IsBound
<1>8. CASE RenderPin
  <2> DEFINE first == CHOOSE k \in DOMAIN cs :
                        cs[k].op = "=" /\ \A j \in 1..(k - 1) : cs[j].op # "="
             form == {Constraint("=", CanonicalVersion(cs[first].version))}
  <2>1. first \in DOMAIN cs
    BY <1>8, FirstPinIs DEF RenderPin, HasPin, Reading
  <2>2. Finish(form)
    BY <1>8 DEF RenderPin
  <2> HIDE DEF first
  <2>3. IsVersion(CanonicalVersion(cs[first].version))
    BY <2>1, CanonicalIsEqual DEF VTypeOK, IsConstraint
  <2>4. \A c \in form : IsConstraint(c)
    BY <2>3 DEF IsConstraint, Constraints, Constraint, Op, IsVersion
  <2> QED BY <1>7, <2>2, <2>4
<1>9. CASE ScanNormalized
  <2> DEFINE c == Normalize(cs[i])
  <2>1. /\ cs' = cs /\ pin' = pin /\ done' = done /\ i' = i + 1 /\ i <= Len(cs) /\ pc' = pc
        /\ lo' \in {lo, c} /\ hi' \in {hi, c} /\ \A k \in DOMAIN cs : cs[k].op # "="
    BY <1>9 DEF ScanNormalized
  <2>2. i \in DOMAIN cs /\ IsConstraint(cs[i]) /\ cs[i].op # "="
    BY <1>1, <2>1 DEF VTypeOK
  <2>3. IsConstraint(c)
    BY <2>2, NormalizeIs
  <2> HIDE DEF c
  <2>4. IsBound(lo') /\ IsBound(hi')
    BY <2>1, <2>3 DEF VTypeOK, IsBound
  <2> QED BY <1>1, <2>1, <2>4 DEF VTypeOK, Reading
<1>10. CASE RenderBounds
  <2>1. Finish(Rendered(lo, hi))
    BY <1>10 DEF RenderBounds
  <2>2. \A c \in Rendered(lo, hi) : IsConstraint(c)
    BY RenderedIs DEF VTypeOK
  <2> QED BY <1>7, <2>1, <2>2
<1>11. CASE UNCHANGED vars
  BY <1>11 DEF vars, VTypeOK, Reading, IsBound
<1> QED BY <1>2, <1>3, <1>4, <1>5, <1>6, <1>8, <1>9, <1>10, <1>11 DEF Next

\* The initial state has the types.
LEMMA ReadingInit == Init => VTypeOK /\ Reading
<1> SUFFICES ASSUME Init PROVE VTypeOK /\ Reading
  OBVIOUS
<1>1. Len(<<>>) = 0 /\ <<>> \in Seq(Constraints) /\ DOMAIN <<>> = {}
  OBVIOUS
<1> QED BY <1>1, FS_EmptySet DEF Init, VTypeOK, Reading, IsBound

\* Reading an entry (ParseRequire, CanonicalRequire) keeps its types: what is
\* in hand is a bound or nothing, the index within its list, and every
\* canonical form made of constraints on versions.
THEOREM ReadingTypes == Spec => []VTypeOK
<1>1. Spec => [](VTypeOK /\ Reading)
  BY ReadingInit, ReadingStep, PTL DEF Spec
<1> QED BY <1>1, PTL

-----------------------------------------------------------------------------
(* Meanings, one action after the other.                                   *)

\* A probe satisfies a list when every constraint of it holds.
LEMMA ProbeSatisfies ==
  ASSUME NEW v \in Probe, NEW w
  PROVE  /\ IsVersion(v) /\ v \in Seq(Segment) /\ v # Unversioned
         /\ w \in Seq(Constraints) =>
              (Satisfies(v, w) <=> \A k \in DOMAIN w : ConstraintHolds(v, w[k]))
<1>1. IsVersion(v) /\ v \in Seq(Segment) /\ v # Unversioned
  BY ProbeAssumption DEF IsVersion
<1>2. w = <<>> => DOMAIN w = {}
  OBVIOUS
<1> QED BY <1>1, <1>2 DEF Satisfies

\* What the invariant says of the entry in hand.
LEMMA EntryIs ==
  ASSUME VTypeOK, Reading
  PROVE  /\ cs \in Seq(Constraints) /\ Len(cs) \in Nat /\ DOMAIN cs = 1..Len(cs)
         /\ i \in Nat \ {0} /\ i <= Len(cs) + 1
         /\ \A k \in DOMAIN cs : IsConstraint(cs[k]) /\ cs[k] \in Constraints /\ cs[k] # NoBound
         /\ pc # "idle" => \A k \in DOMAIN cs : /\ cs[k].version \in Probe
                                                /\ NextVersion(cs[k].version) \in Probe
<1>1. cs \in Seq(Constraints) /\ Len(cs) \in Nat /\ DOMAIN cs = 1..Len(cs)
  BY LenProperties DEF Reading
<1>2. pc # "idle" => \A k \in DOMAIN cs : /\ cs[k].version \in Probe
                                          /\ NextVersion(cs[k].version) \in Probe
  BY WrittenIs DEF Reading
<1> QED BY <1>1, <1>2, EntriesAssumption DEF VTypeOK, IsConstraint

\* A new entry: nothing of it has been read.
LEMMA StartMeans ==
  ASSUME VInv, Start, VTypeOK', Reading' PROVE VInv'
<1>1. /\ pc' = IF cs' = <<>> THEN "simplify" ELSE "pins"
      /\ i' = 1 /\ pin' = NoBound /\ lo' = NoBound /\ hi' = NoBound /\ done' = done
  BY DEF Start
<1>2. cs' = <<>> => DOMAIN cs' = {}
  OBVIOUS
<1>3. PinsSoFar'
  BY <1>1, <1>2 DEF PinsSoFar, HasPin
<1>4. BoundsSoFar'
  BY <1>1 DEF BoundsSoFar, Read, Within
<1>5. AcceptedIsSatisfiable'
  <2>1. pc' = "simplify" => <<Zero>> \in Admitted(cs')
    BY <1>1, ProbeAssumption DEF Admitted, Satisfies
  <2> QED BY <2>1 DEF AcceptedIsSatisfiable
<1>6. RefusedIsUnsatisfiable' /\ CanonicalKeepsMeaning'
  BY <1>1 DEF RefusedIsUnsatisfiable, CanonicalKeepsMeaning, VInv
<1> QED BY <1>3, <1>4, <1>5, <1>6 DEF VInv

\* One pin: two that differ admit nothing.
LEMMA ScanPinMeans ==
  ASSUME OrderIsTransitive, VInv, ScanPin, VTypeOK', Reading' PROVE VInv'
<1> USE EntryIs DEF VInv
<1>1. /\ pc = "pins" /\ i \in DOMAIN cs /\ i' = i + 1
      /\ cs' = cs /\ lo' = lo /\ hi' = hi /\ done' = done
  BY DEF ScanPin
<1>2. /\ cs[i].op # "=" => pc' = "pins" /\ pin' = pin
      /\ cs[i].op = "=" /\ pin # NoBound /\ CompareVersions(pin.version, cs[i].version) # 0
           => pc' = "refused" /\ pin' = pin
      /\ cs[i].op = "=" /\ ~(pin # NoBound /\ CompareVersions(pin.version, cs[i].version) # 0)
           => pc' = "pins" /\ pin' = cs[i]
  BY <1>1 DEF ScanPin
<1>3. PinsSoFar'
  <2>1. pin' # NoBound => pin'.op = "=" /\ \E k \in DOMAIN cs : cs[k] = pin'
    BY <1>1, <1>2 DEF PinsSoFar
  <2>2. pc' = "pins" => \A k \in 1..i : cs[k].op = "=" => pin' # NoBound
    BY <1>1, <1>2 DEF PinsSoFar
  <2>3. pc' \in {"pins", "refused"}
    BY <1>2
  <2> QED BY <1>1, <2>1, <2>2, <2>3 DEF PinsSoFar
<1>4. BoundsSoFar'
  BY <1>1, <1>2 DEF BoundsSoFar
<1>5. RefusedIsUnsatisfiable'
  <2> SUFFICES ASSUME pc' = "refused", NEW v \in Probe, Satisfies(v, cs) PROVE FALSE
    BY <1>1 DEF RefusedIsUnsatisfiable, Admitted
  <2>1. cs[i].op = "=" /\ pin # NoBound /\ CompareVersions(pin.version, cs[i].version) # 0
    BY <1>1, <1>2
  <2>2. PICK k \in DOMAIN cs : cs[k] = pin /\ pin.op = "="
    BY <2>1 DEF PinsSoFar
  <2>3. /\ v \in Seq(Segment) /\ pin.version \in Seq(Segment) /\ cs[i].version \in Seq(Segment)
        /\ ConstraintHolds(v, pin) /\ ConstraintHolds(v, cs[i])
    BY <1>1, <2>2, ProbeSatisfies DEF Constraints
  <2>4. CompareVersions(v, pin.version) = 0 /\ CompareVersions(v, cs[i].version) = 0
    BY <2>1, <2>2, <2>3 DEF ConstraintHolds
  <2>5. CompareVersions(pin.version, v) = 0
    BY <2>3, <2>4, CompareIsSign
  <2>6. CompareVersions(pin.version, cs[i].version) = 0
    BY <2>3, <2>4, <2>5, EqualCompareAlike
  <2> QED BY <2>1, <2>6
<1>6. AcceptedIsSatisfiable' /\ CanonicalKeepsMeaning'
  BY <1>1, <1>2 DEF AcceptedIsSatisfiable, CanonicalKeepsMeaning
<1> QED BY <1>3, <1>4, <1>5, <1>6

\* A pin that fails a constraint admits nothing, and one that holds them all
\* is admitted; without a pin the scan of the bounds starts from the floor,
\* which every version is above.
LEMMA AfterPinsMeans ==
  ASSUME OrderIsTransitive, VInv, AfterPins, VTypeOK', Reading' PROVE VInv'
<1> USE EntryIs DEF VInv
<1> DEFINE holds == \A k \in DOMAIN cs : ConstraintHolds(pin.version, cs[k])
<1>1. /\ pc = "pins" /\ i > Len(cs) /\ i' = 1 /\ hi' = NoBound
      /\ cs' = cs /\ pin' = pin /\ done' = done
  BY DEF AfterPins
<1>2. /\ pin # NoBound => pc' = (IF holds THEN "simplify" ELSE "refused") /\ lo' = NoBound
      /\ pin = NoBound => pc' = "bounds" /\ lo' = Constraint(">=", <<Zero>>)
  BY DEF AfterPins
<1>3. pin # NoBound =>
        /\ pin.op = "=" /\ HasPin /\ pin \in Constraints /\ pin.version \in Probe
        /\ \E k \in DOMAIN cs : cs[k] = pin
  BY <1>1 DEF PinsSoFar, HasPin
<1>4. pin = NoBound => ~HasPin
  BY <1>1 DEF PinsSoFar, HasPin
<1>5. PinsSoFar'
  BY <1>1, <1>2, <1>3, <1>4 DEF PinsSoFar, HasPin
<1>6. BoundsSoFar'
  <2>1. CASE pin # NoBound
    <3>1. HasPin' /\ pc' # "bounds" /\ lo' = NoBound
      BY <1>1, <1>2, <1>3, <2>1 DEF HasPin
    <3> QED BY <1>1, <3>1 DEF BoundsSoFar
  <2>2. CASE pin = NoBound
    <3>1. \A v \in Probe : ConstraintHolds(v, lo') /\ Read(v)'
      <4> SUFFICES ASSUME NEW v \in Probe PROVE ConstraintHolds(v, lo') /\ Read(v)'
        OBVIOUS
      <4>1. CompareVersions(v, <<Zero>>) >= 0
        BY ProbeSatisfies, ZeroIsLeast
      <4>2. lo'.op = ">=" /\ lo'.version = <<Zero>>
        BY <1>2, <2>2, FloorIs
      <4>3. ConstraintHolds(v, lo')
        BY <4>1, <4>2 DEF ConstraintHolds
      <4> QED BY <1>1, <4>3 DEF Read
    <3>2. lo'.op \in Lower /\ pc' = "bounds" /\ lo' = Constraint(">=", <<Zero>>)
      BY <1>2, <2>2, FloorIs DEF Lower
    <3> QED BY <1>1, <3>1, <3>2 DEF BoundsSoFar, Within
  <2> QED BY <2>1, <2>2
<1>7. RefusedIsUnsatisfiable'
  <2> SUFFICES ASSUME pc' = "refused", NEW v \in Probe, Satisfies(v, cs) PROVE FALSE
    BY <1>1 DEF RefusedIsUnsatisfiable, Admitted
  <2>1. pin # NoBound /\ ~holds
    BY <1>2
  <2>2. PICK k \in DOMAIN cs : ~ConstraintHolds(pin.version, cs[k])
    BY <2>1
  <2>3. /\ ConstraintHolds(v, cs[k]) /\ ConstraintHolds(v, pin) /\ cs[k] \in Constraints
        /\ v \in Seq(Segment) /\ pin.version \in Seq(Segment)
    BY <1>3, <2>1, ProbeSatisfies
  <2>4. CompareVersions(v, pin.version) = 0
    BY <1>3, <2>1, <2>3 DEF ConstraintHolds
  <2> QED BY <2>2, <2>3, <2>4, HoldsAlike
<1>8. AcceptedIsSatisfiable'
  <2>1. pc' = "simplify" => pin # NoBound /\ holds
    BY <1>2
  <2>2. pc' = "simplify" => pin.version \in Admitted(cs)
    BY <1>3, <2>1, ProbeSatisfies DEF Admitted
  <2> QED BY <1>1, <2>2 DEF AcceptedIsSatisfiable
<1>9. CanonicalKeepsMeaning'
  BY <1>1 DEF CanonicalKeepsMeaning
<1> QED BY <1>5, <1>6, <1>7, <1>8, <1>9

\* The bound kept of two lower ones admits what both admit,
LEMMA KeptLo ==
  ASSUME OrderIsTransitive, NEW v \in Seq(Segment), NEW c, IsConstraint(c), c.op \in Lower,
         NEW b, IsBound(b), b # NoBound => b.op \in Lower
  PROVE  Within(v, IF b = NoBound \/ TightensLo(c, b) THEN c ELSE b)
           <=> Within(v, b) /\ ConstraintHolds(v, c)
<1>1. c \in Constraints /\ c # NoBound /\ (b # NoBound => b \in Constraints)
  BY EntriesAssumption DEF IsConstraint, IsBound
<1>2. b # NoBound => /\ TightensLo(c, b) /\ ConstraintHolds(v, c) => ConstraintHolds(v, b)
                     /\ ~TightensLo(c, b) /\ ConstraintHolds(v, b) => ConstraintHolds(v, c)
  BY <1>1, TighterLo
<1> QED BY <1>1, <1>2 DEF Within

\* and so does the one kept of two upper ones.
LEMMA KeptHi ==
  ASSUME OrderIsTransitive, NEW v \in Seq(Segment), NEW c, IsConstraint(c), c.op \in Upper,
         NEW b, IsBound(b), b # NoBound => b.op \in Upper
  PROVE  Within(v, IF TightensHi(c, b) THEN c ELSE b) <=> Within(v, b) /\ ConstraintHolds(v, c)
<1>1. c \in Constraints /\ c # NoBound /\ (b # NoBound => b \in Constraints)
  BY EntriesAssumption DEF IsConstraint, IsBound
<1>2. b # NoBound => /\ TightensHi(c, b) /\ ConstraintHolds(v, c) => ConstraintHolds(v, b)
                     /\ ~TightensHi(c, b) /\ ConstraintHolds(v, b) => ConstraintHolds(v, c)
  BY <1>1, TighterHi
<1>3. b = NoBound => TightensHi(c, b)
  BY DEF TightensHi
<1> QED BY <1>1, <1>2, <1>3 DEF Within

\* Reading one constraint more adds what it says.
LEMMA OneMoreRead ==
  ASSUME VTypeOK, Reading, i <= Len(cs), i' = i + 1, cs' = cs, NEW v
  PROVE  Read(v)' <=> Read(v) /\ ConstraintHolds(v, cs[i])
<1>1. i \in Nat \ {0}
  BY EntryIs
<1>2. 1..(i' - 1) = 1..(i - 1) \cup {i}
  BY <1>1
<1>3. Read(v)' <=> \A k \in 1..(i' - 1) : ConstraintHolds(v, cs[k])
  BY DEF Read
<1> QED BY <1>2, <1>3 DEF Read

\* At the end of a scan the whole list is read.
LEMMA AllRead ==
  ASSUME VTypeOK, Reading, i > Len(cs), NEW v \in Probe
  PROVE  Read(v) <=> Satisfies(v, cs)
<1>1. 1..(i - 1) = DOMAIN cs /\ cs \in Seq(Constraints)
  BY EntryIs
<1>2. Satisfies(v, cs) <=> \A k \in DOMAIN cs : ConstraintHolds(v, cs[k])
  BY <1>1, ProbeSatisfies
<1> QED BY <1>1, <1>2 DEF Read

\* One bound of the first scan.
LEMMA ScanBoundMeans ==
  ASSUME OrderIsTransitive, VInv, ScanBound, VTypeOK', Reading' PROVE VInv'
<1> USE EntryIs DEF VInv
<1> DEFINE c == cs[i]
           floor == Constraint(">=", <<Zero>>)
<1>1. /\ pc = "bounds" /\ i \in DOMAIN cs /\ i <= Len(cs) /\ i' = i + 1
      /\ pc' = pc /\ cs' = cs /\ pin' = pin /\ done' = done
      /\ lo' = (IF c.op \in {">=", ">"} /\ TightensLo(c, lo) THEN c ELSE lo)
      /\ hi' = (IF c.op \in {"<=", "<"} /\ TightensHi(c, hi) THEN c ELSE hi)
  BY DEF ScanBound
<1>2. /\ IsConstraint(c) /\ c \in Constraints /\ c # NoBound /\ (c.op \in Lower \/ c.op \in Upper)
      /\ ~(c.op \in Lower /\ c.op \in Upper)
  BY <1>1 DEF PinsSoFar, HasPin, Constraints, Op, Lower, Upper
<1>3. lo # NoBound /\ lo.op \in Lower /\ IsBound(lo) /\ IsBound(hi) /\ (hi # NoBound => hi.op \in Upper)
  <2>1. lo # NoBound
    BY <1>1, FloorIs DEF BoundsSoFar
  <2> QED BY <2>1 DEF VTypeOK, BoundsSoFar
<1>4. PinsSoFar'
  BY <1>1 DEF PinsSoFar, HasPin
<1>5. BoundsSoFar'
  <2>1. /\ lo' # NoBound /\ lo'.op \in Lower /\ (hi' # NoBound => hi'.op \in Upper)
        /\ lo' = floor \/ \E k \in DOMAIN cs : cs[k] = lo'
    BY <1>1, <1>2, <1>3 DEF BoundsSoFar, Lower, Upper
  <2>2. ASSUME NEW v \in Probe
        PROVE  Read(v)' <=> ConstraintHolds(v, lo') /\ Within(v, hi')
    <3>1. Read(v)' <=> Read(v) /\ ConstraintHolds(v, c)
      BY <1>1, OneMoreRead
    <3>2. Read(v) <=> ConstraintHolds(v, lo) /\ Within(v, hi)
      BY <1>1 DEF BoundsSoFar
    <3>3. v \in Seq(Segment)
      BY ProbeSatisfies
    <3> HIDE DEF c, floor
    <3>4. CASE c.op \in Lower
      <4>1. hi' = hi /\ lo' = IF lo = NoBound \/ TightensLo(c, lo) THEN c ELSE lo
        BY <1>1, <1>2, <1>3, <3>4 DEF Lower, Upper
      <4>2. Within(v, lo') <=> Within(v, lo) /\ ConstraintHolds(v, c)
        BY <1>2, <1>3, <3>3, <3>4, <4>1, KeptLo
      <4> QED BY <1>3, <2>1, <3>1, <3>2, <4>1, <4>2 DEF Within
    <3>5. CASE c.op \in Upper
      <4>1. lo' = lo /\ hi' = IF TightensHi(c, hi) THEN c ELSE hi
        BY <1>1, <1>2, <3>5 DEF Lower, Upper
      <4>2. Within(v, hi') <=> Within(v, hi) /\ ConstraintHolds(v, c)
        BY <1>2, <1>3, <3>3, <3>5, <4>1, KeptHi
      <4> QED BY <3>1, <3>2, <4>1, <4>2
    <3> QED BY <1>2, <3>4, <3>5
  <2> HIDE DEF c
  <2> QED BY <1>1, <2>1, <2>2 DEF BoundsSoFar
<1>6. RefusedIsUnsatisfiable' /\ AcceptedIsSatisfiable' /\ CanonicalKeepsMeaning'
  BY <1>1 DEF RefusedIsUnsatisfiable, AcceptedIsSatisfiable, CanonicalKeepsMeaning
<1> QED BY <1>4, <1>5, <1>6

\* The verdict on the bounds: refused when nothing is between them, else the
\* lower end is.
LEMMA AfterBoundsMeans ==
  ASSUME OrderIsTransitive, VInv, AfterBounds, VTypeOK', Reading' PROVE VInv'
<1> USE EntryIs DEF VInv
<1>1. /\ pc = "bounds" /\ i > Len(cs) /\ i' = 1 /\ lo' = NoBound /\ hi' = NoBound
      /\ cs' = cs /\ pin' = pin /\ done' = done
      /\ pc' = (IF hi # NoBound /\ Inverted(lo, hi) THEN "refused" ELSE "simplify")
  BY DEF AfterBounds
<1>2. /\ lo \in Constraints /\ lo # NoBound /\ lo.op \in Lower
      /\ hi # NoBound => hi \in Constraints /\ hi.op \in Upper
  <2>1. lo # NoBound
    BY <1>1, FloorIs DEF BoundsSoFar
  <2> QED BY <2>1 DEF VTypeOK, IsBound, IsConstraint, BoundsSoFar
<1>3. \A v \in Probe : Satisfies(v, cs) <=> ConstraintHolds(v, lo) /\ Within(v, hi)
  <2> SUFFICES ASSUME NEW v \in Probe
               PROVE  Satisfies(v, cs) <=> ConstraintHolds(v, lo) /\ Within(v, hi)
    OBVIOUS
  <2>1. Read(v) <=> Satisfies(v, cs)
    BY <1>1, AllRead
  <2> QED BY <1>1, <2>1 DEF BoundsSoFar
<1>4. PinsSoFar' /\ BoundsSoFar'
  BY <1>1 DEF PinsSoFar, BoundsSoFar, HasPin, Read, Within
<1>5. RefusedIsUnsatisfiable'
  <2> SUFFICES ASSUME pc' = "refused", NEW v \in Probe, Satisfies(v, cs) PROVE FALSE
    BY <1>1 DEF RefusedIsUnsatisfiable, Admitted
  <2>1. hi # NoBound /\ Inverted(lo, hi)
    BY <1>1
  <2>2. v \in Seq(Segment) /\ ConstraintHolds(v, lo) /\ ConstraintHolds(v, hi)
    BY <1>3, <2>1, ProbeSatisfies DEF Within
  <2> QED BY <1>2, <2>1, <2>2, InvertedAdmitNothing
<1>6. AcceptedIsSatisfiable'
  <2> SUFFICES ASSUME pc' = "simplify" PROVE \E v \in Probe : Satisfies(v, cs)
    BY <1>1 DEF AcceptedIsSatisfiable, Admitted
  <2> DEFINE x == IF lo.op = ">" THEN NextVersion(lo.version) ELSE lo.version
  <2>1. hi # NoBound => ~Inverted(lo, hi)
    BY <1>1
  <2>2. /\ ConstraintHolds(x, lo)
        /\ \A c \in Constraints : c.op \in Upper /\ ~Inverted(lo, c) => ConstraintHolds(x, c)
    BY <1>2, UprightAdmitTheLowerEnd
  <2>3. x \in Probe
    <3>1. CASE lo = Constraint(">=", <<Zero>>)
      BY <3>1, FloorIs, ProbeAssumption
    <3>2. CASE \E k \in DOMAIN cs : cs[k] = lo
      BY <1>1, <3>2
    <3> QED BY <1>1, <3>1, <3>2 DEF BoundsSoFar
  <2> HIDE DEF x
  <2>4. ConstraintHolds(x, lo) /\ Within(x, hi)
    BY <1>2, <2>1, <2>2 DEF Within
  <2> QED BY <1>3, <2>3, <2>4
<1>7. CanonicalKeepsMeaning'
  BY <1>1 DEF CanonicalKeepsMeaning
<1> QED BY <1>4, <1>5, <1>6, <1>7

\* The entry that is added means what its form means, and the others do still.
LEMMA FinishMeans ==
  ASSUME VInv, NEW form, Finish(form), VTypeOK', Reading',
         \A v \in Probe \cup {Unversioned} : Satisfies(v, cs) <=> AllHold(v, form)
  PROVE  VInv'
<1> DEFINE e == [written |-> cs, form |-> form]
<1>1. /\ pc' = "idle" /\ pin' = NoBound /\ lo' = NoBound /\ hi' = NoBound /\ done' = done \cup {e}
  BY DEF Finish
<1>2. e.written = cs /\ e.form = form
  OBVIOUS
<1> HIDE DEF e
<1>3. CanonicalKeepsMeaning'
  <2> SUFFICES ASSUME NEW f \in done', NEW v \in Probe \cup {Unversioned}
               PROVE  Satisfies(v, f.written) <=> AllHold(v, f.form)
    BY DEF CanonicalKeepsMeaning
  <2>1. CASE f = e
    BY <1>2, <2>1
  <2>2. CASE f \in done
    BY <2>2 DEF VInv, CanonicalKeepsMeaning
  <2> QED BY <1>1, <2>1, <2>2
<1>4. PinsSoFar' /\ BoundsSoFar' /\ RefusedIsUnsatisfiable' /\ AcceptedIsSatisfiable'
  BY <1>1 DEF PinsSoFar, BoundsSoFar, RefusedIsUnsatisfiable, AcceptedIsSatisfiable
<1> QED BY <1>3, <1>4 DEF VInv

\* A pin that holds every constraint says all of them: any pin of the list is
\* equal to it.
LEMMA RenderPinMeans ==
  ASSUME OrderIsTransitive, VInv, RenderPin, VTypeOK', Reading' PROVE VInv'
<1> USE EntryIs DEF VInv
<1> DEFINE first == CHOOSE k \in DOMAIN cs :
                      cs[k].op = "=" /\ \A j \in 1..(k - 1) : cs[j].op # "="
           c == cs[first]
           d == Constraint("=", CanonicalVersion(c.version))
<1>1. HasPin /\ pc = "simplify" /\ Finish({d})
  BY DEF RenderPin, HasPin
<1>2. first \in DOMAIN cs /\ c.op = "="
  BY <1>1, FirstPinIs
<1> HIDE DEF first
<1>3. /\ pin # NoBound /\ \A k \in DOMAIN cs : ConstraintHolds(pin.version, cs[k])
      /\ IsConstraint(c) /\ c \in Constraints /\ c.version \in Seq(Segment)
      /\ pin.version \in Seq(Segment)
  <2>1. pin # NoBound /\ \A k \in DOMAIN cs : ConstraintHolds(pin.version, cs[k])
    BY <1>1 DEF PinsSoFar
  <2>2. pin \in Constraints
    BY <2>1 DEF PinsSoFar
  <2> QED BY <1>2, <2>1, <2>2 DEF Constraints
<1>4. d = Constraint(c.op, CanonicalVersion(c.version))
  BY <1>2
<1> HIDE DEF c, d
<1>5. ASSUME NEW v \in Probe PROVE Satisfies(v, cs) <=> AllHold(v, {d})
  <2>1. v \in Seq(Segment) /\ v # Unversioned
    BY ProbeSatisfies
  <2>2. ConstraintHolds(v, d) <=> ConstraintHolds(v, c)
    BY <1>3, <1>4, <2>1, CanonicalAdmits
  <2>3. Satisfies(v, cs) <=> \A k \in DOMAIN cs : ConstraintHolds(v, cs[k])
    BY ProbeSatisfies
  <2>4. ASSUME ConstraintHolds(v, c), NEW k \in DOMAIN cs PROVE ConstraintHolds(v, cs[k])
    <3>1. CompareVersions(v, c.version) = 0
      BY <1>2, <2>4 DEF ConstraintHolds
    <3>2. ConstraintHolds(pin.version, c)
      BY <1>2, <1>3 DEF c
    <3>3. CompareVersions(pin.version, c.version) = 0
      BY <1>2, <3>2 DEF ConstraintHolds
    <3>4. CompareVersions(c.version, pin.version) = 0
      BY <1>3, <3>3, CompareIsSign
    <3>5. CompareVersions(v, pin.version) = 0
      BY <1>3, <2>1, <3>1, <3>4, EqualCompareAlike
    <3>6. cs[k] \in Constraints /\ ConstraintHolds(pin.version, cs[k])
      BY <1>3
    <3> QED BY <1>3, <2>1, <3>5, <3>6, HoldsAlike
  <2>5. Satisfies(v, cs) <=> ConstraintHolds(v, c)
    BY <1>2, <2>3, <2>4 DEF c
  <2> QED BY <2>1, <2>2, <2>5 DEF AllHold
<1>6. ~Satisfies(Unversioned, cs) /\ ~AllHold(Unversioned, {d})
  <2>1. cs # <<>>
    BY <1>2
  <2> QED BY <2>1 DEF Satisfies, AllHold
<1>7. \A v \in Probe \cup {Unversioned} : Satisfies(v, cs) <=> AllHold(v, {d})
  BY <1>5, <1>6
<1> QED BY <1>1, <1>7, FinishMeans

\* One normalized bound of the second scan.
LEMMA ScanNormalizedMeans ==
  ASSUME OrderIsTransitive, VInv, ScanNormalized, VTypeOK', Reading' PROVE VInv'
<1> USE EntryIs DEF VInv
<1> DEFINE c == Normalize(cs[i])
<1>1. /\ pc = "simplify" /\ i \in DOMAIN cs /\ i <= Len(cs) /\ i' = i + 1 /\ ~HasPin
      /\ pc' = pc /\ cs' = cs /\ pin' = pin /\ done' = done
      /\ lo' = (IF c.op = ">=" /\ (lo = NoBound \/ TightensLo(c, lo)) THEN c ELSE lo)
      /\ hi' = (IF c.op \in {"<=", "<"} /\ TightensHi(c, hi) THEN c ELSE hi)
  BY DEF ScanNormalized, HasPin
<1>2. IsConstraint(cs[i]) /\ cs[i].op # "="
  BY <1>1 DEF HasPin
<1>3. IsConstraint(c) /\ (c.op = ">=" \/ c.op \in Upper)
  BY <1>2, NormalizeIs
<1>4. c # NoBound /\ (c.op = ">=" => c.op \in Lower)
  BY <1>3, EntriesAssumption DEF IsConstraint, Lower
<1>5. /\ IsBound(lo) /\ IsBound(hi) /\ (hi # NoBound => hi.op \in Upper)
      /\ lo # NoBound => lo.op = ">=" /\ lo.op \in Lower
  BY <1>1 DEF VTypeOK, BoundsSoFar, Lower
<1>6. \A v \in Seq(Segment) : ConstraintHolds(v, c) <=> ConstraintHolds(v, cs[i])
  BY <1>2, NormalizeMeans
<1> HIDE DEF c
<1>7. PinsSoFar'
  BY <1>1 DEF PinsSoFar, HasPin
<1>8. BoundsSoFar'
  <2>1. /\ lo' # NoBound => lo'.op \in Lower /\ lo'.op = ">="
        /\ hi' # NoBound => hi'.op \in Upper
        /\ lo' # NoBound \/ hi' # NoBound
    <3>1. c.op = ">=" => lo' # NoBound
      BY <1>1, <1>4
    <3>2. c.op \in Upper => hi' # NoBound
      BY <1>1, <1>4 DEF TightensHi, Upper
    <3> QED BY <1>1, <1>3, <1>4, <1>5, <3>1, <3>2 DEF Upper
  <2>2. ASSUME NEW v \in Probe PROVE Read(v)' <=> Within(v, lo') /\ Within(v, hi')
    <3>1. v \in Seq(Segment)
      BY ProbeSatisfies
    <3>2. Read(v)' <=> Read(v) /\ ConstraintHolds(v, c)
      BY <1>1, <1>6, <3>1, OneMoreRead
    <3>3. Read(v) <=> Within(v, lo) /\ Within(v, hi)
      BY <1>1 DEF BoundsSoFar
    <3>4. CASE c.op = ">="
      <4>1. hi' = hi /\ lo' = IF lo = NoBound \/ TightensLo(c, lo) THEN c ELSE lo
        BY <1>1, <3>4
      <4>2. Within(v, lo') <=> Within(v, lo) /\ ConstraintHolds(v, c)
        BY <1>3, <1>4, <1>5, <3>1, <3>4, <4>1, KeptLo
      <4> QED BY <3>2, <3>3, <4>1, <4>2
    <3>5. CASE c.op \in Upper
      <4>1. lo' = lo /\ hi' = IF TightensHi(c, hi) THEN c ELSE hi
        BY <1>1, <3>5 DEF Upper
      <4>2. Within(v, hi') <=> Within(v, hi) /\ ConstraintHolds(v, c)
        BY <1>3, <1>5, <3>1, <3>5, <4>1, KeptHi
      <4> QED BY <3>2, <3>3, <4>1, <4>2
    <3> QED BY <1>3, <3>4, <3>5
  <2>3. i' > 1
    BY <1>1
  <2> QED BY <1>1, <2>1, <2>2, <2>3 DEF BoundsSoFar
<1>9. RefusedIsUnsatisfiable' /\ AcceptedIsSatisfiable' /\ CanonicalKeepsMeaning'
  BY <1>1 DEF RefusedIsUnsatisfiable, AcceptedIsSatisfiable, CanonicalKeepsMeaning
<1> QED BY <1>7, <1>8, <1>9

\* The rendering of the bounds means what the whole list means.
LEMMA RenderBoundsMeans ==
  ASSUME OrderIsTransitive, VInv, RenderBounds, VTypeOK', Reading' PROVE VInv'
<1> USE EntryIs DEF VInv
<1> DEFINE form == Rendered(lo, hi)
<1>1. pc = "simplify" /\ i > Len(cs) /\ ~HasPin /\ Finish(form)
  BY DEF RenderBounds, HasPin
<1>2. IsBound(lo) /\ IsBound(hi)
  BY DEF VTypeOK
<1>3. <<Zero>> \in Probe
  BY ProbeAssumption
<1>4. form = {} <=> cs = <<>>
  <2>1. i > 1 <=> lo # NoBound \/ hi # NoBound
    BY <1>1 DEF BoundsSoFar
  <2>2. i > 1 <=> cs # <<>>
    BY <1>1, EmptySeq
  <2>3. form = {} <=> lo = NoBound /\ hi = NoBound
    BY <1>2, <1>3, ProbeSatisfies, RenderedMeans
  <2> QED BY <2>1, <2>2, <2>3
<1>5. ASSUME NEW v \in Probe PROVE Satisfies(v, cs) <=> AllHold(v, form)
  <2>1. Satisfies(v, cs) <=> Within(v, lo) /\ Within(v, hi)
    BY <1>1, AllRead DEF BoundsSoFar
  <2>2. (\A d \in form : ConstraintHolds(v, d)) <=> Within(v, lo) /\ Within(v, hi)
    BY <1>2, ProbeSatisfies, RenderedMeans
  <2> HIDE DEF form
  <2>3. v # Unversioned
    BY ProbeSatisfies
  <2> QED BY <2>1, <2>2, <2>3 DEF AllHold
<1>6. Satisfies(Unversioned, cs) <=> AllHold(Unversioned, form)
  BY <1>4 DEF Satisfies, AllHold
<1> HIDE DEF form
<1>7. \A v \in Probe \cup {Unversioned} : Satisfies(v, cs) <=> AllHold(v, form)
  BY <1>5, <1>6
<1> QED BY <1>1, <1>7, FinishMeans

-----------------------------------------------------------------------------
(* The theorems.                                                           *)

\* Before the first entry there is nothing to mean.
LEMMA MeaningInit == Init => VInv
<1> SUFFICES ASSUME Init PROVE VInv
  OBVIOUS
<1>1. VTypeOK /\ Reading
  BY ReadingInit
<1>2. PinsSoFar /\ BoundsSoFar /\ RefusedIsUnsatisfiable /\ AcceptedIsSatisfiable
      /\ CanonicalKeepsMeaning
  BY DEF Init, PinsSoFar, BoundsSoFar, RefusedIsUnsatisfiable, AcceptedIsSatisfiable,
         CanonicalKeepsMeaning
<1> QED BY <1>1, <1>2 DEF VInv

\* Every step of reading keeps the meanings.
LEMMA MeaningStep ==
  ASSUME OrderIsTransitive, VInv, [Next]_vars PROVE VInv'
<1>1. VTypeOK' /\ Reading'
  BY ReadingStep DEF VInv
<1>2. CASE Start
  BY <1>1, <1>2, StartMeans
<1>3. CASE ScanPin
  BY <1>1, <1>3, ScanPinMeans
<1>4. CASE AfterPins
  BY <1>1, <1>4, AfterPinsMeans
<1>5. CASE ScanBound
  BY <1>1, <1>5, ScanBoundMeans
<1>6. CASE AfterBounds
  BY <1>1, <1>6, AfterBoundsMeans
<1>7. CASE RenderPin
  BY <1>1, <1>7, RenderPinMeans
<1>8. CASE ScanNormalized
  BY <1>1, <1>8, ScanNormalizedMeans
<1>9. CASE RenderBounds
  BY <1>1, <1>9, RenderBoundsMeans
<1>10. CASE UNCHANGED vars
  <2>1. PinsSoFar' /\ BoundsSoFar'
    BY <1>10 DEF VInv, vars, PinsSoFar, BoundsSoFar, HasPin, Read, Within
  <2>2. RefusedIsUnsatisfiable' /\ AcceptedIsSatisfiable' /\ CanonicalKeepsMeaning'
    BY <1>10 DEF VInv, vars, RefusedIsUnsatisfiable, AcceptedIsSatisfiable, CanonicalKeepsMeaning
  <2> QED BY <1>1, <2>1, <2>2 DEF VInv
<1> QED BY <1>2, <1>3, <1>4, <1>5, <1>6, <1>7, <1>8, <1>9, <1>10 DEF Next

\* checkConstraintsSatisfiable and simplifyConstraints hold bounds that mean
\* what the constraints read so far mean, at every step of every list of
\* constraints, when the two orders of segments have no cycle together.
THEOREM ScansKeepMeaning == ASSUME OrderIsTransitive PROVE Spec => []VInv
BY MeaningInit, MeaningStep, PTL DEF Spec

\* checkConstraintsSatisfiable refuses only constraints that no version meets.
THEOREM RefusesOnlyTheUnsatisfiable ==
  ASSUME OrderIsTransitive PROVE Spec => []RefusedIsUnsatisfiable
<1>1. VInv => RefusedIsUnsatisfiable
  BY DEF VInv
<1> QED BY <1>1, ScansKeepMeaning, PTL

\* checkConstraintsSatisfiable accepts only constraints that some version
\* meets: the floor, a version that is written, or the next one above it.
THEOREM AcceptsOnlyTheSatisfiable ==
  ASSUME OrderIsTransitive PROVE Spec => []AcceptedIsSatisfiable
<1>1. VInv => AcceptedIsSatisfiable
  BY DEF VInv
<1> QED BY <1>1, ScansKeepMeaning, PTL

\* CanonicalRequire renders an entry by a form that admits exactly the
\* versions, and the provides without one, that the entry admits.
THEOREM RenderingKeepsMeaning ==
  ASSUME OrderIsTransitive PROVE Spec => []CanonicalKeepsMeaning
<1>1. VInv => CanonicalKeepsMeaning
  BY DEF VInv
<1> QED BY <1>1, ScansKeepMeaning, PTL

-----------------------------------------------------------------------------
(* One form per meaning.                                                   *)

\* Versions that compare equal have one canonical spelling,
LEMMA EqualSpellAlike ==
  ASSUME NEW v, IsVersion(v), NEW w, IsVersion(w), CompareVersions(v, w) = 0
  PROVE  CanonicalVersion(v) = CanonicalVersion(w)
<1>1. /\ v \in Seq(Segment) /\ Len(v) \in Nat /\ DOMAIN v = 1..Len(v)
      /\ w \in Seq(Segment) /\ Len(w) \in Nat /\ DOMAIN w = 1..Len(w)
      /\ \A k \in DOMAIN v : v[k] \in Segment
      /\ \A k \in DOMAIN w : w[k] \in Segment
  BY LenProperties DEF IsVersion
<1>2. \A k \in Position : SegmentOrder(v, w, k) = 0
  BY <1>1, CompareIs
<1>3. \A k \in Position : k \in DOMAIN v <=> k \in DOMAIN w
  <2> SUFFICES ASSUME NEW k \in Position PROVE k \in DOMAIN v <=> k \in DOMAIN w
    OBVIOUS
  <2>1. k \in Nat /\ SegmentOrder(v, w, k) = 0
    BY <1>2 DEF Position
  <2> QED BY <1>1, <2>1, SegmentOrderIs
<1>4. DOMAIN v = DOMAIN w
  <2>1. Len(v) <= Len(w)
    <3>1. Len(v) # 0 => Len(v) \in Position /\ Len(v) \in DOMAIN v
      BY <1>1 DEF Position
    <3> QED BY <1>1, <1>3, <3>1
  <2>2. Len(w) <= Len(v)
    <3>1. Len(w) # 0 => Len(w) \in Position /\ Len(w) \in DOMAIN w
      BY <1>1 DEF Position
    <3> QED BY <1>1, <1>3, <3>1
  <2>3. Len(v) \in Nat /\ Len(w) \in Nat
    BY <1>1
  <2>4. Len(v) = Len(w)
    BY <2>1, <2>2, <2>3
  <2> QED BY <1>1, <2>4
<1>5. \A k \in DOMAIN v : Trimmed[v[k]] = Trimmed[w[k]]
  <2> SUFFICES ASSUME NEW k \in DOMAIN v PROVE Trimmed[v[k]] = Trimmed[w[k]]
    OBVIOUS
  <2>1. k \in Nat /\ k \in Position /\ k \in DOMAIN w
    BY <1>1, <1>4 DEF Position
  <2>2. Order(v[k], w[k]) = 0
    BY <1>1, <1>2, <2>1, SegmentOrderIs
  <2> QED BY <1>1, <2>1, <2>2, OrderIsSign
<1> QED BY <1>4, <1>5 DEF CanonicalVersion

\* and the other way round.
LEMMA SpeltAlikeAreEqual ==
  ASSUME OrderIsTransitive, NEW v, IsVersion(v), NEW w, IsVersion(w),
         CanonicalVersion(v) = CanonicalVersion(w)
  PROVE  CompareVersions(v, w) = 0
<1> DEFINE x == CanonicalVersion(v)
<1>1. /\ CompareVersions(v, x) = 0 /\ CompareVersions(w, x) = 0
      /\ v \in Seq(Segment) /\ w \in Seq(Segment) /\ x \in Seq(Segment)
  BY CanonicalIsEqual DEF IsVersion
<1> HIDE DEF x
<1>2. CompareVersions(x, w) = 0
  BY <1>1, CompareIsSign
<1> QED BY <1>1, <1>2, EqualCompareAlike

\* Up to a version is below the next one: the cut undoes the append.
LEMMA UpToIsBelowNext ==
  ASSUME NEW v, IsVersion(v)
  PROVE  Constraint("<=", v) = Normalize(Constraint("<", NextVersion(v)))
<1> DEFINE n == NextVersion(v)
<1>1. v \in Seq(Segment) /\ Len(v) \in Nat /\ DOMAIN v = 1..Len(v) /\ v # <<>> /\ Len(v) > 0
  BY LenProperties, EmptySeq DEF IsVersion
<1>2. n \in Seq(Segment) /\ Len(n) = Len(v) + 1 /\ n[Len(v) + 1] = Dash
      /\ \A k \in 1..Len(v) : n[k] = v[k]
  BY <1>1, SegmentsAssumption, AppendProperties DEF NextVersion
<1> HIDE DEF n
<1>3. SubSeq(n, 1, Len(n) - 1) = v
  <2> DEFINE y == SubSeq(n, 1, Len(n) - 1)
  <2>1. 1 \in Int /\ Len(n) - 1 \in Int /\ \A k \in 1..(Len(n) - 1) : n[k] \in Segment
    BY <1>1, <1>2, LenProperties
  <2>2. /\ y \in Seq(Segment) /\ Len(y) = IF 1 <= Len(n) - 1 THEN Len(n) - 1 - 1 + 1 ELSE 0
        /\ \A k \in 1 .. Len(n) - 1 - 1 + 1 : y[k] = n[1 + k - 1]
    BY <2>1, SubSeqProperties
  <2> HIDE DEF y
  <2>3. Len(y) = Len(v) /\ \A k \in 1..Len(v) : y[k] = v[k]
    BY <1>1, <1>2, <2>2
  <2>4. y = v
    BY <1>1, <2>2, <2>3, SeqEqual
  <2> QED BY <2>4 DEF y
<1>4. n[Len(n)] = Dash
  BY <1>1, <1>2
<1>5. Normalize(Constraint("<", n)) = Constraint("<=", SubSeq(n, 1, Len(n) - 1))
  BY <1>4 DEF Normalize, Constraint
<1> QED BY <1>3, <1>5 DEF n

\* Versions of one canonical spelling end in the least segment together, and
\* what is before it is spelt alike too: equal upper ends normalize alike.
LEMMA EqualEndsNormalizeAlike ==
  ASSUME NEW v, IsVersion(v), NEW w, IsVersion(w), CanonicalVersion(v) = CanonicalVersion(w)
  PROVE  LET m == Normalize(Constraint("<", v))
             n == Normalize(Constraint("<", w))
         IN m.op = n.op /\ CanonicalVersion(m.version) = CanonicalVersion(n.version)
<1> DEFINE L == Len(v)
           x == SubSeq(v, 1, L - 1)
           y == SubSeq(w, 1, L - 1)
<1>1. /\ v \in Seq(Segment) /\ w \in Seq(Segment) /\ L \in Nat \ {0}
      /\ DOMAIN v = 1..L /\ DOMAIN w = 1..Len(w) /\ Len(w) \in Nat
  BY LenProperties, EmptySeq DEF IsVersion
<1>2. DOMAIN v = DOMAIN w /\ \A k \in DOMAIN v : Trimmed[v[k]] = Trimmed[w[k]]
  <2>1. DOMAIN CanonicalVersion(v) = DOMAIN v /\ DOMAIN CanonicalVersion(w) = DOMAIN w
    BY DEF CanonicalVersion
  <2>2. /\ \A k \in DOMAIN v : CanonicalVersion(v)[k] = Trimmed[v[k]]
        /\ \A k \in DOMAIN w : CanonicalVersion(w)[k] = Trimmed[w[k]]
    BY DEF CanonicalVersion
  <2> QED BY <2>1, <2>2
<1>3. Len(w) = L /\ DOMAIN w = 1..L
  <2>1. L \in 1..Len(w)
    BY <1>1, <1>2
  <2>2. Len(w) \in 1..L
    <3>1. Len(w) \in DOMAIN w
      BY <1>1, <2>1
    <3> QED BY <1>1, <1>2, <3>1
  <2>3. Len(w) \in Nat /\ L \in Nat
    BY <1>1
  <2> HIDE DEF L
  <2>4. Len(w) = L
    BY <2>1, <2>2, <2>3
  <2> QED BY <1>1, <2>4
<1>4. \A k \in 1..L : v[k] \in Segment /\ w[k] \in Segment
  BY <1>1, <1>3, LenProperties
<1>5. v[L] = Dash <=> w[L] = Dash
  <2>1. \A s \in Segment : Trimmed[s] = Dash => s = Dash
    BY SegmentsAssumption, TrimmingAssumption DEF Numeric
  <2>2. Trimmed[Dash] = Dash
    BY SegmentsAssumption, TrimmingAssumption
  <2>3. Trimmed[v[L]] = Trimmed[w[L]] /\ v[L] \in Segment /\ w[L] \in Segment
    BY <1>1, <1>2, <1>4
  <2> QED BY <2>1, <2>2, <2>3
<1>6. CanonicalVersion(x) = CanonicalVersion(y)
  <2>1. 1 \in Int /\ L - 1 \in Int /\ \A k \in 1..(L - 1) : v[k] \in Segment /\ w[k] \in Segment
    BY <1>1, <1>4
  <2>2. /\ x \in Seq(Segment) /\ Len(x) = IF 1 <= L - 1 THEN L - 1 - 1 + 1 ELSE 0
        /\ \A k \in 1 .. L - 1 - 1 + 1 : x[k] = v[1 + k - 1]
    BY <2>1, SubSeqProperties
  <2>3. /\ y \in Seq(Segment) /\ Len(y) = IF 1 <= L - 1 THEN L - 1 - 1 + 1 ELSE 0
        /\ \A k \in 1 .. L - 1 - 1 + 1 : y[k] = w[1 + k - 1]
    BY <2>1, SubSeqProperties
  <2> HIDE DEF x, y, L
  <2>4. /\ Len(x) = L - 1 /\ Len(y) = L - 1
        /\ \A k \in 1..(L - 1) : x[k] = v[k] /\ y[k] = w[k]
    BY <1>1, <2>2, <2>3
  <2>5. DOMAIN x = 1..(L - 1) /\ DOMAIN y = 1..(L - 1)
    BY <2>2, <2>3, <2>4, LenProperties
  <2>6. \A k \in 1..(L - 1) : Trimmed[x[k]] = Trimmed[y[k]]
    BY <1>1, <1>2, <2>4
  <2> QED BY <2>5, <2>6 DEF CanonicalVersion
<1>7. CASE v[L] = Dash
  <2>1. w[Len(w)] = Dash /\ y = SubSeq(w, 1, Len(w) - 1)
    BY <1>3, <1>5, <1>7
  <2>2. /\ Normalize(Constraint("<", v)) = Constraint("<=", x)
        /\ Normalize(Constraint("<", w)) = Constraint("<=", y)
    BY <1>7, <2>1 DEF Normalize, Constraint
  <2> HIDE DEF x, y
  <2> QED BY <1>6, <2>2 DEF Constraint
<1>8. CASE v[L] # Dash
  <2>1. w[Len(w)] # Dash
    BY <1>3, <1>5, <1>8
  <2>2. /\ Normalize(Constraint("<", v)) = Constraint("<", v)
        /\ Normalize(Constraint("<", w)) = Constraint("<", w)
    BY <1>8, <2>1 DEF Normalize, Constraint
  <2> QED BY <2>2 DEF Constraint
<1> QED BY <1>7, <1>8

\* What the two kinds of ends are and admit.
LEMMA EndsAre ==
  /\ \A v \in Probe : LET b == Constraint(">=", v) IN
       IsConstraint(b) /\ b # NoBound /\ b.op = ">=" /\ b.version = v
  /\ \A v \in Probe : LET c == Normalize(Constraint("<", v)) IN
       IsConstraint(c) /\ c # NoBound /\ c.op \in Upper
  /\ \A b \in LowerEnds : IsBound(b)
  /\ \A c \in UpperEnds : IsBound(c)
<1>1. ASSUME NEW v \in Probe
      PROVE  LET b == Constraint(">=", v) IN
             IsConstraint(b) /\ b # NoBound /\ b.op = ">=" /\ b.version = v
  <2>1. IsVersion(v)
    BY ProbeSatisfies
  <2>2. IsConstraint(Constraint(">=", v))
    BY <2>1 DEF IsConstraint, Constraints, Constraint, IsVersion, Op
  <2>3. Constraint(">=", v) # NoBound
    BY <2>2, EntriesAssumption DEF IsConstraint
  <2> QED BY <2>2, <2>3 DEF Constraint
<1>2. ASSUME NEW v \in Probe
      PROVE  LET c == Normalize(Constraint("<", v)) IN
             IsConstraint(c) /\ c # NoBound /\ c.op \in Upper
  <2> DEFINE d == Constraint("<", v)
  <2>1. IsVersion(v)
    BY ProbeSatisfies
  <2>2. IsConstraint(d) /\ d.op = "<"
    BY <2>1 DEF IsConstraint, Constraints, Constraint, IsVersion, Op
  <2> HIDE DEF d
  <2>3. IsConstraint(Normalize(d)) /\ Normalize(d).op \in Upper
    BY <2>2, NormalizeIs DEF Lower
  <2>4. Normalize(d) # NoBound
    BY <2>3, EntriesAssumption DEF IsConstraint
  <2> QED BY <2>3, <2>4 DEF d
<1> QED BY <1>1, <1>2 DEF LowerEnds, UpperEnds, IsBound

\* An upper end admits what is below its probe.
LEMMA UpperEndAdmits ==
  ASSUME OrderIsTransitive, NEW h \in Probe, NEW v \in Seq(Segment)
  PROVE  Within(v, Normalize(Constraint("<", h))) <=> CompareVersions(v, h) < 0
<1> DEFINE d == Constraint("<", h)
<1>1. IsVersion(h) /\ Normalize(d) # NoBound
  BY ProbeSatisfies, EndsAre
<1>2. IsConstraint(d) /\ d.op = "<" /\ d.version = h
  BY <1>1 DEF IsConstraint, Constraints, Constraint, IsVersion, Op
<1> HIDE DEF d
<1>3. ConstraintHolds(v, Normalize(d)) <=> ConstraintHolds(v, d)
  BY <1>2, NormalizeMeans
<1>4. ConstraintHolds(v, d) <=> CompareVersions(v, h) < 0
  BY <1>2 DEF ConstraintHolds
<1> QED BY <1>1, <1>3, <1>4 DEF Within, d

\* Of two ranges that admit the same probes, and some probe, the one does not
\* start below the other, nor end below it.
LEMMA SameRangeOneWay ==
  ASSUME OrderIsTransitive, NEW b \in LowerEnds, NEW c \in UpperEnds,
         NEW b2 \in LowerEnds, NEW c2 \in UpperEnds, b = NoBound <=> b2 = NoBound,
         NEW v \in Probe, Within(v, b), Within(v, c),
         \A u \in Probe : Within(u, b) /\ Within(u, c) <=> Within(u, b2) /\ Within(u, c2)
  PROVE  /\ b # NoBound => CompareVersions(b.version, b2.version) >= 0
         /\ \A h \in Probe : c = Normalize(Constraint("<", h)) =>
              /\ c2 # NoBound
              /\ \A g \in Probe : c2 = Normalize(Constraint("<", g)) => CompareVersions(h, g) >= 0
<1>1. v \in Seq(Segment) /\ \A u \in Probe : u \in Seq(Segment)
  BY ProbeSatisfies
<1>2. \A d \in LowerEnds : d # NoBound =>
        /\ d.version \in Probe
        /\ \A u \in Probe : Within(u, d) <=> CompareVersions(u, d.version) >= 0
  <2> SUFFICES ASSUME NEW a \in Probe, NEW d, d = Constraint(">=", a)
               PROVE  /\ d.version \in Probe
                      /\ \A u \in Probe : Within(u, d) <=> CompareVersions(u, d.version) >= 0
    BY DEF LowerEnds
  <2>1. d # NoBound /\ d.op = ">=" /\ d.version = a
    BY EndsAre
  <2> QED BY <2>1 DEF Within, ConstraintHolds
<1>3. \A h \in Probe : c = Normalize(Constraint("<", h)) =>
        \A u \in Probe : Within(u, c) <=> CompareVersions(u, h) < 0
  BY <1>1, UpperEndAdmits
<1>4. ASSUME b # NoBound PROVE CompareVersions(b.version, b2.version) >= 0
  <2> DEFINE a == b.version
  <2>1. a \in Probe /\ a \in Seq(Segment) /\ CompareVersions(v, a) >= 0
    BY <1>1, <1>2, <1>4
  <2> HIDE DEF a
  <2>2. CompareVersions(a, a) = 0 /\ CompareVersions(a, v) <= 0
    <3>1. CompareVersions(a, a) = - CompareVersions(a, a) /\ CompareVersions(a, a) \in {-1, 0, 1}
      BY <2>1, CompareIsSign
    <3>2. CompareVersions(a, v) = - CompareVersions(v, a) /\ CompareVersions(v, a) \in {-1, 0, 1}
      BY <1>1, <2>1, CompareIsSign
    <3> QED BY <2>1, <3>1, <3>2
  <2>3. Within(a, b)
    BY <1>2, <1>4, <2>1, <2>2 DEF a
  <2>4. Within(a, c)
    <3>1. CASE c = NoBound
      BY <3>1 DEF Within
    <3>2. ASSUME NEW h \in Probe, c = Normalize(Constraint("<", h)) PROVE Within(a, c)
      <4>1. CompareVersions(v, h) < 0
        BY <1>3, <3>2
      <4>2. CompareVersions(a, h) < 0
        BY <1>1, <2>1, <2>2, <4>1, Preorder
      <4> QED BY <1>3, <2>1, <3>2, <4>2
    <3> QED BY <3>1, <3>2 DEF UpperEnds
  <2>5. Within(a, b2)
    BY <2>1, <2>3, <2>4
  <2> QED BY <1>2, <1>4, <2>1, <2>5 DEF a
<1>5. ASSUME NEW h \in Probe, c = Normalize(Constraint("<", h))
      PROVE  /\ c2 # NoBound
             /\ \A g \in Probe : c2 = Normalize(Constraint("<", g)) => CompareVersions(h, g) >= 0
  <2>1. h \in Seq(Segment) /\ CompareVersions(v, h) < 0
    BY <1>1, <1>3, <1>5
  <2>2. ~Within(h, c)
    <3>1. CompareVersions(h, h) = - CompareVersions(h, h) /\ CompareVersions(h, h) \in {-1, 0, 1}
      BY <2>1, CompareIsSign
    <3> QED BY <1>3, <1>5, <3>1
  <2>3. Within(h, b2)
    <3>1. CASE b2 = NoBound
      BY <3>1 DEF Within
    <3>2. CASE b2 # NoBound
      <4> DEFINE a == b2.version
      <4>1. Within(v, b2)
        OBVIOUS
      <4>2. a \in Seq(Segment) /\ CompareVersions(v, a) >= 0
        BY <1>1, <1>2, <3>2, <4>1
      <4> HIDE DEF a
      <4>3. CompareVersions(a, v) = - CompareVersions(v, a) /\ CompareVersions(v, a) \in {-1, 0, 1}
        BY <1>1, <4>2, CompareIsSign
      <4>4. CompareVersions(a, h) < 0
        BY <1>1, <2>1, <4>2, <4>3, Preorder
      <4>5. CompareVersions(h, a) = - CompareVersions(a, h) /\ CompareVersions(a, h) \in {-1, 0, 1}
        BY <2>1, <4>2, CompareIsSign
      <4>6. CompareVersions(h, a) >= 0
        BY <4>4, <4>5
      <4> QED BY <1>2, <3>2, <4>6 DEF a
    <3> QED BY <3>1, <3>2
  <2>4. ~Within(h, c2)
    BY <2>2, <2>3
  <2>5. c2 # NoBound
    BY <2>4 DEF Within
  <2>6. ASSUME NEW g \in Probe, c2 = Normalize(Constraint("<", g)) PROVE CompareVersions(h, g) >= 0
    <3>1. ~(CompareVersions(h, g) < 0)
      BY <2>1, <2>4, <2>6, UpperEndAdmits
    <3>2. CompareVersions(h, g) \in {-1, 0, 1}
      BY <1>1, CompareIsSign
    <3> QED BY <3>1, <3>2
  <2> QED BY <2>5, <2>6
<1> QED BY <1>4, <1>5

\* Ends that are spelt alike render alike.
LEMMA RenderedAlike ==
  ASSUME OrderIsTransitive, NEW b, NEW b2, NEW c, NEW c2,
         IsBound(b), IsBound(b2), IsBound(c), IsBound(c2),
         b = NoBound <=> b2 = NoBound, c = NoBound <=> c2 = NoBound,
         b # NoBound => b.op = b2.op /\ CanonicalVersion(b.version) = CanonicalVersion(b2.version),
         c # NoBound => c.op = c2.op /\ CanonicalVersion(c.version) = CanonicalVersion(c2.version)
  PROVE  Rendered(b, c) = Rendered(b2, c2)
<1> DEFINE canon(d) == Constraint(d.op, CanonicalVersion(d.version))
           meet(d, e) == /\ d # NoBound /\ e # NoBound /\ d.op = ">=" /\ e.op = "<="
                         /\ CompareVersions(d.version, e.version) = 0
<1>1. \A d, e : meet(d, e) => Rendered(d, e) = {Constraint("=", CanonicalVersion(d.version))}
  BY DEF Rendered, Constraint
<1>2. \A d, e : ~meet(d, e) => Rendered(d, e) = {canon(f) : f \in {d, e} \ {NoBound}}
  BY DEF Rendered
<1>3. /\ b # NoBound => canon(b) = canon(b2)
      /\ c # NoBound => canon(c) = canon(c2)
  OBVIOUS
<1>4. meet(b, c) <=> meet(b2, c2)
  <2> SUFFICES ASSUME b # NoBound, c # NoBound
               PROVE  CompareVersions(b.version, c.version) = CompareVersions(b2.version, c2.version)
    OBVIOUS
  <2> DEFINE w == b.version
             x == b2.version
             y == c.version
             z == c2.version
  <2>1. IsVersion(w) /\ IsVersion(x) /\ IsVersion(y) /\ IsVersion(z)
    BY DEF IsBound, IsConstraint
  <2>2. CanonicalVersion(w) = CanonicalVersion(x) /\ CanonicalVersion(y) = CanonicalVersion(z)
    OBVIOUS
  <2> HIDE DEF w, x, y, z
  <2>3. CompareVersions(w, x) = 0 /\ CompareVersions(y, z) = 0
    BY <2>1, <2>2, SpeltAlikeAreEqual
  <2>4. w \in Seq(Segment) /\ x \in Seq(Segment) /\ y \in Seq(Segment) /\ z \in Seq(Segment)
    BY <2>1 DEF IsVersion
  <2>5. CompareVersions(w, y) = CompareVersions(w, z) /\ CompareVersions(w, z) = CompareVersions(x, z)
    BY <2>3, <2>4, EqualCompareAlike
  <2> QED BY <2>5 DEF w, x, y, z
<1>5. CASE meet(b, c)
  BY <1>1, <1>4, <1>5
<1>6. CASE ~meet(b, c)
  <2> HIDE DEF canon, meet
  <2>1. {canon(f) : f \in {b, c} \ {NoBound}} = {canon(f) : f \in {b2, c2} \ {NoBound}}
    BY <1>3
  <2> QED BY <1>2, <1>4, <1>6, <2>1
<1> QED BY <1>5, <1>6

\* Entries whose forms are ranges, that admit some version, and that agree on
\* having a lower end have one form if they have one meaning.
LEMMA RangesAreUnique ==
  ASSUME OrderIsTransitive, VInv, FormsAreRanges PROVE CanonicalIsUniqueAboveAFloor
<1> SUFFICES ASSUME NEW e \in done, NEW f \in done, HasFloor(e.written) <=> HasFloor(f.written),
                    Meaning(e.written) = Meaning(f.written)
             PROVE  e.form = f.form
  BY DEF CanonicalIsUniqueAboveAFloor
<1>1. PICK b \in LowerEnds : \E c \in UpperEnds :
        (b # NoBound <=> HasFloor(e.written)) /\ e.form = Rendered(b, c)
  BY DEF FormsAreRanges
<1>2. PICK c \in UpperEnds : (b # NoBound <=> HasFloor(e.written)) /\ e.form = Rendered(b, c)
  BY <1>1
<1>3. PICK b2 \in LowerEnds : \E c2 \in UpperEnds :
        (b2 # NoBound <=> HasFloor(f.written)) /\ f.form = Rendered(b2, c2)
  BY DEF FormsAreRanges
<1>4. PICK c2 \in UpperEnds : (b2 # NoBound <=> HasFloor(f.written)) /\ f.form = Rendered(b2, c2)
  BY <1>3
<1>5. IsBound(b) /\ IsBound(c) /\ IsBound(b2) /\ IsBound(c2)
  BY EndsAre
<1>6. ASSUME NEW u \in Probe
      PROVE  /\ Satisfies(u, e.written) <=> Within(u, b) /\ Within(u, c)
             /\ Satisfies(u, f.written) <=> Within(u, b2) /\ Within(u, c2)
             /\ Satisfies(u, e.written) <=> Satisfies(u, f.written)
  <2>1. u \in Seq(Segment) /\ u # Unversioned
    BY ProbeSatisfies
  <2>2. /\ Satisfies(u, e.written) <=> \A d \in e.form : ConstraintHolds(u, d)
        /\ Satisfies(u, f.written) <=> \A d \in f.form : ConstraintHolds(u, d)
    BY <2>1 DEF VInv, CanonicalKeepsMeaning, AllHold
  <2>3. /\ (\A d \in e.form : ConstraintHolds(u, d)) <=> Within(u, b) /\ Within(u, c)
        /\ (\A d \in f.form : ConstraintHolds(u, d)) <=> Within(u, b2) /\ Within(u, c2)
    BY <1>2, <1>4, <1>5, <2>1, RenderedMeans
  <2>4. Satisfies(u, e.written) <=> Satisfies(u, f.written)
    BY DEF Meaning
  <2> QED BY <2>2, <2>3, <2>4
<1>7. PICK v \in Probe : Satisfies(v, e.written)
  BY DEF FormsAreRanges, Admitted
<1>8. /\ b = NoBound <=> b2 = NoBound
      /\ Within(v, b) /\ Within(v, c) /\ Within(v, b2) /\ Within(v, c2)
      /\ \A u \in Probe : Within(u, b) /\ Within(u, c) <=> Within(u, b2) /\ Within(u, c2)
  BY <1>2, <1>4, <1>6, <1>7
<1>9. /\ b # NoBound => CompareVersions(b.version, b2.version) >= 0
      /\ \A h \in Probe : c = Normalize(Constraint("<", h)) =>
           /\ c2 # NoBound
           /\ \A g \in Probe : c2 = Normalize(Constraint("<", g)) => CompareVersions(h, g) >= 0
  BY <1>8, SameRangeOneWay
<1>10. /\ b2 # NoBound => CompareVersions(b2.version, b.version) >= 0
       /\ \A h \in Probe : c2 = Normalize(Constraint("<", h)) =>
            /\ c # NoBound
            /\ \A g \in Probe : c = Normalize(Constraint("<", g)) => CompareVersions(h, g) >= 0
  BY <1>8, SameRangeOneWay
<1>11. \A u, w \in Seq(Segment) :
         CompareVersions(u, w) >= 0 /\ CompareVersions(w, u) >= 0 => CompareVersions(u, w) = 0
  <2> SUFFICES ASSUME NEW u \in Seq(Segment), NEW w \in Seq(Segment),
                      CompareVersions(u, w) >= 0, CompareVersions(w, u) >= 0
               PROVE  CompareVersions(u, w) = 0
    OBVIOUS
  <2>1. CompareVersions(w, u) = - CompareVersions(u, w) /\ CompareVersions(u, w) \in {-1, 0, 1}
    BY CompareIsSign
  <2> QED BY <2>1
<1>12. ASSUME b # NoBound
       PROVE  b.op = b2.op /\ CanonicalVersion(b.version) = CanonicalVersion(b2.version)
  <2>1. b.op = ">=" /\ b2.op = ">=" /\ b.version \in Probe /\ b2.version \in Probe
    BY <1>8, <1>12, EndsAre DEF LowerEnds
  <2>2. /\ IsVersion(b.version) /\ b.version \in Seq(Segment)
        /\ IsVersion(b2.version) /\ b2.version \in Seq(Segment)
    BY <2>1, ProbeSatisfies
  <2>3. CompareVersions(b.version, b2.version) = 0
    BY <1>8, <1>9, <1>10, <1>11, <1>12, <2>2
  <2> QED BY <2>1, <2>2, <2>3, EqualSpellAlike
<1>13. /\ c = NoBound <=> c2 = NoBound
       /\ c # NoBound => c.op = c2.op /\ CanonicalVersion(c.version) = CanonicalVersion(c2.version)
  <2>1. c # NoBound => c2 # NoBound
    BY <1>9 DEF UpperEnds
  <2>2. c2 # NoBound => c # NoBound
    BY <1>10 DEF UpperEnds
  <2>3. ASSUME c # NoBound
        PROVE  c.op = c2.op /\ CanonicalVersion(c.version) = CanonicalVersion(c2.version)
    <3>1. PICK h \in Probe : c = Normalize(Constraint("<", h))
      BY <2>3 DEF UpperEnds
    <3>2. PICK g \in Probe : c2 = Normalize(Constraint("<", g))
      BY <2>1, <2>3 DEF UpperEnds
    <3>3. IsVersion(h) /\ h \in Seq(Segment) /\ IsVersion(g) /\ g \in Seq(Segment)
      BY ProbeSatisfies
    <3>4. CompareVersions(h, g) >= 0 /\ CompareVersions(g, h) >= 0
      BY <1>9, <1>10, <3>1, <3>2
    <3>5. CompareVersions(h, g) = 0
      BY <1>11, <3>3, <3>4
    <3>6. CanonicalVersion(h) = CanonicalVersion(g)
      BY <3>3, <3>5, EqualSpellAlike
    <3> QED BY <3>1, <3>2, <3>3, <3>6, EqualEndsNormalizeAlike
  <2> QED BY <2>1, <2>2, <2>3
<1>14. Rendered(b, c) = Rendered(b2, c2)
  BY <1>5, <1>8, <1>12, <1>13, RenderedAlike
<1> QED BY <1>2, <1>4, <1>14

\* A normalized bound is an end.
LEMMA NormalizedEnds ==
  ASSUME NEW c, IsConstraint(c), c.version \in Probe, NextVersion(c.version) \in Probe
  PROVE  /\ c.op \in Lower => Normalize(c) \in LowerEnds
         /\ c.op \in Upper => Normalize(c) \in UpperEnds
<1>1. IsVersion(c.version) /\ c = Constraint(c.op, c.version)
  BY DEF IsConstraint, Constraints, Constraint
<1>2. CASE c.op = ">="
  <2>1. Normalize(c) = Constraint(">=", c.version)
    BY <1>1, <1>2 DEF Normalize
  <2> QED BY <1>2, <2>1 DEF LowerEnds, Upper
<1>3. CASE c.op = ">"
  <2>1. Normalize(c) = Constraint(">=", NextVersion(c.version))
    BY <1>3 DEF Normalize
  <2> QED BY <1>3, <2>1 DEF LowerEnds, Upper
<1>4. CASE c.op = "<="
  <2>1. Normalize(c) = Constraint("<=", c.version)
    BY <1>1, <1>4 DEF Normalize
  <2>2. Normalize(c) = Normalize(Constraint("<", NextVersion(c.version)))
    BY <1>1, <2>1, UpToIsBelowNext
  <2> QED BY <1>4, <2>2 DEF UpperEnds, Lower
<1>5. CASE c.op = "<"
  <2>1. Normalize(c) = Normalize(Constraint("<", c.version))
    BY <1>1, <1>5
  <2> QED BY <1>5, <2>1 DEF UpperEnds, Lower
<1> QED BY <1>2, <1>3, <1>4, <1>5 DEF Lower, Upper

\* A pin is rendered as the range from it up to it.
LEMMA PinIsARange ==
  ASSUME NEW v \in Probe, NextVersion(v) \in Probe
  PROVE  \E b \in LowerEnds : \E c \in UpperEnds :
           b # NoBound /\ {Constraint("=", CanonicalVersion(v))} = Rendered(b, c)
<1> DEFINE b == Constraint(">=", v)
           c == Constraint("<=", v)
<1>1. IsVersion(v) /\ v \in Seq(Segment) /\ b # NoBound /\ b \in LowerEnds
  BY ProbeSatisfies, EndsAre DEF LowerEnds
<1>2. c \in UpperEnds /\ c # NoBound
  <2>1. c = Normalize(Constraint("<", NextVersion(v)))
    BY <1>1, UpToIsBelowNext
  <2> HIDE DEF c
  <2> QED BY <2>1, EndsAre DEF UpperEnds
<1>3. CompareVersions(v, v) = 0
  <2>1. CompareVersions(v, v) = - CompareVersions(v, v) /\ CompareVersions(v, v) \in {-1, 0, 1}
    BY <1>1, CompareIsSign
  <2> QED BY <2>1
<1>4. b.op = ">=" /\ c.op = "<=" /\ b.version = v /\ c.version = v
  BY DEF Constraint
<1> HIDE DEF b, c
<1>5. Rendered(b, c) = {Constraint("=", CanonicalVersion(v))}
  BY <1>1, <1>2, <1>3, <1>4 DEF Rendered, Constraint
<1> QED BY <1>1, <1>2, <1>5

\* An accepted entry that ends in a rendering of two ends keeps the forms ranges.
LEMMA FinishIsARange ==
  ASSUME FormInv, pc = "simplify", NEW form, Finish(form),
         NEW b \in LowerEnds, NEW c \in UpperEnds, b # NoBound <=> HasFloor(cs),
         form = Rendered(b, c)
  PROVE  EndsSoFar' /\ FormsAreRanges'
<1> DEFINE e == [written |-> cs, form |-> form]
<1>1. pc' = "idle" /\ done' = done \cup {e}
  BY DEF Finish
<1>2. EndsSoFar'
  BY <1>1 DEF EndsSoFar
<1>3. e.written = cs /\ e.form = form
  OBVIOUS
<1> HIDE DEF e
<1>4. Admitted(e.written) # {}
  BY <1>3 DEF FormInv, VInv, AcceptedIsSatisfiable
<1>5. \A f \in done' :
        /\ Admitted(f.written) # {}
        /\ \E x \in LowerEnds : \E y \in UpperEnds :
             (x # NoBound <=> HasFloor(f.written)) /\ f.form = Rendered(x, y)
  <2> SUFFICES ASSUME NEW f \in done'
               PROVE  /\ Admitted(f.written) # {}
                      /\ \E x \in LowerEnds : \E y \in UpperEnds :
                           (x # NoBound <=> HasFloor(f.written)) /\ f.form = Rendered(x, y)
    OBVIOUS
  <2>1. CASE f = e
    BY <1>3, <1>4, <2>1
  <2>2. CASE f \in done
    BY <2>2 DEF FormInv, FormsAreRanges
  <2> QED BY <1>1, <2>1, <2>2
<1>6. FormsAreRanges'
  BY <1>5 DEF FormsAreRanges
<1> QED BY <1>2, <1>6

\* Every step keeps the ends ends and the forms ranges.
LEMMA FormStep ==
  ASSUME OrderIsTransitive, FormInv, [Next]_vars PROVE FormInv'
<1> USE EntryIs DEF VInv, FormInv
<1>1. VInv'
  BY MeaningStep
<1>2. CASE Start \/ ScanPin \/ AfterPins \/ ScanBound \/ AfterBounds
  <2>1. done' = done /\ (pc' = "simplify" => i' = 1 /\ lo' = NoBound /\ hi' = NoBound)
    BY <1>2 DEF Start, ScanPin, AfterPins, ScanBound, AfterBounds
  <2>2. EndsSoFar'
    BY <2>1 DEF EndsSoFar, LowerEnds, UpperEnds
  <2> QED BY <1>1, <2>1, <2>2 DEF FormsAreRanges
<1>3. CASE RenderPin
  <2> DEFINE first == CHOOSE k \in DOMAIN cs :
                        cs[k].op = "=" /\ \A j \in 1..(k - 1) : cs[j].op # "="
             form == {Constraint("=", CanonicalVersion(cs[first].version))}
  <2>1. pc = "simplify" /\ HasPin /\ Finish(form)
    BY <1>3 DEF RenderPin, HasPin
  <2>2. first \in DOMAIN cs /\ cs[first].op = "="
    BY <2>1, FirstPinIs
  <2> HIDE DEF first
  <2>3. HasFloor(cs)
    BY <2>2 DEF HasFloor
  <2>4. PICK b \in LowerEnds : \E c \in UpperEnds : b # NoBound /\ form = Rendered(b, c)
    BY <2>1, <2>2, PinIsARange
  <2>5. PICK c \in UpperEnds : b # NoBound /\ form = Rendered(b, c)
    BY <2>4
  <2> HIDE DEF form
  <2> QED BY <1>1, <2>1, <2>3, <2>5, FinishIsARange
<1>4. CASE ScanNormalized
  <2> DEFINE c == Normalize(cs[i])
  <2>1. /\ pc = "simplify" /\ i \in DOMAIN cs /\ i' = i + 1 /\ ~HasPin
        /\ pc' = pc /\ cs' = cs /\ done' = done
        /\ lo' = (IF c.op = ">=" /\ (lo = NoBound \/ TightensLo(c, lo)) THEN c ELSE lo)
        /\ hi' = (IF c.op \in {"<=", "<"} /\ TightensHi(c, hi) THEN c ELSE hi)
    BY <1>4 DEF ScanNormalized, HasPin
  <2>2. /\ IsConstraint(cs[i]) /\ cs[i].op # "="
        /\ cs[i].version \in Probe /\ NextVersion(cs[i].version) \in Probe
    BY <2>1 DEF HasPin
  <2>3. /\ IsConstraint(c)
        /\ \/ cs[i].op \in Lower /\ c.op = ">=" /\ c \in LowerEnds
           \/ cs[i].op \in Upper /\ c.op \in Upper /\ c \in UpperEnds
    BY <2>2, NormalizeIs, NormalizedEnds
  <2>4. c # NoBound
    BY <2>3, EntriesAssumption DEF IsConstraint
  <2>5. ~(cs[i].op \in Lower /\ cs[i].op \in Upper) /\ (c.op \in Upper => c.op # ">=")
    BY DEF Lower, Upper
  <2> HIDE DEF c
  <2>6. lo \in LowerEnds /\ hi \in UpperEnds
        /\ (lo # NoBound <=> \E k \in 1..(i - 1) : cs[k].op \in Lower)
    BY <2>1 DEF EndsSoFar
  <2>7. lo' \in LowerEnds /\ hi' \in UpperEnds
    BY <2>1, <2>3, <2>5, <2>6 DEF Upper
  <2>8. lo' # NoBound <=> lo # NoBound \/ cs[i].op \in Lower
    BY <2>1, <2>3, <2>4, <2>5
  <2>9. 1..(i' - 1) = 1..(i - 1) \cup {i}
    BY <2>1
  <2>10. lo' # NoBound <=> \E k \in 1..(i' - 1) : cs'[k].op \in Lower
    BY <2>1, <2>6, <2>8, <2>9
  <2>11. EndsSoFar'
    BY <2>7, <2>10 DEF EndsSoFar
  <2> QED BY <1>1, <2>1, <2>11 DEF FormsAreRanges
<1>5. CASE RenderBounds
  <2>1. pc = "simplify" /\ ~HasPin /\ i > Len(cs) /\ Finish(Rendered(lo, hi))
    BY <1>5 DEF RenderBounds, HasPin
  <2>2. lo \in LowerEnds /\ hi \in UpperEnds
        /\ (lo # NoBound <=> \E k \in 1..(i - 1) : cs[k].op \in Lower)
    BY <2>1 DEF EndsSoFar
  <2>3. 1..(i - 1) = DOMAIN cs
    BY <2>1
  <2>4. lo # NoBound <=> HasFloor(cs)
    BY <2>1, <2>2, <2>3 DEF HasFloor, HasPin, Lower
  <2> QED BY <1>1, <2>1, <2>2, <2>4, FinishIsARange
<1>6. CASE UNCHANGED vars
  BY <1>1, <1>6 DEF vars, EndsSoFar, FormsAreRanges, HasPin
<1> QED BY <1>2, <1>3, <1>4, <1>5, <1>6 DEF Next

\* CanonicalRequire has one rendering per meaning among the entries that agree
\* on stating a lower end, for entries and versions of any length, when the two
\* orders of segments have no cycle together.
THEOREM OneFormPerMeaning ==
  ASSUME OrderIsTransitive PROVE Spec => []CanonicalIsUniqueAboveAFloor
<1>1. Init => FormInv
  <2>1. Init => EndsSoFar /\ FormsAreRanges
    BY DEF Init, EndsSoFar, FormsAreRanges
  <2> QED BY <2>1, MeaningInit DEF FormInv
<1>2. FormInv => CanonicalIsUniqueAboveAFloor
  BY RangesAreUnique DEF FormInv
<1> QED BY <1>1, <1>2, FormStep, PTL DEF Spec
=============================================================================
