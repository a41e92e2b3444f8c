------------------------- MODULE Evaluation_proofs -------------------------
(* Every lookup reads inside its table and weighs what it reads as its       *)
(* interpolation means it to, for tables of up to sixteen inputs and curves  *)
(* of any size and for every source; tetrahedra weigh their corners with     *)
(* what is left of 1; and every pixel goes through the elements of its       *)
(* chain, or the stages of its tag, once each and in order.                  *)
EXTENDS Evaluation, TLAPS, NaturalsInduction, WellFoundedInduction, FiniteSetTheorems

LEMMA Quotient ==
  ASSUME NEW a \in Nat, NEW b \in Nat, b > 0
  PROVE  a \div b \in Int /\ a % b \in 0 .. b - 1 /\ a = b * (a \div b) + (a % b)
  BY SMT

LEMMA Products ==
  ASSUME NEW b \in Nat, NEW d \in Nat
  PROVE  b * d \in Nat
  BY SMT

LEMMA MonotonicProduct ==
  ASSUME NEW a \in Nat, NEW b \in Nat, a <= b, NEW m \in Nat
  PROVE  a * m <= b * m
<1>1. (b - a) * m \in Nat  BY Products, SMT
<1>2. (b - a) * m = b * m - a * m  BY SMT
<1> QED  BY <1>1, <1>2, SMT

(* The integral part of what lies between 0 and max wholes is at most max,   *)
(* and only where it is max nothing is left.                                 *)
LEMMA QuotientUpTo ==
  ASSUME NEW b \in Nat, b > 0, NEW m \in Nat, NEW a \in 0 .. m * b
  PROVE  a \div b \in 0 .. m /\ (a \div b = m => a % b = 0)
<1>1. a \in Nat /\ m * b \in Nat  BY Products, SMT
<1>2. a \div b >= 0  BY <1>1, Quotient, SMT
<1>3. a \div b <= m
  <2> SUFFICES ASSUME a \div b >= m + 1 PROVE FALSE  BY <1>1, Quotient, SMT
  <2>1. (m + 1) * b <= (a \div b) * b  BY <1>1, <1>2, Quotient, MonotonicProduct, SMT
  <2>2. (m + 1) * b = m * b + b  BY SMT
  <2>3. (a \div b) * b = b * (a \div b)  BY <1>1, Quotient, SMT
  <2> QED  BY <1>1, <2>1, <2>2, <2>3, Quotient, SMT
<1>4. ASSUME a \div b = m PROVE a % b = 0
  BY <1>1, <1>4, Quotient, SMT
<1> QED  BY <1>1, <1>2, <1>3, <1>4, Quotient, SMT

(* The cell that is read exists: it is below the last entry, even where the  *)
(* source is the last entry or no number (Interp1d to InterpND).             *)
THEOREM CellInTable ==
  ASSUME NEW whole \in Nat, whole > 0, NEW max \in Nat, max > 0,
         NEW x \in {NoNumber} \cup 0 .. max * whole
  PROVE  /\ Cell(x, max, whole).at \in 0 .. max - 1
         /\ Cell(x, max, whole).part \in 0 .. whole
<1>1. CASE x = NoNumber
  BY <1>1 DEF Cell
<1>2. CASE x # NoNumber
  <2>1. x \in Nat /\ x \div whole \in 0 .. max /\ x % whole \in 0 .. whole - 1
    BY <1>2, QuotientUpTo, Quotient, Products, SMT DEF NoNumber
  <2>2. CASE x \div whole = max
    BY <1>2, <2>1, <2>2 DEF Cell
  <2>3. CASE x \div whole # max
    BY <1>2, <2>1, <2>3 DEF Cell
  <2> QED  BY <2>2, <2>3
<1> QED  BY <1>1, <1>2

(* What reads two entries of one number each at most reads inside. *)
LEMMA EntriesInside ==
  ASSUME NEW t, CurveBegins(t), t.form # "array",
         NEW entries, \A e \in entries : e[1] \in 0 .. MaxGridPoint(t, 1)
  PROVE  Reads(t, entries) \subseteq NumbersOf(t)
<1>1. t.out = 1 /\ t.grid[1] \in Nat /\ t.form # "clut"
  BY DEF CurveBegins, CurveForms
<1>2. NumbersOf(t) = 0 .. t.grid[1] - 1
  BY <1>1, SMT DEF NumbersOf
<1>3. \A r \in Reads(t, entries) : \E e \in entries : r = e[1] + 0
  BY <1>1, SMT DEF Reads
<1> QED  BY <1>1, <1>2, <1>3, SMT DEF MaxGridPoint

LEMMA BetweenInside ==
  ASSUME NEW whole \in Nat, whole > 0, NEW max \in Nat, NEW x \in 0 .. max * whole
  PROVE  \A e \in Between(x, whole) : e[1] \in 0 .. max
<1>1. x \in Nat /\ x \div whole \in 0 .. max /\ (x % whole # 0 => x \div whole # max)
  BY QuotientUpTo, Products, SMT
<1>2. CASE x % whole = 0
  BY <1>1, <1>2 DEF Between
<1>3. CASE x % whole # 0
  BY <1>1, <1>3, SMT DEF Between
<1> QED  BY <1>2, <1>3

LEMMA ScaledUpTo ==
  ASSUME NEW max \in Nat, NEW whole \in Nat, NEW y \in 0 .. whole
  PROVE  y * max \in 0 .. max * whole
<1>1. y * max \in Nat /\ y * max <= whole * max
  BY Products, MonotonicProduct, SMT
<1>2. whole * max = max * whole  BY SMT
<1> QED  BY <1>1, <1>2, SMT

LEMMA TagCurveInside ==
  ASSUME NEW t, CurveBegins(t), NEW v \in Int
  PROVE  \A e \in ApplyTagCurve(t, v) : e[1] \in 0 .. MaxGridPoint(t, 1)
<1> DEFINE y == IF v = NaN THEN 0 ELSE Within(v, 0, Unit)
           max == MaxIndex(t)
<1>1. MaxGridPoint(t, 1) \in Nat
  BY SMT DEF CurveBegins, MaxGridPoint
<1>2. max \in Nat /\ max <= MaxGridPoint(t, 1)
  <2>1. MaxGridPoint(t, 1) \div IndexRange >= 0 /\ max \in Nat
    BY <1>1, IndexRangeAssumption, Quotient, SMT DEF MaxIndex
  <2>2. IndexRange * (MaxGridPoint(t, 1) \div IndexRange) \in Nat
    BY <1>1, <2>1, IndexRangeAssumption, Quotient, Products, SMT
  <2> QED  BY <1>1, <2>1, <2>2, IndexRangeAssumption, Quotient, SMT DEF MaxIndex
<1>3. y \in 0 .. Unit
  BY UnitAssumption, SMT DEF Within, Larger, Smaller
<1>4. y * max \in 0 .. max * Unit
  BY <1>2, <1>3, ScaledUpTo, UnitAssumption
<1>5. (y * max) \div Unit \in 0 .. max
  BY <1>2, <1>4, QuotientUpTo, UnitAssumption, SMT
<1>6. CASE (y * max) \div Unit = max
  BY <1>1, <1>2, <1>6, SMT DEF ApplyTagCurve
<1>7. CASE (y * max) \div Unit # max
  BY <1>1, <1>2, <1>5, <1>7, SMT DEF ApplyTagCurve
<1> QED  BY <1>6, <1>7

(* A source on the way from the first entry of a sampled curve to its last. *)
LEMMA OnTheWayInside ==
  ASSUME NEW t, CurveBegins(t), t.form \in Sampled, NEW way \in 0 .. Whole(t)
  PROVE  \A e \in Between(way * MaxGridPoint(t, 1), Whole(t)) : e[1] \in 0 .. MaxGridPoint(t, 1)
<1>1. MaxGridPoint(t, 1) \in Nat /\ Whole(t) \in Nat /\ Whole(t) > 0
  BY SMT DEF CurveBegins, MaxGridPoint, Whole, Distance, Sampled
<1>2. way * MaxGridPoint(t, 1) \in 0 .. MaxGridPoint(t, 1) * Whole(t)
  BY <1>1, ScaledUpTo
<1> QED  BY <1>1, <1>2, BetweenInside

LEMMA SegmentInside ==
  ASSUME NEW t, CurveBegins(t), t.form = "segment", NEW v \in Int
  PROVE  \A e \in ApplySegment(t, v) : e[1] \in 0 .. MaxGridPoint(t, 1)
<1> DEFINE inside == IF IsFinite(v) THEN Clamped(t, v) ELSE t.lo
<1>1. t.lo \in Int /\ t.hi \in Int /\ t.lo # t.hi /\ Whole(t) = Distance(t.lo, t.hi)
  BY DEF CurveBegins, Whole
<1>2. inside \in {t.lo, t.hi} \/ (t.lo < t.hi /\ inside \in t.lo .. t.hi)
  BY <1>1, SMT DEF Clamped
<1> HIDE DEF inside
<1>3. Advance(t, inside) \in 0 .. Whole(t)
  BY <1>1, <1>2, SMT DEF Advance, Distance
<1>4. ApplySegment(t, v) = Between(Advance(t, inside) * MaxGridPoint(t, 1), Whole(t))
  BY DEF ApplySegment, inside
<1> QED  BY <1>3, <1>4, OnTheWayInside DEF Sampled

LEMMA SampledInside ==
  ASSUME NEW t, CurveBegins(t), t.form \in {"sampled", "calculator"}, NEW v \in Int
  PROVE  \A e \in ApplySampled(t, v) : e[1] \in 0 .. MaxGridPoint(t, 1)
<1>1. /\ t.lo \in Int /\ t.hi \in Int /\ t.lo # t.hi /\ MaxGridPoint(t, 1) \in Nat \ {0}
      /\ Whole(t) = Distance(t.lo, t.hi)
  BY SMT DEF CurveBegins, MaxGridPoint, Whole
<1>2. CASE v < t.lo
  BY <1>1, <1>2, SMT DEF ApplySampled, ApplyBelow
<1>3. CASE v >= t.lo /\ v > t.hi
  BY <1>1, <1>3, SMT DEF ApplySampled, ApplyAbove
<1>4. CASE v \in t.lo .. t.hi
  <2>1. ApplySampled(t, v) = Between(Advance(t, v) * MaxGridPoint(t, 1), Whole(t))
    BY <1>1, <1>4, SMT DEF ApplySampled
  <2>2. Advance(t, v) \in 0 .. Whole(t)
    BY <1>1, <1>4, SMT DEF Advance, Distance
  <2> QED  BY <2>1, <2>2, OnTheWayInside DEF Sampled
<1> QED  BY <1>1, <1>2, <1>3, <1>4, SMT

(* Vectors; the numbers of the client's own have the indices below zero. *)
LEMMA VectorsInside ==
  ASSUME NEW t, CurveBegins(t), t.form = "array", t.clip # "integers", NEW v \in Int
  PROVE  Reads(t, ApplyVectors(t, v)) \subseteq NumbersOf(t)
<1> DEFINE last == IF t.zero THEN t.grid[1] ELSE t.grid[1] - 1
           first == IF t.zero THEN -1 ELSE 0
           x == IF v = NaN THEN NoNumber ELSE Within(v, 0, Unit) * last
           cell == Cell(x, last, Unit)
<1>1. /\ last \in Nat /\ last > 0 /\ t.out \in Nat /\ t.out > 0 /\ t.grid[1] \in Nat
      /\ t.zero \in BOOLEAN /\ last + first = t.grid[1] - 1
  BY SMT DEF CurveBegins
<1>2. x \in {NoNumber} \cup 0 .. last * Unit
  <2>1. Within(v, 0, Unit) \in 0 .. Unit
    BY UnitAssumption, SMT DEF Within, Larger, Smaller
  <2> QED  BY <1>1, <2>1, ScaledUpTo, UnitAssumption
<1>3. cell.at \in 0 .. last - 1
  BY <1>1, <1>2, CellInTable, UnitAssumption
<1>4. \A i \in 0 .. last : \A o \in 0 .. t.out - 1 : KnotAt(t, i) + o \in NumbersOf(t)
  <2> SUFFICES ASSUME NEW i \in 0 .. last, NEW o \in 0 .. t.out - 1
               PROVE  KnotAt(t, i) + o \in NumbersOf(t)
    OBVIOUS
  <2>1. KnotAt(t, i) = (i + first) * t.out
    BY <1>1, SMT DEF KnotAt
  <2>2. /\ i * t.out \in Nat /\ last * t.out \in Nat
        /\ i * t.out <= last * t.out
    <3>1. i \in Nat /\ i <= last /\ last \in Nat /\ t.out \in Nat
      BY <1>1
    <3> HIDE DEF last
    <3> QED  BY <3>1, Products, MonotonicProduct
  <2>3. /\ (i + first) * t.out = i * t.out + first * t.out
        /\ (last + first) * t.out = last * t.out + first * t.out
        /\ (t.grid[1] - 1) * t.out = t.grid[1] * t.out - t.out
        /\ first * t.out = IF t.zero THEN -t.out ELSE 0
        /\ t.grid[1] * t.out \in Int /\ first * t.out \in Int
    BY <1>1, SMT
  <2>4. NumbersOf(t) = first * t.out .. t.grid[1] * t.out - 1
    BY <1>1, <2>3, SMT DEF NumbersOf
  <2>5. last * t.out + first * t.out = t.grid[1] * t.out - t.out
    <3>1. (last + first) * t.out = (t.grid[1] - 1) * t.out
      BY <1>1
    <3> QED  BY <2>3, <3>1
  <2> HIDE DEF last, first
  <2>6. KnotAt(t, i) + o \in first * t.out .. t.grid[1] * t.out - 1
    BY <1>1, <2>1, <2>2, <2>3, <2>5, SMT
  <2> QED  BY <2>4, <2>6
<1>5. ApplyVectors(t, v) = {<<KnotAt(t, cell.at), Unit - cell.part>>, <<KnotAt(t, cell.at + 1), cell.part>>}
  BY <1>1, SMT DEF ApplyVectors
<1>6. \A e \in ApplyVectors(t, v) : \E i \in 0 .. last : e[1] = KnotAt(t, i)
  BY <1>1, <1>3, <1>5, SMT
<1> QED  BY <1>4, <1>6 DEF Reads

(* Curves of every kind, sampled or tabulated, and arrays of vectors that    *)
(* Begin accepts, those with the first entry above the last among them:      *)
(* Apply and Interpolate read entries of theirs only, for every source.      *)
THEOREM CurvesReadInside ==
  ASSUME NEW t, CurveBegins(t), t.clip # "integers", NEW src \in [1 .. 1 -> Int], NEW method
  PROVE  Reads(t, LookUp(t, src, method)) \subseteq NumbersOf(t)
<1>1. src[1] \in Int
  BY SMT
<1>2. t.form \in CurveForms
  BY DEF CurveBegins
<1>3. CASE t.form = "curve"
  BY <1>1, <1>3, TagCurveInside, EntriesInside DEF LookUp
<1>4. CASE t.form = "segment"
  BY <1>1, <1>4, SegmentInside, EntriesInside DEF LookUp
<1>5. CASE t.form = "sampled"
  <2>1. LookUp(t, src, method) = ApplySingleSampled(t, src[1])
    BY <1>5 DEF LookUp
  <2>2. \A e \in ApplySingleSampled(t, src[1]) : e[1] \in 0 .. MaxGridPoint(t, 1)
    BY <1>1, <1>5, SampledInside DEF ApplySingleSampled
  <2> QED  BY <1>5, <2>1, <2>2, EntriesInside
<1>6. CASE t.form = "calculator"
  <2>1. t.lo \in Int
    BY DEF CurveBegins
  <2>2. LookUp(t, src, method) = ApplySampled(t, IF IsFinite(src[1]) THEN src[1] ELSE t.lo)
    BY <1>6 DEF LookUp, ApplyCalculatorCurve
  <2> QED  BY <1>1, <1>6, <2>1, <2>2, SampledInside, EntriesInside
<1>7. CASE t.form = "array"
  BY <1>1, <1>7, VectorsInside DEF LookUp
<1> QED  BY <1>2, <1>3, <1>4, <1>5, <1>6, <1>7 DEF CurveForms

(* Interp3dTetra goes through the inputs by their parts, the largest first,  *)
(* each once: every corner's weight, the difference of two parts next to     *)
(* each other, is of 0 to 1.                                                 *)
THEOREM TetraWeights ==
  ASSUME NEW v \in 0 .. Unit, NEW u \in 0 .. Unit, NEW t \in 0 .. Unit
  PROVE  LET path == TetraPath(v, u, t)
             part == <<v, u, t>>
         IN /\ {path[1], path[2], path[3]} = 1 .. 3
            /\ Unit >= part[path[1]]
            /\ part[path[1]] >= part[path[2]]
            /\ part[path[2]] >= part[path[3]]
            /\ part[path[3]] >= 0
  BY UnitAssumption DEF TetraPath
-----------------------------------------------------------------------------
(* What holds of 0, and of every number after one of which it holds.         *)
LEMMA UpTo ==
  ASSUME NEW n \in Nat, NEW S, 0 \in S, \A k \in 0 .. n - 1 : k \in S => k + 1 \in S
  PROVE  \A k \in 0 .. n : k \in S
<1> DEFINE T == {k \in 0 .. n : k \notin S}
<1>1. ASSUME T # {} PROVE FALSE
  <2>1. T \subseteq Nat OBVIOUS
  <2>2. PICK m \in T : \A k \in T : <<k, m>> \notin OpToRel(<, Nat)
    <3> HIDE DEF T
    <3> QED BY <1>1, <2>1, NatLessThanWellFounded, WFMin, Zenon
  <2>3. \A k \in T : ~(k < m)
    <3> HIDE DEF T
    <3> QED BY <2>1, <2>2, Zenon DEF OpToRel
  <2>4. m \in 1 .. n /\ m - 1 \in 0 .. n - 1 /\ m - 1 \notin T
    <3>1. m \in 0 .. n /\ m # 0 OBVIOUS
    <3> HIDE DEF T
    <3>2. m - 1 < m BY <3>1
    <3> QED BY <2>3, <3>1, <3>2
  <2>5. m - 1 \in S BY <2>4
  <2>6. m = (m - 1) + 1 BY <2>4
  <2> QED BY <2>4, <2>5, <2>6
<1> QED BY <1>1

(* Lists, of whatever elements.                                              *)
List(s) == Len(s) \in Nat /\ s = [k \in 1 .. Len(s) |-> s[k]]

LEMMA ListOf ==
  ASSUME NEW n \in Nat, NEW s, s = [k \in 1 .. n |-> s[k]]
  PROVE  List(s) /\ Len(s) = n
<1> DEFINE S == {s[k] : k \in 1 .. n}
<1>1. s \in [1 .. n -> S] OBVIOUS
<1>2. s \in Seq(S) BY <1>1
<1>3. Len(s) = n BY <1>1, <1>2
<1> QED BY <1>3 DEF List

LEMMA ListIn ==
  ASSUME NEW s, List(s) PROVE s \in Seq({s[k] : k \in 1 .. Len(s)}) /\ DOMAIN s = 1 .. Len(s)
<1> DEFINE S == {s[k] : k \in 1 .. Len(s)}
<1>1. s \in [1 .. Len(s) -> S] /\ Len(s) \in Nat BY DEF List
<1> QED BY <1>1

LEMMA SameLists ==
  ASSUME NEW s, NEW t, List(s), List(t), Len(s) = Len(t), \A k \in 1 .. Len(s) : s[k] = t[k]
  PROVE  s = t
BY DEF List

LEMMA Appended ==
  ASSUME NEW s, List(s), NEW x
  PROVE  /\ List(Append(s, x)) /\ Len(Append(s, x)) = Len(s) + 1
         /\ \A k \in 1 .. Len(s) : Append(s, x)[k] = s[k]
         /\ Append(s, x)[Len(s) + 1] = x
<1> DEFINE S == {s[k] : k \in 1 .. Len(s)} \cup {x}
<1>1. s \in [1 .. Len(s) -> S] BY DEF List
<1>2. s \in Seq(S) /\ x \in S /\ Len(s) \in Nat BY <1>1 DEF List
<1>3. /\ Append(s, x) \in Seq(S) /\ Len(Append(s, x)) = Len(s) + 1
      /\ \A k \in 1 .. Len(s) : Append(s, x)[k] = s[k]
      /\ Append(s, x)[Len(s) + 1] = x
  BY <1>2
<1>4. List(Append(s, x))
  <2> DEFINE r == Append(s, x)
  <2>1. r \in Seq(S) BY <1>3
  <2> HIDE DEF r, S
  <2>2. r \in [1 .. Len(r) -> S] /\ Len(r) \in Nat BY <2>1
  <2> QED BY <2>2 DEF List, r
<1> QED BY <1>3, <1>4

LEMMA Joined ==
  ASSUME NEW s, List(s), NEW t, List(t)
  PROVE  /\ List(s \o t) /\ Len(s \o t) = Len(s) + Len(t)
         /\ \A k \in 1 .. Len(s) : (s \o t)[k] = s[k]
         /\ \A k \in 1 .. Len(t) : (s \o t)[Len(s) + k] = t[k]
<1> DEFINE S == {s[k] : k \in 1 .. Len(s)} \cup {t[k] : k \in 1 .. Len(t)}
<1>1. s \in [1 .. Len(s) -> S] /\ t \in [1 .. Len(t) -> S] BY DEF List
<1>2. s \in Seq(S) /\ t \in Seq(S) /\ Len(s) \in Nat /\ Len(t) \in Nat BY <1>1 DEF List
<1> HIDE DEF S
<1>3. /\ s \o t \in Seq(S) /\ Len(s \o t) = Len(s) + Len(t)
      /\ \A k \in 1 .. Len(s) : (s \o t)[k] = s[k]
      /\ \A k \in 1 .. Len(t) : (s \o t)[Len(s) + k] = t[k]
  BY <1>2
<1>4. List(s \o t)
  <2> DEFINE r == s \o t
  <2>1. r \in Seq(S) BY <1>3
  <2> HIDE DEF r
  <2>2. r \in [1 .. Len(r) -> S] /\ Len(r) \in Nat BY <2>1
  <2> QED BY <2>2 DEF List, r
<1> QED BY <1>3, <1>4

LEMMA InSeq ==
  ASSUME NEW n \in Nat, NEW S, NEW s \in [1 .. n -> S] PROVE s \in Seq(S)
  OBVIOUS

LEMMA JoinedInTurn ==
  ASSUME NEW s, List(s), NEW t, List(t), NEW u, List(u)
  PROVE  (s \o t) \o u = s \o (t \o u)
<1> DEFINE S == {s[k] : k \in 1 .. Len(s)} \cup {t[k] : k \in 1 .. Len(t)}
                  \cup {u[k] : k \in 1 .. Len(u)}
<1>1. s \in [1 .. Len(s) -> S] /\ t \in [1 .. Len(t) -> S] /\ u \in [1 .. Len(u) -> S] BY DEF List
<1>2. Len(s) \in Nat /\ Len(t) \in Nat /\ Len(u) \in Nat BY DEF List
<1> HIDE DEF S
<1>3. s \in Seq(S) /\ t \in Seq(S) /\ u \in Seq(S) BY <1>1, <1>2, InSeq
<1> QED BY <1>3

LEMMA JoinedAppended ==
  ASSUME NEW s, List(s), NEW t, List(t), NEW x
  PROVE  Append(s \o t, x) = s \o Append(t, x)
<1> DEFINE S == {s[k] : k \in 1 .. Len(s)} \cup {t[k] : k \in 1 .. Len(t)} \cup {x}
<1>1. s \in [1 .. Len(s) -> S] /\ t \in [1 .. Len(t) -> S] BY DEF List
<1>2. s \in Seq(S) /\ t \in Seq(S) /\ x \in S BY <1>1 DEF List
<1> HIDE DEF S
<1> QED BY <1>2

LEMMA JoinedEmpty ==
  ASSUME NEW s, List(s) PROVE s \o <<>> = s /\ <<>> \o s = s
<1> DEFINE S == {s[k] : k \in 1 .. Len(s)}
<1>1. s \in Seq(S) BY ListIn
<1> HIDE DEF S
<1> QED BY <1>1

LEMMA EmptyList == List(<<>>) /\ Len(<<>>) = 0
BY DEF List

-----------------------------------------------------------------------------
(* What is kept of a list: prefix after prefix.                              *)
KeptOver(f, s, S) ==
  f = [k \in 0 .. Len(s) |->
         IF k = 0 THEN <<>> ELSE IF s[k] \in S THEN Append(f[k - 1], s[k]) ELSE f[k - 1]]

LEMMA KeptRuns ==
  ASSUME NEW s, Len(s) \in Nat, NEW S
  PROVE  \E f : KeptOver(f, s, S) /\ Kept(s, S) = f[Len(s)]
<1> DEFINE n == Len(s)
           Over(f, m) == f = [k \in 0 .. m |-> IF k = 0 THEN <<>>
                                ELSE IF s[k] \in S THEN Append(f[k - 1], s[k]) ELSE f[k - 1]]
           T == {m \in 0 .. n : \E f : Over(f, m)}
<1>1. 0 \in T
  <2> DEFINE f == [k \in 0 .. 0 |-> <<>>]
  <2>1. Over(f, 0) OBVIOUS
  <2>2. 0 \in 0 .. n OBVIOUS
  <2> HIDE DEF Over, f
  <2> QED BY <2>1, <2>2
<1>2. ASSUME NEW m \in 0 .. n - 1, m \in T PROVE m + 1 \in T
  <2>1. PICK f : Over(f, m) BY <1>2
  <2> DEFINE g == [k \in 0 .. m + 1 |->
                     IF k # m + 1 THEN f[k]
                     ELSE IF s[k] \in S THEN Append(f[m], s[k]) ELSE f[m]]
  <2>2. \A k \in 0 .. m + 1 :
          g[k] = IF k = 0 THEN <<>> ELSE IF s[k] \in S THEN Append(g[k - 1], s[k]) ELSE g[k - 1]
    <3> TAKE k \in 0 .. m + 1
    <3>1. CASE k = 0
      <4>1. k # m + 1 /\ 0 \in 0 .. m BY <3>1
      <4>2. f[0] = <<>> BY <2>1, <4>1
      <4> QED BY <3>1, <4>1, <4>2
    <3>2. CASE k = m + 1
      <4>1. k # 0 /\ k - 1 = m /\ m \in 0 .. m + 1 /\ m # m + 1 BY <3>2
      <4>2. g[k - 1] = f[m] BY <4>1
      <4> QED BY <3>2, <4>1, <4>2
    <3>3. CASE k # 0 /\ k # m + 1
      <4>1. k \in 0 .. m /\ k - 1 \in 0 .. m + 1 /\ k - 1 # m + 1 BY <3>3
      <4>2. g[k] = f[k] /\ g[k - 1] = f[k - 1] BY <3>3, <4>1
      <4>3. f[k] = IF s[k] \in S THEN Append(f[k - 1], s[k]) ELSE f[k - 1] BY <2>1, <3>3, <4>1
      <4> QED BY <3>3, <4>2, <4>3
    <3> QED BY <3>1, <3>2, <3>3
  <2>3. g = [k \in 0 .. m + 1 |-> g[k]] OBVIOUS
  <2> HIDE DEF g
  <2>4. Over(g, m + 1) BY <2>2, <2>3, Zenon
  <2>5. m + 1 \in 0 .. n OBVIOUS
  <2> HIDE DEF Over
  <2> QED BY <2>4, <2>5
<1>3. n \in T
  <2>1. n \in 0 .. n OBVIOUS
  <2> HIDE DEF T, n
  <2> QED BY <1>1, <1>2, <2>1, UpTo
<1>4. PICK f : Over(f, n) BY <1>3
<1> DEFINE kept[k \in 0 .. Len(s)] ==
             IF k = 0 THEN <<>> ELSE IF s[k] \in S THEN Append(kept[k - 1], s[k]) ELSE kept[k - 1]
<1>5. Over(kept, n) BY <1>4, Zenon
<1>6. Kept(s, S) = kept[Len(s)] BY Zenon DEF Kept
<1> HIDE DEF kept
<1>7. KeptOver(kept, s, S) BY <1>5, Zenon DEF KeptOver
<1> QED BY <1>6, <1>7

LEMMA KeptGrows ==
  ASSUME NEW s, Len(s) \in Nat, NEW S, NEW f, KeptOver(f, s, S)
  PROVE  /\ f[0] = <<>>
         /\ \A k \in 1 .. Len(s) : f[k] = IF s[k] \in S THEN Append(f[k - 1], s[k]) ELSE f[k - 1]
<1>1. \A k \in 0 .. Len(s) :
        f[k] = IF k = 0 THEN <<>> ELSE IF s[k] \in S THEN Append(f[k - 1], s[k]) ELSE f[k - 1]
  BY Zenon DEF KeptOver
<1>2. 0 \in 0 .. Len(s) /\ \A k \in 1 .. Len(s) : k \in 0 .. Len(s) /\ k # 0 OBVIOUS
<1> QED BY <1>1, <1>2, Zenon

LEMMA KeptOfEmpty ==
  ASSUME NEW S PROVE Kept(<<>>, S) = <<>>
<1> DEFINE s == <<>>
<1>1. Len(s) = 0 OBVIOUS
<1> HIDE DEF s
<1>2. PICK f : KeptOver(f, s, S) /\ Kept(s, S) = f[Len(s)] BY <1>1, KeptRuns
<1>3. f[0] = <<>> BY <1>1, <1>2, KeptGrows
<1>4. Kept(s, S) = <<>> BY <1>1, <1>2, <1>3
<1> QED BY <1>4 DEF s

(* Whether x, at the end of the list, is kept has no bearing on the rest.    *)
LEMMA KeptOfAppended ==
  ASSUME NEW s, List(s), NEW x, NEW S
  PROVE  Kept(Append(s, x), S) = IF x \in S THEN Append(Kept(s, S), x) ELSE Kept(s, S)
<1> DEFINE t == Append(s, x)
           n == Len(s)
<1>1. List(t) /\ Len(t) = n + 1 /\ (\A k \in 1 .. n : t[k] = s[k]) /\ t[n + 1] = x BY Appended
<1>2. n \in Nat BY DEF List
<1> HIDE DEF t
<1>3. PICK f : KeptOver(f, s, S) /\ Kept(s, S) = f[n] BY <1>2, KeptRuns
<1>4. PICK g : KeptOver(g, t, S) /\ Kept(t, S) = g[n + 1] BY <1>1, <1>2, KeptRuns
<1> DEFINE T == {k \in 0 .. n : f[k] = g[k]}
<1>5. 0 \in T BY <1>1, <1>2, <1>3, <1>4, KeptGrows
<1>6. ASSUME NEW k \in 0 .. n - 1, k \in T PROVE k + 1 \in T
  <2>1. k + 1 \in 1 .. n /\ k + 1 \in 1 .. Len(t) /\ (k + 1) - 1 = k BY <1>1, <1>2
  <2>2. f[k + 1] = IF s[k + 1] \in S THEN Append(f[(k + 1) - 1], s[k + 1]) ELSE f[(k + 1) - 1]
    BY <1>2, <1>3, <2>1, KeptGrows
  <2>3. g[k + 1] = IF t[k + 1] \in S THEN Append(g[(k + 1) - 1], t[k + 1]) ELSE g[(k + 1) - 1]
    BY <1>1, <1>2, <1>4, <2>1, KeptGrows
  <2>4. t[k + 1] = s[k + 1] /\ f[k] = g[k] BY <1>1, <1>6, <2>1
  <2> QED BY <2>1, <2>2, <2>3, <2>4
<1>7. f[n] = g[n]
  <2>1. n \in 0 .. n BY <1>2
  <2>2. n \in T
    <3> HIDE DEF T, n
    <3> QED BY <1>2, <1>5, <1>6, <2>1, UpTo
  <2> QED BY <2>2
<1>8. g[n + 1] = IF t[n + 1] \in S THEN Append(g[(n + 1) - 1], t[n + 1]) ELSE g[(n + 1) - 1]
  <2>1. n + 1 \in 1 .. Len(t) BY <1>1, <1>2
  <2> QED BY <1>1, <1>2, <1>4, <2>1, KeptGrows
<1>9. (n + 1) - 1 = n BY <1>2
<1>10. Kept(t, S) = IF x \in S THEN Append(Kept(s, S), x) ELSE Kept(s, S)
  BY <1>1, <1>3, <1>4, <1>7, <1>8, <1>9
<1> QED BY <1>10 DEF t

LEMMA KeptIsList ==
  ASSUME NEW s, List(s), NEW S
  PROVE  /\ List(Kept(s, S)) /\ Len(Kept(s, S)) <= Len(s)
         /\ Len(Kept(s, S)) = Len(s) => Kept(s, S) = s
<1> DEFINE n == Len(s)
<1>1. n \in Nat BY DEF List
<1>2. PICK f : KeptOver(f, s, S) /\ Kept(s, S) = f[n] BY <1>1, KeptRuns
<1> DEFINE P(k) == /\ List(f[k]) /\ Len(f[k]) <= k
                   /\ Len(f[k]) = k => \A i \in 1 .. k : f[k][i] = s[i]
           T == {k \in 0 .. n : P(k)}
<1>3. 0 \in T
  <2>1. f[0] = <<>> BY <1>1, <1>2, KeptGrows
  <2>2. List(f[0]) /\ Len(f[0]) = 0 BY <2>1, EmptyList
  <2> QED BY <1>1, <2>2
<1>4. ASSUME NEW k \in 0 .. n - 1, k \in T PROVE k + 1 \in T
  <2>1. k + 1 \in 1 .. n /\ (k + 1) - 1 = k BY <1>1
  <2>2. f[k + 1] = IF s[k + 1] \in S THEN Append(f[(k + 1) - 1], s[k + 1]) ELSE f[(k + 1) - 1]
    BY <1>1, <1>2, <2>1, KeptGrows
  <2>3. P(k) BY <1>4
  <2> DEFINE r == f[k]
             u == f[k + 1]
  <2>4. List(r) /\ Len(r) <= k /\ Len(r) \in Nat
        /\ (Len(r) = k => \A i \in 1 .. k : r[i] = s[i])
    BY <2>3 DEF List
  <2>5. u = IF s[k + 1] \in S THEN Append(r, s[k + 1]) ELSE r BY <2>1, <2>2
  <2> HIDE DEF r, u
  <2>6. CASE s[k + 1] \in S
    <3>1. /\ List(u) /\ Len(u) = Len(r) + 1 /\ (\A i \in 1 .. Len(r) : u[i] = r[i])
          /\ u[Len(r) + 1] = s[k + 1]
      BY <2>4, <2>5, <2>6, Appended
    <3>2. Len(u) = k + 1 => \A i \in 1 .. k + 1 : u[i] = s[i] BY <2>4, <3>1
    <3>3. Len(u) <= k + 1 BY <2>4, <3>1
    <3>4. P(k + 1) BY <3>1, <3>2, <3>3 DEF u
    <3> QED BY <2>1, <3>4
  <2>7. CASE s[k + 1] \notin S
    <3>1. u = r BY <2>5, <2>7
    <3>2. List(u) /\ Len(u) <= k + 1 /\ Len(u) # k + 1 BY <2>4, <3>1
    <3>3. P(k + 1) BY <3>2 DEF u
    <3> QED BY <2>1, <3>3
  <2> QED BY <2>6, <2>7
<1>5. P(n)
  <2>1. n \in 0 .. n BY <1>1
  <2>2. n \in T
    <3> HIDE DEF T, n
    <3> QED BY <1>1, <1>3, <1>4, <2>1, UpTo
  <2> QED BY <2>2
<1> DEFINE r == Kept(s, S)
<1>6. List(r) /\ Len(r) <= n /\ (Len(r) = n => \A i \in 1 .. n : r[i] = s[i]) BY <1>2, <1>5
<1>7. Len(r) = n => r = s
  <2> HIDE DEF r
  <2> QED BY <1>6, SameLists
<1> QED BY <1>6, <1>7

LEMMA KeptOfJoined ==
  ASSUME NEW s, List(s), NEW t, List(t), NEW S
  PROVE  Kept(s \o t, S) = Kept(s, S) \o Kept(t, S)
<1> DEFINE m == Len(s)
           n == Len(t)
           u == s \o t
<1>1. m \in Nat /\ n \in Nat BY DEF List
<1>2. /\ List(u) /\ Len(u) = m + n
      /\ (\A k \in 1 .. m : u[k] = s[k]) /\ (\A k \in 1 .. n : u[m + k] = t[k])
  BY Joined
<1> HIDE DEF u
<1>3. PICK f : KeptOver(f, s, S) /\ Kept(s, S) = f[m] BY <1>1, KeptRuns
<1>4. PICK g : KeptOver(g, t, S) /\ Kept(t, S) = g[n] BY <1>1, KeptRuns
<1>5. PICK h : KeptOver(h, u, S) /\ Kept(u, S) = h[m + n] BY <1>1, <1>2, KeptRuns
<1>11. /\ h[0] = <<>>
       /\ \A k \in 1 .. m + n :
            h[k] = IF u[k] \in S THEN Append(h[k - 1], u[k]) ELSE h[k - 1]
  <2>1. Len(u) \in Nat BY <1>1, <1>2
  <2>2. /\ h[0] = <<>>
        /\ \A k \in 1 .. Len(u) : h[k] = IF u[k] \in S THEN Append(h[k - 1], u[k]) ELSE h[k - 1]
    BY <1>5, <2>1, KeptGrows
  <2> QED BY <1>2, <2>2
<1> DEFINE T == {k \in 0 .. m : f[k] = h[k]}
<1>6. h[m] = f[m]
  <2>1. 0 \in T BY <1>1, <1>3, <1>11, KeptGrows
  <2>2. ASSUME NEW k \in 0 .. m - 1, k \in T PROVE k + 1 \in T
    <3>1. k + 1 \in 1 .. m /\ k + 1 \in 1 .. Len(u) /\ (k + 1) - 1 = k BY <1>1, <1>2
    <3>2. f[k + 1] = IF s[k + 1] \in S THEN Append(f[(k + 1) - 1], s[k + 1]) ELSE f[(k + 1) - 1]
      BY <1>1, <1>3, <3>1, KeptGrows
    <3>3. h[k + 1] = IF u[k + 1] \in S THEN Append(h[(k + 1) - 1], u[k + 1]) ELSE h[(k + 1) - 1]
      <4>1. k + 1 \in 1 .. m + n BY <1>2, <3>1
      <4> QED BY <1>11, <4>1, Zenon
    <3>4. u[k + 1] = s[k + 1] /\ f[k] = h[k] BY <1>2, <2>2, <3>1
    <3> QED BY <3>1, <3>2, <3>3, <3>4
  <2>3. m \in 0 .. m BY <1>1
  <2>4. m \in T
    <3> HIDE DEF T, m
    <3> QED BY <1>1, <2>1, <2>2, <2>3, UpTo
  <2> QED BY <2>4
<1> DEFINE P(k) == List(g[k]) /\ h[m + k] = f[m] \o g[k]
           Q == {k \in 0 .. n : P(k)}
<1>7. List(f[m]) BY <1>3, KeptIsList
<1>8. 0 \in Q
  <2>1. g[0] = <<>> BY <1>1, <1>4, KeptGrows
  <2>2. m + 0 = m BY <1>1
  <2> DEFINE r == f[m]
  <2>3. r \o <<>> = r
    <3> HIDE DEF r
    <3> QED BY <1>7, JoinedEmpty DEF r
  <2>4. h[m + 0] = f[m] \o g[0] BY <1>6, <2>1, <2>2, <2>3
  <2>5. List(g[0]) BY <2>1, EmptyList
  <2>6. P(0) BY <2>4, <2>5
  <2>7. 0 \in 0 .. n BY <1>1
  <2> HIDE DEF P
  <2> QED BY <2>6, <2>7
<1>9. ASSUME NEW k \in 0 .. n - 1, k \in Q PROVE k + 1 \in Q
  <2>1. /\ k + 1 \in 1 .. n /\ (k + 1) - 1 = k /\ m + (k + 1) \in 1 .. Len(u)
        /\ (m + (k + 1)) - 1 = m + k
    BY <1>1, <1>2
  <2>2. g[k + 1] = IF t[k + 1] \in S THEN Append(g[(k + 1) - 1], t[k + 1]) ELSE g[(k + 1) - 1]
    BY <1>1, <1>4, <2>1, KeptGrows
  <2>3. h[m + (k + 1)] = IF u[m + (k + 1)] \in S
                         THEN Append(h[(m + (k + 1)) - 1], u[m + (k + 1)])
                         ELSE h[(m + (k + 1)) - 1]
    <3>1. m + (k + 1) \in 1 .. m + n BY <1>2, <2>1
    <3> QED BY <1>11, <3>1, Zenon
  <2>4. u[m + (k + 1)] = t[k + 1] BY <1>2, <2>1
  <2>5. P(k) BY <1>9
  <2> DEFINE a == f[m]
             b == g[k]
             x == t[k + 1]
  <2>6. /\ h[m + (k + 1)] = IF x \in S THEN Append(a \o b, x) ELSE a \o b
        /\ g[k + 1] = IF x \in S THEN Append(b, x) ELSE b
        /\ List(a) /\ List(b)
    BY <1>7, <2>1, <2>2, <2>3, <2>4, <2>5
  <2> HIDE DEF a, b, x
  <2>7. Append(a \o b, x) = a \o Append(b, x) /\ List(Append(b, x))
    BY <2>6, JoinedAppended, Appended
  <2>8. h[m + (k + 1)] = a \o g[k + 1] /\ List(g[k + 1]) BY <2>6, <2>7
  <2>9. P(k + 1) BY <2>8 DEF a
  <2>10. k + 1 \in 0 .. n BY <2>1
  <2> HIDE DEF P
  <2> QED BY <2>9, <2>10
<1>10. P(n)
  <2>1. n \in 0 .. n BY <1>1
  <2>2. n \in Q
    <3> HIDE DEF Q, n
    <3> QED BY <1>1, <1>8, <1>9, <2>1, UpTo
  <2> QED BY <2>2
<1> QED BY <1>3, <1>4, <1>5, <1>10 DEF u

LEMMA KeptOfOne ==
  ASSUME NEW x, NEW S
  PROVE  Kept(<<x>>, S) = IF x \in S THEN <<x>> ELSE <<>>
<1>1. Append(<<>>, x) = <<x>> OBVIOUS
<1>2. Kept(Append(<<>>, x), S) = IF x \in S THEN Append(Kept(<<>>, S), x) ELSE Kept(<<>>, S)
  BY EmptyList, KeptOfAppended
<1> QED BY <1>1, <1>2, KeptOfEmpty

(* What lists of the same elements keep for two sets, ...                    *)
LEMMA KeptAlike ==
  ASSUME NEW s, List(s), NEW S, NEW U, \A k \in 1 .. Len(s) : s[k] \in S <=> s[k] \in U
  PROVE  Kept(s, S) = Kept(s, U)
<1> DEFINE n == Len(s)
<1>1. n \in Nat BY DEF List
<1>2. PICK f : KeptOver(f, s, S) /\ Kept(s, S) = f[n] BY <1>1, KeptRuns
<1>3. PICK g : KeptOver(g, s, U) /\ Kept(s, U) = g[n] BY <1>1, KeptRuns
<1> DEFINE T == {k \in 0 .. n : f[k] = g[k]}
<1>4. 0 \in T BY <1>1, <1>2, <1>3, KeptGrows
<1>5. ASSUME NEW k \in 0 .. n - 1, k \in T PROVE k + 1 \in T
  <2>1. k + 1 \in 1 .. n /\ (k + 1) - 1 = k BY <1>1
  <2>2. f[k + 1] = IF s[k + 1] \in S THEN Append(f[(k + 1) - 1], s[k + 1]) ELSE f[(k + 1) - 1]
    BY <1>1, <1>2, <2>1, KeptGrows
  <2>3. g[k + 1] = IF s[k + 1] \in U THEN Append(g[(k + 1) - 1], s[k + 1]) ELSE g[(k + 1) - 1]
    BY <1>1, <1>3, <2>1, KeptGrows
  <2>4. f[k] = g[k] /\ (s[k + 1] \in S <=> s[k + 1] \in U) BY <1>5, <2>1
  <2> QED BY <2>1, <2>2, <2>3, <2>4
<1>6. n \in T
  <2>1. n \in 0 .. n BY <1>1
  <2> HIDE DEF T, n
  <2> QED BY <1>1, <1>4, <1>5, <2>1, UpTo
<1> QED BY <1>2, <1>3, <1>6

(* ... for a set with all of them, ...                                       *)
LEMMA KeptWhole ==
  ASSUME NEW s, List(s), NEW S, \A k \in 1 .. Len(s) : s[k] \in S
  PROVE  Kept(s, S) = s
<1> DEFINE n == Len(s)
<1>1. n \in Nat BY DEF List
<1>2. PICK f : KeptOver(f, s, S) /\ Kept(s, S) = f[n] BY <1>1, KeptRuns
<1> DEFINE P(k) == List(f[k]) /\ Len(f[k]) = k
           T == {k \in 0 .. n : P(k)}
<1>3. 0 \in T
  <2>1. f[0] = <<>> BY <1>1, <1>2, KeptGrows
  <2>2. P(0) BY <2>1, EmptyList
  <2> QED BY <1>1, <2>2
<1>4. ASSUME NEW k \in 0 .. n - 1, k \in T PROVE k + 1 \in T
  <2>1. k + 1 \in 1 .. n /\ (k + 1) - 1 = k BY <1>1
  <2>2. f[k + 1] = IF s[k + 1] \in S THEN Append(f[(k + 1) - 1], s[k + 1]) ELSE f[(k + 1) - 1]
    BY <1>1, <1>2, <2>1, KeptGrows
  <2> DEFINE r == f[k]
  <2>3. f[k + 1] = Append(r, s[k + 1]) /\ List(r) /\ Len(r) = k BY <1>4, <2>1, <2>2
  <2> HIDE DEF r
  <2>4. P(k + 1) BY <2>3, Appended
  <2> QED BY <2>1, <2>4
<1>5. P(n)
  <2>1. n \in 0 .. n BY <1>1
  <2>2. n \in T
    <3> HIDE DEF T, n
    <3> QED BY <1>1, <1>3, <1>4, <2>1, UpTo
  <2> QED BY <2>2
<1>6. Len(Kept(s, S)) = Len(s) BY <1>2, <1>5
<1> QED BY <1>6, KeptIsList

(* ... and what is kept are elements of both.                                *)
LEMMA KeptAmong ==
  ASSUME NEW s, List(s), NEW S
  PROVE  \A k \in 1 .. Len(Kept(s, S)) :
           Kept(s, S)[k] \in S /\ \E i \in 1 .. Len(s) : Kept(s, S)[k] = s[i]
<1> DEFINE n == Len(s)
           V == {x \in S : \E i \in 1 .. n : x = s[i]}
<1>1. n \in Nat BY DEF List
<1>2. PICK f : KeptOver(f, s, S) /\ Kept(s, S) = f[n] BY <1>1, KeptRuns
<1> DEFINE P(k) == List(f[k]) /\ \A i \in 1 .. Len(f[k]) : f[k][i] \in V
           T == {k \in 0 .. n : P(k)}
<1>3. 0 \in T
  <2>1. f[0] = <<>> BY <1>1, <1>2, KeptGrows
  <2>2. P(0) BY <2>1, EmptyList
  <2> QED BY <1>1, <2>2
<1>4. ASSUME NEW k \in 0 .. n - 1, k \in T PROVE k + 1 \in T
  <2>1. k + 1 \in 1 .. n /\ (k + 1) - 1 = k BY <1>1
  <2>2. f[k + 1] = IF s[k + 1] \in S THEN Append(f[(k + 1) - 1], s[k + 1]) ELSE f[(k + 1) - 1]
    BY <1>1, <1>2, <2>1, KeptGrows
  <2> DEFINE r == f[k]
             u == f[k + 1]
  <2>3. u = (IF s[k + 1] \in S THEN Append(r, s[k + 1]) ELSE r) /\ List(r)
        /\ \A i \in 1 .. Len(r) : r[i] \in V
    BY <1>4, <2>1, <2>2
  <2>4. Len(r) \in Nat BY <2>3 DEF List
  <2>5. s[k + 1] \in S => s[k + 1] \in V BY <2>1
  <2> HIDE DEF r, u, V
  <2>6. List(u) /\ \A i \in 1 .. Len(u) : u[i] \in V
    <3>1. CASE s[k + 1] \in S
      <4>1. /\ List(u) /\ Len(u) = Len(r) + 1 /\ (\A i \in 1 .. Len(r) : u[i] = r[i])
            /\ u[Len(r) + 1] = s[k + 1]
        BY <2>3, <3>1, Appended
      <4> QED BY <2>3, <2>4, <2>5, <3>1, <4>1
    <3>2. CASE s[k + 1] \notin S BY <2>3, <3>2
    <3> QED BY <3>1, <3>2
  <2>7. P(k + 1) BY <2>6 DEF u
  <2> QED BY <2>1, <2>7
<1>5. P(n)
  <2>1. n \in 0 .. n BY <1>1
  <2>2. n \in T
    <3> HIDE DEF T, n
    <3> QED BY <1>1, <1>3, <1>4, <2>1, UpTo
  <2> QED BY <2>2
<1> QED BY <1>2, <1>5

LEMMA KeptThere ==
  ASSUME NEW s, List(s), NEW S, NEW i \in 1 .. Len(s), s[i] \in S
  PROVE  \E k \in 1 .. Len(Kept(s, S)) : Kept(s, S)[k] = s[i]
<1> DEFINE n == Len(s)
<1>1. n \in Nat BY DEF List
<1>2. PICK f : KeptOver(f, s, S) /\ Kept(s, S) = f[n] BY <1>1, KeptRuns
<1> DEFINE P(k) == List(f[k]) /\ (i <= k => \E j \in 1 .. Len(f[k]) : f[k][j] = s[i])
           T == {k \in 0 .. n : P(k)}
<1>3. 0 \in T
  <2>1. f[0] = <<>> BY <1>1, <1>2, KeptGrows
  <2>2. P(0) BY <2>1, EmptyList
  <2> QED BY <1>1, <2>2
<1>4. ASSUME NEW k \in 0 .. n - 1, k \in T PROVE k + 1 \in T
  <2>1. k + 1 \in 1 .. n /\ (k + 1) - 1 = k BY <1>1
  <2>2. f[k + 1] = IF s[k + 1] \in S THEN Append(f[(k + 1) - 1], s[k + 1]) ELSE f[(k + 1) - 1]
    BY <1>1, <1>2, <2>1, KeptGrows
  <2> DEFINE r == f[k]
             u == f[k + 1]
  <2>3. u = (IF s[k + 1] \in S THEN Append(r, s[k + 1]) ELSE r) /\ List(r)
        /\ (i <= k => \E j \in 1 .. Len(r) : r[j] = s[i])
    BY <1>4, <2>1, <2>2
  <2>4. Len(r) \in Nat BY <2>3 DEF List
  <2> HIDE DEF r, u
  <2>5. List(u) /\ (i <= k + 1 => \E j \in 1 .. Len(u) : u[j] = s[i])
    <3>1. CASE s[k + 1] \in S
      <4>1. /\ List(u) /\ Len(u) = Len(r) + 1 /\ (\A j \in 1 .. Len(r) : u[j] = r[j])
            /\ u[Len(r) + 1] = s[k + 1]
        BY <2>3, <3>1, Appended
      <4>2. CASE i <= k
        <5>1. PICK j \in 1 .. Len(r) : r[j] = s[i] BY <2>3, <4>2
        <5>2. j \in 1 .. Len(u) /\ u[j] = s[i] BY <2>4, <4>1, <5>1
        <5> QED BY <4>1, <5>2
      <4>3. CASE i = k + 1
        <5>1. Len(r) + 1 \in 1 .. Len(u) /\ u[Len(r) + 1] = s[i] BY <2>4, <4>1, <4>3
        <5> QED BY <4>1, <5>1
      <4>4. i <= k + 1 => i <= k \/ i = k + 1 OBVIOUS
      <4> QED BY <4>1, <4>2, <4>3, <4>4
    <3>2. CASE s[k + 1] \notin S
      <4>1. u = r /\ i # k + 1 BY <2>3, <3>2
      <4> QED BY <2>3, <4>1
    <3> QED BY <3>1, <3>2
  <2>6. P(k + 1) BY <2>5 DEF u
  <2> QED BY <2>1, <2>6
<1>5. P(n)
  <2>1. n \in 0 .. n BY <1>1
  <2>2. n \in T
    <3> HIDE DEF T, n
    <3> QED BY <1>1, <1>3, <1>4, <2>1, UpTo
  <2> QED BY <2>2
<1> QED BY <1>1, <1>2, <1>5

LEMMA Shortened ==
  ASSUME NEW s, List(s), s # <<>>
  PROVE  /\ Len(s) \in Nat /\ Len(s) > 0 /\ Head(s) = s[1]
         /\ List(Tail(s)) /\ Len(Tail(s)) = Len(s) - 1
         /\ \A k \in 1 .. Len(s) - 1 : Tail(s)[k] = s[k + 1]
<1> DEFINE S == {s[k] : k \in 1 .. Len(s)}
<1>1. s \in Seq(S) BY ListIn
<1> HIDE DEF S
<1>2. /\ Len(s) \in Nat /\ Len(s) > 0 /\ Head(s) = s[1]
      /\ Tail(s) \in Seq(S) /\ Len(Tail(s)) = Len(s) - 1
      /\ \A k \in 1 .. Len(s) - 1 : Tail(s)[k] = s[k + 1]
  BY <1>1
<1> DEFINE r == Tail(s)
<1>3. List(r)
  <2>1. r \in Seq(S) BY <1>2
  <2> HIDE DEF r
  <2>2. r \in [1 .. Len(r) -> S] /\ Len(r) \in Nat BY <2>1
  <2> QED BY <2>2 DEF List
<1> QED BY <1>2, <1>3

(* One element goes from the head of a list to the end of another.           *)
LEMMA Passed ==
  ASSUME NEW s, List(s), NEW t, List(t), t # <<>>
  PROVE  Append(s, Head(t)) \o Tail(t) = s \o t
<1> DEFINE S == {s[k] : k \in 1 .. Len(s)} \cup {t[k] : k \in 1 .. Len(t)}
<1>1. s \in [1 .. Len(s) -> S] /\ t \in [1 .. Len(t) -> S] BY DEF List
<1>2. s \in Seq(S) /\ t \in Seq(S) BY <1>1 DEF List
<1> HIDE DEF S
<1> QED BY <1>2

LEMMA OneList ==
  ASSUME NEW x PROVE List(<<x>>) /\ Len(<<x>>) = 1 /\ <<x>>[1] = x
<1> DEFINE e == <<>>
<1>1. List(e) /\ Len(e) = 0 BY EmptyList
<1>2. Append(e, x) = <<x>> OBVIOUS
<1> HIDE DEF e
<1>3. /\ List(Append(e, x)) /\ Len(Append(e, x)) = Len(e) + 1
      /\ Append(e, x)[Len(e) + 1] = x
  BY <1>1, Appended
<1> QED BY <1>1, <1>2, <1>3

LEMMA KeptSingle ==
  ASSUME NEW one, List(one), Len(one) = 1, NEW S
  PROVE  Kept(one, S) = IF one[1] \in S THEN one ELSE <<>>
<1> DEFINE x == one[1]
           s == <<x>>
<1>1. List(s) /\ Len(s) = 1 /\ s[1] = x BY OneList
<1>2. Kept(s, S) = IF x \in S THEN s ELSE <<>> BY KeptOfOne
<1> HIDE DEF s
<1>3. one = s BY <1>1, SameLists
<1> QED BY <1>2, <1>3

-----------------------------------------------------------------------------
(* A chain.  What the first k elements have done to a pixel, where it is     *)
(* then, and how many channels it has there.                                 *)
Before(x) == CheckSrcAbs(x) \o BeforeChain(x)
Through(x, k) == Kept([i \in 1 .. k |-> i], {i \in DOMAIN x.elems : ~x.elems[i].acs})
HolderAt(k) == IF k = 0 THEN Source ELSE IF k < Len(xform.elems) THEN SrcBuf ELSE Destination
ChannelsAt(x, k) == IF k = 0 THEN x.nIn ELSE x.elems[k].out

Carried(k) ==
  /\ k \in 0 .. Len(xform.elems)
  /\ List(todo) /\ Len(todo) = Len(xform.elems) - k
  /\ \A j \in 1 .. Len(todo) : todo[j] = k + j
  /\ cells[HolderAt(k)] = Pixel(Before(xform) \o Through(xform, k), ChannelsAt(xform, k))

Accepted ==
  /\ xform \in Transforms
  /\ phase \in {"begun", "ready", "applying", "done"} => Begins(xform)
  /\ DOMAIN cells = Places /\ swapped \in BOOLEAN

ChainSound ==
  xform.class = "mpe" /\ ~Incomplete =>
    /\ phase \in {"ready", "applying", "done"} => chain = Positions(xform)
    /\ phase = "applying" => Carried(Len(xform.elems) - Len(todo))

LEMMA Numbers ==
  ASSUME NEW n \in Nat
  PROVE  List([i \in 1 .. n |-> i]) /\ Len([i \in 1 .. n |-> i]) = n
<1> DEFINE s == [i \in 1 .. n |-> i]
<1>1. s = [i \in 1 .. n |-> s[i]] OBVIOUS
<1> HIDE DEF s
<1>2. List(s) /\ Len(s) = n BY <1>1, ListOf
<1> QED BY <1>2 DEF s

LEMMA ThroughNone ==
  ASSUME NEW x PROVE Through(x, 0) = <<>>
<1>1. [i \in 1 .. 0 |-> i] = <<>>
  <2> DEFINE s == [i \in 1 .. 0 |-> i]
             t == <<>>
  <2>1. List(s) /\ Len(s) = 0 BY Numbers
  <2>2. List(t) /\ Len(t) = 0 BY EmptyList
  <2> HIDE DEF s, t
  <2>3. s = t BY <2>1, <2>2, SameLists
  <2> QED BY <2>3 DEF s, t
<1> QED BY <1>1, KeptOfEmpty DEF Through

LEMMA ThroughNext ==
  ASSUME NEW x, NEW k \in Nat, k + 1 \in DOMAIN x.elems
  PROVE  /\ List(Through(x, k))
         /\ Through(x, k + 1) = IF x.elems[k + 1].acs THEN Through(x, k)
                                ELSE Append(Through(x, k), k + 1)
<1> DEFINE s == [i \in 1 .. k |-> i]
           t == [i \in 1 .. k + 1 |-> i]
           S == {i \in DOMAIN x.elems : ~x.elems[i].acs}
<1>1. List(s) /\ Len(s) = k /\ List(t) /\ Len(t) = k + 1 BY Numbers
<1>2. (\A i \in 1 .. k : s[i] = i) /\ (\A i \in 1 .. k + 1 : t[i] = i) OBVIOUS
<1>3. k + 1 \in S <=> ~x.elems[k + 1].acs OBVIOUS
<1>4. Through(x, k) = Kept(s, S) /\ Through(x, k + 1) = Kept(t, S) BY DEF Through
<1> HIDE DEF s, t, S
<1> DEFINE u == Append(s, k + 1)
<1>5. List(u) /\ Len(u) = k + 1 /\ (\A i \in 1 .. k : u[i] = s[i]) /\ u[k + 1] = k + 1
  BY <1>1, Appended
<1>6. Kept(u, S) = IF k + 1 \in S THEN Append(Kept(s, S), k + 1) ELSE Kept(s, S)
  BY <1>1, KeptOfAppended
<1>7. List(Kept(s, S)) BY <1>1, KeptIsList
<1>8. t = u
  <2> HIDE DEF u
  <2>1. \A i \in 1 .. Len(t) : t[i] = u[i]
    <3> TAKE i \in 1 .. Len(t)
    <3>1. i \in 1 .. k \/ i = k + 1 BY <1>1
    <3> QED BY <1>1, <1>2, <1>5, <3>1
  <2> QED BY <1>1, <1>5, <2>1, SameLists
<1> QED BY <1>3, <1>4, <1>6, <1>7, <1>8

LEMMA BeforeIsList ==
  ASSUME NEW x PROVE List(Before(x))
<1>1. List(CheckSrcAbs(x)) BY OneList, EmptyList DEF CheckSrcAbs
<1>2. List(BeforeChain(x)) BY OneList, EmptyList DEF BeforeChain
<1> QED BY <1>1, <1>2, Joined DEF Before

(* What Begin has accepted of a chain.                                       *)
LEMMA ChainFits ==
  ASSUME Accepted, xform.class = "mpe", phase = "applying"
  PROVE  LET n == Len(xform.elems) IN
         /\ n \in Nat /\ DOMAIN xform.elems = 1 .. n
         /\ xform.nIn \in Nat /\ xform.nOut \in Nat
         /\ n = 0 => xform.nIn = xform.nOut
         /\ n > 0 => xform.elems[1].in = xform.nIn /\ xform.elems[n].out = xform.nOut
         /\ \A i \in 1 .. n :
              /\ xform.elems[i].in \in Nat /\ xform.elems[i].out \in Nat
              /\ i > 1 => xform.elems[i].in = xform.elems[i - 1].out
              /\ xform.elems[i].acs => xform.elems[i].in = xform.elems[i].out
<1> DEFINE n == Len(xform.elems)
<1>1. ChainAgrees(xform) /\ xform \in Transforms BY DEF Accepted, Begins
<1>2. n \in Nat /\ DOMAIN xform.elems = 1 .. n /\ xform.nIn \in 1 .. 16 /\ xform.nOut \in 1 .. 16
      /\ \A i \in DOMAIN xform.elems : xform.elems[i].in \in Nat /\ xform.elems[i].out \in Nat
  BY <1>1, TransformsAssumption
<1>3. n = 0 => xform.elems = <<>>
  <2> DEFINE e == xform.elems
  <2> SUFFICES ASSUME n = 0 PROVE e = <<>> OBVIOUS
  <2>1. DOMAIN e = {} BY <1>2
  <2>2. e = <<>> BY <2>1
  <2> QED BY <2>2
<1>4. n > 0 => xform.elems # <<>> OBVIOUS
<1> DEFINE e == xform.elems
<1>5. /\ IF e = <<>> THEN xform.nIn = xform.nOut
         ELSE /\ e[1].in = xform.nIn /\ e[n].out = xform.nOut
              /\ \A i \in 2 .. n : e[i].in = e[i - 1].out
              /\ \A i \in DOMAIN e : e[i].acs => e[i].in = e[i].out
  BY <1>1 DEF ChainAgrees
<1>6. n = 0 => xform.nIn = xform.nOut BY <1>3, <1>5
<1>7. n > 0 => e[1].in = xform.nIn /\ e[n].out = xform.nOut BY <1>4, <1>5
<1>8. ASSUME NEW i \in 1 .. n
      PROVE  /\ e[i].in \in Nat /\ e[i].out \in Nat
             /\ i > 1 => e[i].in = e[i - 1].out
             /\ e[i].acs => e[i].in = e[i].out
  <2>1. i \in DOMAIN e /\ n > 0 /\ e # <<>> BY <1>2, <1>4
  <2>2. i > 1 => i \in 2 .. n BY <1>2
  <2> HIDE DEF e, n
  <2> QED BY <1>2, <1>5, <2>1, <2>2 DEF e
<1>9. xform.nIn \in Nat /\ xform.nOut \in Nat BY <1>2
<1>10. \A i \in 1 .. n :
         /\ e[i].in \in Nat /\ e[i].out \in Nat
         /\ i > 1 => e[i].in = e[i - 1].out
         /\ e[i].acs => e[i].in = e[i].out
  BY <1>8
<1> QED BY <1>2, <1>6, <1>7, <1>9, <1>10

(* What an element makes of a carried pixel, wherever it is not yet, ...     *)
LEMMA RanOn ==
  ASSUME Accepted, xform.class = "mpe", phase = "applying",
         NEW k, Carried(k), k < Len(xform.elems)
  PROVE  LET next == Pixel(Before(xform) \o Through(xform, k + 1), ChannelsAt(xform, k + 1)) IN
         /\ k \in Nat /\ k + 1 \in 1 .. Len(xform.elems)
         /\ \A to : to # HolderAt(k) => Ran(k + 1, HolderAt(k), to) = next
         /\ xform.elems[k + 1].acs => cells[HolderAt(k)] = next
<1> DEFINE n == Len(xform.elems)
           e == xform.elems[k + 1]
           p == cells[HolderAt(k)]
           b == Before(xform)
           r == Through(xform, k)
<1>1. n \in Nat /\ DOMAIN xform.elems = 1 .. n BY ChainFits
<1>2. k \in Nat /\ k + 1 \in 1 .. n /\ k + 1 \in DOMAIN xform.elems BY <1>1 DEF Carried
<1>3. p = Pixel(b \o r, ChannelsAt(xform, k)) BY DEF Carried
<1>4. /\ e.in \in Nat /\ e.in = ChannelsAt(xform, k) /\ e.out = ChannelsAt(xform, k + 1)
      /\ e.acs => e.in = e.out
  <2>1. /\ e.in \in Nat /\ e.acs => e.in = e.out
        /\ k + 1 > 1 => e.in = xform.elems[(k + 1) - 1].out
    BY <1>2, ChainFits
  <2>2. k = 0 => e.in = xform.nIn BY <1>2, ChainFits
  <2>3. (k + 1) - 1 = k /\ k + 1 # 0 /\ (k # 0 => k + 1 > 1) BY <1>2
  <2>4. e.in = ChannelsAt(xform, k) BY <2>1, <2>2, <2>3 DEF ChannelsAt
  <2>5. e.out = ChannelsAt(xform, k + 1) BY <2>3 DEF ChannelsAt
  <2> QED BY <2>1, <2>4, <2>5, ChainFits, <1>2
<1>5. List(r) /\ Through(xform, k + 1) = IF e.acs THEN r ELSE Append(r, k + 1)
  BY <1>2, ThroughNext
<1>6. List(b) BY BeforeIsList
<1> DEFINE next == Pixel(b \o Through(xform, k + 1), ChannelsAt(xform, k + 1))
<1>7. e.acs => p = next BY <1>3, <1>4, <1>5
<1>8. ASSUME NEW to, to # HolderAt(k) PROVE Ran(k + 1, HolderAt(k), to) = next
  <2>1. p.by = b \o r /\ p.n = e.in BY <1>3, <1>4 DEF Pixel
  <2>2. ~e.acs => Append(b \o r, k + 1) = b \o Through(xform, k + 1)
    <3> HIDE DEF b, r, e
    <3>1. Append(b \o r, k + 1) = b \o Append(r, k + 1) BY <1>5, <1>6, JoinedAppended
    <3> QED BY <1>5, <3>1
  <2>3. e.acs => b \o r = b \o Through(xform, k + 1) BY <1>5
  <2>4. p.n >= e.in BY <1>4, <2>1
  <2>5. Ran(k + 1, HolderAt(k), to) = Pixel(IF e.acs THEN p.by ELSE Append(p.by, k + 1), e.out)
    BY <1>8, <2>4 DEF Ran, ElemOf
  <2> QED BY <1>4, <2>1, <2>2, <2>3, <2>5
<1> QED BY <1>2, <1>7, <1>8

(* ... and what is left to do then.                                          *)
LEMMA LeftToDo ==
  ASSUME Accepted, xform.class = "mpe", phase = "applying",
         NEW k, Carried(k), todo # <<>>
  PROVE  /\ k < Len(xform.elems) /\ k = Len(xform.elems) - Len(todo) /\ todo[1] = k + 1
         /\ List(Tail(todo)) /\ Len(Tail(todo)) = Len(xform.elems) - (k + 1)
         /\ \A j \in 1 .. Len(Tail(todo)) : Tail(todo)[j] = (k + 1) + j
<1> DEFINE n == Len(xform.elems)
           t == Tail(todo)
<1>1. n \in Nat BY ChainFits
<1>2. k \in 0 .. n /\ List(todo) /\ Len(todo) = n - k /\ \A j \in 1 .. Len(todo) : todo[j] = k + j
  BY DEF Carried
<1>3. /\ Len(todo) \in Nat /\ Len(todo) > 0 /\ List(t) /\ Len(t) = Len(todo) - 1
      /\ \A j \in 1 .. Len(todo) - 1 : t[j] = todo[j + 1]
  BY <1>2, Shortened
<1>4. \A j \in 1 .. Len(t) : t[j] = (k + 1) + j
  <2> TAKE j \in 1 .. Len(t)
  <2>1. j \in 1 .. Len(todo) - 1 /\ j + 1 \in 1 .. Len(todo) BY <1>3
  <2>2. t[j] = todo[j + 1] BY <1>3, <2>1
  <2>3. todo[j + 1] = k + (j + 1) BY <1>2, <2>1
  <2>4. k + (j + 1) = (k + 1) + j BY <1>1, <1>2, <2>1
  <2> HIDE DEF t
  <2> QED BY <2>2, <2>3, <2>4
<1>5. 1 \in 1 .. Len(todo) BY <1>3
<1> HIDE DEF t
<1> QED BY <1>1, <1>2, <1>3, <1>4, <1>5 DEF t

(* Where an element that is not passed over leaves its pixel.                *)
LEMMA CarriedOn ==
  ASSUME Accepted, xform.class = "mpe", phase = "applying", ~Incomplete, Accepted',
         NEW k, Carried(k), todo # <<>>,
         UNCHANGED xform, todo' = Tail(todo),
         NEW to, to \in Places, to # HolderAt(k), HolderAt(k + 1)' = to,
         cells'[to] = Ran(k + 1, HolderAt(k), to)
  PROVE  Carried(Len(xform.elems) - Len(todo))'
<1> DEFINE n == Len(xform.elems)
<1>1. /\ k < n /\ k = n - Len(todo) /\ List(todo') /\ Len(todo') = n - (k + 1)
      /\ \A j \in 1 .. Len(todo') : todo'[j] = (k + 1) + j
  BY LeftToDo
<1>2. k \in Nat /\ k + 1 \in 1 .. n
      /\ cells'[to] = Pixel(Before(xform) \o Through(xform, k + 1), ChannelsAt(xform, k + 1))
  BY <1>1, RanOn
<1>3. n \in Nat BY ChainFits
<1>4. n - Len(todo') = k + 1 BY <1>1, <1>2, <1>3
<1>5. k + 1 \in 0 .. n BY <1>2
<1>6. Carried(k + 1)' BY <1>1, <1>2, <1>5 DEF Carried
<1> QED BY <1>4, <1>6

LEMMA AcceptedStays ==
  ASSUME Accepted, [Next]_vars PROVE Accepted'
<1> USE DEF Accepted
<1>1. CASE Begin BY <1>1 DEF Begin
<1>2. CASE ExtractCurves BY <1>2 DEF ExtractCurves
<1>3. CASE NewApply BY <1>3 DEF NewApply
<1>4. CASE NewApplyFails BY <1>4 DEF NewApplyFails
<1>5. ASSUME NEW place \in BOOLEAN, StartPixel(place) PROVE Accepted'
  <2>1. DOMAIN cells' = Places BY <1>5 DEF StartPixel
  <2> QED BY <1>5, <2>1 DEF StartPixel
<1>6. CASE LutStep
  <2>1. DOMAIN cells' = Places BY <1>6 DEF LutStep
  <2> QED BY <1>6, <2>1 DEF LutStep
<1>7. CASE LutDone
  <2>1. DOMAIN cells' = Places BY <1>7 DEF LutDone
  <2> QED BY <1>7, <2>1 DEF LutDone
<1>8. ASSUME NEW i, NEW from, NEW to, Element(i, from, to) PROVE DOMAIN cells' = Places
  BY <1>8 DEF Element
<1>9. CASE OnlyElement
  <2>1. CASE Source = Destination
    <3> DEFINE p == Ran(todo[1], Source, DstBuf)
    <3>1. cells' = [cells EXCEPT ![DstBuf] = p, ![Destination] = Pixel(p.by, xform.nOut)]
      BY <1>9, <2>1 DEF OnlyElement
    <3>2. DOMAIN cells' = Places BY <3>1
    <3> QED BY <1>9, <3>2 DEF OnlyElement
  <2>2. CASE Source # Destination
    <3>1. Element(todo[1], Source, Destination) BY <1>9, <2>2 DEF OnlyElement
    <3>2. DOMAIN cells' = Places BY <1>8, <3>1
    <3> QED BY <1>9, <3>2 DEF OnlyElement
  <2> QED BY <2>1, <2>2
<1>10. CASE FirstElement BY <1>8, <1>10 DEF FirstElement
<1>11. CASE SkipAcs BY <1>11 DEF SkipAcs
<1>12. CASE NextElement BY <1>8, <1>12 DEF NextElement
<1>13. CASE LastElement BY <1>8, <1>13 DEF LastElement
<1>14. CASE ChainDone
  <2>1. DOMAIN cells' = Places BY <1>14 DEF ChainDone
  <2> QED BY <1>14, <2>1 DEF ChainDone
<1>15. CASE EndPixel BY <1>15 DEF EndPixel
<1>16. CASE UNCHANGED vars BY <1>16 DEF vars
<1> QED
  BY <1>1, <1>2, <1>3, <1>4, <1>5, <1>6, <1>7, <1>9, <1>10, <1>11, <1>12, <1>13, <1>14, <1>15, <1>16
  DEF Next

LEMMA NewApplyComplete ==
  ASSUME Accepted, NewApply, xform.class = "mpe", ~Incomplete'
  PROVE  chain' = Positions(xform)
<1> DEFINE n == Len(xform.elems)
           s == Positions(xform)
<1>1. n \in Nat BY TransformsAssumption DEF Accepted
<1>2. List(s) /\ Len(s) = n BY <1>1, Numbers DEF Positions
<1>3. PICK S : chain' = Kept(s, S) BY DEF NewApply
<1>4. xform' = xform /\ ~(Len(chain') < n) BY DEF NewApply, Incomplete
<1> HIDE DEF s
<1>5. /\ List(Kept(s, S)) /\ Len(Kept(s, S)) <= Len(s)
      /\ Len(Kept(s, S)) = Len(s) => Kept(s, S) = s
  BY <1>2, KeptIsList
<1>6. Len(chain') \in Nat BY <1>3, <1>5 DEF List
<1> QED BY <1>1, <1>2, <1>3, <1>4, <1>5, <1>6 DEF s

LEMMA ChainStarts ==
  ASSUME Accepted, ChainSound, xform.class = "mpe", ~Incomplete,
         NEW place \in BOOLEAN, StartPixel(place)
  PROVE  Carried(Len(xform.elems) - Len(todo))'
<1> DEFINE n == Len(xform.elems)
           b == Before(xform)
<1>1. /\ xform' = xform /\ todo' = chain /\ chain = Positions(xform)
      /\ cells' = [cells EXCEPT ![Source] = Pixel(b, xform.nIn), !["dst"] = Empty]
  BY DEF StartPixel, ChainSound, Before
<1>2. n \in Nat BY TransformsAssumption DEF Accepted
<1>3. List(todo') /\ Len(todo') = n /\ \A j \in 1 .. n : todo'[j] = 0 + j
  <2> DEFINE s == Positions(xform)
  <2>1. List(s) /\ Len(s) = n BY <1>2, Numbers DEF Positions
  <2>2. \A j \in 1 .. n : s[j] = 0 + j BY DEF Positions
  <2> HIDE DEF s
  <2> QED BY <1>1, <2>1, <2>2 DEF s
<1>4. cells'[Source] = Pixel(b, xform.nIn)
  <2>1. Source \in Places /\ Source # "dst" BY DEF Source, Places
  <2> QED BY <1>1, <2>1 DEF Accepted
<1>5. HolderAt(0)' = Source BY <1>1 DEF HolderAt, Source
<1>6. b = b \o Through(xform, 0)
  <2>1. List(b) BY BeforeIsList
  <2> HIDE DEF b
  <2> QED BY <2>1, JoinedEmpty, ThroughNone
<1>7. Carried(0)'
  <2>1. 0 \in 0 .. n /\ n - 0 = n BY <1>2
  <2>2. cells'[HolderAt(0)'] = Pixel(b \o Through(xform, 0), ChannelsAt(xform, 0))
    BY <1>4, <1>5, <1>6 DEF ChannelsAt
  <2> QED BY <1>1, <1>3, <2>1, <2>2 DEF Carried
<1>8. n - Len(todo') = 0 BY <1>2, <1>3
<1> QED BY <1>1, <1>7, <1>8

LEMMA Remaining ==
  ASSUME NEW n \in Nat, NEW k \in Nat, k < n, NEW m, m = n - (k + 1)
  PROVE  k + 1 \in 0 .. n /\ n - m = k + 1 /\ (m = 0 <=> k + 1 = n)
OBVIOUS

LEMMA LastRemains ==
  ASSUME NEW n \in Nat, NEW m \in Nat, NEW k, k = n - m
  PROVE  m = 1 <=> k + 1 = n
OBVIOUS

(* All but the last element leave their pixel where the next reads it.       *)
LEMMA ChainGoesOn ==
  ASSUME Accepted, ChainSound, xform.class = "mpe", ~Incomplete, Accepted',
         OnlyElement \/ FirstElement \/ SkipAcs \/ NextElement \/ LastElement
  PROVE  Carried(Len(xform.elems) - Len(todo))'
<1> PICK n, k : n = Len(xform.elems) /\ k = n - Len(todo) OBVIOUS
<1>1. phase = "applying" /\ xform' = xform /\ chain' = chain /\ inPlace' = inPlace
  BY DEF OnlyElement, FirstElement, SkipAcs, NextElement, LastElement
<1>2. Carried(k) /\ chain = Positions(xform) BY <1>1 DEF ChainSound
<1>3. n \in Nat BY <1>1, ChainFits
<1>4. Len(chain) = n
  <2> DEFINE s == Positions(xform)
  <2>1. Len(s) = n BY <1>3, Numbers DEF Positions
  <2> QED BY <1>2, <2>1
<1>5. k \in 0 .. n /\ Len(todo) \in Nat /\ List(todo) BY <1>2 DEF Carried, List
<1>6. todo # <<>>
  <2>1. Len(todo) # 0
    BY <1>3, <1>4, <1>5 DEF OnlyElement, FirstElement, SkipAcs, NextElement, LastElement, First, Last
  <2> QED BY <2>1, EmptyList
<1>7. todo[1] = k + 1 /\ k < n /\ k \in Nat BY <1>1, <1>2, <1>3, <1>5, <1>6, LeftToDo
<1>8. First <=> k = 0 BY <1>3, <1>4, <1>5 DEF First
<1>9. Last <=> k + 1 = n BY <1>3, <1>5, LastRemains DEF Last
<1>10. \A i, from, to : Element(i, from, to) /\ to \in Places => cells'[to] = Ran(i, from, to)
  BY DEF Element, Accepted
<1>11. /\ Source \in {"src", "temp"} /\ Destination \in {"src", "dst"}
       /\ SrcBuf \in {"one", "two"} /\ DstBuf \in {"one", "two"} /\ SrcBuf # DstBuf
  BY DEF Source, Destination, SrcBuf, DstBuf
<1>12. Source' = Source /\ Destination' = Destination BY <1>1 DEF Source, Destination
<1>13. swapped \in BOOLEAN BY DEF Accepted
<1>14. /\ k = 0 => HolderAt(k) = Source
       /\ k > 0 => HolderAt(k) = SrcBuf
       /\ k + 1 = n => HolderAt(k + 1)' = Destination
       /\ k + 1 < n => HolderAt(k + 1)' = SrcBuf'
  <2>1. k + 1 # 0 /\ (k > 0 => k # 0) /\ (k + 1 = n => ~(k + 1 < n)) BY <1>3, <1>7
  <2> QED BY <1>1, <1>7, <1>12, <2>1 DEF HolderAt
<1>15. CASE OnlyElement
  <2>1. k = 0 /\ k + 1 = n /\ todo' = Tail(todo) BY <1>3, <1>4, <1>7, <1>8, <1>15 DEF OnlyElement
  <2>2. HolderAt(k) = Source /\ HolderAt(k + 1)' = Destination BY <1>14, <2>1
  <2>3. CASE Source = Destination
    <3> DEFINE p == Ran(k + 1, Source, DstBuf)
    <3>1. cells' = [cells EXCEPT ![DstBuf] = p, ![Destination] = Pixel(p.by, xform.nOut)]
      BY <1>7, <1>15, <2>3 DEF OnlyElement
    <3>2. cells'[Destination] = Pixel(p.by, xform.nOut) /\ DstBuf # Source
      <4>1. Destination \in Places /\ DOMAIN cells = Places BY <1>11 DEF Accepted, Places
      <4> HIDE DEF p
      <4> QED BY <1>11, <3>1, <4>1
    <3>3. p = Pixel(Before(xform) \o Through(xform, k + 1), ChannelsAt(xform, k + 1))
      BY <1>1, <1>2, <1>7, <2>2, <3>2, RanOn
    <3>4. ChannelsAt(xform, k + 1) = xform.nOut
      BY <1>1, <1>3, <1>7, <2>1, ChainFits DEF ChannelsAt
    <3>5. cells'[Destination] = Pixel(Before(xform) \o Through(xform, k + 1), ChannelsAt(xform, k + 1))
      BY <3>2, <3>3, <3>4 DEF Pixel
    <3>6. /\ List(todo') /\ Len(todo') = n - (k + 1)
          /\ \A j \in 1 .. Len(todo') : todo'[j] = (k + 1) + j
      BY <1>1, <1>2, <1>6, <2>1, LeftToDo
    <3>7. k + 1 \in 0 .. n /\ n - Len(todo') = k + 1 BY <1>3, <1>7, <3>6, Remaining
    <3>8. Carried(k + 1)' BY <1>1, <2>2, <3>5, <3>6, <3>7 DEF Carried
    <3> QED BY <1>1, <3>7, <3>8
  <2>4. CASE Source # Destination
    <3>1. Element(k + 1, Source, Destination) BY <1>7, <1>15, <2>4 DEF OnlyElement
    <3>2. Destination \in Places BY <1>11 DEF Places
    <3>3. cells'[Destination] = Ran(k + 1, Source, Destination) BY <1>10, <3>1, <3>2
    <3> QED BY <1>1, <1>2, <1>6, <2>1, <2>2, <2>4, <3>2, <3>3, CarriedOn
  <2> QED BY <2>3, <2>4
<1>16. CASE FirstElement
  <2>1. k = 0 /\ k + 1 < n /\ todo' = Tail(todo) /\ swapped' = ~swapped
        /\ Element(k + 1, Source, DstBuf)
    BY <1>3, <1>4, <1>7, <1>8, <1>16 DEF FirstElement
  <2>2. SrcBuf' = DstBuf BY <1>13, <2>1 DEF SrcBuf, DstBuf
  <2>3. HolderAt(k) = Source /\ HolderAt(k + 1)' = DstBuf BY <1>14, <2>1, <2>2
  <2>4. DstBuf \in Places /\ DstBuf # Source BY <1>11 DEF Places
  <2>5. cells'[DstBuf] = Ran(k + 1, Source, DstBuf) BY <1>10, <2>1, <2>4
  <2> QED BY <1>1, <1>2, <1>6, <2>1, <2>3, <2>4, <2>5, CarriedOn
<1>17. CASE SkipAcs
  <2>1. k > 0 /\ k + 1 < n /\ todo' = Tail(todo) /\ UNCHANGED <<cells, swapped>>
        /\ xform.elems[k + 1].acs
    BY <1>3, <1>7, <1>8, <1>9, <1>17 DEF SkipAcs, ElemOf, Last
  <2>2. HolderAt(k) = SrcBuf /\ HolderAt(k + 1)' = SrcBuf BY <1>14, <2>1 DEF SrcBuf
  <2>3. cells'[SrcBuf] = Pixel(Before(xform) \o Through(xform, k + 1), ChannelsAt(xform, k + 1))
    BY <1>1, <1>2, <1>7, <2>1, <2>2, RanOn
  <2>4. /\ List(todo') /\ Len(todo') = n - (k + 1)
        /\ \A j \in 1 .. Len(todo') : todo'[j] = (k + 1) + j
    BY <1>1, <1>2, <1>6, <2>1, LeftToDo
  <2>5. k + 1 \in 0 .. n /\ n - Len(todo') = k + 1 BY <1>3, <1>7, <2>4, Remaining
  <2>6. Carried(k + 1)' BY <1>1, <2>2, <2>3, <2>4, <2>5 DEF Carried
  <2> QED BY <1>1, <2>5, <2>6
<1>18. CASE NextElement
  <2>1. k > 0 /\ k + 1 < n /\ todo' = Tail(todo) /\ swapped' = ~swapped
        /\ Element(k + 1, SrcBuf, DstBuf)
    BY <1>3, <1>7, <1>8, <1>9, <1>18 DEF NextElement, Last
  <2>2. SrcBuf' = DstBuf BY <1>13, <2>1 DEF SrcBuf, DstBuf
  <2>3. HolderAt(k) = SrcBuf /\ HolderAt(k + 1)' = DstBuf BY <1>14, <2>1, <2>2
  <2>4. DstBuf \in Places /\ DstBuf # SrcBuf BY <1>11 DEF Places
  <2>5. cells'[DstBuf] = Ran(k + 1, SrcBuf, DstBuf) BY <1>10, <2>1, <2>4
  <2> QED BY <1>1, <1>2, <1>6, <2>1, <2>3, <2>4, <2>5, CarriedOn
<1>19. CASE LastElement
  <2>1. k > 0 /\ k + 1 = n /\ todo' = <<>> /\ Element(k + 1, SrcBuf, Destination)
    BY <1>3, <1>7, <1>8, <1>9, <1>19 DEF LastElement
  <2>2. Tail(todo) = <<>>
    <3> DEFINE t == Tail(todo)
               none == <<>>
    <3>1. List(t) /\ Len(t) = n - (k + 1) BY <1>1, <1>2, <1>6, LeftToDo
    <3>2. Len(t) = 0 BY <1>3, <1>7, <2>1, <3>1, Remaining
    <3>3. List(none) /\ Len(none) = 0 BY EmptyList
    <3> HIDE DEF t, none
    <3>4. t = none BY <3>1, <3>2, <3>3, SameLists
    <3> QED BY <3>4 DEF t, none
  <2>3. HolderAt(k) = SrcBuf /\ HolderAt(k + 1)' = Destination BY <1>14, <2>1
  <2>4. Destination \in Places /\ Destination # SrcBuf BY <1>11 DEF Places
  <2>5. cells'[Destination] = Ran(k + 1, SrcBuf, Destination) BY <1>10, <2>1, <2>4
  <2> QED BY <1>1, <1>2, <1>6, <2>1, <2>2, <2>3, <2>4, <2>5, CarriedOn
<1> QED BY <1>15, <1>16, <1>17, <1>18, <1>19

(* For every chain, of whatever elements, as often as its apply object is    *)
(* used and in place or not: a pixel has gone through every element once and *)
(* in order, its PCS decoded before and encoded after them, and has as many  *)
(* channels as the transform (CIccTagMultiProcessElement::Apply).            *)
THEOREM ChainsCarryPixels == Spec => []ChainCarried
<1> DEFINE IInv == Accepted /\ ChainSound /\ ChainCarried
<1>1. Init => IInv
  <2>1. Init => ChainSound /\ ChainCarried BY DEF Init, ChainSound, ChainCarried
  <2>2. Init => Accepted
    <3> SUFFICES ASSUME Init PROVE Accepted OBVIOUS
    <3>1. DOMAIN cells = Places BY DEF Init
    <3> QED BY <3>1 DEF Init, Accepted
  <2> QED BY <2>1, <2>2
<1>2. IInv /\ [Next]_vars => IInv'
  <2> SUFFICES ASSUME IInv, [Next]_vars PROVE ChainSound' /\ ChainCarried'
    BY AcceptedStays
  <2>1. Accepted' BY AcceptedStays
  <2> DEFINE n == Len(xform.elems)
  <2>2. CASE Begin \/ ExtractCurves \/ NewApplyFails
    BY <2>2 DEF Begin, ExtractCurves, NewApplyFails, ChainSound, ChainCarried
  <2>3. CASE NewApply
    <3>1. phase' = "ready" /\ xform' = xform BY <2>3 DEF NewApply
    <3>2. xform.class = "mpe" /\ ~Incomplete' => chain' = Positions(xform')
      BY <2>3, <3>1, NewApplyComplete
    <3> QED BY <3>1, <3>2 DEF ChainSound, ChainCarried
  <2>4. ASSUME NEW place \in BOOLEAN, StartPixel(place) PROVE ChainSound' /\ ChainCarried'
    <3>1. phase = "ready" /\ phase' = "applying" /\ xform' = xform /\ chain' = chain
      BY <2>4 DEF StartPixel
    <3>2. Incomplete' = Incomplete BY <3>1 DEF Incomplete
    <3>3. xform.class = "mpe" /\ ~Incomplete => Carried(Len(xform.elems) - Len(todo))'
      BY <2>4, ChainStarts
    <3>4. xform.class = "mpe" /\ ~Incomplete => chain' = Positions(xform')
      BY <3>1 DEF ChainSound
    <3> QED BY <3>1, <3>2, <3>3, <3>4 DEF ChainSound, ChainCarried
  <2>5. CASE LutStep \/ LutDone
    BY <2>5 DEF LutStep, LutDone, ChainSound, ChainCarried
  <2>6. CASE OnlyElement \/ FirstElement \/ SkipAcs \/ NextElement \/ LastElement
    <3>1. phase = "applying" /\ phase' = phase /\ xform' = xform /\ chain' = chain
      BY <2>6 DEF OnlyElement, FirstElement, SkipAcs, NextElement, LastElement
    <3>2. Incomplete' = Incomplete BY <3>1 DEF Incomplete
    <3>3. xform.class = "mpe" /\ ~Incomplete => Carried(Len(xform.elems) - Len(todo))'
      BY <2>1, <2>6, ChainGoesOn
    <3>4. xform.class = "mpe" /\ ~Incomplete => chain' = Positions(xform')
      BY <3>1 DEF ChainSound
    <3> QED BY <3>1, <3>2, <3>3, <3>4 DEF ChainSound, ChainCarried
  <2>7. CASE ChainDone
    <3>1. /\ phase = "applying" /\ xform.class = "mpe" /\ todo = <<>> /\ phase' = "done"
          /\ UNCHANGED <<xform, chain, inPlace>>
      BY <2>7 DEF ChainDone
    <3>2. Incomplete' = Incomplete /\ Destination' = Destination
      BY <3>1 DEF Incomplete, Destination
    <3>3. ASSUME ~Incomplete
          PROVE  cells'[Destination]
                   = Pixel(CheckSrcAbs(xform) \o BeforeChain(xform) \o Elements
                             \o AfterChain(xform) \o CheckDstAbs(xform), xform.nOut)
      <4>1. chain = Positions(xform) /\ Carried(n - Len(todo)) BY <3>1, <3>3 DEF ChainSound
      <4>2. n \in Nat /\ n - Len(todo) = n BY <3>1, ChainFits, EmptyList
      <4>3. cells[HolderAt(n)] = Pixel(Before(xform) \o Elements, ChannelsAt(xform, n))
        BY <4>1, <4>2 DEF Carried, Through, Elements, Positions
      <4>4. ChannelsAt(xform, n) = xform.nOut BY <3>1, <4>2, ChainFits DEF ChannelsAt
      <4>5. HolderAt(n) = IF chain = <<>> THEN Source ELSE Destination
        <5>1. Len(chain) = n
          <6> DEFINE s == Positions(xform)
          <6>1. Len(s) = n BY <4>2, Numbers DEF Positions
          <6> QED BY <4>1, <6>1
        <5>2. chain = <<>> => n = 0 BY <5>1, EmptyList
        <5>3. n = 0 => chain = <<>>
          <6> DEFINE none == <<>>
                     s == chain
          <6>1. List(s) BY <4>1, <4>2, Numbers DEF Positions
          <6>2. List(none) /\ Len(none) = 0 BY EmptyList
          <6>3. Len(s) = n BY <5>1
          <6> HIDE DEF s, none
          <6>4. n = 0 => s = none BY <6>1, <6>2, <6>3, SameLists
          <6> QED BY <6>4 DEF s, none
        <5> QED BY <5>2, <5>3, <4>2 DEF HolderAt
      <4> DEFINE p == cells[IF chain = <<>> THEN Source ELSE Destination]
                 q == Pixel(p.by \o AfterChain(xform) \o CheckDstAbs(xform), p.n)
      <4>6. p.by = Before(xform) \o Elements /\ p.n = xform.nOut
        BY <4>3, <4>4, <4>5 DEF Pixel
      <4>7. cells' = [cells EXCEPT ![Destination] = q] BY <2>7 DEF ChainDone
      <4>8. cells'[Destination] = q
        <5>1. Destination \in Places /\ DOMAIN cells = Places BY DEF Accepted, Destination, Places
        <5> HIDE DEF q
        <5> QED BY <4>7, <5>1
      <4> HIDE DEF p
      <4> QED BY <4>6, <4>8 DEF Before
    <3>4. Elements' = Elements BY <3>1 DEF Elements, Positions
    <3>5. ChainCarried' BY <3>1, <3>2, <3>3, <3>4 DEF ChainCarried
    <3>6. ~Incomplete => chain' = Positions(xform') BY <3>1 DEF ChainSound
    <3> QED BY <3>1, <3>2, <3>5, <3>6 DEF ChainSound
  <2>8. CASE EndPixel
    <3>1. phase = "done" /\ phase' = "ready" /\ xform' = xform /\ chain' = chain
      BY <2>8 DEF EndPixel
    <3>2. Incomplete' = Incomplete BY <3>1 DEF Incomplete
    <3> QED BY <3>1, <3>2 DEF ChainSound, ChainCarried
  <2>9. CASE UNCHANGED vars
    <3>1. ChainSound' = ChainSound
      BY <2>9 DEF vars, ChainSound, Incomplete, Carried, HolderAt, Source, SrcBuf, Destination
    <3>2. ChainCarried' = ChainCarried
      BY <2>9 DEF vars, ChainCarried, Incomplete, Destination, Elements
    <3> QED BY <3>1, <3>2
  <2> QED BY <2>2, <2>3, <2>4, <2>5, <2>6, <2>7, <2>8, <2>9 DEF Next
<1>3. IInv => ChainCarried OBVIOUS
<1> QED BY <1>1, <1>2, <1>3, PTL DEF Spec
-----------------------------------------------------------------------------
(* A transform without a chain.  The curves next to the device come first or *)
(* last, and are what callers may take; the rest is the rest.                *)
Rest(x) ==
  CASE x.class = "mono"                                    -> <<"white">>
    [] x.class = "matrix"                                  -> <<"matrix">>
    [] x.class \in {"3d", "4d", "nd"} /\ x.inputMatrix /\ x.input
                                                           -> <<"matrix", "M", "table", "A">>
    [] x.class \in {"3d", "4d", "nd"} /\ x.inputMatrix /\ ~x.input
                                                           -> <<"B", "matrix", "M", "table">>
    [] x.class \in {"3d", "4d", "nd"} /\ ~x.inputMatrix /\ x.input
                                                           -> <<"table", "M", "matrix", "B">>
    [] x.class \in {"3d", "4d", "nd"} /\ ~x.inputMatrix /\ ~x.input
                                                           -> <<"A", "table", "M", "matrix">>

Luts == {"3d", "4d", "nd"}

LEMMA JoinedTo ==
  ASSUME NEW s, List(s), NEW t, List(t), NEW u, List(u), Len(u) = Len(s) + Len(t),
         \A k \in 1 .. Len(s) : u[k] = s[k],
         \A k \in 1 .. Len(t) : u[Len(s) + k] = t[k]
  PROVE  u = s \o t
<1> DEFINE r == s \o t
<1>1. /\ List(r) /\ Len(r) = Len(s) + Len(t)
      /\ (\A k \in 1 .. Len(s) : r[k] = s[k])
      /\ (\A k \in 1 .. Len(t) : r[Len(s) + k] = t[k])
  BY Joined
<1>2. Len(s) \in Nat /\ Len(t) \in Nat BY DEF List
<1> HIDE DEF r
<1>3. \A k \in 1 .. Len(u) : u[k] = r[k]
  <2> TAKE k \in 1 .. Len(u)
  <2>1. CASE k \in 1 .. Len(s) BY <1>1, <2>1
  <2>2. CASE k \notin 1 .. Len(s)
    <3>1. k - Len(s) \in 1 .. Len(t) /\ k = Len(s) + (k - Len(s)) BY <1>2, <2>2
    <3> QED BY <1>1, <3>1
  <2> QED BY <2>1, <2>2
<1>4. u = r BY <1>1, <1>3, SameLists
<1> QED BY <1>4 DEF r

LEMMA ShortLists ==
  ASSUME NEW a, NEW b, NEW c, NEW d, NEW e
  PROVE  /\ List(<<a, b>>) /\ List(<<a, b, c>>) /\ List(<<a, b, c, d>>) /\ List(<<a, b, c, d, e>>)
         /\ Len(<<a, b>>) = 2 /\ Len(<<a, b, c>>) = 3 /\ Len(<<a, b, c, d>>) = 4
         /\ Len(<<a, b, c, d, e>>) = 5
BY DEF List

(* A tuple is its first or its last element and the rest. *)
LEMMA Split ==
  ASSUME NEW a, NEW b, NEW c, NEW d, NEW e
  PROVE  /\ <<a, b>> = <<a>> \o <<b>>
         /\ <<a, b, c>> = <<a>> \o <<b, c>>
         /\ <<b, c, d, e>> = <<b, c>> \o <<d, e>>
         /\ <<a, b, c, d, e>> = <<a>> \o <<b, c, d, e>>
         /\ <<a, b, c, d, e>> = <<a, b, c, d>> \o <<e>>
<1>1. <<a, b>> = <<a>> \o <<b>>
  <2>1. /\ \A k \in 1 .. 1 : <<a, b>>[k] = <<a>>[k]
        /\ \A k \in 1 .. 1 : <<a, b>>[1 + k] = <<b>>[k]
    OBVIOUS
  <2> DEFINE s == <<a>>
             t == <<b>>
             u == <<a, b>>
  <2>2. List(s) /\ List(t) /\ List(u) /\ Len(s) = 1 /\ Len(t) = 1 /\ Len(u) = 2
    BY OneList, ShortLists
  <2>3. (\A k \in 1 .. 1 : u[k] = s[k]) /\ \A k \in 1 .. 1 : u[1 + k] = t[k]
    BY <2>1
  <2> HIDE DEF s, t, u
  <2>4. /\ Len(u) = Len(s) + Len(t)
        /\ \A k \in 1 .. Len(s) : u[k] = s[k]
        /\ \A k \in 1 .. Len(t) : u[Len(s) + k] = t[k]
    BY <2>2, <2>3
  <2>6. List(s) /\ List(t) /\ List(u) BY <2>2
  <2>5. u = s \o t BY <2>4, <2>6, JoinedTo
  <2> QED BY <2>5 DEF s, t, u
<1>2. <<a, b, c>> = <<a>> \o <<b, c>>
  <2>1. /\ \A k \in 1 .. 1 : <<a, b, c>>[k] = <<a>>[k]
        /\ \A k \in 1 .. 2 : <<a, b, c>>[1 + k] = <<b, c>>[k]
    OBVIOUS
  <2> DEFINE s == <<a>>
             t == <<b, c>>
             u == <<a, b, c>>
  <2>2. List(s) /\ List(t) /\ List(u) /\ Len(s) = 1 /\ Len(t) = 2 /\ Len(u) = 3
    BY OneList, ShortLists
  <2>3. (\A k \in 1 .. 1 : u[k] = s[k]) /\ \A k \in 1 .. 2 : u[1 + k] = t[k]
    BY <2>1
  <2> HIDE DEF s, t, u
  <2>4. /\ Len(u) = Len(s) + Len(t)
        /\ \A k \in 1 .. Len(s) : u[k] = s[k]
        /\ \A k \in 1 .. Len(t) : u[Len(s) + k] = t[k]
    BY <2>2, <2>3
  <2>6. List(s) /\ List(t) /\ List(u) BY <2>2
  <2>5. u = s \o t BY <2>4, <2>6, JoinedTo
  <2> QED BY <2>5 DEF s, t, u
<1>3. <<b, c, d, e>> = <<b, c>> \o <<d, e>>
  <2>1. /\ \A k \in 1 .. 2 : <<b, c, d, e>>[k] = <<b, c>>[k]
        /\ \A k \in 1 .. 2 : <<b, c, d, e>>[2 + k] = <<d, e>>[k]
    OBVIOUS
  <2> DEFINE s == <<b, c>>
             t == <<d, e>>
             u == <<b, c, d, e>>
  <2>2. List(s) /\ List(t) /\ List(u) /\ Len(s) = 2 /\ Len(t) = 2 /\ Len(u) = 4
    BY OneList, ShortLists
  <2>3. (\A k \in 1 .. 2 : u[k] = s[k]) /\ \A k \in 1 .. 2 : u[2 + k] = t[k]
    BY <2>1
  <2> HIDE DEF s, t, u
  <2>4. /\ Len(u) = Len(s) + Len(t)
        /\ \A k \in 1 .. Len(s) : u[k] = s[k]
        /\ \A k \in 1 .. Len(t) : u[Len(s) + k] = t[k]
    BY <2>2, <2>3
  <2>6. List(s) /\ List(t) /\ List(u) BY <2>2
  <2>5. u = s \o t BY <2>4, <2>6, JoinedTo
  <2> QED BY <2>5 DEF s, t, u
<1>4. <<a, b, c, d, e>> = <<a>> \o <<b, c, d, e>>
  <2>1. /\ \A k \in 1 .. 1 : <<a, b, c, d, e>>[k] = <<a>>[k]
        /\ \A k \in 1 .. 4 : <<a, b, c, d, e>>[1 + k] = <<b, c, d, e>>[k]
    OBVIOUS
  <2> DEFINE s == <<a>>
             t == <<b, c, d, e>>
             u == <<a, b, c, d, e>>
  <2>2. List(s) /\ List(t) /\ List(u) /\ Len(s) = 1 /\ Len(t) = 4 /\ Len(u) = 5
    BY OneList, ShortLists
  <2>3. (\A k \in 1 .. 1 : u[k] = s[k]) /\ \A k \in 1 .. 4 : u[1 + k] = t[k]
    BY <2>1
  <2> HIDE DEF s, t, u
  <2>4. /\ Len(u) = Len(s) + Len(t)
        /\ \A k \in 1 .. Len(s) : u[k] = s[k]
        /\ \A k \in 1 .. Len(t) : u[Len(s) + k] = t[k]
    BY <2>2, <2>3
  <2>6. List(s) /\ List(t) /\ List(u) BY <2>2
  <2>5. u = s \o t BY <2>4, <2>6, JoinedTo
  <2> QED BY <2>5 DEF s, t, u
<1>5. <<a, b, c, d, e>> = <<a, b, c, d>> \o <<e>>
  <2>1. /\ \A k \in 1 .. 4 : <<a, b, c, d, e>>[k] = <<a, b, c, d>>[k]
        /\ \A k \in 1 .. 1 : <<a, b, c, d, e>>[4 + k] = <<e>>[k]
    OBVIOUS
  <2> DEFINE s == <<a, b, c, d>>
             t == <<e>>
             u == <<a, b, c, d, e>>
  <2>2. List(s) /\ List(t) /\ List(u) /\ Len(s) = 4 /\ Len(t) = 1 /\ Len(u) = 5
    BY OneList, ShortLists
  <2>3. (\A k \in 1 .. 4 : u[k] = s[k]) /\ \A k \in 1 .. 1 : u[4 + k] = t[k]
    BY <2>1
  <2> HIDE DEF s, t, u
  <2>4. /\ Len(u) = Len(s) + Len(t)
        /\ \A k \in 1 .. Len(s) : u[k] = s[k]
        /\ \A k \in 1 .. Len(t) : u[Len(s) + k] = t[k]
    BY <2>2, <2>3
  <2>6. List(s) /\ List(t) /\ List(u) BY <2>2
  <2>5. u = s \o t BY <2>4, <2>6, JoinedTo
  <2> QED BY <2>5 DEF s, t, u
<1> QED BY <1>1, <1>2, <1>3, <1>4, <1>5

LEMMA RestOf ==
  ASSUME NEW x \in Transforms, x.class # "mpe"
  PROVE  LET d == DeviceCurves(x) IN
         /\ d \in {"A", "B"} /\ List(Rest(x))
         /\ \A k \in 1 .. Len(Rest(x)) : Rest(x)[k] \in Stages \ {d}
         /\ x.class \in Luts =>
              \A k \in 1 .. Len(Rest(x)) : Rest(x)[k] \in {"A", "B", "M", "matrix", "table"}
         /\ x.input => Order(x) = <<d>> \o Rest(x)
         /\ ~x.input => Order(x) = Rest(x) \o <<d>>
<1>1. x.class \in {"mono", "matrix"} \cup Luts
  BY TransformsAssumption DEF Classes, Luts
<1>2. x.input \in BOOLEAN /\ x.inputMatrix \in BOOLEAN BY TransformsAssumption
<1>3. CASE x.class = "mono"
  <2>1. /\ DeviceCurves(x) = "A" /\ Rest(x) = <<"white">>
        /\ x.input => Order(x) = <<"A", "white">>
        /\ ~x.input => Order(x) = <<"white", "A">>
    <3>1. DeviceCurves(x) = "A" BY <1>3 DEF DeviceCurves
    <3>2. Rest(x) = <<"white">> BY <1>3 DEF Rest
    <3>3. x.input => Order(x) = <<"A", "white">> BY <1>3 DEF Order
    <3>4. ~x.input => Order(x) = <<"white", "A">> BY <1>3 DEF Order
    <3> QED BY <3>1, <3>2, <3>3, <3>4
  <2>2. List(<<"white">>) BY OneList
  <2>3. \A k \in 1 .. Len(<<"white">>) : <<"white">>[k] \in Stages \ {"A"} BY DEF Stages
  <2>4. <<"A", "white">> = <<"A">> \o <<"white">> /\ <<"white", "A">> = <<"white">> \o <<"A">>
    BY Split
  <2> QED BY <1>3, <2>1, <2>2, <2>3, <2>4 DEF Luts
<1>4. CASE x.class = "matrix"
  <2>1. /\ DeviceCurves(x) = "A" /\ Rest(x) = <<"matrix">>
        /\ x.input => Order(x) = <<"A", "matrix">>
        /\ ~x.input => Order(x) = <<"matrix", "A">>
    <3>1. DeviceCurves(x) = "A" BY <1>4 DEF DeviceCurves
    <3>2. Rest(x) = <<"matrix">> BY <1>4 DEF Rest
    <3>3. x.input => Order(x) = <<"A", "matrix">> BY <1>4 DEF Order
    <3>4. ~x.input => Order(x) = <<"matrix", "A">> BY <1>4 DEF Order
    <3> QED BY <3>1, <3>2, <3>3, <3>4
  <2>2. List(<<"matrix">>) BY OneList
  <2>3. \A k \in 1 .. Len(<<"matrix">>) : <<"matrix">>[k] \in Stages \ {"A"} BY DEF Stages
  <2>4. <<"A", "matrix">> = <<"A">> \o <<"matrix">> /\ <<"matrix", "A">> = <<"matrix">> \o <<"A">>
    BY Split
  <2> QED BY <1>4, <2>1, <2>2, <2>3, <2>4 DEF Luts
<1>5. CASE x.class \in Luts /\ x.inputMatrix /\ x.input
  <2>1. DeviceCurves(x) = "B" /\ Rest(x) = <<"matrix", "M", "table", "A">>
        /\ Order(x) = <<"B", "matrix", "M", "table", "A">>
    BY <1>5 DEF DeviceCurves, Rest, Order, Luts
  <2>2. List(<<"matrix", "M", "table", "A">>) BY OneList, ShortLists
  <2>3. \A k \in 1 .. Len(<<"matrix", "M", "table", "A">>) :
          <<"matrix", "M", "table", "A">>[k] \in Stages \ {"B"}
    BY DEF Stages
  <2>4. <<"B", "matrix", "M", "table", "A">> = <<"B">> \o <<"matrix", "M", "table", "A">> BY Split
  <2>5. \A k \in 1 .. Len(<<"matrix", "M", "table", "A">>) :
          <<"matrix", "M", "table", "A">>[k] \in {"A", "B", "M", "matrix", "table"}
    OBVIOUS
  <2> QED BY <1>5, <2>1, <2>2, <2>3, <2>4, <2>5
<1>6. CASE x.class \in Luts /\ x.inputMatrix /\ ~x.input
  <2>1. DeviceCurves(x) = "A" /\ Rest(x) = <<"B", "matrix", "M", "table">>
        /\ Order(x) = <<"B", "matrix", "M", "table", "A">>
    BY <1>6 DEF DeviceCurves, Rest, Order, Luts
  <2>2. List(<<"B", "matrix", "M", "table">>) BY OneList, ShortLists
  <2>3. \A k \in 1 .. Len(<<"B", "matrix", "M", "table">>) :
          <<"B", "matrix", "M", "table">>[k] \in Stages \ {"A"}
    BY DEF Stages
  <2>4. <<"B", "matrix", "M", "table", "A">> = <<"B", "matrix", "M", "table">> \o <<"A">> BY Split
  <2>5. \A k \in 1 .. Len(<<"B", "matrix", "M", "table">>) :
          <<"B", "matrix", "M", "table">>[k] \in {"A", "B", "M", "matrix", "table"}
    OBVIOUS
  <2> QED BY <1>6, <2>1, <2>2, <2>3, <2>4, <2>5
<1>7. CASE x.class \in Luts /\ ~x.inputMatrix /\ x.input
  <2>1. DeviceCurves(x) = "A" /\ Rest(x) = <<"table", "M", "matrix", "B">>
        /\ Order(x) = <<"A", "table", "M", "matrix", "B">>
    BY <1>7 DEF DeviceCurves, Rest, Order, Luts
  <2>2. List(<<"table", "M", "matrix", "B">>) BY OneList, ShortLists
  <2>3. \A k \in 1 .. Len(<<"table", "M", "matrix", "B">>) :
          <<"table", "M", "matrix", "B">>[k] \in Stages \ {"A"}
    BY DEF Stages
  <2>4. <<"A", "table", "M", "matrix", "B">> = <<"A">> \o <<"table", "M", "matrix", "B">> BY Split
  <2>5. \A k \in 1 .. Len(<<"table", "M", "matrix", "B">>) :
          <<"table", "M", "matrix", "B">>[k] \in {"A", "B", "M", "matrix", "table"}
    OBVIOUS
  <2> QED BY <1>7, <2>1, <2>2, <2>3, <2>4, <2>5
<1>8. CASE x.class \in Luts /\ ~x.inputMatrix /\ ~x.input
  <2>1. DeviceCurves(x) = "B" /\ Rest(x) = <<"A", "table", "M", "matrix">>
        /\ Order(x) = <<"A", "table", "M", "matrix", "B">>
    BY <1>8 DEF DeviceCurves, Rest, Order, Luts
  <2>2. List(<<"A", "table", "M", "matrix">>) BY OneList, ShortLists
  <2>3. \A k \in 1 .. Len(<<"A", "table", "M", "matrix">>) :
          <<"A", "table", "M", "matrix">>[k] \in Stages \ {"B"}
    BY DEF Stages
  <2>4. <<"A", "table", "M", "matrix", "B">> = <<"A", "table", "M", "matrix">> \o <<"B">> BY Split
  <2>5. \A k \in 1 .. Len(<<"A", "table", "M", "matrix">>) :
          <<"A", "table", "M", "matrix">>[k] \in {"A", "B", "M", "matrix", "table"}
    OBVIOUS
  <2> QED BY <1>8, <2>1, <2>2, <2>3, <2>4, <2>5
<1> QED BY <1>1, <1>2, <1>3, <1>4, <1>5, <1>6, <1>7, <1>8

(* The stages in force, and those Apply goes through, which it also looks    *)
(* for in this order.                                                        *)
AllInForce(x) == {q \in Stages : InForce(x, q)}
Going(x) ==
  uses \cup (CASE x.class = "mono"                   -> {"white"}
               [] x.class = "matrix"                 -> {"matrix"}
               [] x.class \in Luts /\ HasTable(x)    -> {"table"}
               [] x.class \in Luts /\ ~HasTable(x)   -> {})

LEMMA KeptOfThree ==
  ASSUME NEW a, List(a), NEW m, List(m), NEW b, List(b), NEW S
  PROVE  Kept(a \o (m \o b), S) = Kept(a, S) \o (Kept(m, S) \o Kept(b, S))
<1> DEFINE mb == m \o b
<1>1. List(mb) BY Joined
<1>2. Kept(mb, S) = Kept(m, S) \o Kept(b, S) BY KeptOfJoined
<1> HIDE DEF mb
<1>3. Kept(a \o mb, S) = Kept(a, S) \o Kept(mb, S) BY <1>1, KeptOfJoined
<1> QED BY <1>2, <1>3 DEF mb

LEMMA GoingMeets ==
  ASSUME xform \in Transforms, xform.class # "mpe", Begins(xform), ~Dropped(xform),
         uses = Used(xform) \ taken, taken \subseteq {DeviceCurves(xform)}
  PROVE  LET d == DeviceCurves(xform) IN
         /\ d \in AllInForce(xform) <=> xform[d] = "real"
         /\ d \in Going(xform) <=> xform[d] = "real" /\ d \notin taken
         /\ \A k \in 1 .. Len(Rest(xform)) :
              Rest(xform)[k] \in Going(xform) <=> Rest(xform)[k] \in AllInForce(xform)
<1> DEFINE x == xform
           d == DeviceCurves(x)
<1>1. x.class \in {"mono", "matrix"} \cup Luts BY TransformsAssumption DEF Classes, Luts
<1>2. x.inputMatrix \in BOOLEAN /\ x.input \in BOOLEAN BY TransformsAssumption
<1>3. d \in {"A", "B"} /\ d \in Stages BY RestOf DEF Stages
<1>4. d \in AllInForce(x) <=> x[d] = "real" BY <1>3 DEF AllInForce, InForce
<1>5. CASE x.class = "mono"
  <2>1. d = "A" /\ Rest(x) = <<"white">> BY <1>5 DEF DeviceCurves, Rest
  <2>2. "A" \in Used(x) <=> x["A"] = "real" BY <1>5 DEF Used, Real
  <2>3. "white" \in Going(x) /\ (d \in Going(x) <=> d \in uses)
    <3>1. Going(x) = uses \cup {"white"} BY <1>5 DEF Going, Luts
    <3> QED BY <1>3, <3>1
  <2>4. "white" \in AllInForce(x) BY DEF AllInForce, Stages, InForce
  <2>5. \A k \in 1 .. Len(<<"white">>) : <<"white">>[k] = "white" OBVIOUS
  <2> QED BY <1>4, <2>1, <2>2, <2>3, <2>4, <2>5
<1>6. CASE x.class = "matrix"
  <2>1. d = "A" /\ Rest(x) = <<"matrix">> BY <1>6 DEF DeviceCurves, Rest
  <2>2. "A" \in Used(x) <=> x["A"] = "real" BY <1>6 DEF Used, Real
  <2>3. "matrix" \in Going(x) /\ (d \in Going(x) <=> d \in uses)
    <3>1. Going(x) = uses \cup {"matrix"} BY <1>6 DEF Going, Luts
    <3> QED BY <1>3, <3>1
  <2>4. "matrix" \in AllInForce(x) BY <1>6 DEF AllInForce, Stages, InForce
  <2>5. \A k \in 1 .. Len(<<"matrix">>) : <<"matrix">>[k] = "matrix" OBVIOUS
  <2> QED BY <1>4, <2>1, <2>2, <2>3, <2>4, <2>5
<1>7. CASE x.class \in Luts
  <2>1. \A q \in {"A", "B", "M", "matrix"} : q \in AllInForce(x) <=> x[q] = "real"
    BY <1>7 DEF AllInForce, Stages, InForce, Luts
  <2>2. "table" \in AllInForce(x) <=> HasTable(x) BY DEF AllInForce, Stages, InForce
  <2>3. \A q \in {"A", "B", "M", "matrix"} : q \in Used(x) <=> x[q] = "real"
    <3>1. CASE x.class = "3d" BY <3>1 DEF Used, Real
    <3>2. CASE x.class \in {"4d", "nd"} /\ ~x.inputMatrix BY <3>2 DEF Used, UsedOtherLut, Real
    <3>3. CASE x.class \in {"4d", "nd"} /\ x.inputMatrix
      <4>1. Used(x) = {q \in {"A", "B"} : x[q] = "real"} BY <3>3 DEF Used, UsedOtherLut, Real
      <4>2. x["matrix"] = "none" BY <3>3 DEF Begins, BeginsOtherLut
      <4>3. x["M"] # "real" BY <3>3 DEF Dropped
      <4> QED BY <4>1, <4>2, <4>3
    <3> QED BY <1>2, <1>7, <3>1, <3>2, <3>3 DEF Luts
  <2>4. "table" \notin Used(x) BY <1>7 DEF Used, UsedOtherLut, Real, Luts
  <2>5. \A q : q \in Going(x) <=> q \in uses \/ (q = "table" /\ HasTable(x))
    BY <1>7 DEF Going, Luts
  <2>6. d \in Going(x) <=> x[d] = "real" /\ d \notin taken BY <1>3, <2>3, <2>5
  <2>7. \A q \in {"A", "B", "M", "matrix", "table"} \ {d} : q \in Going(x) <=> q \in AllInForce(x)
    BY <2>1, <2>2, <2>3, <2>4, <2>5
  <2>8. \A k \in 1 .. Len(Rest(x)) : Rest(x)[k] \in {"A", "B", "M", "matrix", "table"} \ {d}
    BY <1>7, RestOf
  <2> QED BY <1>4, <2>6, <2>7, <2>8
<1> QED BY <1>1, <1>5, <1>6, <1>7

LEMMA StepsOver ==
  ASSUME xform \in Transforms, xform.class # "mpe", Begins(xform), ~Dropped(xform),
         uses = Used(xform) \ taken, taken \subseteq {DeviceCurves(xform)}
  PROVE  Steps(xform) = Kept(Order(xform), Going(xform))
<1> DEFINE x == xform
           G == Going(x)
<1>1. x.class \in {"mono", "matrix"} \cup Luts BY TransformsAssumption DEF Classes, Luts
<1>2. x.inputMatrix \in BOOLEAN /\ x.input \in BOOLEAN BY TransformsAssumption
<1>3. CASE x.class = "mono"
  <2>1. Going(x) = uses \cup {"white"} BY <1>3 DEF Going, Luts
  <2>2. CASE x.input
    <3>1. Order(x) = <<"A", "white">> BY <1>3, <2>2 DEF Order
    <3>2. Steps(x) = Kept(<<"A", "white">>, uses \cup {"white"}) BY <1>3, <2>2 DEF Steps
    <3> QED BY <2>1, <3>1, <3>2
  <2>3. CASE ~x.input
    <3>1. Order(x) = <<"white", "A">> BY <1>3, <2>3 DEF Order
    <3>2. Steps(x) = Kept(<<"white", "A">>, uses \cup {"white"}) BY <1>3, <2>3 DEF Steps
    <3> QED BY <2>1, <3>1, <3>2
  <2> QED BY <2>2, <2>3
<1>4. CASE x.class = "matrix"
  <2>1. Going(x) = uses \cup {"matrix"} BY <1>4 DEF Going, Luts
  <2>2. CASE x.input
    <3>1. Order(x) = <<"A", "matrix">> BY <1>4, <2>2 DEF Order
    <3>2. Steps(x) = Kept(<<"A", "matrix">>, uses \cup {"matrix"}) BY <1>4, <2>2 DEF Steps
    <3> QED BY <2>1, <3>1, <3>2
  <2>3. CASE ~x.input
    <3>1. Order(x) = <<"matrix", "A">> BY <1>4, <2>3 DEF Order
    <3>2. Steps(x) = Kept(<<"matrix", "A">>, uses \cup {"matrix"}) BY <1>4, <2>3 DEF Steps
    <3> QED BY <2>1, <3>1, <3>2
  <2> QED BY <2>2, <2>3
<1>5. CASE x.class \in Luts
  <2>1. Steps(x) = Kept(LutParts(x), G)
    <3>1. Steps(x) = LutSteps(x) BY <1>5 DEF Steps, Luts
    <3>2. G = uses \cup (IF HasTable(x) THEN {"table"} ELSE {}) BY <1>5 DEF Going, Luts
    <3> QED BY <3>1, <3>2 DEF LutSteps
  <2>2. CASE x.class = "3d" \/ ~x.inputMatrix
    <3>1. LutParts(x) = Order(x) BY <1>2, <1>5, <2>2 DEF LutParts, Order, Luts
    <3> QED BY <2>1, <3>1
  <2>3. CASE x.class \in {"4d", "nd"} /\ x.inputMatrix
    <3> DEFINE a == <<"B">>
               m == <<"matrix", "M">>
               b == <<"table", "A">>
    <3>1. LutParts(x) = <<"B", "table", "A">> /\ Order(x) = <<"B", "matrix", "M", "table", "A">>
      BY <2>3 DEF LutParts, Order
    <3>2. <<"B", "table", "A">> = a \o b BY Split
    <3>3. <<"B", "matrix", "M", "table", "A">> = a \o (m \o b) BY Split
    <3>4. List(a) /\ List(m) /\ List(b) BY OneList, ShortLists
    <3>5. "matrix" \notin G /\ "M" \notin G
      <4>1. Used(x) = {q \in {"A", "B"} : x[q] = "real"} BY <2>3 DEF Used, UsedOtherLut, Real
      <4>2. \A q : q \in G => q \in Used(x) \/ q = "table" BY <1>5 DEF Going, Luts
      <4> QED BY <4>1, <4>2
    <3>6. Kept(m, G) = <<>>
      <4> DEFINE one == <<"matrix">>
                 two == <<"M">>
                 none == <<>>
      <4>1. m = one \o two BY Split
      <4>2. List(one) /\ List(two) /\ List(none) BY OneList, EmptyList
      <4>3. Kept(one, G) = none /\ Kept(two, G) = none BY <3>5, KeptOfOne
      <4> HIDE DEF one, two, m
      <4>4. Kept(one \o two, G) = Kept(one, G) \o Kept(two, G) BY <4>2, KeptOfJoined
      <4>5. none \o none = none BY EmptyList, JoinedEmpty
      <4> QED BY <4>1, <4>3, <4>4, <4>5
    <3> HIDE DEF a, m, b
    <3> DEFINE k == Kept(b, G)
    <3>7. List(k) BY <3>4, KeptIsList
    <3>8. <<>> \o k = k
      <4> HIDE DEF k
      <4> QED BY <3>7, JoinedEmpty
    <3>9. Kept(a \o (m \o b), G) = Kept(a, G) \o (Kept(m, G) \o Kept(b, G)) BY <3>4, KeptOfThree, SMTT(20)
    <3>10. Kept(a \o b, G) = Kept(a, G) \o Kept(b, G) BY <3>4, KeptOfJoined
    <3>11. Kept(a \o (m \o b), G) = Kept(a \o b, G) BY <3>6, <3>8, <3>9, <3>10
    <3> QED BY <2>1, <3>1, <3>2, <3>3, <3>11
  <2> QED BY <1>2, <1>5, <2>2, <2>3 DEF Luts
<1> QED BY <1>1, <1>3, <1>4, <1>5

LEMMA Callers ==
  ASSUME NEW d \in {"A", "B"}, taken \subseteq {d}
  PROVE  CallersCurves = Kept(<<d>>, Real(xform, taken))
<1> DEFINE one == <<"A">>
           two == <<"B">>
           none == <<>>
           T == Real(xform, taken)
<1>1. <<"A", "B">> = one \o two BY Split
<1>2. List(one) /\ List(two) /\ List(none) BY OneList, EmptyList
<1>3. T \subseteq {d} BY DEF Real
<1>4. "A" \notin T => Kept(one, T) = none BY KeptOfOne
<1>5. "B" \notin T => Kept(two, T) = none BY KeptOfOne
<1>6. CallersCurves = Kept(one \o two, T) BY <1>1 DEF CallersCurves
<1> HIDE DEF one, two, T
<1>7. Kept(one \o two, T) = Kept(one, T) \o Kept(two, T) BY <1>2, KeptOfJoined
<1> DEFINE j == Kept(one, T)
           k == Kept(two, T)
<1>8. List(j) /\ List(k) BY <1>2, KeptIsList
<1> HIDE DEF j, k
<1>9. j \o none = j /\ none \o k = k BY <1>8, JoinedEmpty
<1>10. CallersCurves = j \o k BY <1>6, <1>7 DEF j, k
<1>11. CASE d = "A"
  <2>1. k = none BY <1>3, <1>5, <1>11 DEF k
  <2>2. CallersCurves = j BY <1>9, <1>10, <2>1
  <2> QED BY <1>11, <2>2 DEF j, one, T
<1>12. CASE d = "B"
  <2>1. j = none BY <1>3, <1>4, <1>12 DEF j
  <2>2. CallersCurves = k BY <1>9, <1>10, <2>1
  <2> QED BY <1>12, <2>2 DEF k, two, T
<1> QED BY <1>11, <1>12

(* Curves that were taken before or after the rest make up for those that    *)
(* Apply leaves out.                                                         *)
MakesUp(one, rest, U, F, T) ==
  /\ Kept(one, T) \o Kept(one \o rest, U) = Kept(one \o rest, F)
  /\ Kept(rest \o one, U) \o Kept(one, T) = Kept(rest \o one, F)

LEMMA MadeUp ==
  ASSUME NEW one, List(one), Len(one) = 1, NEW rest, List(rest), NEW U, NEW F, NEW T,
         one[1] \in T => one[1] \in F,
         one[1] \in U <=> one[1] \in F /\ one[1] \notin T,
         \A k \in 1 .. Len(rest) : rest[k] \in U <=> rest[k] \in F
  PROVE  MakesUp(one, rest, U, F, T)
<1> DEFINE none == <<>>
           t == Kept(one, T)
           u == Kept(one, U)
           f == Kept(one, F)
           r == Kept(rest, F)
<1>1. /\ t = IF one[1] \in T THEN one ELSE none
      /\ u = IF one[1] \in U THEN one ELSE none
      /\ f = IF one[1] \in F THEN one ELSE none
  BY KeptSingle
<1>2. Kept(rest, U) = r BY KeptAlike
<1>3. Kept(one \o rest, U) = u \o r /\ Kept(rest \o one, U) = r \o u
  <2>1. Kept(one \o rest, U) = u \o Kept(rest, U) BY KeptOfJoined
  <2>2. Kept(rest \o one, U) = Kept(rest, U) \o u BY KeptOfJoined
  <2> QED BY <1>2, <2>1, <2>2
<1>4. Kept(one \o rest, F) = f \o r /\ Kept(rest \o one, F) = r \o f BY KeptOfJoined
<1>5. List(r) BY KeptIsList
<1> HIDE DEF none, t, u, f, r
<1>6. none \o r = r /\ r \o none = r BY <1>5, JoinedEmpty DEF none
<1>7. t \o (u \o r) = f \o r /\ (r \o u) \o t = r \o f
  <2>1. CASE one[1] \in T
    <3>1. t = one /\ u = none /\ f = one BY <1>1, <2>1
    <3> QED BY <1>6, <3>1
  <2>2. CASE one[1] \notin T
    <3>1. t = none /\ u = f BY <1>1, <2>2
    <3>2. List(u) BY KeptIsList DEF u
    <3>3. List(u \o r) /\ List(r \o u) BY <1>5, <3>2, Joined
    <3> DEFINE v == u \o r
               w == r \o u
    <3>4. none \o v = v /\ w \o none = w
      <4> HIDE DEF v, w
      <4> QED BY <3>3, JoinedEmpty DEF none, v, w
    <3> QED BY <3>1, <3>4
  <2> QED BY <2>1, <2>2
<1> QED BY <1>3, <1>4, <1>7 DEF t, MakesUp

LEMMA StagesMeet ==
  ASSUME xform \in Transforms, xform.class # "mpe", Begins(xform), ~Dropped(xform),
         uses = Used(xform) \ taken, taken \subseteq {DeviceCurves(xform)}
  PROVE  WithTaken(Steps(xform)) = Kept(Order(xform), AllInForce(xform))
<1> DEFINE x == xform
           d == DeviceCurves(x)
           rest == Rest(x)
           U == Going(x)
           F == AllInForce(x)
           T == Real(x, taken)
<1>1. d \in {"A", "B"} /\ List(rest) BY RestOf
<1>2. (x.input => Order(x) = <<d>> \o rest) /\ (~x.input => Order(x) = rest \o <<d>>) BY RestOf
<1>3. (d \in F <=> x[d] = "real") /\ (d \in U <=> x[d] = "real" /\ d \notin taken)
      /\ \A k \in 1 .. Len(rest) : rest[k] \in U <=> rest[k] \in F
  BY GoingMeets
<1>4. d \in T <=> x[d] = "real" /\ d \in taken BY DEF Real
<1>5. (d \in T => d \in F) /\ (d \in U <=> d \in F /\ d \notin T) BY <1>3, <1>4
<1>6. Steps(x) = Kept(Order(x), U) BY StepsOver
<1>7. CallersCurves = Kept(<<d>>, T) BY <1>1, Callers
<1>8. WithTaken(Steps(x)) = IF x.input THEN CallersCurves \o Steps(x) ELSE Steps(x) \o CallersCurves
  BY DEF WithTaken
<1>12. d \in T => d \in F BY <1>5
<1>13. d \in U <=> d \in F /\ d \notin T BY <1>5
<1>14. \A k \in 1 .. Len(rest) : rest[k] \in U <=> rest[k] \in F BY <1>3
<1>15. List(rest) BY <1>1
<1> HIDE DEF x, d, rest, U, F, T
<1> DEFINE one == <<d>>
<1>16. List(one) /\ Len(one) = 1 /\ one[1] = d BY OneList
<1> HIDE DEF one
<1>9. MakesUp(one, rest, U, F, T)
  <2>1. one[1] \in T => one[1] \in F BY <1>12, <1>16
  <2>2. one[1] \in U <=> one[1] \in F /\ one[1] \notin T BY <1>13, <1>16
  <2>3. List(one) /\ Len(one) = 1 BY <1>16
  <2> QED BY <1>14, <1>15, <2>1, <2>2, <2>3, MadeUp
<1>10. CASE x.input BY <1>2, <1>6, <1>7, <1>8, <1>9, <1>10 DEF x, F, one, MakesUp
<1>11. CASE ~x.input BY <1>2, <1>6, <1>7, <1>8, <1>9, <1>11 DEF x, F, one, MakesUp
<1> QED BY <1>10, <1>11

LEMMA StepsAre ==
  ASSUME xform \in Transforms, xform.class # "mpe"
  PROVE  /\ List(Steps(xform))
         /\ \A k \in 1 .. Len(Steps(xform)) : Steps(xform)[k] \in Stages
         /\ xform.class \in Luts /\ HasTable(xform) =>
              \E k \in 1 .. Len(Steps(xform)) : Steps(xform)[k] = "table"
<1> DEFINE x == xform
<1>1. x.class \in {"mono", "matrix"} \cup Luts BY TransformsAssumption DEF Classes, Luts
<1>2. x.inputMatrix \in BOOLEAN /\ x.input \in BOOLEAN BY TransformsAssumption
<1>3. ASSUME NEW s, List(s), \A k \in 1 .. Len(s) : s[k] \in Stages, NEW S, Steps(x) = Kept(s, S)
      PROVE  List(Steps(x)) /\ \A k \in 1 .. Len(Steps(x)) : Steps(x)[k] \in Stages
  <2> DEFINE r == Kept(s, S)
  <2>1. List(r) /\ \A k \in 1 .. Len(r) : \E i \in 1 .. Len(s) : r[k] = s[i]
    BY <1>3, KeptIsList, KeptAmong
  <2> HIDE DEF r
  <2>2. \A k \in 1 .. Len(r) : r[k] \in Stages BY <1>3, <2>1
  <2>3. Steps(x) = r BY <1>3 DEF r
  <2> QED BY <2>1, <2>2, <2>3
<1>4. ASSUME NEW a \in Stages, NEW b \in Stages
      PROVE  List(<<a, b>>) /\ \A k \in 1 .. Len(<<a, b>>) : <<a, b>>[k] \in Stages
  <2>1. List(<<a, b>>) BY ShortLists
  <2> QED BY <2>1
<1>5. CASE x.class \in {"mono", "matrix"}
  <2>4. PICK a \in Stages, b \in Stages : \E S : Steps(x) = Kept(<<a, b>>, S)
    <3>1. CASE x.class = "mono" /\ x.input
      <4>1. Steps(x) = Kept(<<"A", "white">>, uses \cup {"white"}) BY <3>1 DEF Steps
      <4> QED BY <4>1 DEF Stages
    <3>2. CASE x.class = "mono" /\ ~x.input
      <4>1. Steps(x) = Kept(<<"white", "A">>, uses \cup {"white"}) BY <3>2 DEF Steps
      <4> QED BY <4>1 DEF Stages
    <3>3. CASE x.class = "matrix" /\ x.input
      <4>1. Steps(x) = Kept(<<"A", "matrix">>, uses \cup {"matrix"}) BY <3>3 DEF Steps
      <4> QED BY <4>1 DEF Stages
    <3>4. CASE x.class = "matrix" /\ ~x.input
      <4>1. Steps(x) = Kept(<<"matrix", "A">>, uses \cup {"matrix"}) BY <3>4 DEF Steps
      <4> QED BY <4>1 DEF Stages
    <3> QED BY <1>2, <1>5, <3>1, <3>2, <3>3, <3>4
  <2>1. PICK S : Steps(x) = Kept(<<a, b>>, S) BY <2>4
  <2> DEFINE s == <<a, b>>
  <2>2. List(s) /\ (\A k \in 1 .. Len(s) : s[k] \in Stages) /\ Steps(x) = Kept(s, S)
    BY <1>4, <2>1
  <2> HIDE DEF s
  <2>3. List(Steps(x)) /\ \A k \in 1 .. Len(Steps(x)) : Steps(x)[k] \in Stages BY <1>3, <2>2
  <2> QED BY <1>5, <2>3 DEF Luts
<1>6. CASE x.class \in Luts
  <2> DEFINE s == LutParts(x)
             S == uses \cup (IF HasTable(x) THEN {"table"} ELSE {})
  <2>1. Steps(x) = Kept(s, S) BY <1>6 DEF Steps, LutSteps, Luts
  <2>2. List(s) /\ (\A k \in 1 .. Len(s) : s[k] \in Stages) /\ \E k \in 1 .. Len(s) : s[k] = "table"
    <3>1. CASE s = <<"B", "matrix", "M", "table", "A">>
      <4>1. List(<<"B", "matrix", "M", "table", "A">>) BY ShortLists
      <4>2. \A k \in 1 .. 5 : <<"B", "matrix", "M", "table", "A">>[k] \in Stages BY DEF Stages
      <4>3. <<"B", "matrix", "M", "table", "A">>[4] = "table" /\ 4 \in 1 .. 5 OBVIOUS
      <4>4. Len(<<"B", "matrix", "M", "table", "A">>) = 5 OBVIOUS
      <4> QED BY <3>1, <4>1, <4>2, <4>3, <4>4
    <3>2. CASE s = <<"B", "table", "A">>
      <4>1. List(<<"B", "table", "A">>) BY ShortLists
      <4>2. \A k \in 1 .. 3 : <<"B", "table", "A">>[k] \in Stages BY DEF Stages
      <4>3. <<"B", "table", "A">>[2] = "table" /\ 2 \in 1 .. 3 OBVIOUS
      <4>4. Len(<<"B", "table", "A">>) = 3 OBVIOUS
      <4> QED BY <3>2, <4>1, <4>2, <4>3, <4>4
    <3>3. CASE s = <<"A", "table", "M", "matrix", "B">>
      <4>1. List(<<"A", "table", "M", "matrix", "B">>) BY ShortLists
      <4>2. \A k \in 1 .. 5 : <<"A", "table", "M", "matrix", "B">>[k] \in Stages BY DEF Stages
      <4>3. <<"A", "table", "M", "matrix", "B">>[2] = "table" /\ 2 \in 1 .. 5 OBVIOUS
      <4>4. Len(<<"A", "table", "M", "matrix", "B">>) = 5 OBVIOUS
      <4> QED BY <3>3, <4>1, <4>2, <4>3, <4>4
    <3>4. \/ s = <<"B", "matrix", "M", "table", "A">>
          \/ s = <<"B", "table", "A">>
          \/ s = <<"A", "table", "M", "matrix", "B">>
      <4>1. CASE x.class = "3d" /\ x.inputMatrix BY <4>1 DEF LutParts
      <4>2. CASE x.class \in {"4d", "nd"} /\ x.inputMatrix BY <4>2 DEF LutParts
      <4>3. CASE ~x.inputMatrix BY <4>3 DEF LutParts
      <4> QED BY <1>2, <1>6, <4>1, <4>2, <4>3 DEF Luts
    <3> QED BY <3>1, <3>2, <3>3, <3>4
  <2> HIDE DEF s, S
  <2>3. List(Steps(x)) /\ \A k \in 1 .. Len(Steps(x)) : Steps(x)[k] \in Stages BY <1>3, <2>1, <2>2
  <2>4. ASSUME HasTable(x) PROVE \E k \in 1 .. Len(Steps(x)) : Steps(x)[k] = "table"
    <3>1. PICK i \in 1 .. Len(s) : s[i] = "table" BY <2>2
    <3>2. s[i] \in S BY <2>4, <3>1 DEF S
    <3>3. \E k \in 1 .. Len(Kept(s, S)) : Kept(s, S)[k] = s[i] BY <2>2, <3>2, KeptThere
    <3> QED BY <2>1, <3>1, <3>3
  <2> QED BY <2>3, <2>4
<1> QED BY <1>1, <1>5, <1>6

(* A pixel on its way: what was done and what is left are what there is to   *)
(* do, and the outputs are written or will be.                               *)
LutCarried ==
  LET p == cells["temp"] IN
  /\ List(p.by) /\ List(todo) /\ p.n \in Nat
  /\ p.by \o todo = CheckSrcAbs(xform) \o Steps(xform)
  /\ ~Unwritten(xform) =>
       p.n >= xform.nOut \/ \E j \in 1 .. Len(todo) : todo[j] \in {"table", "white"}

LutArrived ==
  LET p == cells[Destination] IN
  /\ p.by = (CheckSrcAbs(xform) \o Steps(xform)) \o CheckDstAbs(xform)
  /\ ~Unwritten(xform) => p.n >= xform.nOut

LutSound ==
  xform.class # "mpe" =>
    /\ phase = "loaded" => taken = {}
    /\ phase \in {"begun", "ready", "applying", "done"} =>
         taken \subseteq {DeviceCurves(xform)} /\ uses = Used(xform) \ taken
    /\ phase = "applying" => LutCarried
    /\ phase = "done" => LutArrived

LEMMA LutStarts ==
  ASSUME Accepted, xform.class # "mpe", NEW place \in BOOLEAN, StartPixel(place)
  PROVE  LutCarried'
<1> DEFINE c == CheckSrcAbs(xform)
           s == Steps(xform)
           w == Written(xform)
<1>1. /\ xform' = xform /\ uses' = uses /\ todo' = s
      /\ cells' = [cells EXCEPT !["temp"] = Pixel(c, w), !["dst"] = Empty]
  BY DEF StartPixel
<1>2. cells'["temp"] = Pixel(c, w)
  <2> HIDE DEF c, w
  <2> QED BY <1>1 DEF Accepted, Places
<1>3. cells'["temp"].by = c /\ cells'["temp"].n = w BY <1>2 DEF Pixel
<1>4. List(c) BY OneList, EmptyList DEF CheckSrcAbs
<1>5. List(s) BY StepsAre DEF Accepted
<1>6. Steps(xform)' = s /\ CheckSrcAbs(xform)' = c
  BY <1>1 DEF Steps, LutSteps, CheckSrcAbs, HasTable
<1>7. xform.nIn \in Nat /\ xform.nOut \in Nat /\ xform.class \in Classes
  BY TransformsAssumption DEF Accepted
<1>8. w \in Nat BY <1>7 DEF Written, Larger
<1>9. ASSUME ~Unwritten(xform)
      PROVE  w >= xform.nOut \/ \E j \in 1 .. Len(s) : s[j] \in {"table", "white"}
  <2>1. CASE xform.class # "4d" BY <1>7, <2>1 DEF Written, Larger
  <2>2. CASE xform.class = "4d" /\ xform.nOut <= 4 BY <1>7, <2>2 DEF Written
  <2>3. CASE xform.class = "4d" /\ HasTable(xform)
    <3>1. \E j \in 1 .. Len(s) : s[j] = "table" BY <2>3, StepsAre DEF Accepted, Luts
    <3> HIDE DEF s
    <3> QED BY <3>1
  <2> QED BY <1>7, <1>9, <2>1, <2>2, <2>3 DEF Unwritten
<1> HIDE DEF c, s, w
<1> QED BY <1>1, <1>3, <1>4, <1>5, <1>6, <1>8, <1>9 DEF LutCarried, Unwritten, HasTable

LEMMA LutGoesOn ==
  ASSUME Accepted, xform.class # "mpe", LutCarried, LutStep
  PROVE  LutCarried'
<1> DEFINE p == cells["temp"]
           s == Head(todo)
           t == Tail(todo)
<1>1. /\ xform' = xform /\ uses' = uses /\ todo' = t /\ todo # <<>>
      /\ cells' = [cells EXCEPT !["temp"] = Done(@, s)]
  BY DEF LutStep
<1>2. cells'["temp"] = Done(p, s)
  <2> HIDE DEF s
  <2> QED BY <1>1 DEF Accepted, Places
<1>3. List(p.by) /\ List(todo) /\ p.n \in Nat BY DEF LutCarried
<1>4. /\ Len(todo) \in Nat /\ Len(todo) > 0 /\ s = todo[1] /\ List(t) /\ Len(t) = Len(todo) - 1
      /\ \A k \in 1 .. Len(todo) - 1 : t[k] = todo[k + 1]
  BY <1>1, <1>3, Shortened
<1>5. cells'["temp"].by = Append(p.by, s)
      /\ cells'["temp"].n = IF s \in {"table", "white"} THEN xform.nOut ELSE p.n
  BY <1>2 DEF Done, Pixel
<1>6. List(Append(p.by, s)) BY <1>3, Appended
<1>7. Append(p.by, s) \o t = CheckSrcAbs(xform) \o Steps(xform)
  BY <1>1, <1>3, Passed DEF LutCarried
<1>8. Steps(xform)' = Steps(xform) /\ CheckSrcAbs(xform)' = CheckSrcAbs(xform)
  BY <1>1 DEF Steps, LutSteps, CheckSrcAbs, HasTable
<1>9. xform.nOut \in Nat BY TransformsAssumption DEF Accepted
<1>10. cells'["temp"].n \in Nat BY <1>3, <1>5, <1>9
<1>11. ASSUME ~Unwritten(xform)
       PROVE  cells'["temp"].n >= xform.nOut \/ \E j \in 1 .. Len(t) : t[j] \in {"table", "white"}
  <2>1. CASE s \in {"table", "white"} BY <1>5, <1>9, <2>1
  <2>2. CASE s \notin {"table", "white"}
    <3>1. CASE p.n >= xform.nOut BY <1>5, <2>2, <3>1
    <3>2. ASSUME NEW j \in 1 .. Len(todo), todo[j] \in {"table", "white"}
          PROVE  \E k \in 1 .. Len(t) : t[k] \in {"table", "white"}
      <4> HIDE DEF s, t
      <4>1. j # 1 BY <1>4, <2>2, <3>2
      <4>2. j - 1 \in 1 .. Len(todo) - 1 /\ (j - 1) + 1 = j BY <1>4, <4>1
      <4>3. t[j - 1] = todo[j] BY <1>4, <4>2
      <4> QED BY <1>4, <3>2, <4>2, <4>3
    <3> QED BY <1>11, <3>1, <3>2 DEF LutCarried
  <2> QED BY <2>1, <2>2
<1> HIDE DEF p, s, t
<1> QED BY <1>1, <1>4, <1>5, <1>6, <1>7, <1>8, <1>10, <1>11 DEF LutCarried, Unwritten, HasTable

LEMMA LutArrives ==
  ASSUME Accepted, xform.class # "mpe", LutCarried, LutDone
  PROVE  LutArrived'
<1> DEFINE p == cells["temp"]
           q == Pixel(p.by \o CheckDstAbs(xform), Smaller(p.n, xform.nOut))
           none == <<>>
<1>1. /\ xform' = xform /\ uses' = uses /\ inPlace' = inPlace /\ todo = none
      /\ cells' = [cells EXCEPT ![Destination] = q]
  BY DEF LutDone
<1>2. cells'[Destination] = q
  <2>1. Destination \in Places /\ DOMAIN cells = Places BY DEF Accepted, Destination, Places
  <2> HIDE DEF q
  <2> QED BY <1>1, <2>1
<1>3. q.by = p.by \o CheckDstAbs(xform) /\ q.n = Smaller(p.n, xform.nOut) BY DEF Pixel
<1>4. List(p.by) /\ p.n \in Nat /\ p.by \o todo = CheckSrcAbs(xform) \o Steps(xform)
  BY DEF LutCarried
<1>5. p.by = CheckSrcAbs(xform) \o Steps(xform)
  <2> DEFINE r == p.by
  <2>1. r \o none = r
    <3> HIDE DEF r
    <3> QED BY <1>4, JoinedEmpty DEF r
  <2> QED BY <1>1, <1>4, <2>1
<1>6. ~Unwritten(xform) => q.n >= xform.nOut
  <2>1. Len(none) = 0 BY EmptyList
  <2>2. xform.nOut \in Nat BY TransformsAssumption DEF Accepted
  <2>3. ~Unwritten(xform) => p.n >= xform.nOut BY <1>1, <2>1 DEF LutCarried
  <2> QED BY <1>3, <1>4, <2>2, <2>3 DEF Smaller
<1>7. /\ Steps(xform)' = Steps(xform) /\ CheckSrcAbs(xform)' = CheckSrcAbs(xform)
      /\ CheckDstAbs(xform)' = CheckDstAbs(xform) /\ Destination' = Destination
  BY <1>1 DEF Steps, LutSteps, CheckSrcAbs, CheckDstAbs, HasTable, Destination
<1> HIDE DEF p, q
<1> QED BY <1>1, <1>2, <1>3, <1>5, <1>6, <1>7 DEF LutArrived, Unwritten, HasTable

(* Without the PCS adjustments at its ends, what was done are the steps.     *)
LEMMA UnadjustedSteps ==
  ASSUME NEW c, List(c), NEW s, List(s), NEW d, List(d),
         \A k \in 1 .. Len(c) : c[k] = "adjust",
         \A k \in 1 .. Len(d) : d[k] = "adjust",
         \A k \in 1 .. Len(s) : s[k] # "adjust"
  PROVE  Unadjusted((c \o s) \o d) = s
<1> DEFINE cs == c \o s
           by == cs \o d
           V == {by[i] : i \in DOMAIN by} \ {"adjust"}
           none == <<>>
<1>1. List(cs) /\ Len(cs) = Len(c) + Len(s) /\ \A k \in 1 .. Len(s) : cs[Len(c) + k] = s[k]
  BY Joined
<1>2. Len(c) \in Nat /\ Len(s) \in Nat /\ Len(d) \in Nat BY DEF List
<1> HIDE DEF cs
<1>3. /\ List(by) /\ Len(by) = Len(cs) + Len(d) /\ \A k \in 1 .. Len(cs) : by[k] = cs[k]
  <2>1. List(cs) /\ List(d) BY <1>1
  <2> HIDE DEF V, none
  <2> QED BY <2>1, Joined
<1>4. DOMAIN by = 1 .. Len(by)
  <2> HIDE DEF by
  <2> QED BY <1>3, ListIn
<1>5. \A k \in 1 .. Len(s) : s[k] \in V
  <2> TAKE k \in 1 .. Len(s)
  <2>1. Len(c) + k \in 1 .. Len(cs) /\ Len(c) + k \in 1 .. Len(by) BY <1>1, <1>2, <1>3
  <2>2. by[Len(c) + k] = s[k] BY <1>1, <1>3, <2>1
  <2> HIDE DEF by
  <2> QED BY <1>4, <2>1, <2>2
<1>6. "adjust" \notin V OBVIOUS
<1> HIDE DEF V, by
<1>7. Kept(s, V) = s BY <1>5, KeptWhole
<1>8. ASSUME NEW a, List(a), \A k \in 1 .. Len(a) : a[k] = "adjust" PROVE Kept(a, V) = none
  <2> DEFINE r == Kept(a, V)
  <2>1. List(r) /\ \A k \in 1 .. Len(r) : r[k] \in V /\ \E i \in 1 .. Len(a) : r[k] = a[i]
    BY <1>8, KeptIsList, KeptAmong
  <2>2. Len(r) \in Nat BY <2>1 DEF List
  <2> HIDE DEF r
  <2>3. ASSUME Len(r) # 0 PROVE FALSE
    <3>1. 1 \in 1 .. Len(r) BY <2>2, <2>3
    <3> QED BY <1>6, <1>8, <2>1, <3>1
  <2>4. List(none) /\ Len(none) = 0 BY EmptyList
  <2> HIDE DEF none
  <2>5. r = none BY <2>1, <2>3, <2>4, SameLists
  <2> QED BY <2>5 DEF r
<1>9. Kept(c, V) = none /\ Kept(d, V) = none BY <1>8
<1> HIDE DEF none
<1>10. Kept(cs, V) = Kept(c, V) \o Kept(s, V) BY KeptOfJoined DEF cs
<1>11. Kept(by, V) = Kept(cs, V) \o Kept(d, V) BY <1>1, KeptOfJoined DEF by
<1>12. none \o s = s /\ s \o none = s BY JoinedEmpty DEF none
<1>13. Kept(by, V) = s BY <1>7, <1>9, <1>10, <1>11, <1>12
<1> QED BY <1>13 DEF Unadjusted, V, by, cs

LEMMA ArrivedInOrder ==
  ASSUME Accepted, LutSound PROVE StagesInOrder
<1> SUFFICES ASSUME phase = "done", xform.class # "mpe", ~Dropped(xform), ~Unwritten(xform)
             PROVE  LET p == cells[Destination] IN
               /\ WithTaken(Unadjusted(p.by))
                    = Kept(Order(xform), {q \in Stages : InForce(xform, q)})
               /\ xform.adjust => p.by[IF xform.input THEN Len(p.by) ELSE 1] = "adjust"
               /\ p.n >= xform.nOut
  BY DEF StagesInOrder
<1> DEFINE p == cells[Destination]
           c == CheckSrcAbs(xform)
           s == Steps(xform)
           d == CheckDstAbs(xform)
           one == <<"adjust">>
           none == <<>>
<1>1. xform \in Transforms /\ Begins(xform) BY DEF Accepted
<1>2. taken \subseteq {DeviceCurves(xform)} /\ uses = Used(xform) \ taken BY DEF LutSound
<1>3. p.by = (c \o s) \o d /\ p.n >= xform.nOut BY DEF LutSound, LutArrived
<1>4. WithTaken(s) = Kept(Order(xform), {q \in Stages : InForce(xform, q)})
  BY <1>1, <1>2, StagesMeet DEF AllInForce
<1>5. List(s) /\ \A k \in 1 .. Len(s) : s[k] \in Stages BY <1>1, StepsAre
<1>6. \A k \in 1 .. Len(s) : s[k] # "adjust" BY <1>5 DEF Stages
<1>7. List(one) /\ Len(one) = 1 /\ one[1] = "adjust" /\ List(none) /\ Len(none) = 0
  BY OneList, EmptyList
<1>8. c = (IF xform.adjust /\ ~xform.input THEN one ELSE none)
      /\ d = (IF xform.adjust /\ xform.input THEN one ELSE none)
  BY DEF CheckSrcAbs, CheckDstAbs
<1>9. xform.input \in BOOLEAN BY <1>1, TransformsAssumption
<1> HIDE DEF c, s, d, one, none
<1>10. /\ List(c) /\ \A k \in 1 .. Len(c) : c[k] = "adjust"
       /\ List(d) /\ \A k \in 1 .. Len(d) : d[k] = "adjust"
  <2>1. \A k \in 1 .. Len(one) : one[k] = "adjust" BY <1>7
  <2>2. \A k \in 1 .. Len(none) : none[k] = "adjust" BY <1>7
  <2>3. (c = one \/ c = none) /\ (d = one \/ d = none) BY <1>8
  <2> QED BY <1>7, <2>1, <2>2, <2>3
<1>11. Unadjusted((c \o s) \o d) = s BY <1>5, <1>6, <1>10, UnadjustedSteps
<1>12. ASSUME xform.adjust
       PROVE  ((c \o s) \o d)[IF xform.input THEN Len((c \o s) \o d) ELSE 1] = "adjust"
  <2> DEFINE cs == c \o s
             by == cs \o d
  <2>1. List(cs) /\ Len(cs) = Len(c) + Len(s) /\ \A k \in 1 .. Len(c) : cs[k] = c[k]
    BY <1>5, <1>10, Joined
  <2> HIDE DEF cs
  <2>2. /\ Len(by) = Len(cs) + Len(d) /\ (\A k \in 1 .. Len(cs) : by[k] = cs[k])
        /\ \A k \in 1 .. Len(d) : by[Len(cs) + k] = d[k]
    <3>1. List(cs) /\ List(d) BY <1>10, <2>1
    <3> QED BY <3>1, Joined
  <2> HIDE DEF by
  <2>3. Len(cs) \in Nat /\ Len(s) \in Nat BY <1>5, <2>1 DEF List
  <2>4. CASE xform.input
    <3>1. d = one BY <1>8, <1>12, <2>4
    <3>2. Len(d) = 1 /\ d[1] = "adjust" BY <1>7, <3>1
    <3>3. by[Len(cs) + 1] = "adjust" /\ Len(by) = Len(cs) + 1 BY <2>2, <2>3, <3>2
    <3> QED BY <2>4, <3>3 DEF by, cs
  <2>5. CASE ~xform.input
    <3>1. c = one BY <1>8, <1>12, <2>5
    <3>2. Len(c) = 1 /\ c[1] = "adjust" BY <1>7, <3>1
    <3>3. 1 \in 1 .. Len(c) /\ 1 \in 1 .. Len(cs) BY <2>1, <2>3, <3>2
    <3>4. by[1] = "adjust" BY <2>1, <2>2, <3>2, <3>3
    <3> QED BY <2>5, <3>4 DEF by, cs
  <2> QED BY <1>9, <2>4, <2>5
<1>13. p.by[IF xform.input THEN Len(p.by) ELSE 1] = "adjust" \/ ~xform.adjust BY <1>3, <1>12
<1>14. WithTaken(Unadjusted(p.by)) = WithTaken(s) BY <1>3, <1>11
<1> HIDE DEF p
<1> QED BY <1>3, <1>4, <1>13, <1>14 DEF p

(* For every transform made from curves, a matrix and a table, whatever the  *)
(* caller has taken out: a pixel goes through the stages in force once each, *)
(* in the order of the tag's direction, the PCS is adjusted on its own side, *)
(* and every output is written (Apply of CIccXformMonochrome, MatrixTRC,     *)
(* 3DLut, 4DLut and NDLut).                                                  *)
THEOREM StagesKeepOrder == Spec => []StagesInOrder
<1> DEFINE IInv == Accepted /\ LutSound
<1>1. Init => IInv
  <2>1. Init => LutSound BY DEF Init, LutSound
  <2>2. Init => Accepted
    <3> SUFFICES ASSUME Init PROVE Accepted OBVIOUS
    <3>1. DOMAIN cells = Places BY DEF Init
    <3> QED BY <3>1 DEF Init, Accepted
  <2> QED BY <2>1, <2>2
<1>2. IInv /\ [Next]_vars => IInv'
  <2> SUFFICES ASSUME IInv, [Next]_vars PROVE LutSound'
    BY AcceptedStays
  <2>1. CASE Begin BY <2>1 DEF Begin, LutSound
  <2>2. CASE ExtractCurves
    <3>1. /\ phase = "begun" /\ phase' = phase /\ xform' = xform /\ taken = {}
          /\ taken' = {DeviceCurves(xform)} /\ uses' = uses \ taken'
      BY <2>2 DEF ExtractCurves
    <3> QED BY <3>1 DEF LutSound
  <2>3. CASE NewApply BY <2>3 DEF NewApply, LutSound
  <2>4. CASE NewApplyFails BY <2>4 DEF NewApplyFails, LutSound
  <2>5. ASSUME NEW place \in BOOLEAN, StartPixel(place) PROVE LutSound'
    <3>1. /\ phase = "ready" /\ phase' = "applying"
          /\ UNCHANGED <<xform, uses, taken>>
      BY <2>5 DEF StartPixel
    <3>2. xform.class # "mpe" => LutCarried' BY <2>5, LutStarts
    <3> QED BY <3>1, <3>2 DEF LutSound
  <2>6. CASE LutStep
    <3>1. /\ phase = "applying" /\ phase' = phase /\ xform.class # "mpe"
          /\ UNCHANGED <<xform, uses, taken>>
      BY <2>6 DEF LutStep
    <3>2. LutCarried' BY <2>6, <3>1, LutGoesOn DEF LutSound
    <3> QED BY <3>1, <3>2 DEF LutSound
  <2>7. CASE LutDone
    <3>1. /\ phase = "applying" /\ phase' = "done" /\ xform.class # "mpe"
          /\ UNCHANGED <<xform, uses, taken>>
      BY <2>7 DEF LutDone
    <3>2. LutArrived' BY <2>7, <3>1, LutArrives DEF LutSound
    <3> QED BY <3>1, <3>2 DEF LutSound
  <2>8. CASE OnlyElement \/ FirstElement \/ SkipAcs \/ NextElement \/ LastElement \/ ChainDone
    BY <2>8 DEF OnlyElement, FirstElement, SkipAcs, NextElement, LastElement, ChainDone, LutSound
  <2>9. CASE EndPixel BY <2>9 DEF EndPixel, LutSound
  <2>10. CASE UNCHANGED vars
    BY <2>10 DEF vars, LutSound, LutCarried, LutArrived, Steps, LutSteps, Destination
  <2> QED BY <2>1, <2>2, <2>3, <2>4, <2>5, <2>6, <2>7, <2>8, <2>9, <2>10 DEF Next
<1>3. IInv => StagesInOrder BY ArrivedInOrder
<1> QED BY <1>1, <1>2, <1>3, PTL DEF Spec
-----------------------------------------------------------------------------
(* A function built from the front exists: each value is made of the one     *)
(* before it and the position.                                               *)
LEMMA BuiltUp ==
  ASSUME NEW n \in Nat, NEW a \in Int, NEW F \in [Int \X (1 .. n) -> Int]
  PROVE  \E p \in [0 .. n -> Int] : p[0] = a /\ \A k \in 1 .. n : p[k] = F[<<p[k - 1], k>>]
<1> DEFINE Good(p, m) == p[0] = a /\ \A k \in 1 .. m : p[k] = F[<<p[k - 1], k>>]
           S == {m \in 0 .. n : \E p \in [0 .. n -> Int] : Good(p, m)}
<1>1. 0 \in S
  <2> DEFINE p == [k \in 0 .. n |-> a]
  <2>1. p \in [0 .. n -> Int] /\ p[0] = a OBVIOUS
  <2>2. Good(p, 0) BY <2>1
  <2>3. 0 \in 0 .. n OBVIOUS
  <2> QED BY <2>1, <2>2, <2>3
<1>2. ASSUME NEW m \in 0 .. n - 1, m \in S PROVE m + 1 \in S
  <2>1. PICK p \in [0 .. n -> Int] : Good(p, m) BY <1>2
  <2> DEFINE q == [p EXCEPT ![m + 1] = F[<<p[m], m + 1>>]]
  <2>2. m \in 0 .. n /\ m + 1 \in 1 .. n /\ m + 1 \in 0 .. n OBVIOUS
  <2>3. F[<<p[m], m + 1>>] \in Int BY <2>2
  <2>4. q \in [0 .. n -> Int] BY <2>2, <2>3
  <2>5. \A k \in 0 .. m : q[k] = p[k]
    <3> TAKE k \in 0 .. m
    <3>1. k \in 0 .. n /\ k # m + 1 OBVIOUS
    <3> QED BY <3>1
  <2>6. q[m + 1] = F[<<p[m], m + 1>>] BY <2>2
  <2> HIDE DEF q
  <2>7. \A k \in 1 .. m + 1 : q[k] = F[<<q[k - 1], k>>]
    <3> TAKE k \in 1 .. m + 1
    <3>1. CASE k = m + 1
      <4>1. k - 1 = m /\ m \in 0 .. m BY <3>1
      <4> QED BY <2>5, <2>6, <3>1, <4>1
    <3>2. CASE k # m + 1
      <4>1. k \in 1 .. m /\ k \in 0 .. m /\ k - 1 \in 0 .. m BY <3>2
      <4> QED BY <2>1, <2>5, <4>1
    <3> QED BY <3>1, <3>2
  <2>8. q[0] = a
    <3>1. 0 \in 0 .. m OBVIOUS
    <3> QED BY <2>1, <2>5, <3>1
  <2> QED BY <2>2, <2>4, <2>7, <2>8
<1> HIDE DEF S
<1>3. n \in S
  <2>1. n \in 0 .. n OBVIOUS
  <2> QED BY <1>1, <1>2, <2>1, UpTo
<1> QED BY <1>3 DEF S

(* Products and sums of the first k numbers of a sequence. *)
Prods(s) == CHOOSE p : p = [k \in 0 .. Len(s) |-> IF k = 0 THEN 1 ELSE p[k - 1] * s[k]]
Sums(s) == CHOOSE p : p = [k \in 0 .. Len(s) |-> IF k = 0 THEN 0 ELSE p[k - 1] + s[k]]

LEMMA ProdsAre ==
  ASSUME NEW n \in Nat, NEW s \in [1 .. n -> Int]
  PROVE  /\ Len(s) = n
         /\ Prods(s) \in [0 .. n -> Int] /\ Prods(s)[0] = 1
         /\ \A k \in 1 .. n : Prods(s)[k] = Prods(s)[k - 1] * s[k]
         /\ Product(s) = Prods(s)[n]
<1>1. Len(s) = n
  <2>1. s = [k \in 1 .. n |-> s[k]] OBVIOUS
  <2> QED BY <2>1, ListOf
<1> DEFINE F == [x \in Int \X (1 .. n) |-> x[1] * s[x[2]]]
<1>2. F \in [Int \X (1 .. n) -> Int] OBVIOUS
<1>3. \A x \in Int : \A k \in 1 .. n : F[<<x, k>>] = x * s[k] OBVIOUS
<1> HIDE DEF F
<1>4. PICK p \in [0 .. n -> Int] : p[0] = 1 /\ \A k \in 1 .. n : p[k] = F[<<p[k - 1], k>>]
  <2>1. 1 \in Int OBVIOUS
  <2> QED BY <1>2, <2>1, BuiltUp, Zenon
<1>5. \A k \in 1 .. n : k - 1 \in 0 .. n OBVIOUS
<1>6. \A k \in 1 .. n : p[k] = p[k - 1] * s[k] BY <1>3, <1>4, <1>5
<1>7. \A k \in 0 .. n : k = 0 \/ k \in 1 .. n OBVIOUS
<1>8. p = [k \in 0 .. n |-> IF k = 0 THEN 1 ELSE p[k - 1] * s[k]]
  <2>1. \A k \in 0 .. n : p[k] = IF k = 0 THEN 1 ELSE p[k - 1] * s[k] BY <1>4, <1>6, <1>7
  <2> QED BY <2>1
<1> DEFINE P(q) == q = [k \in 0 .. Len(s) |-> IF k = 0 THEN 1 ELSE q[k - 1] * s[k]]
<1>9. P(p) BY <1>1, <1>8
<1>10. P(Prods(s)) BY <1>9, Zenon DEF Prods
<1>11. Prods(s) = [k \in 0 .. n |-> IF k = 0 THEN 1 ELSE Prods(s)[k - 1] * s[k]] BY <1>1, <1>10
<1>12. Prods(s)[0] = 1 /\ \A k \in 1 .. n : Prods(s)[k] = Prods(s)[k - 1] * s[k]
  <2>1. \A k \in 0 .. n : Prods(s)[k] = IF k = 0 THEN 1 ELSE Prods(s)[k - 1] * s[k] BY <1>11, Zenon
  <2>2. 0 \in 0 .. n /\ \A k \in 1 .. n : k \in 0 .. n /\ k # 0 OBVIOUS
  <2> QED BY <2>1, <2>2, Zenon
<1>13. \A k \in 0 .. n : Prods(s)[k] \in Int
  <2> DEFINE q == Prods(s)
             S == {k \in 0 .. n : q[k] \in Int}
  <2>1. 0 \in S BY <1>12
  <2>2. ASSUME NEW k \in 0 .. n - 1, k \in S PROVE k + 1 \in S
    <3>1. k + 1 \in 1 .. n /\ k + 1 \in 0 .. n /\ k + 1 - 1 = k OBVIOUS
    <3>2. q[k + 1] = q[k] * s[k + 1] BY <1>12, <3>1
    <3> QED BY <2>2, <3>1, <3>2
  <2> HIDE DEF S
  <2>3. \A k \in 0 .. n : k \in S BY <2>1, <2>2, UpTo
  <2> QED BY <2>3 DEF S
<1>14. Prods(s) \in [0 .. n -> Int] BY <1>11, <1>13
<1>15. Product(s) = Prods(s)[Len(s)] BY Zenon DEF Product, Prods
<1> QED BY <1>1, <1>12, <1>14, <1>15

LEMMA SumsAre ==
  ASSUME NEW n \in Nat, NEW s \in [1 .. n -> Int]
  PROVE  /\ Len(s) = n
         /\ Sums(s) \in [0 .. n -> Int] /\ Sums(s)[0] = 0
         /\ \A k \in 1 .. n : Sums(s)[k] = Sums(s)[k - 1] + s[k]
         /\ Total(s) = Sums(s)[n]
<1>1. Len(s) = n
  <2>1. s = [k \in 1 .. n |-> s[k]] OBVIOUS
  <2> QED BY <2>1, ListOf
<1> DEFINE F == [x \in Int \X (1 .. n) |-> x[1] + s[x[2]]]
<1>2. F \in [Int \X (1 .. n) -> Int] OBVIOUS
<1>3. \A x \in Int : \A k \in 1 .. n : F[<<x, k>>] = x + s[k] OBVIOUS
<1> HIDE DEF F
<1>4. PICK p \in [0 .. n -> Int] : p[0] = 0 /\ \A k \in 1 .. n : p[k] = F[<<p[k - 1], k>>]
  <2>1. 0 \in Int OBVIOUS
  <2> QED BY <1>2, <2>1, BuiltUp, Zenon
<1>5. \A k \in 1 .. n : k - 1 \in 0 .. n OBVIOUS
<1>6. \A k \in 1 .. n : p[k] = p[k - 1] + s[k] BY <1>3, <1>4, <1>5
<1>7. \A k \in 0 .. n : k = 0 \/ k \in 1 .. n OBVIOUS
<1>8. p = [k \in 0 .. n |-> IF k = 0 THEN 0 ELSE p[k - 1] + s[k]]
  <2>1. \A k \in 0 .. n : p[k] = IF k = 0 THEN 0 ELSE p[k - 1] + s[k] BY <1>4, <1>6, <1>7
  <2> QED BY <2>1
<1> DEFINE P(q) == q = [k \in 0 .. Len(s) |-> IF k = 0 THEN 0 ELSE q[k - 1] + s[k]]
<1>9. P(p) BY <1>1, <1>8
<1>10. P(Sums(s)) BY <1>9, Zenon DEF Sums
<1>11. Sums(s) = [k \in 0 .. n |-> IF k = 0 THEN 0 ELSE Sums(s)[k - 1] + s[k]] BY <1>1, <1>10
<1>12. Sums(s)[0] = 0 /\ \A k \in 1 .. n : Sums(s)[k] = Sums(s)[k - 1] + s[k]
  <2>1. \A k \in 0 .. n : Sums(s)[k] = IF k = 0 THEN 0 ELSE Sums(s)[k - 1] + s[k] BY <1>11, Zenon
  <2>2. 0 \in 0 .. n /\ \A k \in 1 .. n : k \in 0 .. n /\ k # 0 OBVIOUS
  <2> QED BY <2>1, <2>2, Zenon
<1>13. \A k \in 0 .. n : Sums(s)[k] \in Int
  <2> DEFINE q == Sums(s)
             S == {k \in 0 .. n : q[k] \in Int}
  <2>1. 0 \in S BY <1>12
  <2>2. ASSUME NEW k \in 0 .. n - 1, k \in S PROVE k + 1 \in S
    <3>1. k + 1 \in 1 .. n /\ k + 1 \in 0 .. n /\ k + 1 - 1 = k OBVIOUS
    <3>2. q[k + 1] = q[k] + s[k + 1] BY <1>12, <3>1
    <3> QED BY <2>2, <3>1, <3>2
  <2> HIDE DEF S
  <2>3. \A k \in 0 .. n : k \in S BY <2>1, <2>2, UpTo
  <2> QED BY <2>3 DEF S
<1>14. Sums(s) \in [0 .. n -> Int] BY <1>11, <1>13
<1>15. Total(s) = Sums(s)[Len(s)] BY Zenon DEF Total, Sums
<1> QED BY <1>1, <1>12, <1>14, <1>15
-----------------------------------------------------------------------------
(* Quotient and remainder are the only two numbers that make up a number. *)
LEMMA Divides ==
  ASSUME NEW a \in Nat, NEW b \in Nat, b > 0, NEW q \in Int, NEW r \in 0 .. b - 1, a = b * q + r
  PROVE  a \div b = q /\ a % b = r
<1> DEFINE d == a \div b
           m == a % b
<1>1. d \in Int /\ m \in 0 .. b - 1 /\ a = b * d + m BY Quotient
<1> HIDE DEF d, m
<1>2. b * (d - q) = r - m
  <2>1. b * (d - q) = b * d - b * q BY <1>1
  <2>2. b * d \in Int /\ b * q \in Int BY <1>1
  <2> QED BY <1>1, <2>1, <2>2
<1>3. ~(d - q >= 1)
  <2> SUFFICES ASSUME d - q >= 1 PROVE FALSE OBVIOUS
  <2> DEFINE e == d - q - 1
  <2>1. e \in Nat BY <1>1
  <2>2. b * e \in Nat BY <2>1, Products
  <2>3. b * (d - q) = b * e + b BY <1>1
  <2> HIDE DEF e
  <2> QED BY <1>1, <1>2, <2>2, <2>3
<1>4. ~(q - d >= 1)
  <2> SUFFICES ASSUME q - d >= 1 PROVE FALSE OBVIOUS
  <2> DEFINE e == q - d - 1
  <2>1. e \in Nat BY <1>1
  <2>2. b * e \in Nat BY <2>1, Products
  <2>3. b * (d - q) = -(b * e + b) BY <1>1
  <2> HIDE DEF e
  <2> QED BY <1>1, <1>2, <2>2, <2>3
<1>5. d = q BY <1>1, <1>3, <1>4
<1>6. m = r BY <1>1, <1>5
<1> QED BY <1>5, <1>6 DEF d, m

LEMMA NaturalQuotient ==
  ASSUME NEW a \in Nat, NEW b \in Nat, b > 0 PROVE a \div b \in Nat
<1> DEFINE d == a \div b
<1>1. d \in Int /\ a % b \in 0 .. b - 1 /\ a = b * d + (a % b) BY Quotient
<1> HIDE DEF d
<1>2. ~(d <= -1)
  <2> SUFFICES ASSUME d <= -1 PROVE FALSE OBVIOUS
  <2> DEFINE e == -1 - d
  <2>1. e \in Nat BY <1>1
  <2>2. b * e \in Nat BY <2>1, Products
  <2>3. b * d = -(b * e + b) BY <1>1
  <2> HIDE DEF e
  <2> QED BY <1>1, <2>2, <2>3
<1> QED BY <1>1, <1>2 DEF d

(* To divide by two numbers is to divide by their product. *)
LEMMA DividesTwice ==
  ASSUME NEW a \in Nat, NEW b \in Nat, b > 0, NEW c \in Nat, c > 0
  PROVE  /\ b * c \in Nat /\ b * c > 0
         /\ a \div (b * c) = (a \div b) \div c
<1> DEFINE d == a \div b
           m == a % b
           e == d \div c
           r == d % c
<1>1. d \in Nat /\ m \in 0 .. b - 1 /\ a = b * d + m BY Quotient, NaturalQuotient
<1>2. e \in Nat /\ r \in 0 .. c - 1 /\ d = c * e + r
  <2> HIDE DEF d
  <2> QED BY <1>1, Quotient, NaturalQuotient
<1> HIDE DEF d, m, e, r
<1>3. b * c \in Nat /\ b * c > 0
  <2>1. c - 1 \in Nat /\ b * (c - 1) \in Nat BY Products
  <2>2. b * c = b * (c - 1) + b OBVIOUS
  <2> QED BY <2>1, <2>2
<1>4. a = (b * c) * e + (b * r + m)
  <2>1. b * (c * e + r) = b * (c * e) + b * r BY <1>1, <1>2
  <2>2. b * (c * e) = (b * c) * e BY <1>2
  <2> QED BY <1>1, <1>2, <2>1, <2>2
<1>5. b * r + m \in 0 .. b * c - 1
  <2>1. b * r \in Nat BY <1>2, Products
  <2>2. r * b <= (c - 1) * b BY <1>2, MonotonicProduct
  <2>3. r * b = b * r /\ (c - 1) * b = b * c - b BY <1>2
  <2> QED BY <1>1, <2>1, <2>2, <2>3, <1>3
<1>6. a \div (b * c) = e
  <2> DEFINE x == b * c
             y == b * r + m
  <2>1. x \in Nat /\ x > 0 /\ y \in 0 .. x - 1 /\ a = x * e + y /\ e \in Int BY <1>2, <1>3, <1>4, <1>5
  <2> HIDE DEF x, y
  <2>2. a \div x = e BY <2>1, Divides
  <2> QED BY <2>2 DEF x
<1> QED BY <1>3, <1>6 DEF d, e

(* Products have a factor that is zero when they are, and are positive when  *)
(* all factors are.                                                          *)
LEMMA NoZeroFactor ==
  ASSUME NEW n \in Nat, NEW s \in [1 .. n -> Int], Product(s) # 0
  PROVE  \A k \in 1 .. n : s[k] # 0
<1> SUFFICES ASSUME NEW j \in 1 .. n, s[j] = 0 PROVE FALSE OBVIOUS
<1> DEFINE p == Prods(s)
           S == {k \in 0 .. n : k >= j => p[k] = 0}
<1>1. /\ p \in [0 .. n -> Int] /\ \A k \in 1 .. n : p[k] = p[k - 1] * s[k]
      /\ Product(s) = p[n] BY ProdsAre
<1> HIDE DEF p
<1>2. 0 \in S OBVIOUS
<1>3. ASSUME NEW k \in 0 .. n - 1, k \in S PROVE k + 1 \in S
  <2>1. k + 1 \in 1 .. n /\ k + 1 \in 0 .. n /\ k + 1 - 1 = k OBVIOUS
  <2>2. p[k + 1] = p[k] * s[k + 1] /\ p[k] \in Int /\ s[k + 1] \in Int BY <1>1, <2>1
  <2>3. CASE k + 1 = j
    <3>1. \A x \in Int : x * 0 = 0 OBVIOUS
    <3> QED BY <2>1, <2>2, <2>3, <3>1
  <2>4. CASE k + 1 # j /\ k + 1 >= j
    <3>1. \A x \in Int : 0 * x = 0 OBVIOUS
    <3>2. p[k] = 0 BY <1>3, <2>4
    <3> QED BY <2>1, <2>2, <3>1, <3>2
  <2>5. CASE k + 1 < j BY <2>1, <2>5
  <2> QED BY <2>3, <2>4, <2>5
<1> HIDE DEF S
<1>4. \A k \in 0 .. n : k \in S BY <1>2, <1>3, UpTo
<1>5. n \in 0 .. n /\ n >= j OBVIOUS
<1>6. p[n] = 0 BY <1>4, <1>5 DEF S
<1> QED BY <1>1, <1>6

LEMMA PositiveProduct ==
  ASSUME NEW n \in Nat, NEW s \in [1 .. n -> Nat \ {0}]
  PROVE  \A k \in 0 .. n : Prods(s)[k] \in Nat \ {0}
<1> DEFINE p == Prods(s)
           S == {k \in 0 .. n : p[k] \in Nat \ {0}}
<1>1. p[0] = 1 /\ \A k \in 1 .. n : p[k] = p[k - 1] * s[k]
  <2>1. s \in [1 .. n -> Int] OBVIOUS
  <2> QED BY <2>1, ProdsAre
<1> HIDE DEF p
<1>2. 0 \in S BY <1>1
<1>3. ASSUME NEW k \in 0 .. n - 1, k \in S PROVE k + 1 \in S
  <2>1. k + 1 \in 1 .. n /\ k + 1 \in 0 .. n /\ k + 1 - 1 = k OBVIOUS
  <2>2. p[k + 1] = p[k] * s[k + 1] BY <1>1, <2>1
  <2>3. p[k] \in Nat \ {0} /\ s[k + 1] \in Nat \ {0} BY <1>3, <2>1
  <2>4. \A x, y \in Nat \ {0} : x * y \in Nat \ {0}
    <3> TAKE x, y \in Nat \ {0}
    <3> QED BY DividesTwice
  <2> QED BY <2>1, <2>2, <2>3, <2>4
<1> HIDE DEF S
<1>4. \A k \in 0 .. n : k \in S BY <1>2, <1>3, UpTo
<1> QED BY <1>4 DEF S, p

(* Sums of sums, and of multiples. *)
LEMMA SumOfBoth ==
  ASSUME NEW n \in Nat, NEW s \in [1 .. n -> Int], NEW t \in [1 .. n -> Int],
         NEW u \in [1 .. n -> Int], \A k \in 1 .. n : u[k] = s[k] + t[k]
  PROVE  Total(u) = Total(s) + Total(t)
<1> DEFINE a == Sums(s)
           b == Sums(t)
           c == Sums(u)
           S == {k \in 0 .. n : c[k] = a[k] + b[k]}
<1>1. /\ a \in [0 .. n -> Int] /\ a[0] = 0 /\ Total(s) = a[n]
      /\ \A k \in 1 .. n : a[k] = a[k - 1] + s[k] BY SumsAre
<1>11. /\ b \in [0 .. n -> Int] /\ b[0] = 0 /\ Total(t) = b[n]
       /\ \A k \in 1 .. n : b[k] = b[k - 1] + t[k] BY SumsAre
<1>12. /\ c \in [0 .. n -> Int] /\ c[0] = 0 /\ Total(u) = c[n]
       /\ \A k \in 1 .. n : c[k] = c[k - 1] + u[k] BY SumsAre
<1> HIDE DEF a, b, c
<1>2. 0 \in S BY <1>1, <1>11, <1>12
<1>3. ASSUME NEW k \in 0 .. n - 1, k \in S PROVE k + 1 \in S
  <2>1. k + 1 \in 1 .. n /\ k + 1 \in 0 .. n /\ k + 1 - 1 = k /\ k \in 0 .. n OBVIOUS
  <2>2. a[k + 1] = a[k] + s[k + 1] BY <1>1, <2>1
  <2>21. b[k + 1] = b[k] + t[k + 1] BY <1>11, <2>1
  <2>22. c[k + 1] = c[k] + u[k + 1] BY <1>12, <2>1
  <2>23. u[k + 1] = s[k + 1] + t[k + 1] BY <2>1
  <2>3. /\ a[k] \in Int /\ b[k] \in Int /\ c[k] \in Int
        /\ s[k + 1] \in Int /\ t[k + 1] \in Int /\ u[k + 1] \in Int BY <1>1, <1>11, <1>12, <2>1
  <2>4. c[k] = a[k] + b[k] BY <1>3
  <2> QED BY <2>1, <2>2, <2>21, <2>22, <2>23, <2>3, <2>4
<1> HIDE DEF S
<1>4. \A k \in 0 .. n : k \in S BY <1>2, <1>3, UpTo
<1>5. n \in 0 .. n OBVIOUS
<1> QED BY <1>1, <1>11, <1>12, <1>4, <1>5 DEF S

LEMMA SumOfMultiples ==
  ASSUME NEW n \in Nat, NEW m \in Int, NEW s \in [1 .. n -> Int],
         NEW u \in [1 .. n -> Int], \A k \in 1 .. n : u[k] = m * s[k]
  PROVE  Total(u) = m * Total(s)
<1> DEFINE a == Sums(s)
           c == Sums(u)
           S == {k \in 0 .. n : c[k] = m * a[k]}
<1>1. /\ a \in [0 .. n -> Int] /\ a[0] = 0 /\ Total(s) = a[n]
      /\ \A k \in 1 .. n : a[k] = a[k - 1] + s[k] BY SumsAre
<1>11. /\ c \in [0 .. n -> Int] /\ c[0] = 0 /\ Total(u) = c[n]
       /\ \A k \in 1 .. n : c[k] = c[k - 1] + u[k] BY SumsAre
<1> HIDE DEF a, c
<1>2. 0 \in S
  <2>1. m * 0 = 0 OBVIOUS
  <2> QED BY <1>1, <1>11, <2>1
<1>3. ASSUME NEW k \in 0 .. n - 1, k \in S PROVE k + 1 \in S
  <2>1. k + 1 \in 1 .. n /\ k + 1 \in 0 .. n /\ k + 1 - 1 = k /\ k \in 0 .. n OBVIOUS
  <2>2. /\ a[k + 1] = a[k] + s[k + 1]
        /\ c[k + 1] = c[k] + u[k + 1] /\ u[k + 1] = m * s[k + 1] BY <1>1, <1>11, <2>1
  <2>3. a[k] \in Int /\ s[k + 1] \in Int BY <1>1, <1>11, <2>1
  <2>4. c[k] = m * a[k] BY <1>3
  <2>5. \A x, y \in Int : m * (x + y) = m * x + m * y OBVIOUS
  <2> QED BY <2>1, <2>2, <2>3, <2>4, <2>5
<1> HIDE DEF S
<1>4. \A k \in 0 .. n : k \in S BY <1>2, <1>3, UpTo
<1>5. n \in 0 .. n OBVIOUS
<1> QED BY <1>1, <1>11, <1>4, <1>5 DEF S

(* A product is its first factor times the rest's. *)
LEMMA FirstFactor ==
  ASSUME NEW n \in Nat, NEW s \in [1 .. n + 1 -> Int], NEW t \in [1 .. n -> Int],
         \A k \in 1 .. n : t[k] = s[k + 1]
  PROVE  Product(s) = s[1] * Product(t)
<1> DEFINE p == Prods(s)
           q == Prods(t)
           S == {k \in 0 .. n : p[k + 1] = s[1] * q[k]}
<1>1. /\ p \in [0 .. n + 1 -> Int] /\ p[0] = 1 /\ Product(s) = p[n + 1]
      /\ \A k \in 1 .. n + 1 : p[k] = p[k - 1] * s[k]
  <2>1. n + 1 \in Nat OBVIOUS
  <2> QED BY <2>1, ProdsAre
<1>11. /\ q \in [0 .. n -> Int] /\ q[0] = 1 /\ Product(t) = q[n]
       /\ \A k \in 1 .. n : q[k] = q[k - 1] * t[k] BY ProdsAre
<1> HIDE DEF p, q
<1>2. 0 \in S
  <2>1. 1 \in 1 .. n + 1 OBVIOUS
  <2>2. p[1] = p[0] * s[1] /\ s[1] \in Int BY <1>1, <1>11, <2>1
  <2> QED BY <1>1, <1>11, <2>2
<1>3. ASSUME NEW k \in 0 .. n - 1, k \in S PROVE k + 1 \in S
  <2>1. /\ k + 1 \in 1 .. n /\ k + 1 \in 0 .. n /\ k + 1 - 1 = k /\ k \in 0 .. n
        /\ k + 1 + 1 \in 1 .. n + 1 /\ k + 1 + 1 - 1 = k + 1 /\ 1 \in 1 .. n + 1 OBVIOUS
  <2>2. /\ p[k + 1 + 1] = p[k + 1] * s[k + 1 + 1] /\ q[k + 1] = q[k] * t[k + 1]
        /\ t[k + 1] = s[k + 1 + 1]
    <3>1. p[k + 1 + 1] = p[k + 1] * s[k + 1 + 1] BY <1>1, <2>1
    <3>2. q[k + 1] = q[k] * t[k + 1] BY <1>11, <2>1
    <3>3. t[k + 1] = s[k + 1 + 1] BY <2>1
    <3> QED BY <3>1, <3>2, <3>3
  <2>3. q[k] \in Int /\ s[k + 1 + 1] \in Int /\ s[1] \in Int BY <1>11, <2>1
  <2>4. p[k + 1] = s[1] * q[k] BY <1>3
  <2>5. \A x, y, z \in Int : (x * y) * z = x * (y * z) OBVIOUS
  <2> QED BY <2>1, <2>2, <2>3, <2>4, <2>5
<1> HIDE DEF S
<1>4. \A k \in 0 .. n : k \in S BY <1>2, <1>3, UpTo
<1>5. n \in 0 .. n OBVIOUS
<1> QED BY <1>1, <1>11, <1>4, <1>5 DEF S
-----------------------------------------------------------------------------
(* The grid of a table, as Init of a CLUT accepts it. *)
GridOf(t, n) == t.grid \in [1 .. n -> Nat \ {0, 1}]

(* How many nodes apart neighbours along an input are. *)
Stride(t, k) == Product(SubSeq(t.grid, k + 1, Inputs(t)))

LEMMA InputsAre ==
  ASSUME NEW t, NEW n \in Nat, GridOf(t, n)
  PROVE  /\ Inputs(t) = n /\ t.grid \in Seq(Nat) /\ Len(t.grid) = n
         /\ \A i \in 1 .. n : t.grid[i] \in Nat \ {0, 1}
  BY DEF GridOf, Inputs

LEMMA RestAfter ==
  ASSUME NEW s \in Seq(Nat), NEW n \in Nat, Len(s) = n, NEW k \in 0 .. n
  PROVE  SubSeq(s, k + 1, n) = [i \in 1 .. n - k |-> s[i + k]]
<1>1. SubSeq(s, k + 1, n) = [i \in 1 .. n - (k + 1) + 1 |-> s[(k + 1) + i - 1]] OBVIOUS
<1> QED BY <1>1

LEMMA RestOfGrid ==
  ASSUME NEW t, NEW n \in Nat, GridOf(t, n), NEW k \in 0 .. n
  PROVE  SubSeq(t.grid, k + 1, n) \in [1 .. n - k -> Nat \ {0}]
<1>1. t.grid \in Seq(Nat) /\ Len(t.grid) = n BY InputsAre
<1>3. SubSeq(t.grid, k + 1, n) = [i \in 1 .. n - k |-> t.grid[i + k]] BY <1>1, RestAfter
<1>4. \A i \in 1 .. n - k : i + k \in 1 .. n OBVIOUS
<1>5. \A i \in 1 .. n : t.grid[i] \in Nat \ {0} BY InputsAre
<1> QED BY <1>3, <1>4, <1>5

LEMMA RestAt ==
  ASSUME NEW t, NEW n \in Nat, GridOf(t, n), NEW k \in 0 .. n, NEW i \in 1 .. n - k
  PROVE  SubSeq(t.grid, k + 1, n)[i] = t.grid[i + k]
<1>1. t.grid \in Seq(Nat) /\ Len(t.grid) = n BY InputsAre
<1>2. SubSeq(t.grid, k + 1, n) = [j \in 1 .. n - k |-> t.grid[j + k]] BY <1>1, RestAfter
<1> QED BY <1>2

(* The strides: the last input's is one entry, and each is the next one's    *)
(* times how many there are along that.                                      *)
LEMMA Strides ==
  ASSUME NEW t, NEW n \in Nat, GridOf(t, n)
  PROVE  /\ \A k \in 0 .. n : Stride(t, k) \in Nat \ {0}
         /\ Stride(t, n) = 1
         /\ Stride(t, 0) = NumPoints(t)
         /\ \A k \in 1 .. n : Stride(t, k - 1) = t.grid[k] * Stride(t, k)
<1>1. n \in Nat /\ Inputs(t) = n /\ Len(t.grid) = n /\ 0 \in 0 .. n /\ n \in 0 .. n
  BY InputsAre
<1>2. ASSUME NEW k \in 0 .. n PROVE Stride(t, k) \in Nat \ {0}
  <2> DEFINE s == SubSeq(t.grid, k + 1, n)
  <2>1. n - k \in Nat /\ n - k \in 0 .. n - k BY <1>1
  <2>2. s \in [1 .. n - k -> Nat \ {0}] BY RestOfGrid
  <2> HIDE DEF s
  <2>3. s \in [1 .. n - k -> Int] BY <2>2
  <2>4. Product(s) = Prods(s)[n - k] BY <2>1, <2>3, ProdsAre
  <2>5. Prods(s)[n - k] \in Nat \ {0} BY <2>1, <2>2, PositiveProduct
  <2> QED BY <1>1, <2>4, <2>5 DEF Stride, s
<1>3. Stride(t, n) = 1
  <2> DEFINE s == SubSeq(t.grid, n + 1, n)
  <2>1. n - n = 0 BY <1>1
  <2>2. s \in [1 .. 0 -> Nat \ {0}] BY <1>1, <2>1, RestOfGrid
  <2> HIDE DEF s
  <2>3. s \in [1 .. 0 -> Int] BY <2>2
  <2>4. Product(s) = Prods(s)[0] /\ Prods(s)[0] = 1 BY <2>3, ProdsAre
  <2> QED BY <1>1, <2>4 DEF Stride, s
<1>4. Stride(t, 0) = NumPoints(t)
  <2> DEFINE s == SubSeq(t.grid, 0 + 1, n)
  <2>1. n - 0 = n /\ \A i \in 1 .. n : i + 0 = i BY <1>1
  <2>2. s \in [1 .. n - 0 -> Nat \ {0}] BY <1>1, RestOfGrid
  <2>3. \A i \in 1 .. n - 0 : s[i] = t.grid[i + 0] BY <1>1, RestAt
  <2>4. s = t.grid
    <3>1. t.grid \in [1 .. n -> Nat \ {0, 1}] BY DEF GridOf
    <3> HIDE DEF s
    <3> QED BY <2>1, <2>2, <2>3, <3>1
  <2> QED BY <1>1, <2>4 DEF Stride, NumPoints, s
<1>5. ASSUME NEW k \in 1 .. n PROVE Stride(t, k - 1) = t.grid[k] * Stride(t, k)
  <2> DEFINE s == SubSeq(t.grid, k - 1 + 1, n)
             u == SubSeq(t.grid, k + 1, n)
             m == n - k
  <2>1. k - 1 \in 0 .. n /\ k \in 0 .. n /\ m \in Nat /\ n - (k - 1) = m + 1 BY <1>1
  <2>20. \A i \in 1 .. n - (k - 1) : s[i] = t.grid[i + (k - 1)] BY <2>1, RestAt
  <2>21. s \in [1 .. n - (k - 1) -> Nat \ {0}] BY <2>1, RestOfGrid
  <2>2. s \in [1 .. m + 1 -> Nat \ {0}] /\ \A i \in 1 .. m + 1 : s[i] = t.grid[i + (k - 1)]
    <3> HIDE DEF s
    <3> QED BY <2>1, <2>20, <2>21
  <2>30. \A i \in 1 .. m : u[i] = t.grid[i + k] BY <2>1, RestAt
  <2>31. u \in [1 .. m -> Nat \ {0}] BY <2>1, RestOfGrid
  <2>3. u \in [1 .. m -> Nat \ {0}] /\ \A i \in 1 .. m : u[i] = t.grid[i + k]
    <3> HIDE DEF u
    <3> QED BY <2>30, <2>31
  <2>4. \A i \in 1 .. m : i + 1 \in 1 .. m + 1 /\ i + 1 + (k - 1) = i + k BY <2>1
  <2>5. 1 \in 1 .. m + 1 /\ 1 + (k - 1) = k BY <2>1
  <2>6. s[1] = t.grid[k] BY <2>2, <2>5
  <2> HIDE DEF s, u, m
  <2>7. \A i \in 1 .. m : u[i] = s[i + 1] BY <2>2, <2>3, <2>4
  <2>8. s \in [1 .. m + 1 -> Int] /\ u \in [1 .. m -> Int] BY <2>2, <2>3
  <2>9. Product(s) = s[1] * Product(u) BY <2>1, <2>7, <2>8, FirstFactor
  <2> QED BY <1>1, <2>6, <2>9 DEF Stride, s, u
<1> QED BY <1>2, <1>3, <1>4, <1>5

(* Begin's distances are the strides, in numbers. *)
LEMMA Distances ==
  ASSUME NEW t, NEW n \in Nat, GridOf(t, n), n > 0, t.out \in Nat
  PROVE  \A k \in 1 .. n : DimSize(t)[k] = t.out * Stride(t, k)
<1> DEFINE D(f) == f = [k \in 1 .. Inputs(t) |->
                         IF k = Inputs(t) THEN t.out ELSE f[k + 1] * t.grid[k + 1]]
           c == [k \in 1 .. n |-> t.out * Stride(t, k)]
           d == DimSize(t)
<1>1. n \in Nat /\ Inputs(t) = n BY InputsAre
<1>2. D(c)
  <2>1. ASSUME NEW k \in 1 .. n, k # n PROVE c[k] = c[k + 1] * t.grid[k + 1]
    <3>1. k + 1 \in 1 .. n /\ k + 1 - 1 = k /\ k + 1 \in 0 .. n BY <1>1, <2>1
    <3>2. Stride(t, k) = t.grid[k + 1] * Stride(t, k + 1) /\ Stride(t, k + 1) \in Nat BY <3>1, Strides
    <3>3. t.grid[k + 1] \in Nat BY <3>1 DEF GridOf
    <3>4. \A x, y, z \in Nat : x * (y * z) = (x * z) * y OBVIOUS
    <3> QED BY <3>1, <3>2, <3>3, <3>4
  <2>2. n \in 1 .. n BY <1>1
  <2>3. Stride(t, n) = 1 BY Strides
  <2>4. c[n] = t.out BY <2>2, <2>3
  <2>5. \A k \in 1 .. n : c[k] = IF k = n THEN t.out ELSE c[k + 1] * t.grid[k + 1]
    BY <2>1, <2>4
  <2>6. c = [k \in 1 .. n |-> IF k = n THEN t.out ELSE c[k + 1] * t.grid[k + 1]] BY <2>5
  <2> QED BY <1>1, <2>6
<1> HIDE DEF c
<1>3. D(d) BY <1>2, Zenon DEF DimSize
<1>4. \A k \in 1 .. n : d[k] = IF k = n THEN t.out ELSE d[k + 1] * t.grid[k + 1] BY <1>1, <1>3
<1>5. \A k \in 1 .. n : c[k] = IF k = n THEN t.out ELSE c[k + 1] * t.grid[k + 1] BY <1>1, <1>2
<1> HIDE DEF d, D
<1> DEFINE S == {m \in 0 .. n - 1 : d[n - m] = c[n - m]}
<1>6. 0 \in S
  <2>1. n - 0 = n /\ 0 \in 0 .. n - 1 /\ n \in 1 .. n BY <1>1
  <2> QED BY <1>4, <1>5, <2>1
<1>7. ASSUME NEW m \in 0 .. n - 1 - 1, m \in S PROVE m + 1 \in S
  <2>1. /\ n - (m + 1) \in 1 .. n /\ n - (m + 1) # n /\ n - (m + 1) + 1 = n - m
        /\ m + 1 \in 0 .. n - 1 BY <1>1
  <2>2. d[n - m] = c[n - m] BY <1>7
  <2> QED BY <1>4, <1>5, <2>1, <2>2
<1> HIDE DEF S
<1>8. \A m \in 0 .. n - 1 : m \in S
  <2>1. n - 1 \in Nat BY <1>1
  <2> QED BY <1>6, <1>7, <2>1, UpTo
<1>9. ASSUME NEW k \in 1 .. n PROVE d[k] = c[k]
  <2>1. n - k \in 0 .. n - 1 /\ n - (n - k) = k BY <1>1
  <2>2. n - k \in S BY <1>8, <2>1
  <2> QED BY <2>1, <2>2 DEF S
<1> QED BY <1>9 DEF c, d
-----------------------------------------------------------------------------
(* The node at coordinates y: Interp goes as many strides along each input.  *)
Shares(t, y) == [k \in 1 .. Inputs(t) |-> y[k] * Stride(t, k)]
NodeAt(t, y) == Total(Shares(t, y))
OnGrid(t, n, y) == \A k \in 1 .. n : y[k] \in 0 .. t.grid[k] - 1

LEMMA SharesAre ==
  ASSUME NEW t, NEW n \in Nat, GridOf(t, n), NEW y, OnGrid(t, n, y)
  PROVE  /\ Sums(Shares(t, y)) \in [0 .. n -> Int]
         /\ Sums(Shares(t, y))[0] = 0
         /\ \A k \in 1 .. n :
              Sums(Shares(t, y))[k] = Sums(Shares(t, y))[k - 1] + y[k] * Stride(t, k)
         /\ NodeAt(t, y) = Sums(Shares(t, y))[n]
<1>1. Inputs(t) = n BY InputsAre
<1>2. ASSUME NEW k \in 1 .. n PROVE y[k] * Stride(t, k) \in Int
  <2>1. k \in 0 .. n OBVIOUS
  <2>2. Stride(t, k) \in Nat BY <2>1, Strides
  <2>3. t.grid[k] \in Nat BY InputsAre
  <2>4. y[k] \in Int BY <2>3 DEF OnGrid
  <2> QED BY <2>2, <2>4
<1> DEFINE s == Shares(t, y)
<1>3. s = [k \in 1 .. n |-> y[k] * Stride(t, k)] BY <1>1 DEF Shares
<1> HIDE DEF s
<1>4. s \in [1 .. n -> Int] /\ \A k \in 1 .. n : s[k] = y[k] * Stride(t, k) BY <1>2, <1>3
<1>5. /\ Sums(s) \in [0 .. n -> Int] /\ Sums(s)[0] = 0
      /\ \A k \in 1 .. n : Sums(s)[k] = Sums(s)[k - 1] + s[k]
      /\ Total(s) = Sums(s)[n] BY <1>4, SumsAre
<1>6. \A k \in 1 .. n : Sums(s)[k] = Sums(s)[k - 1] + y[k] * Stride(t, k) BY <1>4, <1>5
<1> QED BY <1>5, <1>6 DEF s, NodeAt

(* What further inputs add stays below the stride of the last one before.    *)
LEMMA PartSums ==
  ASSUME NEW t, NEW n \in Nat, GridOf(t, n), NEW y, OnGrid(t, n, y)
  PROVE  \A j \in 0 .. n : \A k \in 0 .. j :
           Sums(Shares(t, y))[j] - Sums(Shares(t, y))[k] \in 0 .. Stride(t, k) - Stride(t, j)
<1> DEFINE p == Sums(Shares(t, y))
           S == {j \in 0 .. n : \A k \in 0 .. j : p[j] - p[k] \in 0 .. Stride(t, k) - Stride(t, j)}
<1>1. /\ p \in [0 .. n -> Int] /\ p[0] = 0
      /\ \A k \in 1 .. n : p[k] = p[k - 1] + y[k] * Stride(t, k) BY SharesAre
<1> HIDE DEF p
<1>2. 0 \in S
  <2>1. 0 \in 0 .. n /\ \A k \in 0 .. 0 : k = 0 OBVIOUS
  <2>2. Stride(t, 0) \in Nat BY <2>1, Strides
  <2> QED BY <1>1, <2>1, <2>2
<1>3. ASSUME NEW j \in 0 .. n - 1, j \in S PROVE j + 1 \in S
  <2>1. j + 1 \in 1 .. n /\ j + 1 \in 0 .. n /\ j + 1 - 1 = j /\ j \in 0 .. n /\ j \in 0 .. j OBVIOUS
  <2> DEFINE b == Stride(t, j + 1)
             a == Stride(t, j)
             g == t.grid[j + 1]
             w == y[j + 1]
  <2>2. b \in Nat \ {0} /\ a \in Nat \ {0} BY <2>1, Strides
  <2>3. a = g * b
    <3>1. \A k \in 1 .. n : Stride(t, k - 1) = t.grid[k] * Stride(t, k) BY Strides
    <3> QED BY <2>1, <3>1
  <2>4. g \in Nat BY <2>1, InputsAre
  <2>5. w \in 0 .. g - 1 BY <2>1 DEF OnGrid
  <2>6. p[j + 1] = p[j] + w * b BY <1>1, <2>1
  <2>7. p[j] \in Int BY <1>1, <2>1
  <2> HIDE DEF a, b, g, w
  <2>8. w * b \in 0 .. a - b
    <3>1. w \in Nat /\ g - 1 \in Nat /\ w <= g - 1 BY <2>4, <2>5
    <3>2. w * b \in Nat /\ w * b <= (g - 1) * b BY <2>2, <3>1, Products, MonotonicProduct
    <3>3. (g - 1) * b = a - b BY <2>2, <2>3, <2>4
    <3> QED BY <2>2, <3>2, <3>3
  <2>9. ASSUME NEW k \in 0 .. j PROVE p[j + 1] - p[k] \in 0 .. Stride(t, k) - b
    <3>1. k \in 0 .. n OBVIOUS
    <3>2. p[j] - p[k] \in 0 .. Stride(t, k) - a BY <1>3 DEF a
    <3>3. p[k] \in Int /\ Stride(t, k) \in Nat BY <1>1, <3>1, Strides
    <3> HIDE DEF S
    <3> QED BY <2>2, <2>6, <2>7, <2>8, <3>2, <3>3
  <2>10. p[j + 1] - p[j + 1] \in 0 .. b - b
    <3>1. p[j + 1] \in Int BY <1>1, <2>1
    <3> QED BY <2>2, <3>1
  <2>11. ASSUME NEW k \in 0 .. j + 1 PROVE p[j + 1] - p[k] \in 0 .. Stride(t, k) - b
    <3>1. k \in 0 .. j \/ k = j + 1 OBVIOUS
    <3> QED BY <2>9, <2>10, <3>1 DEF b
  <2> QED BY <2>1, <2>11 DEF b
<1> HIDE DEF S
<1>4. \A j \in 0 .. n : j \in S BY <1>2, <1>3, UpTo
<1> QED BY <1>4 DEF S, p

LEMMA NodeInTable ==
  ASSUME NEW t, NEW n \in Nat, GridOf(t, n), NEW y, OnGrid(t, n, y)
  PROVE  NodeAt(t, y) \in 0 .. NumPoints(t) - 1
<1> DEFINE p == Sums(Shares(t, y))
<1>1. 0 \in 0 .. n /\ n \in 0 .. n OBVIOUS
<1>2. p[n] - p[0] \in 0 .. Stride(t, 0) - Stride(t, n) BY <1>1, PartSums
<1>3. p[0] = 0 /\ p[n] \in Int /\ NodeAt(t, y) = p[n]
  <2>1. p \in [0 .. n -> Int] /\ p[0] = 0 /\ NodeAt(t, y) = p[n] BY SharesAre
  <2> HIDE DEF p
  <2> QED BY <1>1, <2>1
<1>4. Stride(t, n) = 1 /\ Stride(t, 0) = NumPoints(t) /\ NumPoints(t) \in Nat
  <2>1. Stride(t, n) = 1 /\ Stride(t, 0) = NumPoints(t) BY Strides
  <2>2. Stride(t, 0) \in Nat BY <1>1, Strides
  <2> QED BY <2>1, <2>2
<1> HIDE DEF p
<1> QED BY <1>2, <1>3, <1>4

(* Its coordinates are those it was made of. *)
LEMMA NodeThere ==
  ASSUME NEW t, NEW n \in Nat, GridOf(t, n), NEW y, OnGrid(t, n, y), NEW k \in 1 .. n
  PROVE  Coordinate(t, NodeAt(t, y), k) = y[k]
<1> DEFINE p == Sums(Shares(t, y))
           S == {j \in 0 .. n : \E z \in Nat : p[j] = Stride(t, j) * z}
<1>1. p \in [0 .. n -> Int] /\ p[0] = 0 BY SharesAre
<1>10. \A j \in 1 .. n : p[j] = p[j - 1] + y[j] * Stride(t, j) BY SharesAre
<1>11. NodeAt(t, y) = p[n] BY SharesAre
<1>12. \A i \in 0 .. n : \A j \in 0 .. i : p[i] - p[j] \in 0 .. Stride(t, j) - Stride(t, i) BY PartSums
<1>13. \A j \in 1 .. n : Stride(t, j - 1) = t.grid[j] * Stride(t, j) BY Strides
<1>14. \A j \in 0 .. n : Stride(t, j) \in Nat \ {0} BY Strides
<1> HIDE DEF p
<1>2. ASSUME NEW j \in 1 .. n, NEW z \in Nat, p[j - 1] = Stride(t, j - 1) * z
      PROVE  p[j] = Stride(t, j) * (t.grid[j] * z + y[j]) /\ t.grid[j] * z + y[j] \in Nat
  <2> DEFINE b == Stride(t, j)
             g == t.grid[j]
             w == y[j]
  <2>1. j \in 0 .. n OBVIOUS
  <2>2. b \in Nat BY <1>14, <2>1
  <2>3. g \in Nat /\ w \in Nat
    <3>1. g \in Nat BY InputsAre
    <3>2. w \in 0 .. g - 1 BY DEF OnGrid
    <3> HIDE DEF g, w
    <3> QED BY <3>1, <3>2
  <2>4. p[j] = (g * b) * z + w * b BY <1>2, <1>10, <1>13
  <2> HIDE DEF b, g, w
  <2>5. g * z \in Nat BY <2>3, Products
  <2>6. (g * b) * z + w * b = b * (g * z + w)
    <3>1. (g * b) * z = b * (g * z) /\ w * b = b * w BY <2>2, <2>3
    <3>2. b * (g * z + w) = b * (g * z) + b * w BY <2>2, <2>3, <2>5
    <3> QED BY <3>1, <3>2
  <2>7. p[j] = b * (g * z + w) /\ g * z + w \in Nat BY <2>3, <2>4, <2>5, <2>6
  <2> QED BY <2>7 DEF b, g, w
<1>3. 0 \in S
  <2>1. 0 \in 0 .. n OBVIOUS
  <2>2. Stride(t, 0) \in Nat BY <2>1, <1>14
  <2>3. Stride(t, 0) * 0 = 0 BY <2>2
  <2>4. p[0] = Stride(t, 0) * 0 BY <1>1, <2>3
  <2>5. 0 \in Nat OBVIOUS
  <2> QED BY <2>1, <2>4, <2>5
<1>4. ASSUME NEW j \in 0 .. n - 1, j \in S PROVE j + 1 \in S
  <2>1. j + 1 \in 1 .. n /\ j + 1 \in 0 .. n /\ j + 1 - 1 = j OBVIOUS
  <2>2. PICK z \in Nat : p[j] = Stride(t, j) * z BY <1>4
  <2> QED BY <1>2, <2>1, <2>2
<1> HIDE DEF S
<1>5. \A j \in 0 .. n : j \in S BY <1>3, <1>4, UpTo
<1>6. PICK z \in Nat : p[k - 1] = Stride(t, k - 1) * z
  <2>1. k - 1 \in 0 .. n OBVIOUS
  <2> QED BY <1>5, <2>1 DEF S
<1> DEFINE b == Stride(t, k)
           q == t.grid[k] * z + y[k]
           r == p[n] - p[k]
<1>7. p[k] = b * q /\ q \in Nat BY <1>2, <1>6
<1>8. k \in 0 .. n /\ n \in 0 .. n /\ k \in 0 .. n OBVIOUS
<1>9. b \in Nat \ {0} BY <1>8, <1>14
<1>15. p[n] \in Int /\ p[k] \in Int BY <1>1, <1>8
<1>16. r \in 0 .. b - 1
  <2>1. p[n] - p[k] \in 0 .. Stride(t, k) - Stride(t, n) BY <1>8, <1>12
  <2>2. Stride(t, n) = 1 BY Strides
  <2> QED BY <2>1, <2>2
<1>17. p[n] \in Nat /\ p[n] = b * q + r
  <2> HIDE DEF b, q
  <2>1. p[n] = b * q + r BY <1>7, <1>15
  <2>2. b * q \in Nat BY <1>7, <1>9, Products
  <2> HIDE DEF r
  <2> QED BY <1>9, <1>16, <2>1, <2>2
<1>18. p[n] \div b = q
  <2> HIDE DEF b, q, r
  <2> QED BY <1>7, <1>9, <1>16, <1>17, Divides
<1>19. q % t.grid[k] = y[k]
  <2> DEFINE g == t.grid[k]
             w == y[k]
  <2>1. g \in Nat /\ g > 0
    <3>1. g \in Nat \ {0, 1} BY InputsAre
    <3> HIDE DEF g
    <3> QED BY <3>1
  <2>2. w \in 0 .. g - 1 BY DEF OnGrid
  <2> HIDE DEF g, w
  <2>3. g * z + w \in Nat
    <3>1. g * z \in Nat BY <2>1, Products
    <3> QED BY <2>1, <2>2, <3>1
  <2>4. (g * z + w) % g = w BY <2>1, <2>2, <2>3, Divides
  <2> QED BY <2>4 DEF g, w
<1>20. Inputs(t) = n BY InputsAre
<1>21. Coordinate(t, NodeAt(t, y), k) = (p[n] \div b) % t.grid[k] BY <1>11 DEF Coordinate, Stride
<1> HIDE DEF b, q
<1> QED BY <1>18, <1>21, <1>19 DEF q

(* Every node is the one at its coordinates. *)
LEMMA NodeOfCoordinates ==
  ASSUME NEW t, NEW n \in Nat, GridOf(t, n), NEW e \in 0 .. NumPoints(t) - 1, NEW y,
         \A k \in 1 .. n : y[k] = Coordinate(t, e, k)
  PROVE  OnGrid(t, n, y) /\ NodeAt(t, y) = e
<1>1. 0 \in 0 .. n /\ n \in 0 .. n OBVIOUS
<1>2. Stride(t, n) = 1 /\ Stride(t, 0) = NumPoints(t) BY Strides
<1>3. \A j \in 1 .. n : Stride(t, j - 1) = t.grid[j] * Stride(t, j) BY Strides
<1>4. \A j \in 0 .. n : Stride(t, j) \in Nat \ {0} BY Strides
<1>5. e \in Nat /\ e < Stride(t, 0)
  <2>1. Stride(t, 0) \in Nat BY <1>1, <1>4
  <2> QED BY <1>2, <2>1
<1>6. \A j \in 0 .. n : e \div Stride(t, j) \in Nat BY <1>4, <1>5, NaturalQuotient
<1>7. ASSUME NEW k \in 1 .. n
      PROVE  /\ y[k] \in 0 .. t.grid[k] - 1
             /\ e \div Stride(t, k) = t.grid[k] * (e \div Stride(t, k - 1)) + y[k]
  <2> DEFINE b == Stride(t, k)
             g == t.grid[k]
             q == e \div b
  <2>1. k \in 0 .. n OBVIOUS
  <2>2. b \in Nat /\ b > 0
    <3>1. b \in Nat \ {0} BY <1>4, <2>1
    <3> HIDE DEF b
    <3> QED BY <3>1
  <2>3. g \in Nat /\ g > 0
    <3>1. g \in Nat \ {0, 1} BY InputsAre
    <3> HIDE DEF g
    <3> QED BY <3>1
  <2>4. q \in Nat BY <1>6, <2>1
  <2>5. y[k] = q % g BY DEF Coordinate, Stride
  <2>6. Stride(t, k - 1) = g * b BY <1>3
  <2>7. e \div (g * b) = q \div g
    <3> HIDE DEF b, g
    <3>1. e \div (b * g) = q \div g BY <1>5, <2>2, <2>3, DividesTwice
    <3>2. b * g = g * b BY <2>2, <2>3
    <3> QED BY <3>1, <3>2
  <2>8. q = g * (q \div g) + (q % g) /\ q % g \in 0 .. g - 1
    <3> HIDE DEF q, g
    <3>1. q \div g \in Int /\ q % g \in 0 .. g - 1 /\ q = g * (q \div g) + (q % g)
      BY <2>3, <2>4, Quotient
    <3> QED BY <3>1
  <2> HIDE DEF b, g, q
  <2>9. y[k] \in 0 .. g - 1 BY <2>5, <2>8
  <2>10. e \div Stride(t, k - 1) = q \div g BY <2>6, <2>7
  <2>11. q = g * (e \div Stride(t, k - 1)) + y[k] BY <2>5, <2>8, <2>10
  <2> QED BY <2>9, <2>11 DEF b, g, q
<1>8. OnGrid(t, n, y) BY <1>7 DEF OnGrid
<1> DEFINE p == Sums(Shares(t, y))
           S == {j \in 0 .. n : p[j] = Stride(t, j) * (e \div Stride(t, j))}
<1>9. p[0] = 0 BY <1>8, SharesAre
<1>10. \A j \in 1 .. n : p[j] = p[j - 1] + y[j] * Stride(t, j) BY <1>8, SharesAre
<1>11. NodeAt(t, y) = p[n] BY <1>8, SharesAre
<1> HIDE DEF p
<1>12. 0 \in S
  <2> DEFINE b == Stride(t, 0)
  <2>1. b \in Nat /\ b > 0 /\ e \in 0 .. b - 1
    <3>1. b \in Nat \ {0} BY <1>1, <1>4
    <3>2. e < b BY <1>5
    <3> HIDE DEF b
    <3> QED BY <1>5, <3>1, <3>2
  <2> HIDE DEF b
  <2>2. e = b * 0 + e BY <1>5, <2>1
  <2>3. e \div b = 0 BY <1>5, <2>1, <2>2, Divides
  <2>4. b * 0 = 0 BY <2>1
  <2> QED BY <1>1, <1>9, <2>3, <2>4 DEF b
<1>13. ASSUME NEW m \in 0 .. n - 1, m \in S PROVE m + 1 \in S
  <2>1. m + 1 \in 1 .. n /\ m + 1 \in 0 .. n /\ m + 1 - 1 = m /\ m \in 0 .. n OBVIOUS
  <2> DEFINE b == Stride(t, m + 1)
             g == t.grid[m + 1]
             w == y[m + 1]
             q == e \div b
             u == e \div Stride(t, m)
  <2>2. p[m] = Stride(t, m) * u BY <1>13
  <2>3. Stride(t, m) = g * b BY <1>3, <2>1
  <2>4. q = g * u + w /\ w \in 0 .. g - 1 BY <1>7, <2>1
  <2>5. g \in Nat BY <2>1, InputsAre
  <2>6. b \in Nat BY <2>1, <1>4
  <2>7. u \in Nat BY <2>1, <1>6
  <2>8. p[m + 1] = p[m] + w * b BY <1>10, <2>1
  <2> HIDE DEF b, g, w, q, u
  <2>9. p[m + 1] = b * q
    <3>1. w \in Nat /\ g * u \in Nat BY <2>4, <2>5, <2>7, Products
    <3>2. b * (g * u + w) = b * (g * u) + b * w BY <2>6, <3>1
    <3>3. b * (g * u) = (g * b) * u /\ b * w = w * b BY <2>5, <2>6, <2>7, <3>1
    <3> QED BY <2>2, <2>3, <2>4, <2>8, <3>2, <3>3
  <2> QED BY <2>1, <2>9 DEF b, q
<1> HIDE DEF S
<1>14. \A j \in 0 .. n : j \in S BY <1>12, <1>13, UpTo
<1>15. p[n] = Stride(t, n) * (e \div Stride(t, n)) BY <1>1, <1>14 DEF S
<1>16. e \div 1 = e /\ 1 * e = e BY <1>5
<1> QED BY <1>2, <1>8, <1>11, <1>15, <1>16
-----------------------------------------------------------------------------
LEMMA Powers ==
  /\ TwoTo[0] = 1
  /\ \A i \in 1 .. 17 : TwoTo[i] = 2 * TwoTo[i - 1]
  /\ \A i \in 0 .. 17 : TwoTo[i] \in Nat \ {0}
<1> DEFINE F == [x \in Int \X (1 .. 17) |-> 2 * x[1]]
           P(f) == f = [i \in 0 .. 17 |-> IF i = 0 THEN 1 ELSE 2 * f[i - 1]]
<1>1. F \in [Int \X (1 .. 17) -> Int] OBVIOUS
<1>2. \A x \in Int : \A k \in 1 .. 17 : F[<<x, k>>] = 2 * x OBVIOUS
<1> HIDE DEF F
<1>3. PICK p \in [0 .. 17 -> Int] : p[0] = 1 /\ \A k \in 1 .. 17 : p[k] = F[<<p[k - 1], k>>]
  <2>1. 1 \in Int /\ 17 \in Nat OBVIOUS
  <2> QED BY <1>1, <2>1, BuiltUp, Zenon
<1>4. \A k \in 1 .. 17 : k - 1 \in 0 .. 17 OBVIOUS
<1>5. \A k \in 1 .. 17 : p[k] = 2 * p[k - 1] BY <1>2, <1>3, <1>4
<1>6. \A k \in 0 .. 17 : k = 0 \/ k \in 1 .. 17 OBVIOUS
<1>7. \A k \in 0 .. 17 : p[k] = IF k = 0 THEN 1 ELSE 2 * p[k - 1] BY <1>3, <1>5, <1>6
<1>8. P(p) BY <1>7
<1>9. P(TwoTo) BY <1>8, Zenon DEF TwoTo
<1>10. \A k \in 0 .. 17 : TwoTo[k] = IF k = 0 THEN 1 ELSE 2 * TwoTo[k - 1] BY <1>9, Zenon
<1>11. 0 \in 0 .. 17 /\ \A k \in 1 .. 17 : k \in 0 .. 17 /\ k # 0 OBVIOUS
<1>12. TwoTo[0] = 1 /\ \A k \in 1 .. 17 : TwoTo[k] = 2 * TwoTo[k - 1] BY <1>10, <1>11, Zenon
<1> DEFINE S == {k \in 0 .. 17 : TwoTo[k] \in Nat \ {0}}
<1>13. 0 \in S BY <1>12
<1>14. ASSUME NEW k \in 0 .. 17 - 1, k \in S PROVE k + 1 \in S
  <2>1. k + 1 \in 1 .. 17 /\ k + 1 \in 0 .. 17 /\ k + 1 - 1 = k OBVIOUS
  <2>2. TwoTo[k + 1] = 2 * TwoTo[k] BY <1>12, <2>1
  <2> QED BY <1>14, <2>1, <2>2
<1> HIDE DEF S
<1>15. \A k \in 0 .. 17 : k \in S BY <1>13, <1>14, UpTo
<1> QED BY <1>12, <1>15 DEF S

LEMMA PowerAfter ==
  ASSUME NEW h \in 0 .. 16 PROVE TwoTo[h + 1] = 2 * TwoTo[h]
<1>1. h + 1 \in 1 .. 17 /\ h + 1 - 1 = h OBVIOUS
<1> QED BY <1>1, Powers

(* A power of two is a multiple of every smaller one. *)
LEMMA PowersDivide ==
  ASSUME NEW k \in 0 .. 17, NEW h \in k .. 17
  PROVE  \E m \in Nat \ {0} : TwoTo[h] = TwoTo[k] * m
<1> DEFINE S == {i \in 0 .. h - k : \E m \in Nat \ {0} : TwoTo[k + i] = TwoTo[k] * m}
<1>1. 0 \in S
  <2>1. TwoTo[k] \in Nat BY Powers
  <2>2. k + 0 = k /\ TwoTo[k] = TwoTo[k] * 1 /\ 1 \in Nat \ {0} BY <2>1
  <2> QED BY <2>2
<1>2. ASSUME NEW i \in 0 .. h - k - 1, i \in S PROVE i + 1 \in S
  <2>1. PICK m \in Nat \ {0} : TwoTo[k + i] = TwoTo[k] * m BY <1>2
  <2>2. k + (i + 1) \in 1 .. 17 /\ k + (i + 1) - 1 = k + i /\ i + 1 \in 0 .. h - k OBVIOUS
  <2>3. TwoTo[k + (i + 1)] = 2 * TwoTo[k + i] BY <2>2, Powers
  <2>4. TwoTo[k] \in Nat BY Powers
  <2>5. 2 * (TwoTo[k] * m) = TwoTo[k] * (2 * m) /\ 2 * m \in Nat \ {0} BY <2>4
  <2> QED BY <2>1, <2>2, <2>3, <2>5
<1> HIDE DEF S
<1>3. h - k \in Nat /\ h - k \in 0 .. h - k /\ k + (h - k) = h OBVIOUS
<1>4. \A i \in 0 .. h - k : i \in S BY <1>1, <1>2, <1>3, UpTo
<1> QED BY <1>3, <1>4 DEF S

LEMMA PowersGrow ==
  ASSUME NEW k \in 0 .. 17, NEW h \in k .. 17
  PROVE  TwoTo[k] <= TwoTo[h]
<1>1. PICK m \in Nat \ {0} : TwoTo[h] = TwoTo[k] * m BY PowersDivide
<1> DEFINE a == TwoTo[k]
<1>2. a \in Nat BY Powers
<1> HIDE DEF a
<1>3. a * (m - 1) \in Nat /\ a * m = a * (m - 1) + a
  <2>1. m - 1 \in Nat OBVIOUS
  <2> QED BY <1>2, <2>1, Products
<1> QED BY <1>1, <1>2, <1>3 DEF a

(* The corner after 2^h more than j has one bit more. *)
LEMMA NoBitAbove ==
  ASSUME NEW h \in 0 .. 16, NEW j \in 0 .. TwoTo[h] - 1, NEW k \in h + 1 .. 17
  PROVE  ~Has(j, k)
<1> DEFINE b == TwoTo[k - 1]
<1>1. k - 1 \in 0 .. 17 /\ k - 1 \in h .. 17 /\ h \in 0 .. 17 OBVIOUS
<1>2. b \in Nat /\ b > 0 /\ TwoTo[h] \in Nat /\ TwoTo[h] <= b
  <2>1. b \in Nat \ {0} /\ TwoTo[h] \in Nat BY <1>1, Powers
  <2>2. TwoTo[h] <= b
    <3>1. k - 1 \in h .. 17 BY <1>1
    <3> QED BY <1>1, <3>1, PowersGrow
  <2> HIDE DEF b
  <2> QED BY <2>1, <2>2
<1> HIDE DEF b
<1>3. j \in 0 .. b - 1 /\ j \in Nat BY <1>2
<1>4. j = b * 0 + j BY <1>2, <1>3
<1>5. j \div b = 0 BY <1>2, <1>3, <1>4, Divides
<1>6. 0 % 2 # 1 OBVIOUS
<1> QED BY <1>5, <1>6 DEF Has, b

LEMMA NextBit ==
  ASSUME NEW h \in 0 .. 16, NEW j \in 0 .. TwoTo[h] - 1, NEW k \in 1 .. 17
  PROVE  Has(TwoTo[h] + j, k) <=> k = h + 1 \/ Has(j, k)
<1> DEFINE a == TwoTo[h]
           b == TwoTo[k - 1]
<1>1. k - 1 \in 0 .. 17 /\ h \in 0 .. 17 OBVIOUS
<1>2. b \in Nat /\ b > 0 /\ a \in Nat
  <2>1. b \in Nat \ {0} /\ a \in Nat BY <1>1, Powers
  <2> HIDE DEF b
  <2> QED BY <2>1
<1>3. j \in Nat /\ j < a
  <2> HIDE DEF a, b
  <2>1. j \in 0 .. a - 1 BY DEF a
  <2> QED BY <1>2, <2>1
<1>4. Has(j, k) <=> (j \div b) % 2 = 1 BY DEF Has
<1>5. Has(a + j, k) <=> ((a + j) \div b) % 2 = 1 BY DEF Has
<1>6. CASE k <= h
  <2>1. PICK m \in Nat \ {0} : a = TwoTo[k] * m
    <3>1. k \in 0 .. 17 /\ h \in k .. 17 BY <1>6
    <3> QED BY <3>1, PowersDivide
  <2>2. TwoTo[k] = 2 * b BY Powers
  <2> DEFINE q == j \div b
             r == j % b
             c == q \div 2
             d == q % 2
  <2> HIDE DEF a, b
  <2>3. q \in Nat /\ r \in 0 .. b - 1 /\ j = b * q + r BY <1>2, <1>3, Quotient, NaturalQuotient
  <2>4. c \in Nat /\ d \in 0 .. 2 - 1 /\ q = 2 * c + d
    <3> HIDE DEF q
    <3> QED BY <2>3, Quotient, NaturalQuotient
  <2> HIDE DEF q, r, c, d
  <2>5. a + j = b * (q + 2 * m) + r
    <3>1. b * (q + 2 * m) = b * q + b * (2 * m) BY <1>2, <2>3
    <3>2. b * (2 * m) = (2 * b) * m BY <1>2
    <3>3. b * q \in Nat /\ (2 * b) * m \in Nat BY <1>2, <2>3, Products
    <3> QED BY <1>2, <2>1, <2>2, <2>3, <3>1, <3>2, <3>3
  <2>6. (a + j) \div b = q + 2 * m
    <3>1. q + 2 * m \in Int /\ a + j \in Nat BY <1>2, <1>3, <2>3
    <3> QED BY <1>2, <2>3, <2>5, <3>1, Divides
  <2>7. (q + 2 * m) % 2 = d
    <3>1. q + 2 * m = 2 * (c + m) + d /\ c + m \in Int /\ q + 2 * m \in Nat BY <2>3, <2>4
    <3> QED BY <2>4, <3>1, Divides
  <2> QED BY <1>4, <1>5, <1>6, <2>6, <2>7 DEF q, d, a
<1>7. CASE k = h + 1
  <2>1. b = a BY <1>7
  <2> HIDE DEF a, b
  <2>2. a + j = b * 1 + j /\ j \in 0 .. b - 1 /\ a + j \in Nat BY <1>2, <1>3, <2>1
  <2>3. (a + j) \div b = 1 BY <1>2, <2>2, Divides
  <2>4. 1 % 2 = 1 OBVIOUS
  <2> QED BY <1>5, <1>7, <2>3, <2>4 DEF a
<1>8. CASE k > h + 1
  <2>1. TwoTo[h + 1] = 2 * a BY PowerAfter
  <2>2. h + 1 \in 0 .. 16 /\ k \in h + 1 + 1 .. 17 /\ k \in h + 1 .. 17 BY <1>8
  <2>3. a + j \in 0 .. TwoTo[h + 1] - 1
    <3> HIDE DEF a
    <3> QED BY <1>2, <1>3, <2>1
  <2>4. ~Has(a + j, k) BY <2>2, <2>3, NoBitAbove
  <2>5. ~Has(j, k) BY <2>2, NoBitAbove
  <2> QED BY <1>8, <2>4, <2>5
<1> QED BY <1>6, <1>7, <1>8

(* The highest bit of a corner, and the corner without it. *)
LEMMA Highest ==
  ASSUME NEW n \in 0 .. 16, NEW j \in 1 .. TwoTo[n] - 1
  PROVE  /\ HighestBit(j) \in 0 .. n - 1
         /\ j - TwoTo[HighestBit(j)] \in 0 .. TwoTo[HighestBit(j)] - 1
         /\ TwoTo[HighestBit(j)] \in Nat \ {0}
<1> DEFINE S == {m \in 0 .. n : j < TwoTo[m] => \E h \in 0 .. 16 : TwoTo[h] <= j /\ j < TwoTo[h + 1]}
<1>1. j \in Nat /\ j > 0
  <2>1. TwoTo[n] \in Nat BY Powers
  <2> QED BY <2>1
<1>2. 0 \in S
  <2>1. ~(j < TwoTo[0]) BY <1>1, Powers
  <2> QED BY <2>1
<1>3. ASSUME NEW m \in 0 .. n - 1, m \in S PROVE m + 1 \in S
  <2>1. m + 1 \in 0 .. n /\ m \in 0 .. 16 /\ m \in 0 .. 17 OBVIOUS
  <2>2. TwoTo[m] \in Nat BY <2>1, Powers
  <2>3. CASE j < TwoTo[m] BY <1>3, <2>1, <2>3
  <2>4. CASE ~(j < TwoTo[m])
    <3>1. TwoTo[m] <= j BY <1>1, <2>2, <2>4
    <3> QED BY <2>1, <3>1
  <2> QED BY <2>3, <2>4
<1> HIDE DEF S
<1>4. n \in S
  <2>1. n \in Nat /\ n \in 0 .. n OBVIOUS
  <2> QED BY <1>2, <1>3, <2>1, UpTo
<1>5. j < TwoTo[n]
  <2>1. TwoTo[n] \in Nat BY Powers
  <2> QED BY <2>1
<1>6. \E h \in 0 .. 16 : TwoTo[h] <= j /\ j < TwoTo[h + 1] BY <1>4, <1>5 DEF S
<1> DEFINE h == HighestBit(j)
<1>7. h \in 0 .. 16 /\ TwoTo[h] <= j /\ j < TwoTo[h + 1] BY <1>6, Zenon DEF HighestBit
<1> HIDE DEF h
<1>8. h < n
  <2> SUFFICES ASSUME n <= h PROVE FALSE BY <1>7
  <2>1. n \in 0 .. 17 /\ h \in n .. 17 BY <1>7
  <2>2. TwoTo[n] <= TwoTo[h] BY <2>1, PowersGrow
  <2>3. TwoTo[n] \in Nat /\ TwoTo[h] \in Nat
    <3>1. h \in 0 .. 17 BY <1>7
    <3> QED BY <2>1, <3>1, Powers
  <2> QED BY <1>1, <1>5, <1>7, <2>2, <2>3
<1>9. TwoTo[h + 1] = 2 * TwoTo[h]
  BY <1>7, PowerAfter
<1>10. TwoTo[h] \in Nat \ {0}
  <2>1. h \in 0 .. 17 BY <1>7
  <2> QED BY <2>1, Powers
<1>11. j - TwoTo[h] \in 0 .. TwoTo[h] - 1 BY <1>1, <1>7, <1>9, <1>10
<1>12. h \in 0 .. n - 1 BY <1>7, <1>8
<1> QED BY <1>10, <1>11, <1>12 DEF h
-----------------------------------------------------------------------------
LEMMA SumOfOne ==
  ASSUME NEW n \in Nat, NEW i \in 1 .. n, NEW s \in [1 .. n -> Int],
         \A k \in 1 .. n : k # i => s[k] = 0
  PROVE  Total(s) = s[i]
<1> DEFINE p == Sums(s)
           S == {k \in 0 .. n : p[k] = IF k >= i THEN s[i] ELSE 0}
<1>1. p \in [0 .. n -> Int] /\ p[0] = 0 /\ \A k \in 1 .. n : p[k] = p[k - 1] + s[k] BY SumsAre
<1>2. Total(s) = p[n] BY SumsAre
<1> HIDE DEF p
<1>3. 0 \in S BY <1>1
<1>4. ASSUME NEW k \in 0 .. n - 1, k \in S PROVE k + 1 \in S
  <2>1. k + 1 \in 1 .. n /\ k + 1 \in 0 .. n /\ k + 1 - 1 = k OBVIOUS
  <2>2. p[k + 1] = p[k] + s[k + 1] BY <1>1, <2>1
  <2>3. s[k + 1] \in Int /\ s[i] \in Int BY <2>1
  <2>4. CASE k + 1 = i BY <1>4, <2>1, <2>2, <2>3, <2>4
  <2>5. CASE k + 1 # i
    <3>1. s[k + 1] = 0 BY <2>1, <2>5
    <3> QED BY <1>4, <2>1, <2>2, <2>3, <2>5, <3>1
  <2> QED BY <2>4, <2>5
<1> HIDE DEF S
<1>5. \A k \in 0 .. n : k \in S BY <1>3, <1>4, UpTo
<1>6. n \in 0 .. n /\ n >= i OBVIOUS
<1> QED BY <1>2, <1>5, <1>6 DEF S

LEMMA SumOfNone ==
  ASSUME NEW n \in Nat, NEW s \in [1 .. n -> Int], \A k \in 1 .. n : s[k] = 0
  PROVE  Total(s) = 0
<1> DEFINE p == Sums(s)
           S == {k \in 0 .. n : p[k] = 0}
<1>1. p \in [0 .. n -> Int] /\ p[0] = 0 /\ \A k \in 1 .. n : p[k] = p[k - 1] + s[k] BY SumsAre
<1>2. Total(s) = p[n] BY SumsAre
<1> HIDE DEF p
<1>3. 0 \in S BY <1>1
<1>4. ASSUME NEW k \in 0 .. n - 1, k \in S PROVE k + 1 \in S
  <2>1. k + 1 \in 1 .. n /\ k + 1 \in 0 .. n /\ k + 1 - 1 = k OBVIOUS
  <2>2. p[k + 1] = p[k] + s[k + 1] /\ s[k + 1] = 0 BY <1>1, <2>1
  <2> QED BY <1>4, <2>1, <2>2
<1> HIDE DEF S
<1>5. \A k \in 0 .. n : k \in S BY <1>3, <1>4, UpTo
<1> QED BY <1>2, <1>5 DEF S

(* What the bits of a corner add. *)
Rises(t, j) == [k \in 1 .. Inputs(t) |-> IF Has(j, k) THEN DimSize(t)[k] ELSE 0]

ClutOf(t, n) == n \in 1 .. 16 /\ GridOf(t, n) /\ t.out \in Nat /\ t.out > 0

LEMMA ClutSizes ==
  ASSUME NEW t, NEW n, ClutOf(t, n)
  PROVE  /\ n \in 1 .. 16 /\ n \in Nat /\ GridOf(t, n) /\ Inputs(t) = n
         /\ t.out \in Nat /\ t.out > 0
         /\ \A k \in 1 .. n : Stride(t, k) \in Nat \ {0}
         /\ \A k \in 1 .. n : DimSize(t)[k] = t.out * Stride(t, k)
         /\ \A k \in 1 .. n : DimSize(t)[k] \in Nat
<1>1. n \in 1 .. 16 /\ n \in Nat /\ n > 0 /\ GridOf(t, n) /\ t.out \in Nat /\ t.out > 0 BY DEF ClutOf
<1>2. Inputs(t) = n BY <1>1, InputsAre
<1>3. \A k \in 0 .. n : Stride(t, k) \in Nat \ {0} BY <1>1, Strides
<1>4. \A k \in 1 .. n : Stride(t, k) \in Nat \ {0} BY <1>1, <1>3
<1>5. \A k \in 1 .. n : DimSize(t)[k] = t.out * Stride(t, k) BY <1>1, Distances
<1>6. \A k \in 1 .. n : t.out * Stride(t, k) \in Nat BY <1>1, <1>4, Products
<1> QED BY <1>1, <1>2, <1>4, <1>5, <1>6

LEMMA RisesAre ==
  ASSUME NEW t, NEW n, ClutOf(t, n), NEW j
  PROVE  /\ Rises(t, j) \in [1 .. n -> Int]
         /\ \A k \in 1 .. n : Rises(t, j)[k] = IF Has(j, k) THEN DimSize(t)[k] ELSE 0
  BY ClutSizes DEF Rises

LEMMA NothingRises ==
  ASSUME NEW t, NEW n, ClutOf(t, n)
  PROVE  Total(Rises(t, 0)) = 0
<1>1. n \in Nat /\ n \in 1 .. 16 BY ClutSizes
<1>2. ASSUME NEW k \in 1 .. n PROVE Rises(t, 0)[k] = 0
  <2>1. 0 \in 0 .. 16 /\ 0 \in 0 .. TwoTo[0] - 1 /\ k \in 0 + 1 .. 17 BY <1>1, Powers
  <2>2. ~Has(0, k) BY <2>1, NoBitAbove
  <2> QED BY <2>2, RisesAre
<1>3. Rises(t, 0) \in [1 .. n -> Int] BY RisesAre
<1> QED BY <1>1, <1>2, <1>3, SumOfNone

LEMMA RisesMore ==
  ASSUME NEW t, NEW n, ClutOf(t, n), NEW h \in 0 .. n - 1, NEW j \in 0 .. TwoTo[h] - 1
  PROVE  Total(Rises(t, TwoTo[h] + j)) = DimSize(t)[h + 1] + Total(Rises(t, j))
<1>1. n \in Nat /\ n \in 1 .. 16 BY ClutSizes
<1>2. h \in 0 .. 16 /\ h + 1 \in 1 .. n BY <1>1
<1> DEFINE d == DimSize(t)
           s == [k \in 1 .. n |-> IF k = h + 1 THEN d[k] ELSE 0]
           u == Rises(t, TwoTo[h] + j)
           v == Rises(t, j)
<1>3. \A k \in 1 .. n : d[k] \in Int BY ClutSizes
<1>4. /\ u \in [1 .. n -> Int]
      /\ \A k \in 1 .. n : u[k] = IF Has(TwoTo[h] + j, k) THEN d[k] ELSE 0 BY RisesAre
<1>5. /\ v \in [1 .. n -> Int]
      /\ \A k \in 1 .. n : v[k] = IF Has(j, k) THEN d[k] ELSE 0 BY RisesAre
<1> HIDE DEF d, u, v
<1>6. s \in [1 .. n -> Int] /\ \A k \in 1 .. n : s[k] = IF k = h + 1 THEN d[k] ELSE 0 BY <1>3
<1> HIDE DEF s
<1>7. ASSUME NEW k \in 1 .. n PROVE u[k] = s[k] + v[k]
  <2>1. k \in 1 .. 17 BY <1>1
  <2>2. Has(TwoTo[h] + j, k) <=> k = h + 1 \/ Has(j, k) BY <1>2, <2>1, NextBit
  <2>3. ~Has(j, h + 1)
    <3>1. h + 1 \in h + 1 .. 17 BY <1>2
    <3> QED BY <1>2, <3>1, NoBitAbove
  <2>4. d[k] \in Int BY <1>3
  <2> QED BY <1>4, <1>5, <1>6, <2>2, <2>3, <2>4
<1>8. Total(u) = Total(s) + Total(v) BY <1>1, <1>4, <1>5, <1>6, <1>7, SumOfBoth
<1>9. Total(s) = d[h + 1]
  <2>1. Total(s) = s[h + 1] BY <1>1, <1>2, <1>6, SumOfOne
  <2> QED BY <1>2, <1>6, <2>1
<1> QED BY <1>8, <1>9 DEF d, u, v

LEMMA RisesAreNumbers ==
  ASSUME NEW t, NEW n, ClutOf(t, n), NEW j
  PROVE  Total(Rises(t, j)) \in Int
<1>1. n \in Nat /\ n \in 0 .. n BY ClutSizes
<1> DEFINE s == Rises(t, j)
<1>2. s \in [1 .. n -> Int] BY RisesAre
<1> HIDE DEF s
<1>3. Sums(s) \in [0 .. n -> Int] /\ Total(s) = Sums(s)[n] BY <1>1, <1>2, SumsAre
<1>4. Total(s) \in Int BY <1>1, <1>3
<1> QED BY <1>4 DEF s

(* Begin's offsets, each made of an earlier one, are what the bits add. *)
LEMMA Offsets ==
  ASSUME NEW t, NEW n, ClutOf(t, n)
  PROVE  /\ Corners(t) = 0 .. TwoTo[n] - 1
         /\ \A j \in 0 .. TwoTo[n] - 1 : Offset(t)[j] = Total(Rises(t, j))
<1>1. n \in Nat /\ n \in 1 .. 16 /\ Inputs(t) = n /\ n \in 0 .. 16 BY ClutSizes
<1>2. Corners(t) = 0 .. TwoTo[n] - 1 BY <1>1 DEF Corners
<1>3. TwoTo[n] \in Nat \ {0}
  <2>1. n \in 0 .. 17 BY <1>1
  <2> QED BY <2>1, Powers
<1> DEFINE O(f) == f = [j \in Corners(t) |->
                         IF j = 0 THEN 0
                         ELSE DimSize(t)[HighestBit(j) + 1] + f[j - TwoTo[HighestBit(j)]]]
           c == [j \in Corners(t) |-> Total(Rises(t, j))]
           f == Offset(t)
<1>4. ASSUME NEW j \in Corners(t), j # 0
      PROVE  /\ j - TwoTo[HighestBit(j)] \in 0 .. j - 1 /\ j - TwoTo[HighestBit(j)] \in Corners(t)
             /\ Total(Rises(t, j)) = DimSize(t)[HighestBit(j) + 1]
                                       + Total(Rises(t, j - TwoTo[HighestBit(j)]))
  <2> DEFINE h == HighestBit(j)
             i == j - TwoTo[h]
  <2>1. j \in 1 .. TwoTo[n] - 1 BY <1>2, <1>3, <1>4
  <2>2. h \in 0 .. n - 1 /\ i \in 0 .. TwoTo[h] - 1 /\ TwoTo[h] \in Nat \ {0} BY <1>1, <2>1, Highest
  <2> HIDE DEF h
  <2>3. j = TwoTo[h] + i /\ i \in 0 .. j - 1 BY <2>1, <2>2
  <2>4. i \in 0 .. TwoTo[n] - 1 BY <1>3, <2>1, <2>3
  <2> HIDE DEF i
  <2>5. Total(Rises(t, TwoTo[h] + i)) = DimSize(t)[h + 1] + Total(Rises(t, i)) BY <2>2, RisesMore
  <2> QED BY <1>2, <2>3, <2>4, <2>5 DEF h, i
<1>5. O(c)
  <2>1. ASSUME NEW j \in Corners(t), j # 0
        PROVE c[j] = DimSize(t)[HighestBit(j) + 1] + c[j - TwoTo[HighestBit(j)]]
    <3> DEFINE i == j - TwoTo[HighestBit(j)]
    <3>1. i \in Corners(t) /\ c[j] = DimSize(t)[HighestBit(j) + 1] + Total(Rises(t, i)) BY <1>4, <2>1
    <3> HIDE DEF i
    <3>2. c[i] = Total(Rises(t, i)) BY <3>1
    <3> HIDE DEF c
    <3>3. c[j] = DimSize(t)[HighestBit(j) + 1] + c[i] BY <3>1, <3>2
    <3> QED BY <3>3 DEF i
  <2>2. c[0] = 0
    <3>1. 0 \in Corners(t) BY <1>2, <1>3
    <3> QED BY <3>1, NothingRises
  <2>3. c = [j \in Corners(t) |-> c[j]] OBVIOUS
  <2> HIDE DEF c
  <2>4. \A j \in Corners(t) : c[j] = IF j = 0 THEN 0
           ELSE DimSize(t)[HighestBit(j) + 1] + c[j - TwoTo[HighestBit(j)]] BY <2>1, <2>2
  <2> QED BY <2>3, <2>4
<1>6. \A j \in Corners(t) : c[j] = Total(Rises(t, j)) OBVIOUS
<1> HIDE DEF c
<1>7. O(f) BY <1>5, Zenon DEF Offset
<1>8. \A j \in Corners(t) : f[j] = IF j = 0 THEN 0
        ELSE DimSize(t)[HighestBit(j) + 1] + f[j - TwoTo[HighestBit(j)]] BY <1>7
<1> HIDE DEF f, O
<1> DEFINE S == {m \in 0 .. TwoTo[n] - 1 : \A j \in 0 .. m : f[j] = Total(Rises(t, j))}
<1>9. 0 \in S
  <2>1. 0 \in Corners(t) /\ 0 \in 0 .. TwoTo[n] - 1 BY <1>2, <1>3
  <2>2. f[0] = 0 BY <1>8, <2>1
  <2>3. Total(Rises(t, 0)) = 0 BY NothingRises
  <2>4. \A j \in 0 .. 0 : j = 0 OBVIOUS
  <2> QED BY <2>1, <2>2, <2>3, <2>4
<1>10. ASSUME NEW m \in 0 .. TwoTo[n] - 1 - 1, m \in S PROVE m + 1 \in S
  <2> DEFINE j == m + 1
             i == j - TwoTo[HighestBit(j)]
  <2>1. j \in 0 .. TwoTo[n] - 1 /\ j # 0 /\ j \in Nat BY <1>3
  <2>2. j \in Corners(t) BY <1>2, <2>1
  <2> HIDE DEF j
  <2>3. i \in 0 .. j - 1 BY <1>4, <2>1, <2>2
  <2>4. Total(Rises(t, j)) = DimSize(t)[HighestBit(j) + 1] + Total(Rises(t, i)) BY <1>4, <2>1, <2>2
  <2>5. f[j] = DimSize(t)[HighestBit(j) + 1] + f[i] BY <1>8, <2>1, <2>2
  <2> HIDE DEF i
  <2>6. \A l \in 0 .. m : f[l] = Total(Rises(t, l)) BY <1>10
  <2>7. i \in 0 .. m BY <2>3 DEF j
  <2>8. f[j] = Total(Rises(t, j)) BY <2>4, <2>5, <2>6, <2>7
  <2>9. \A l \in 0 .. m + 1 : l \in 0 .. m \/ l = m + 1 OBVIOUS
  <2>10. \A l \in 0 .. m + 1 : f[l] = Total(Rises(t, l)) BY <2>6, <2>8, <2>9 DEF j
  <2>11. m + 1 \in 0 .. TwoTo[n] - 1 BY <2>1 DEF j
  <2> QED BY <2>10, <2>11
<1> HIDE DEF S
<1>11. ASSUME NEW j \in 0 .. TwoTo[n] - 1 PROVE f[j] = Total(Rises(t, j))
  <2>1. TwoTo[n] - 1 \in Nat /\ j \in 0 .. j BY <1>3
  <2>2. j \in S BY <1>9, <1>10, <2>1, UpTo
  <2> QED BY <2>1, <2>2 DEF S
<1> QED BY <1>2, <1>11 DEF f
-----------------------------------------------------------------------------
(* The corners of a cell: one step up along the inputs whose bits they have. *)
CornerAt(cs, j) == [k \in DOMAIN cs |-> IF Has(j, k) THEN cs[k].at + 1 ELSE cs[k].at]
InGrid(t, n, cs) ==
  /\ DOMAIN cs = 1 .. n
  /\ \A k \in 1 .. n : cs[k].at \in 0 .. MaxGridPoint(t, k) - 1 /\ cs[k].part \in 0 .. Unit

LEMMA CornersOnGrid ==
  ASSUME NEW t, NEW n, ClutOf(t, n), NEW cs, InGrid(t, n, cs), NEW j
  PROVE  OnGrid(t, n, CornerAt(cs, j))
<1>1. n \in Nat /\ GridOf(t, n) BY ClutSizes
<1>2. \A k \in 1 .. n : t.grid[k] \in Nat BY <1>1, InputsAre
<1>3. \A k \in 1 .. n : cs[k].at \in 0 .. t.grid[k] - 1 - 1 BY DEF InGrid, MaxGridPoint
<1>4. \A k \in 1 .. n : CornerAt(cs, j)[k] = IF Has(j, k) THEN cs[k].at + 1 ELSE cs[k].at
  BY DEF InGrid, CornerAt
<1> QED BY <1>2, <1>3, <1>4 DEF OnGrid

Firsts(t, cs) == [k \in 1 .. Inputs(t) |-> cs[k].at * DimSize(t)[k]]

LEMMA FirstIs ==
  ASSUME NEW t, NEW n, ClutOf(t, n), NEW cs, InGrid(t, n, cs)
  PROVE  /\ Firsts(t, cs) \in [1 .. n -> Int]
         /\ \A k \in 1 .. n : Firsts(t, cs)[k] = cs[k].at * DimSize(t)[k]
         /\ FirstCorner(t, cs) = Total(Firsts(t, cs))
         /\ FirstCorner(t, cs) \in Int
<1> DEFINE s == Firsts(t, cs)
<1>1. Inputs(t) = n /\ n \in Nat /\ n \in 0 .. n BY ClutSizes
<1>2. ASSUME NEW k \in 1 .. n PROVE cs[k].at * DimSize(t)[k] \in Int
  <2>1. DimSize(t)[k] \in Nat BY ClutSizes
  <2>2. cs[k].at \in Int BY DEF InGrid
  <2> QED BY <2>1, <2>2
<1>3. s \in [1 .. n -> Int] BY <1>1, <1>2 DEF Firsts
<1>4. \A k \in 1 .. n : s[k] = cs[k].at * DimSize(t)[k] BY <1>1 DEF Firsts
<1>5. FirstCorner(t, cs) = Total(s) BY DEF FirstCorner, Firsts
<1> HIDE DEF s
<1>6. Sums(s) \in [0 .. n -> Int] /\ Total(s) = Sums(s)[n] BY <1>1, <1>3, SumsAre
<1>7. FirstCorner(t, cs) \in Int BY <1>1, <1>5, <1>6
<1> QED BY <1>3, <1>4, <1>5, <1>7 DEF s

(* What is read for a corner is the node there. *)
LEMMA CornersAreNodes ==
  ASSUME NEW t, NEW n, ClutOf(t, n), NEW cs, InGrid(t, n, cs), NEW j \in 0 .. TwoTo[n] - 1
  PROVE  FirstCorner(t, cs) + Offset(t)[j] = t.out * NodeAt(t, CornerAt(cs, j))
<1> DEFINE y == CornerAt(cs, j)
           d == DimSize(t)
           s == Firsts(t, cs)
           r == Rises(t, j)
           z == Shares(t, y)
           u == [k \in 1 .. n |-> s[k] + r[k]]
<1>1. n \in Nat /\ GridOf(t, n) /\ Inputs(t) = n /\ t.out \in Nat BY ClutSizes
<1>2. \A k \in 1 .. n : Stride(t, k) \in Nat BY ClutSizes
<1>3. \A k \in 1 .. n : d[k] = t.out * Stride(t, k) BY ClutSizes
<1>4. s \in [1 .. n -> Int] /\ \A k \in 1 .. n : s[k] = cs[k].at * d[k] BY FirstIs
<1>5. r \in [1 .. n -> Int] /\ \A k \in 1 .. n : r[k] = IF Has(j, k) THEN d[k] ELSE 0 BY RisesAre
<1>6. \A k \in 1 .. n : cs[k].at \in Int BY DEF InGrid
<1>7. \A k \in 1 .. n : y[k] = IF Has(j, k) THEN cs[k].at + 1 ELSE cs[k].at BY DEF InGrid, CornerAt
<1>8. FirstCorner(t, cs) = Total(s) BY FirstIs
<1>9. Offset(t)[j] = Total(r) BY Offsets
<1>10. NodeAt(t, y) = Total(z) BY DEF NodeAt
<1>11. z = [k \in 1 .. n |-> y[k] * Stride(t, k)] BY <1>1 DEF Shares
<1> HIDE DEF y, d, s, r, z
<1>12. u \in [1 .. n -> Int] /\ \A k \in 1 .. n : u[k] = s[k] + r[k] BY <1>4, <1>5
<1> HIDE DEF u
<1>13. \A k \in 1 .. n : y[k] \in Int BY <1>6, <1>7
<1>14. z \in [1 .. n -> Int] /\ \A k \in 1 .. n : z[k] = y[k] * Stride(t, k) BY <1>2, <1>11, <1>13
<1>15. ASSUME NEW k \in 1 .. n PROVE u[k] = t.out * z[k]
  <2> DEFINE a == cs[k].at
             b == Stride(t, k)
             o == t.out
  <2>1. a \in Int /\ b \in Nat /\ o \in Nat BY <1>1, <1>2, <1>6
  <2>2. u[k] = a * (o * b) + IF Has(j, k) THEN o * b ELSE 0 BY <1>3, <1>4, <1>5, <1>12
  <2>3. z[k] = (IF Has(j, k) THEN a + 1 ELSE a) * b BY <1>7, <1>14
  <2> HIDE DEF a, b, o
  <2>4. a * (o * b) + o * b = o * ((a + 1) * b) /\ a * (o * b) + 0 = o * (a * b)
    <3>1. (a + 1) * b = a * b + b BY <2>1
    <3>2. o * (a * b + b) = o * (a * b) + o * b BY <2>1
    <3>3. o * (a * b) = a * (o * b) BY <2>1
    <3>4. a * (o * b) \in Int BY <2>1
    <3> QED BY <3>1, <3>2, <3>3, <3>4
  <2>5. u[k] = o * z[k] BY <2>2, <2>3, <2>4
  <2> QED BY <2>5 DEF o
<1>16. Total(u) = Total(s) + Total(r) BY <1>1, <1>4, <1>5, <1>12, SumOfBoth
<1>17. Total(u) = t.out * Total(z)
  <2> DEFINE o == t.out
  <2>1. o \in Int BY <1>1
  <2>2. \A k \in 1 .. n : u[k] = o * z[k] BY <1>15
  <2> HIDE DEF o
  <2>3. u \in [1 .. n -> Int] /\ z \in [1 .. n -> Int] BY <1>12, <1>14
  <2>4. Total(u) = o * Total(z) BY <1>1, <2>1, <2>2, <2>3, SumOfMultiples
  <2> QED BY <2>4 DEF o
<1> QED BY <1>8, <1>9, <1>10, <1>16, <1>17 DEF y

(* An entry at a node has its numbers in the table. *)
LEMMA NodesInside ==
  ASSUME NEW t, NEW n, ClutOf(t, n), t.form = "clut", NEW entries,
         \A e \in entries : \E i \in 0 .. NumPoints(t) - 1 : e[1] = t.out * i
  PROVE  Reads(t, entries) \subseteq NumbersOf(t)
<1>1. t.out \in Nat /\ t.out > 0 BY ClutSizes
<1>2. NumPoints(t) \in Nat
  <2>1. n \in Nat /\ GridOf(t, n) /\ 0 \in 0 .. n BY ClutSizes
  <2>2. Stride(t, 0) = NumPoints(t) /\ Stride(t, 0) \in Nat BY <2>1, Strides
  <2> QED BY <2>2
<1>3. ASSUME NEW e \in entries, NEW o \in 0 .. t.out - 1
      PROVE  e[1] + o \in 0 .. NumPoints(t) * t.out - 1
  <2>1. PICK i \in 0 .. NumPoints(t) - 1 : e[1] = t.out * i BY <1>3
  <2> DEFINE m == NumPoints(t)
             w == t.out
  <2>2. m \in Nat /\ w \in Nat /\ w > 0 /\ i \in 0 .. m - 1 /\ o \in 0 .. w - 1 BY <1>1, <1>2
  <2>3. e[1] = w * i BY <2>1
  <2> HIDE DEF m, w
  <2>4. i * w <= (m - 1) * w /\ i * w \in Nat
    <3>1. i \in Nat /\ m - 1 \in Nat /\ i <= m - 1 BY <2>2
    <3> QED BY <2>2, <3>1, Products, MonotonicProduct
  <2>5. (m - 1) * w = m * w - w /\ w * i = i * w /\ m * w \in Int BY <2>2
  <2>6. e[1] + o \in 0 .. m * w - 1 BY <2>2, <2>3, <2>4, <2>5
  <2> QED BY <2>6 DEF m, w
<1>4. NumbersOf(t) = 0 .. NumPoints(t) * t.out - 1 BY DEF NumbersOf
<1> QED BY <1>3, <1>4 DEF Reads

(* The nodes a lookup reads. *)
LEMMA CornersInside ==
  ASSUME NEW t, NEW n, ClutOf(t, n), NEW cs, InGrid(t, n, cs), NEW j \in 0 .. TwoTo[n] - 1
  PROVE  /\ NodeAt(t, CornerAt(cs, j)) \in 0 .. NumPoints(t) - 1
         /\ FirstCorner(t, cs) + Offset(t)[j] = t.out * NodeAt(t, CornerAt(cs, j))
<1>1. n \in Nat /\ GridOf(t, n) BY ClutSizes
<1>2. OnGrid(t, n, CornerAt(cs, j)) BY CornersOnGrid
<1>3. NodeAt(t, CornerAt(cs, j)) \in 0 .. NumPoints(t) - 1 BY <1>1, <1>2, NodeInTable
<1> QED BY <1>3, CornersAreNodes

(* Interp2d never has to keep a cell back. *)
LEMMA NotKeptBack ==
  ASSUME NEW t, ClutOf(t, 2), NEW cs, InGrid(t, 2, cs)
  PROVE  FirstCorner2d(t, cs) = FirstCorner(t, cs)
<1> DEFINE f == FirstCorner(t, cs)
           o == Offset(t)[3]
           m == NumPoints(t)
           w == t.out
           i == NodeAt(t, CornerAt(cs, 3))
<1>1. 3 \in 0 .. TwoTo[2] - 1
  <2>1. TwoTo[1] = 2 * TwoTo[0] /\ TwoTo[2] = 2 * TwoTo[1]
    <3>1. 0 \in 0 .. 16 /\ 1 \in 0 .. 16 /\ 0 + 1 = 1 /\ 1 + 1 = 2 OBVIOUS
    <3> QED BY <3>1, PowerAfter
  <2> QED BY <2>1, Powers
<1>2. i \in 0 .. m - 1 /\ f + o = w * i BY <1>1, CornersInside
<1>3. w \in Nat /\ w > 0 BY ClutSizes
<1>4. m \in Nat
  <2>1. 2 \in Nat /\ GridOf(t, 2) /\ 0 \in 0 .. 2 BY ClutSizes
  <2>2. Stride(t, 0) = NumPoints(t) /\ Stride(t, 0) \in Nat BY <2>1, Strides
  <2> QED BY <2>2
<1>5. f \in Int /\ o \in Int
  <2>4. f \in Int BY FirstIs
  <2>5. o = Total(Rises(t, 3)) BY <1>1, Offsets
  <2>6. Total(Rises(t, 3)) \in Int BY RisesAreNumbers
  <2> QED BY <2>4, <2>5, <2>6
<1>6. FirstCorner2d(t, cs) = Smaller(f, m * w - (w + o)) BY DEF FirstCorner2d
<1> HIDE DEF f, o, m, w, i
<1>7. w * i <= m * w - w
  <2>1. i \in Nat /\ m - 1 \in Nat /\ i <= m - 1 BY <1>2, <1>4
  <2>2. i * w <= (m - 1) * w BY <1>3, <2>1, MonotonicProduct
  <2>3. i * w = w * i /\ (m - 1) * w = m * w - w BY <1>3, <1>4, <2>1
  <2> QED BY <2>2, <2>3
<1>8. w * i \in Int /\ m * w \in Int BY <1>2, <1>3, <1>4
<1>9. f <= m * w - (w + o) BY <1>2, <1>3, <1>5, <1>7, <1>8
<1>10. m * w - (w + o) \in Int BY <1>3, <1>5, <1>8
<1> QED BY <1>5, <1>6, <1>9, <1>10 DEF Smaller, f
-----------------------------------------------------------------------------
ClipKinds == {"unit", "none", "as is"}

LEMMA ClippedIsNumber ==
  ASSUME NEW t, t.clip \in ClipKinds, NEW v \in Int
  PROVE  UnitClip(t, v) \in Int
<1>1. Unit \in Nat BY UnitAssumption
<1>2. ClutUnitClip(v) \in Int BY <1>1 DEF ClutUnitClip, Within, Larger, Smaller
<1>3. NoClip(v) \in Int BY <1>1 DEF NoClip
<1> QED BY <1>2, <1>3 DEF UnitClip, ClipKinds

LEMMA AlongInside ==
  ASSUME NEW t, NEW n \in Nat, GridOf(t, n), t.clip \in ClipKinds, NEW v \in Int, NEW k \in 1 .. n
  PROVE  /\ MaxGridPoint(t, k) \in Nat /\ MaxGridPoint(t, k) > 0
         /\ Along(t, k, v) \in {NoNumber} \cup 0 .. MaxGridPoint(t, k) * Unit
<1> DEFINE m == MaxGridPoint(t, k)
           x == UnitClip(t, v)
<1>1. m \in Nat /\ m > 0
  <2>1. t.grid[k] \in Nat \ {0, 1} BY InputsAre
  <2> QED BY <2>1 DEF MaxGridPoint
<1>2. x \in Int BY ClippedIsNumber
<1>3. Scaled(t, k, v) = Larger(0, x * m) BY DEF Scaled
<1>4. Along(t, k, v) = IF x = NaN THEN NoNumber ELSE Smaller(Scaled(t, k, v), m * Unit) BY DEF Along
<1>5. Unit \in Nat BY UnitAssumption
<1> HIDE DEF m, x
<1>6. x * m \in Int /\ m * Unit \in Nat BY <1>1, <1>2, <1>5, Products
<1>7. Larger(0, x * m) \in Nat
  <2> DEFINE a == x * m
  <2>1. a \in Int BY <1>6
  <2> HIDE DEF a
  <2>2. Larger(0, a) \in Nat BY <2>1 DEF Larger
  <2> QED BY <2>2 DEF a
<1>8. Smaller(Scaled(t, k, v), m * Unit) \in 0 .. m * Unit
  <2> DEFINE a == Scaled(t, k, v)
             b == m * Unit
  <2>1. a \in Nat /\ b \in Nat BY <1>3, <1>6, <1>7
  <2> HIDE DEF a, b
  <2>2. Smaller(a, b) \in 0 .. b BY <2>1 DEF Smaller
  <2> QED BY <2>2 DEF a, b
<1>9. Along(t, k, v) \in {NoNumber} \cup 0 .. m * Unit BY <1>4, <1>8
<1> QED BY <1>1, <1>9 DEF m

LEMMA AlongFirst ==
  ASSUME NEW t, NEW n \in Nat, GridOf(t, n), n > 1, t.clip \in ClipKinds, NEW v \in Int,
         t.grid[1] = t.grid[2]
  PROVE  AlongFirstOf4(t, v) = Along(t, 1, v)
<1> DEFINE m == MaxGridPoint(t, 1) * Unit
           a == Scaled(t, 1, v)
<1>1. m = MaxGridPoint(t, 2) * Unit BY DEF MaxGridPoint
<1>2. MaxGridPoint(t, 1) \in Nat
  <2>1. 1 \in 1 .. n OBVIOUS
  <2>2. t.grid[1] \in Nat \ {0, 1} BY <2>1, InputsAre
  <2> QED BY <2>2 DEF MaxGridPoint
<1>3. m \in Int BY <1>2, UnitAssumption
<1>4. UnitClip(t, v) * MaxGridPoint(t, 1) \in Int BY <1>2, ClippedIsNumber
<1>5. a \in Int BY <1>4 DEF Scaled, Larger
<1>6. AlongFirstOf4(t, v) = IF UnitClip(t, v) = NaN THEN NoNumber ELSE IF a > m THEN m ELSE a
  BY <1>1 DEF AlongFirstOf4
<1>7. Along(t, 1, v) = IF UnitClip(t, v) = NaN THEN NoNumber ELSE Smaller(a, m) BY DEF Along
<1> HIDE DEF a, m
<1>8. Smaller(a, m) = IF a > m THEN m ELSE a BY <1>3, <1>5 DEF Smaller
<1> QED BY <1>6, <1>7, <1>8

(* The cell of every source is one of the table.                             *)
SameFirst(t, method) == method = "4d" => Inputs(t) > 1 /\ t.grid[1] = t.grid[2]

LEMMA CellAt ==
  ASSUME NEW t, NEW n, ClutOf(t, n), t.clip \in ClipKinds, NEW src \in [1 .. n -> Int],
         NEW method, SameFirst(t, method), NEW k \in 1 .. n
  PROVE  Cells(t, src, method)[k] = Cell(Along(t, k, src[k]), MaxGridPoint(t, k), Unit)
<1>1. n \in Nat /\ GridOf(t, n) /\ Inputs(t) = n BY ClutSizes
<1>2. (IF method = "4d" /\ k = 1 THEN AlongFirstOf4(t, src[k]) ELSE Along(t, k, src[k]))
        = Along(t, k, src[k])
  <2>1. CASE method = "4d" /\ k = 1
    <3>1. n > 1 /\ t.grid[1] = t.grid[2] /\ src[1] \in Int BY <1>1, <2>1 DEF SameFirst
    <3>2. AlongFirstOf4(t, src[1]) = Along(t, 1, src[1]) BY <1>1, <3>1, AlongFirst
    <3> QED BY <2>1, <3>2
  <2>2. CASE ~(method = "4d" /\ k = 1) BY <2>2
  <2> QED BY <2>1, <2>2
<1> QED BY <1>1, <1>2 DEF Cells

LEMMA CellsInGrid ==
  ASSUME NEW t, NEW n, ClutOf(t, n), t.clip \in ClipKinds, NEW src \in [1 .. n -> Int],
         NEW method, SameFirst(t, method)
  PROVE  InGrid(t, n, Cells(t, src, method))
<1>1. n \in Nat /\ GridOf(t, n) BY ClutSizes
<1>2. Unit \in Nat /\ Unit > 0 BY UnitAssumption
<1>3. ASSUME NEW k \in 1 .. n
      PROVE  /\ Cells(t, src, method)[k].at \in 0 .. MaxGridPoint(t, k) - 1
             /\ Cells(t, src, method)[k].part \in 0 .. Unit
  <2> DEFINE m == MaxGridPoint(t, k)
             x == Along(t, k, src[k])
  <2>1. m \in Nat /\ m > 0 /\ x \in {NoNumber} \cup 0 .. m * Unit BY <1>1, AlongInside
  <2>2. Cells(t, src, method)[k] = Cell(x, m, Unit) BY CellAt
  <2> HIDE DEF m, x
  <2>3. Cell(x, m, Unit).at \in 0 .. m - 1 /\ Cell(x, m, Unit).part \in 0 .. Unit
    BY <1>2, <2>1, CellInTable
  <2> QED BY <2>2, <2>3 DEF m
<1>4. DOMAIN Cells(t, src, method) = 1 .. n
  <2>1. Inputs(t) = n BY ClutSizes
  <2> QED BY <2>1 DEF Cells
<1> QED BY <1>3, <1>4 DEF InGrid
-----------------------------------------------------------------------------
(* Tetrahedra. *)
LEMMA FirstPowers ==
  TwoTo[0] = 1 /\ TwoTo[1] = 2 /\ TwoTo[2] = 4 /\ TwoTo[3] = 8
<1>1. TwoTo[1] = 2 * TwoTo[0] /\ TwoTo[2] = 2 * TwoTo[1] /\ TwoTo[3] = 2 * TwoTo[2]
  <2>1. 0 \in 0 .. 16 /\ 1 \in 0 .. 16 /\ 2 \in 0 .. 16 /\ 0 + 1 = 1 /\ 1 + 1 = 2 /\ 2 + 1 = 3 OBVIOUS
  <2> QED BY <2>1, PowerAfter
<1> QED BY <1>1, Powers

LEMMA BitsOfThree ==
  ASSUME NEW j \in 0 .. 7
  PROVE  /\ Has(j, 1) <=> j \in {1, 3, 5, 7}
         /\ Has(j, 2) <=> j \in {2, 3, 6, 7}
         /\ Has(j, 3) <=> j \in {4, 5, 6, 7}
<1>1. 1 - 1 = 0 /\ 2 - 1 = 1 /\ 3 - 1 = 2 OBVIOUS
<1>2. Has(j, 1) <=> (j \div 1) % 2 = 1 BY <1>1, FirstPowers DEF Has
<1>3. Has(j, 2) <=> (j \div 2) % 2 = 1 BY <1>1, FirstPowers DEF Has
<1>4. Has(j, 3) <=> (j \div 4) % 2 = 1 BY <1>1, FirstPowers DEF Has
<1>5. (j \div 1) % 2 = 1 <=> j \in {1, 3, 5, 7} OBVIOUS
<1>6. (j \div 2) % 2 = 1 <=> j \in {2, 3, 6, 7} OBVIOUS
<1>7. (j \div 4) % 2 = 1 <=> j \in {4, 5, 6, 7} OBVIOUS
<1> QED BY <1>2, <1>3, <1>4, <1>5, <1>6, <1>7

LEMMA ShortTotals ==
  ASSUME NEW i \in 0 .. 3, NEW s \in [1 .. i -> Int]
  PROVE  /\ i = 0 => Total(s) = 0
         /\ i = 1 => Total(s) = s[1]
         /\ i = 2 => Total(s) = s[1] + s[2]
         /\ i = 3 => Total(s) = s[1] + s[2] + s[3]
<1> DEFINE p == Sums(s)
<1>1. i \in Nat OBVIOUS
<1>2. p[0] = 0 /\ (\A k \in 1 .. i : p[k] = p[k - 1] + s[k]) /\ Total(s) = p[i] BY <1>1, SumsAre
<1>3. \A k \in 1 .. i : s[k] \in Int OBVIOUS
<1> HIDE DEF p
<1>4. CASE i = 0 BY <1>2, <1>4
<1>5. CASE i = 1
  <2>1. 1 \in 1 .. i /\ 1 - 1 = 0 BY <1>5
  <2>2. p[1] = p[0] + s[1] /\ s[1] \in Int BY <1>2, <1>3, <2>1
  <2> QED BY <1>2, <1>5, <2>2
<1>6. CASE i = 2
  <2>1. 1 \in 1 .. i /\ 1 - 1 = 0 /\ 2 \in 1 .. i /\ 2 - 1 = 1 BY <1>6
  <2>2. p[1] = p[0] + s[1] /\ s[1] \in Int /\ p[2] = p[1] + s[2] BY <1>2, <1>3, <2>1
  <2> QED BY <1>2, <1>6, <2>2
<1>7. CASE i = 3
  <2>1. 1 \in 1 .. i /\ 1 - 1 = 0 /\ 2 \in 1 .. i /\ 2 - 1 = 1 /\ 3 \in 1 .. i /\ 3 - 1 = 2 BY <1>7
  <2>2. p[1] = p[0] + s[1] /\ s[1] \in Int /\ p[2] = p[1] + s[2] /\ p[3] = p[2] + s[3] BY <1>2, <1>3, <2>1
  <2> QED BY <1>2, <1>7, <2>2
<1> QED BY <1>4, <1>5, <1>6, <1>7

(* The corners on the way are up along the inputs passed so far. *)
PathCorner(path, i) == Total([n \in 1 .. i |-> TwoTo[path[n] - 1]])
Paths == {<<2, 3, 1>>, <<1, 2, 3>>, <<2, 1, 3>>, <<1, 3, 2>>, <<3, 1, 2>>, <<3, 2, 1>>}

LEMMA PathsPass ==
  ASSUME NEW path \in Paths, NEW i \in 0 .. 3
  PROVE  /\ PathCorner(path, i) \in 0 .. 7
         /\ \A k \in 1 .. 3 : Has(PathCorner(path, i), k) <=> \E m \in 1 .. i : path[m] = k
<1> DEFINE s == [n \in 1 .. i |-> TwoTo[path[n] - 1]]
           c == PathCorner(path, i)
<1>1. \A n \in 1 .. 3 : path[n] \in 1 .. 3 BY DEF Paths
<1>2. ASSUME NEW n \in 1 .. 3
      PROVE  TwoTo[path[n] - 1] = IF path[n] = 1 THEN 1 ELSE IF path[n] = 2 THEN 2 ELSE 4
  <2>1. 1 - 1 = 0 /\ 2 - 1 = 1 /\ 3 - 1 = 2 OBVIOUS
  <2>2. path[n] \in 1 .. 3 BY <1>1
  <2>3. path[n] = 1 \/ path[n] = 2 \/ path[n] = 3 BY <2>2
  <2> QED BY <2>1, <2>3, FirstPowers
<1>3. s \in [1 .. i -> Int] /\ \A n \in 1 .. i : s[n] = TwoTo[path[n] - 1]
  <2>1. \A n \in 1 .. i : n \in 1 .. 3 OBVIOUS
  <2>2. \A n \in 1 .. 3 : TwoTo[path[n] - 1] \in Int BY <1>1, <1>2
  <2> QED BY <2>1, <2>2
<1>4. c = Total(s) BY DEF PathCorner
<1> HIDE DEF s, c
<1>5. /\ i = 0 => Total(s) = 0
      /\ i = 1 => Total(s) = s[1]
      /\ i = 2 => Total(s) = s[1] + s[2]
      /\ i = 3 => Total(s) = s[1] + s[2] + s[3] BY <1>3, ShortTotals
<1> DEFINE u(n) == IF path[n] = 1 THEN 1 ELSE IF path[n] = 2 THEN 2 ELSE 4
<1>6. /\ i = 0 => c = 0
      /\ i = 1 => c = u(1)
      /\ i = 2 => c = u(1) + u(2)
      /\ i = 3 => c = u(1) + u(2) + u(3)
  <2>1. \A n \in 1 .. i : n \in 1 .. 3 OBVIOUS
  <2>2. \A n \in 1 .. i : s[n] = u(n) BY <1>2, <1>3, <2>1
  <2> HIDE DEF u
  <2>3. i = 1 => s[1] = u(1) BY <2>2
  <2>4. i = 2 => s[1] = u(1) /\ s[2] = u(2) BY <2>2
  <2>5. i = 3 => s[1] = u(1) /\ s[2] = u(2) /\ s[3] = u(3) BY <2>2
  <2> QED BY <1>4, <1>5, <2>3, <2>4, <2>5
<1>7. i = 0 \/ i = 1 \/ i = 2 \/ i = 3 OBVIOUS
<1>8. c \in 0 .. 7 BY <1>6, <1>7 DEF Paths
<1>9. /\ Has(c, 1) <=> c \in {1, 3, 5, 7}
      /\ Has(c, 2) <=> c \in {2, 3, 6, 7}
      /\ Has(c, 3) <=> c \in {4, 5, 6, 7} BY <1>8, BitsOfThree
<1>10. ASSUME NEW k \in 1 .. 3 PROVE Has(c, k) <=> \E m \in 1 .. i : path[m] = k
  <2>1. k = 1 \/ k = 2 \/ k = 3 OBVIOUS
  <2>2. CASE i = 0
    <3>1. c = 0 BY <1>6, <2>2
    <3> QED BY <1>9, <2>1, <2>2, <3>1
  <2>3. CASE i = 1
    <3>1. c = u(1) BY <1>6, <2>3
    <3>2. (\E m \in 1 .. i : path[m] = k) <=> path[1] = k BY <2>3
    <3> QED BY <1>9, <2>1, <3>1, <3>2 DEF Paths
  <2>4. CASE i = 2
    <3>1. c = u(1) + u(2) BY <1>6, <2>4
    <3>2. (\E m \in 1 .. i : path[m] = k) <=> path[1] = k \/ path[2] = k BY <2>4
    <3> QED BY <1>9, <2>1, <3>1, <3>2 DEF Paths
  <2>5. CASE i = 3
    <3>1. c = u(1) + u(2) + u(3) BY <1>6, <2>5
    <3>2. (\E m \in 1 .. i : path[m] = k) <=> path[1] = k \/ path[2] = k \/ path[3] = k BY <2>5
    <3> QED BY <1>9, <2>1, <3>1, <3>2 DEF Paths
  <2> QED BY <1>7, <2>2, <2>3, <2>4, <2>5
<1> QED BY <1>8, <1>10 DEF c
-----------------------------------------------------------------------------
(* A method that serves tables of so many inputs.                            *)
ServedBy(t, n, method) ==
  /\ SameFirst(t, method)
  /\ method = "2d" => n = 2
  /\ method = "tetra" => n = 3

Read(t, cs, j) == t.out * NodeAt(t, CornerAt(cs, j))

LEMMA LinearReads ==
  ASSUME NEW t, NEW n, ClutOf(t, n), t.clip \in ClipKinds, NEW src \in [1 .. n -> Int],
         NEW method, ServedBy(t, n, method)
  PROVE  LET cs == Cells(t, src, method)
         IN InterpLinear(t, src, method)
              = {<<Read(t, cs, j), CornerWeight(cs, j)>> : j \in 0 .. TwoTo[n] - 1}
<1> DEFINE cs == Cells(t, src, method)
           first == IF method = "2d" THEN FirstCorner2d(t, cs) ELSE FirstCorner(t, cs)
           w(j) == CornerWeight(cs, j)
<1>1. InGrid(t, n, cs) BY CellsInGrid DEF ServedBy
<1>2. InterpLinear(t, src, method) = {<<first + Offset(t)[j], w(j)>> : j \in Corners(t)} BY DEF InterpLinear
<1>3. Corners(t) = 0 .. TwoTo[n] - 1 BY Offsets
<1> HIDE DEF cs, w
<1>4. first = FirstCorner(t, cs)
  <2>1. CASE method = "2d"
    <3>1. ClutOf(t, 2) /\ InGrid(t, 2, cs) BY <1>1, <2>1 DEF ServedBy
    <3> QED BY <2>1, <3>1, NotKeptBack
  <2>2. CASE method # "2d" BY <2>2
  <2> QED BY <2>1, <2>2
<1> HIDE DEF first
<1>5. \A j \in 0 .. TwoTo[n] - 1 : first + Offset(t)[j] = Read(t, cs, j)
  BY <1>1, <1>4, CornersInside DEF Read
<1>6. InterpLinear(t, src, method) = {<<Read(t, cs, j), w(j)>> : j \in 0 .. TwoTo[n] - 1}
  BY <1>2, <1>3, <1>5
<1> QED BY <1>6 DEF cs, w

(* The tetrahedron's way, for the parts of three cells. *)
PathOf(cs) == TetraPath(cs[1].part, cs[2].part, cs[3].part)
LeftAt(cs, i) == IF i = 0 THEN Unit ELSE IF i = 4 THEN 0 ELSE cs[PathOf(cs)[i]].part

LEMMA PathIs ==
  ASSUME NEW t, NEW cs, InGrid(t, 3, cs)
  PROVE  PathOf(cs) \in Paths
<1>1. cs[1].part \in 0 .. Unit /\ cs[2].part \in 0 .. Unit /\ cs[3].part \in 0 .. Unit
  <2>1. 1 \in 1 .. 3 /\ 2 \in 1 .. 3 /\ 3 \in 1 .. 3 OBVIOUS
  <2> QED BY <2>1 DEF InGrid
<1>2. \A v, u, w \in 0 .. Unit : TetraPath(v, u, w) \in Paths BY UnitAssumption DEF TetraPath, Paths
<1> QED BY <1>1, <1>2 DEF PathOf

LEMMA TetraReads ==
  ASSUME NEW t, ClutOf(t, 3), t.clip \in ClipKinds, NEW src \in [1 .. 3 -> Int]
  PROVE  LET cs == Cells(t, src, "tetra")
         IN Interp3dTetra(t, src)
              = {<<Read(t, cs, PathCorner(PathOf(cs), i)), LeftAt(cs, i) - LeftAt(cs, i + 1)>> :
                   i \in 0 .. 3}
<1> DEFINE cs == Cells(t, src, "tetra")
           part == [k \in 1 .. 3 |-> cs[k].part]
           path == TetraPath(part[1], part[2], part[3])
           after == [i \in 0 .. 3 |-> Offset(t)[Total([n \in 1 .. i |-> TwoTo[path[n] - 1]])]]
           left == [i \in 0 .. 4 |-> IF i = 0 THEN Unit ELSE IF i = 4 THEN 0 ELSE part[path[i]]]
<1>1. SameFirst(t, "tetra") BY DEF SameFirst
<1>2. InGrid(t, 3, cs) BY <1>1, CellsInGrid
<1>3. Interp3dTetra(t, src)
        = {<<FirstCorner(t, cs) + after[i], left[i] - left[i + 1]>> : i \in 0 .. 3}
  BY DEF Interp3dTetra
<1> HIDE DEF cs
<1>4. path = PathOf(cs)
  <2>1. part[1] = cs[1].part /\ part[2] = cs[2].part /\ part[3] = cs[3].part OBVIOUS
  <2> HIDE DEF part
  <2> QED BY <2>1 DEF PathOf
<1>5. path \in Paths BY <1>2, <1>4, PathIs
<1> HIDE DEF path
<1>6. \A n \in 1 .. 3 : path[n] \in 1 .. 3 BY <1>5 DEF Paths
<1>7. \A i \in 0 .. 3 : PathCorner(path, i) \in 0 .. TwoTo[3] - 1
  <2>1. TwoTo[3] - 1 = 7 BY FirstPowers
  <2> QED BY <1>5, <2>1, PathsPass
<1>8. \A i \in 0 .. 3 : after[i] = Offset(t)[PathCorner(path, i)] BY DEF PathCorner
<1>9. \A i \in 0 .. 3 : FirstCorner(t, cs) + after[i] = Read(t, cs, PathCorner(path, i))
  <2> HIDE DEF after
  <2> QED BY <1>2, <1>7, <1>8, CornersInside DEF Read
<1>10. \A i \in 0 .. 4 : left[i] = LeftAt(cs, i)
  <2>1. \A i \in 1 .. 3 : part[path[i]] = cs[path[i]].part BY <1>6
  <2>2. \A i \in 0 .. 4 : i = 0 \/ i = 4 \/ i \in 1 .. 3 OBVIOUS
  <2> HIDE DEF part
  <2> QED BY <1>4, <2>1, <2>2 DEF LeftAt
<1>11. \A i \in 0 .. 3 : left[i] - left[i + 1] = LeftAt(cs, i) - LeftAt(cs, i + 1)
  <2>1. \A i \in 0 .. 3 : i \in 0 .. 4 /\ i + 1 \in 0 .. 4 OBVIOUS
  <2> HIDE DEF left
  <2> QED BY <1>10, <2>1
<1> HIDE DEF after, left
<1>12. Interp3dTetra(t, src)
         = {<<Read(t, cs, PathCorner(path, i)), LeftAt(cs, i) - LeftAt(cs, i + 1)>> : i \in 0 .. 3}
  BY <1>3, <1>9, <1>11
<1> QED BY <1>4, <1>12 DEF cs

(* Lookup tables of every size: Interp1d to InterpND read entries of theirs  *)
(* only, whatever the source.                                                *)
THEOREM TablesReadInside ==
  ASSUME NEW t, NEW n, ClutOf(t, n), t.form = "clut", t.clip \in ClipKinds,
         NEW src \in [1 .. n -> Int], NEW method, ServedBy(t, n, method)
  PROVE  Reads(t, LookUp(t, src, method)) \subseteq NumbersOf(t)
<1> DEFINE cs == Cells(t, src, method)
<1>1. InGrid(t, n, cs) BY CellsInGrid DEF ServedBy
<1>2. LookUp(t, src, method) = InterpClut(t, src, method) BY DEF LookUp
<1>3. \A j \in 0 .. TwoTo[n] - 1 : \E i \in 0 .. NumPoints(t) - 1 : Read(t, cs, j) = t.out * i
  <2> HIDE DEF cs
  <2>1. \A j \in 0 .. TwoTo[n] - 1 : NodeAt(t, CornerAt(cs, j)) \in 0 .. NumPoints(t) - 1
    BY <1>1, CornersInside
  <2> QED BY <2>1 DEF Read
<1>4. CASE method = "tetra"
  <2>1. n = 3 BY <1>4 DEF ServedBy
  <2>2. InterpClut(t, src, method) = Interp3dTetra(t, src) BY <1>4 DEF InterpClut
  <2>3. Interp3dTetra(t, src)
          = {<<Read(t, cs, PathCorner(PathOf(cs), i)), LeftAt(cs, i) - LeftAt(cs, i + 1)>> : i \in 0 .. 3}
    BY <1>4, <2>1, TetraReads
  <2>4. PathOf(cs) \in Paths BY <1>1, <2>1, PathIs
  <2>5. \A i \in 0 .. 3 : PathCorner(PathOf(cs), i) \in 0 .. TwoTo[n] - 1
    <3>1. TwoTo[3] - 1 = 7 BY FirstPowers
    <3> QED BY <2>1, <2>4, <3>1, PathsPass
  <2> HIDE DEF cs
  <2>6. \A e \in LookUp(t, src, method) : \E j \in 0 .. TwoTo[n] - 1 : e[1] = Read(t, cs, j)
    BY <1>2, <2>2, <2>3, <2>5
  <2>7. \A e \in LookUp(t, src, method) : \E i \in 0 .. NumPoints(t) - 1 : e[1] = t.out * i
    BY <1>3, <2>6
  <2> QED BY <2>7, NodesInside
<1>5. CASE method # "tetra"
  <2>1. InterpClut(t, src, method) = InterpLinear(t, src, method) BY <1>5 DEF InterpClut
  <2>2. InterpLinear(t, src, method)
          = {<<Read(t, cs, j), CornerWeight(cs, j)>> : j \in 0 .. TwoTo[n] - 1} BY LinearReads
  <2> HIDE DEF cs
  <2>3. \A e \in LookUp(t, src, method) : \E j \in 0 .. TwoTo[n] - 1 : e[1] = Read(t, cs, j)
    BY <1>2, <2>1, <2>2
  <2>4. \A e \in LookUp(t, src, method) : \E i \in 0 .. NumPoints(t) - 1 : e[1] = t.out * i
    BY <1>3, <2>3
  <2> QED BY <2>4, NodesInside
<1> QED BY <1>4, <1>5
-----------------------------------------------------------------------------
LEMMA Kept01 ==
  ASSUME NEW v \in Int PROVE Within(v, 0, Unit) \in 0 .. Unit
  BY UnitAssumption DEF Within, Larger, Smaller

(* What is clipped or cut off before or after it is scaled is the same.      *)
LEMMA AlongExact ==
  ASSUME NEW t, NEW n \in Nat, GridOf(t, n), t.clip \in ClipKinds, NEW v \in Int, IsFinite(v),
         NEW k \in 1 .. n
  PROVE  /\ Along(t, k, v) = Exact(t, k, v)
         /\ Exact(t, k, v) \in 0 .. MaxGridPoint(t, k) * Unit
<1> DEFINE m == MaxGridPoint(t, k)
           w == Within(v, 0, Unit)
           x == UnitClip(t, v)
<1>1. m \in Nat /\ m > 0 BY AlongInside
<1>2. Unit \in Nat /\ Unit > 1 BY UnitAssumption
<1>3. v # NaN BY <1>2 DEF IsFinite, NaN, Infinity
<1>4. Exact(t, k, v) = w * m BY DEF Exact
<1>5. w \in 0 .. Unit BY Kept01
<1>6. x = w \/ x = v
  <2>1. ClutUnitClip(v) = w BY <1>3 DEF ClutUnitClip
  <2>2. NoClip(v) = v BY <1>3 DEF NoClip
  <2> QED BY <2>1, <2>2 DEF UnitClip, ClipKinds
<1>7. w = IF v < 0 THEN 0 ELSE IF v > Unit THEN Unit ELSE v
  BY <1>2 DEF Within, Larger, Smaller
<1>8. Along(t, k, v) = IF x = NaN THEN NoNumber ELSE Smaller(Larger(0, x * m), m * Unit)
  BY DEF Along, Scaled
<1>9. w # NaN BY <1>2, <1>5 DEF NaN
<1>10. Along(t, k, v) = Smaller(Larger(0, x * m), m * Unit) BY <1>3, <1>6, <1>8, <1>9
<1>11. w * m \in 0 .. m * Unit BY <1>1, <1>2, <1>5, ScaledUpTo
<1> HIDE DEF m, w, x
<1>12. m * Unit \in Nat BY <1>1, <1>2, Products
<1>13. \A a \in 0 .. m * Unit : Smaller(Larger(0, a), m * Unit) = a
  BY <1>12 DEF Smaller, Larger
<1>14. ASSUME x = w PROVE Along(t, k, v) = Exact(t, k, v) BY <1>4, <1>10, <1>11, <1>13, <1>14
<1>15. ASSUME x = v, v \in 0 .. Unit PROVE Along(t, k, v) = Exact(t, k, v)
  <2>1. x = w BY <1>7, <1>15, <1>2
  <2> QED BY <1>14, <2>1
<1>16. ASSUME x = v, v < 0 PROVE Along(t, k, v) = Exact(t, k, v)
  <2>1. v * m \in Int /\ v * m <= 0
    <3>1. -v \in Nat /\ (-v) * m \in Nat BY <1>1, <1>16, Products
    <3>2. (-v) * m = -(v * m) BY <1>1
    <3> QED BY <1>1, <3>1, <3>2
  <2>2. Larger(0, v * m) = 0
    <3> DEFINE a == v * m
    <3>1. a \in Int /\ a <= 0 BY <2>1
    <3> HIDE DEF a
    <3>2. Larger(0, a) = 0 BY <3>1 DEF Larger
    <3> QED BY <3>2 DEF a
  <2>3. Smaller(0, m * Unit) = 0
    <3> DEFINE b == m * Unit
    <3>1. b \in Nat BY <1>12
    <3> HIDE DEF b
    <3>2. Smaller(0, b) = 0 BY <3>1 DEF Smaller
    <3> QED BY <3>2 DEF b
  <2>4. w = 0 /\ 0 * m = 0 BY <1>1, <1>7, <1>16
  <2> QED BY <1>4, <1>10, <1>11, <1>16, <2>2, <2>3, <2>4
<1>17. ASSUME x = v, v > Unit PROVE Along(t, k, v) = Exact(t, k, v)
  <2> DEFINE a == v * m
             b == m * Unit
  <2>1. a \in Int /\ a >= b
    <3>1. Unit <= v /\ v \in Nat BY <1>2, <1>17
    <3>2. Unit * m <= v * m BY <1>1, <1>2, <3>1, MonotonicProduct
    <3>3. Unit * m = m * Unit BY <1>1, <1>2
    <3> QED BY <1>1, <3>2, <3>3
  <2>2. w * m = b
    <3>1. w = Unit BY <1>2, <1>7, <1>17
    <3> QED BY <1>1, <1>2, <3>1
  <2>3. b \in Nat BY <1>12
  <2> HIDE DEF a, b
  <2>4. Smaller(Larger(0, a), b) = b BY <2>1, <2>3 DEF Larger, Smaller
  <2> QED BY <1>4, <1>10, <1>11, <1>17, <2>2, <2>4 DEF a, b
<1>18. v \in 0 .. Unit \/ v < 0 \/ v > Unit BY <1>2
<1>19. Along(t, k, v) = Exact(t, k, v) BY <1>6, <1>14, <1>15, <1>16, <1>17, <1>18
<1> QED BY <1>4, <1>11, <1>19 DEF m

(* The cell and the part in it make up the source. *)
LEMMA CellMakesUp ==
  ASSUME NEW whole \in Nat, whole > 0, NEW max \in Nat, max > 0, NEW x \in 0 .. max * whole
  PROVE  /\ Cell(x, max, whole).at \in 0 .. max - 1 /\ Cell(x, max, whole).part \in 0 .. whole
         /\ x = Cell(x, max, whole).at * whole + Cell(x, max, whole).part
<1>1. x # NoNumber /\ x \in Nat
  <2>1. max * whole \in Nat BY Products
  <2> QED BY <2>1 DEF NoNumber
<1>2. x \div whole \in 0 .. max /\ (x \div whole = max => x % whole = 0) BY QuotientUpTo
<1>3. x \div whole \in Int /\ x % whole \in 0 .. whole - 1 /\ x = whole * (x \div whole) + (x % whole)
  BY <1>1, Quotient
<1> DEFINE q == x \div whole
           r == x % whole
           c == Cell(x, max, whole)
<1>4. c = IF q = max THEN [at |-> max - 1, part |-> whole] ELSE [at |-> q, part |-> r]
  <2>1. CASE q = max BY <1>1, <2>1 DEF Cell
  <2>2. CASE q # max BY <1>1, <2>2 DEF Cell
  <2> QED BY <2>1, <2>2
<1>5. c.at \in 0 .. max - 1 /\ c.part \in 0 .. whole
  <2>1. x \in {NoNumber} \cup 0 .. max * whole OBVIOUS
  <2> QED BY <2>1, CellInTable
<1> HIDE DEF q, r, c
<1>6. CASE q = max
  <2>1. c.at = max - 1 /\ c.part = whole BY <1>4, <1>6
  <2>2. (max - 1) * whole + whole = whole * max + 0
    <3>1. (max - 1) * whole = max * whole - whole /\ max * whole = whole * max OBVIOUS
    <3>2. max * whole \in Int OBVIOUS
    <3> QED BY <3>1, <3>2
  <2>3. r = 0 BY <1>2, <1>6 DEF q, r
  <2>4. x = whole * q + r BY <1>3 DEF q, r
  <2>5. x = c.at * whole + c.part BY <1>6, <2>1, <2>2, <2>3, <2>4
  <2> QED BY <1>5, <2>5 DEF c
<1>7. CASE q # max
  <2>1. c.at = q /\ c.part = r BY <1>4, <1>7
  <2>2. x = whole * q + r /\ q \in Int BY <1>3 DEF q, r
  <2>3. whole * q = q * whole BY <2>2
  <2>4. x = c.at * whole + c.part BY <2>1, <2>2, <2>3
  <2> QED BY <1>5, <2>4 DEF c
<1> QED BY <1>6, <1>7

(* Only the ends of the cell are near, and each by what is left to the other. *)
LEMMA NearTheCell ==
  ASSUME NEW at \in Int, NEW part \in 0 .. Unit, NEW x, x = at * Unit + part, NEW c \in Int
  PROVE  Nearness(x, c) = IF c = at THEN Unit - part ELSE IF c = at + 1 THEN part ELSE 0
<1>1. Unit \in Nat /\ Unit > 1 BY UnitAssumption
<1> DEFINE d == c * Unit
<1>2. x \in Int /\ d \in Int BY <1>1
<1>3. Nearness(x, c) = Larger(0, Unit - Distance(x, d)) BY DEF Nearness
<1>4. CASE c = at
  <2>1. x = d + part BY <1>4
  <2> HIDE DEF d
  <2>2. Distance(x, d) = part BY <1>1, <1>2, <2>1 DEF Distance
  <2>3. Larger(0, Unit - part) = Unit - part BY <1>1 DEF Larger
  <2> QED BY <1>3, <1>4, <2>2, <2>3
<1>5. CASE c = at + 1
  <2>1. (at + 1) * Unit = at * Unit + Unit BY <1>1
  <2>2. d = at * Unit + Unit /\ at * Unit \in Int BY <1>1, <1>5, <2>1
  <2>3. d - x = Unit - part BY <1>1, <2>2
  <2> HIDE DEF d
  <2>4. Distance(x, d) = Unit - part BY <1>1, <1>2, <2>3 DEF Distance
  <2>5. Larger(0, Unit - (Unit - part)) = part BY <1>1 DEF Larger
  <2>6. c # at BY <1>5
  <2> QED BY <1>3, <1>5, <2>4, <2>5, <2>6
<1>6. CASE c < at
  <2>1. at - c - 1 \in Nat /\ (at - c - 1) * Unit \in Nat BY <1>1, <1>6, Products
  <2>2. (at - c - 1) * Unit = at * Unit - c * Unit - Unit BY <1>1
  <2>3. at * Unit \in Int BY <1>1
  <2>4. x - d >= Unit BY <1>1, <1>2, <2>1, <2>2, <2>3
  <2> HIDE DEF d
  <2>5. Distance(x, d) >= Unit /\ Distance(x, d) \in Int BY <1>1, <1>2, <2>4 DEF Distance
  <2>6. Larger(0, Unit - Distance(x, d)) = 0 BY <1>1, <2>5 DEF Larger
  <2> QED BY <1>3, <1>6, <2>6
<1>7. CASE c > at + 1
  <2>1. c - at - 2 \in Nat /\ (c - at - 2) * Unit \in Nat BY <1>1, <1>7, Products
  <2>2. (c - at - 2) * Unit = c * Unit - at * Unit - 2 * Unit BY <1>1
  <2>3. at * Unit \in Int BY <1>1
  <2>4. d - x >= Unit BY <1>1, <1>2, <2>1, <2>2, <2>3
  <2> HIDE DEF d
  <2>5. Distance(x, d) >= Unit /\ Distance(x, d) \in Int BY <1>1, <1>2, <2>4 DEF Distance
  <2>6. Larger(0, Unit - Distance(x, d)) = 0 BY <1>1, <2>5 DEF Larger
  <2> QED BY <1>3, <1>7, <2>6
<1> QED BY <1>4, <1>5, <1>6, <1>7

(* There is a corner for every set of inputs. *)
LEMMA CornerFor ==
  ASSUME NEW n \in 0 .. 16, NEW B
  PROVE  \E j \in 0 .. TwoTo[n] - 1 : \A k \in 1 .. n : Has(j, k) <=> k \in B
<1> DEFINE Good(m, j) == \A k \in 1 .. 17 : Has(j, k) <=> k \in 1 .. m /\ k \in B
           S == {m \in 0 .. n : \E j \in 0 .. TwoTo[m] - 1 : Good(m, j)}
<1>1. 0 \in S
  <2>1. 0 \in 0 .. TwoTo[0] - 1 BY Powers
  <2>2. ASSUME NEW k \in 1 .. 17 PROVE ~Has(0, k)
    <3>1. 0 \in 0 .. 16 /\ k \in 0 + 1 .. 17 OBVIOUS
    <3> QED BY <2>1, <3>1, NoBitAbove
  <2>3. Good(0, 0) BY <2>2
  <2> HIDE DEF Good
  <2>4. 0 \in 0 .. n OBVIOUS
  <2> QED BY <2>1, <2>3, <2>4
<1>2. ASSUME NEW m \in 0 .. n - 1, m \in S PROVE m + 1 \in S
  <2>1. PICK j \in 0 .. TwoTo[m] - 1 : Good(m, j) BY <1>2
  <2>2. m \in 0 .. 16 /\ m \in 0 .. 17 /\ m + 1 \in 0 .. n OBVIOUS
  <2>3. TwoTo[m] \in Nat /\ TwoTo[m + 1] = 2 * TwoTo[m] BY <2>2, Powers, PowerAfter
  <2>4. CASE m + 1 \in B
    <3>1. TwoTo[m] + j \in 0 .. TwoTo[m + 1] - 1 BY <2>3
    <3>2. ASSUME NEW k \in 1 .. 17 PROVE Has(TwoTo[m] + j, k) <=> k \in 1 .. m + 1 /\ k \in B
      <4>1. Has(TwoTo[m] + j, k) <=> k = m + 1 \/ Has(j, k) BY <2>2, NextBit
      <4>2. Has(j, k) <=> k \in 1 .. m /\ k \in B BY <2>1
      <4>3. k \in 1 .. m + 1 <=> k = m + 1 \/ k \in 1 .. m OBVIOUS
      <4> QED BY <2>4, <4>1, <4>2, <4>3
    <3>3. Good(m + 1, TwoTo[m] + j) BY <3>2
    <3> HIDE DEF Good
    <3> QED BY <2>2, <3>1, <3>3
  <2>5. CASE m + 1 \notin B
    <3>1. j \in 0 .. TwoTo[m + 1] - 1 BY <2>3
    <3>2. ASSUME NEW k \in 1 .. 17 PROVE Has(j, k) <=> k \in 1 .. m + 1 /\ k \in B
      <4>1. Has(j, k) <=> k \in 1 .. m /\ k \in B BY <2>1
      <4>2. k \in 1 .. m + 1 <=> k = m + 1 \/ k \in 1 .. m OBVIOUS
      <4> QED BY <2>5, <4>1, <4>2
    <3>3. Good(m + 1, j) BY <3>2
    <3> HIDE DEF Good
    <3> QED BY <2>2, <3>1, <3>3
  <2> QED BY <2>4, <2>5
<1> HIDE DEF S
<1>3. n \in S
  <2>1. n \in Nat /\ n \in 0 .. n OBVIOUS
  <2> QED BY <1>1, <1>2, <2>1, UpTo
<1>4. PICK j \in 0 .. TwoTo[n] - 1 : Good(n, j) BY <1>3 DEF S
<1>5. \A k \in 1 .. n : k \in 1 .. 17 OBVIOUS
<1> QED BY <1>4, <1>5
-----------------------------------------------------------------------------
(* How near a node is along each input, and the parts of a corner.           *)
Nears(t, src, e) ==
  [k \in 1 .. Inputs(t) |-> Nearness(Exact(t, k, src[k]), Coordinate(t, e, k))]
CornerParts(cs, j) ==
  [k \in DOMAIN cs |-> IF Has(j, k) THEN cs[k].part ELSE Unit - cs[k].part]

Sources1(n, src) == src \in [1 .. n -> Int] /\ \A k \in 1 .. n : IsFinite(src[k])

LEMMA CellOfNumber ==
  ASSUME NEW t, NEW n, ClutOf(t, n), t.clip \in ClipKinds, NEW src, Sources1(n, src),
         NEW method, SameFirst(t, method), NEW k \in 1 .. n
  PROVE  LET c == Cells(t, src, method)[k]
         IN /\ c.at \in 0 .. MaxGridPoint(t, k) - 1 /\ c.part \in 0 .. Unit
            /\ Exact(t, k, src[k]) = c.at * Unit + c.part
<1> DEFINE m == MaxGridPoint(t, k)
           x == Exact(t, k, src[k])
           c == Cells(t, src, method)[k]
<1>1. n \in Nat /\ GridOf(t, n) BY ClutSizes
<1>2. src \in [1 .. n -> Int] /\ src[k] \in Int /\ IsFinite(src[k]) BY DEF Sources1
<1>3. Along(t, k, src[k]) = x /\ x \in 0 .. m * Unit BY <1>1, <1>2, AlongExact
<1>4. m \in Nat /\ m > 0 BY <1>1, <1>2, AlongInside
<1>5. c = Cell(Along(t, k, src[k]), m, Unit) BY <1>2, CellAt
<1>6. Unit \in Nat /\ Unit > 0 BY UnitAssumption
<1> HIDE DEF m, x, c
<1>7. c = Cell(x, m, Unit) BY <1>3, <1>5
<1>8. c.at \in 0 .. m - 1 /\ c.part \in 0 .. Unit /\ x = c.at * Unit + c.part
  BY <1>3, <1>4, <1>6, <1>7, CellMakesUp
<1> QED BY <1>8 DEF c, m, x

LEMMA NearsOfCorner ==
  ASSUME NEW t, NEW n, ClutOf(t, n), t.clip \in ClipKinds, NEW src, Sources1(n, src),
         NEW method, SameFirst(t, method), NEW j, NEW e,
         \A k \in 1 .. n : Coordinate(t, e, k) = CornerAt(Cells(t, src, method), j)[k]
  PROVE  Nears(t, src, e) = CornerParts(Cells(t, src, method), j)
<1> DEFINE cs == Cells(t, src, method)
<1>1. Inputs(t) = n BY ClutSizes
<1>2. src \in [1 .. n -> Int] BY DEF Sources1
<1>3. InGrid(t, n, cs) BY <1>2, CellsInGrid
<1>4. ASSUME NEW k \in 1 .. n
      PROVE  Nearness(Exact(t, k, src[k]), Coordinate(t, e, k))
               = IF Has(j, k) THEN cs[k].part ELSE Unit - cs[k].part
  <2> DEFINE x == Exact(t, k, src[k])
             at == cs[k].at
             part == cs[k].part
             c == Coordinate(t, e, k)
  <2>1. at \in 0 .. MaxGridPoint(t, k) - 1 /\ part \in 0 .. Unit /\ x = at * Unit + part
    BY CellOfNumber
  <2>2. c = CornerAt(cs, j)[k] OBVIOUS
  <2> HIDE DEF cs
  <2>3. CornerAt(cs, j)[k] = IF Has(j, k) THEN at + 1 ELSE at BY <1>3 DEF InGrid, CornerAt
  <2> HIDE DEF x, at, part, c
  <2>4. at \in Int /\ c \in Int BY <2>1, <2>2, <2>3
  <2>5. Nearness(x, c) = IF c = at THEN Unit - part ELSE IF c = at + 1 THEN part ELSE 0
    BY <2>1, <2>4, NearTheCell
  <2>6. at + 1 # at BY <2>4
  <2>7. Nearness(x, c) = IF Has(j, k) THEN part ELSE Unit - part BY <2>2, <2>3, <2>5, <2>6
  <2> QED BY <2>7 DEF x, c, part, cs
<1>5. DOMAIN cs = 1 .. n BY <1>3 DEF InGrid
<1> HIDE DEF cs
<1>6. Nears(t, src, e) = CornerParts(cs, j) BY <1>1, <1>4, <1>5 DEF Nears, CornerParts
<1> QED BY <1>6 DEF cs

(* A node that counts is a corner of the cell. *)
LEMMA CountsAtCorner ==
  ASSUME NEW t, NEW n, ClutOf(t, n), t.clip \in ClipKinds, NEW src, Sources1(n, src),
         NEW method, SameFirst(t, method), NEW e \in 0 .. NumPoints(t) - 1,
         Product(Nears(t, src, e)) # 0
  PROVE  \E j \in 0 .. TwoTo[n] - 1 :
           /\ \A k \in 1 .. n : Coordinate(t, e, k) = CornerAt(Cells(t, src, method), j)[k]
           /\ NodeAt(t, CornerAt(Cells(t, src, method), j)) = e
<1> DEFINE cs == Cells(t, src, method)
           B == {k \in 1 .. n : Coordinate(t, e, k) = cs[k].at + 1}
<1>1. Inputs(t) = n /\ n \in Nat /\ n \in 0 .. 16 /\ GridOf(t, n) BY ClutSizes
<1>2. src \in [1 .. n -> Int] BY DEF Sources1
<1>3. InGrid(t, n, cs) BY <1>2, CellsInGrid
<1>4. \A k \in 1 .. n : Coordinate(t, e, k) \in Int
  <2> DEFINE y == [k \in 1 .. n |-> Coordinate(t, e, k)]
  <2>1. \A k \in 1 .. n : y[k] = Coordinate(t, e, k) OBVIOUS
  <2> HIDE DEF y
  <2>2. OnGrid(t, n, y) BY <1>1, <2>1, NodeOfCoordinates
  <2>3. \A k \in 1 .. n : t.grid[k] \in Nat BY <1>1, InputsAre
  <2> QED BY <2>1, <2>2, <2>3 DEF OnGrid
<1>5. ASSUME NEW k \in 1 .. n
      PROVE  /\ Nearness(Exact(t, k, src[k]), Coordinate(t, e, k)) \in Int
             /\ Nearness(Exact(t, k, src[k]), Coordinate(t, e, k)) # 0
                  => Coordinate(t, e, k) = cs[k].at \/ Coordinate(t, e, k) = cs[k].at + 1
  <2> DEFINE x == Exact(t, k, src[k])
             at == cs[k].at
             part == cs[k].part
             c == Coordinate(t, e, k)
  <2>1. at \in 0 .. MaxGridPoint(t, k) - 1 /\ part \in 0 .. Unit /\ x = at * Unit + part
    BY CellOfNumber
  <2>2. c \in Int BY <1>4
  <2> HIDE DEF cs, x, at, part, c
  <2>3. Nearness(x, c) = IF c = at THEN Unit - part ELSE IF c = at + 1 THEN part ELSE 0
    BY <2>1, <2>2, NearTheCell
  <2>4. Nearness(x, c) \in Int BY <2>1, <2>3, UnitAssumption
  <2> QED BY <2>3, <2>4 DEF x, c, at
<1> DEFINE s == Nears(t, src, e)
<1>6. s \in [1 .. n -> Int]
      /\ \A k \in 1 .. n : s[k] = Nearness(Exact(t, k, src[k]), Coordinate(t, e, k))
  BY <1>1, <1>5 DEF Nears
<1> HIDE DEF s
<1>7. Product(s) # 0 BY DEF s
<1>8. \A k \in 1 .. n : s[k] # 0 BY <1>1, <1>6, <1>7, NoZeroFactor
<1> HIDE DEF cs
<1>9. \A k \in 1 .. n : Coordinate(t, e, k) = IF k \in B THEN cs[k].at + 1 ELSE cs[k].at
  BY <1>5, <1>6, <1>8
<1> HIDE DEF B
<1>10. PICK j \in 0 .. TwoTo[n] - 1 : \A k \in 1 .. n : Has(j, k) <=> k \in B BY <1>1, CornerFor
<1>11. \A k \in 1 .. n : CornerAt(cs, j)[k] = IF Has(j, k) THEN cs[k].at + 1 ELSE cs[k].at
  BY <1>3 DEF InGrid, CornerAt
<1>12. \A k \in 1 .. n : Coordinate(t, e, k) = CornerAt(cs, j)[k] BY <1>9, <1>10, <1>11
<1>13. \A k \in 1 .. n : CornerAt(cs, j)[k] = Coordinate(t, e, k) BY <1>12
<1>14. NodeAt(t, CornerAt(cs, j)) = e BY <1>1, <1>13, NodeOfCoordinates
<1> QED BY <1>12, <1>14 DEF cs

(* Interp1d to InterpND weigh every node by how near it is along each input. *)
THEOREM LinearAsMeant ==
  ASSUME NEW t, NEW n, ClutOf(t, n), t.clip \in ClipKinds, NEW src, Sources1(n, src),
         NEW method, ServedBy(t, n, method)
  PROVE  {e \in InterpLinear(t, src, method) : e[2] # 0} = {e \in MeantLinear(t, src) : e[2] # 0}
<1> DEFINE cs == Cells(t, src, method)
           w(j) == CornerWeight(cs, j)
           u(e) == Product(Nears(t, src, e))
<1>1. Inputs(t) = n /\ n \in Nat /\ GridOf(t, n) /\ t.out \in Nat BY ClutSizes
<1>2. src \in [1 .. n -> Int] /\ SameFirst(t, method) BY DEF Sources1, ServedBy
<1>3. InGrid(t, n, cs) BY <1>2, CellsInGrid
<1>4. InterpLinear(t, src, method) = {<<Read(t, cs, j), w(j)>> : j \in 0 .. TwoTo[n] - 1}
  BY <1>2, LinearReads
<1>5. MeantLinear(t, src) = {<<e * t.out, u(e)>> : e \in 0 .. NumPoints(t) - 1}
  BY DEF MeantLinear, Nears
<1>6. ASSUME NEW j \in 0 .. TwoTo[n] - 1
      PROVE  LET e == NodeAt(t, CornerAt(cs, j))
             IN /\ e \in 0 .. NumPoints(t) - 1
                /\ Read(t, cs, j) = e * t.out
                /\ w(j) = u(e)
  <2> DEFINE e == NodeAt(t, CornerAt(cs, j))
  <2>1. e \in 0 .. NumPoints(t) - 1
    <3> HIDE DEF cs
    <3> QED BY <1>3, CornersInside
  <2>2. OnGrid(t, n, CornerAt(cs, j))
    <3> HIDE DEF cs
    <3> QED BY <1>3, CornersOnGrid
  <2>3. \A k \in 1 .. n : Coordinate(t, e, k) = CornerAt(cs, j)[k]
    <3> HIDE DEF cs
    <3> QED BY <1>1, <2>2, NodeThere
  <2>4. Nears(t, src, e) = CornerParts(cs, j) BY <1>2, <2>3, NearsOfCorner
  <2>5. w(j) = Product(CornerParts(cs, j)) BY DEF CornerWeight, CornerParts
  <2>6. Read(t, cs, j) = t.out * e BY DEF Read
  <2> HIDE DEF e
  <2>7. e \in Int
    <3>1. 0 \in 0 .. n BY <1>1
    <3>2. Stride(t, 0) = NumPoints(t) /\ Stride(t, 0) \in Nat BY <1>1, <3>1, Strides
    <3> QED BY <2>1, <3>2
  <2>8. t.out * e = e * t.out BY <1>1, <2>7
  <2> HIDE DEF cs, w
  <2>9. Read(t, cs, j) = e * t.out BY <2>6, <2>8
  <2>10. w(j) = u(e) BY <2>4, <2>5
  <2> QED BY <2>1, <2>9, <2>10 DEF e
<1>7. ASSUME NEW e \in 0 .. NumPoints(t) - 1, u(e) # 0
      PROVE  \E j \in 0 .. TwoTo[n] - 1 : NodeAt(t, CornerAt(cs, j)) = e
  BY <1>2, <1>7, CountsAtCorner
<1> HIDE DEF cs, w, u
<1>8. ASSUME NEW e \in InterpLinear(t, src, method) PROVE e \in MeantLinear(t, src)
  <2>1. PICK j \in 0 .. TwoTo[n] - 1 : e = <<Read(t, cs, j), w(j)>> BY <1>4, <1>8
  <2> DEFINE i == NodeAt(t, CornerAt(cs, j))
  <2>2. i \in 0 .. NumPoints(t) - 1 /\ Read(t, cs, j) = i * t.out /\ w(j) = u(i) BY <1>6
  <2> HIDE DEF i
  <2>3. e = <<i * t.out, u(i)>> BY <2>1, <2>2
  <2> QED BY <1>5, <2>2, <2>3
<1>9. ASSUME NEW e \in MeantLinear(t, src), e[2] # 0 PROVE e \in InterpLinear(t, src, method)
  <2>1. PICK i \in 0 .. NumPoints(t) - 1 : e = <<i * t.out, u(i)>> BY <1>5
  <2>2. u(i) # 0 BY <1>9, <2>1
  <2>3. PICK j \in 0 .. TwoTo[n] - 1 : NodeAt(t, CornerAt(cs, j)) = i BY <1>7, <2>2
  <2>4. Read(t, cs, j) = i * t.out /\ w(j) = u(i) BY <1>6, <2>3
  <2>5. e = <<Read(t, cs, j), w(j)>> BY <2>1, <2>4
  <2> QED BY <1>4, <2>5
<1> QED BY <1>8, <1>9
-----------------------------------------------------------------------------
(* Where a tetrahedron is at a level: up where the part reaches it.          *)
LEMMA UpAtCell ==
  ASSUME NEW at \in Nat, NEW part \in 0 .. Unit, NEW x, x = at * Unit + part,
         NEW level \in 1 .. Unit
  PROVE  UpAt(x, level) = IF part >= level THEN at + 1 ELSE at
<1>1. Unit \in Nat /\ Unit > 1 BY UnitAssumption
<1>2. at * Unit \in Nat /\ at * Unit = Unit * at BY <1>1, Products
<1>3. x \in Nat BY <1>1, <1>2
<1>4. CASE part = Unit
  <2>1. Unit * (at + 1) = Unit * at + Unit BY <1>1
  <2>2. x = Unit * (at + 1) + 0 /\ 0 \in 0 .. Unit - 1 /\ at + 1 \in Int BY <1>1, <1>2, <1>4, <2>1
  <2>3. x \div Unit = at + 1 /\ x % Unit = 0 BY <1>1, <1>3, <2>2, Divides
  <2> QED BY <1>1, <1>4, <2>3 DEF UpAt
<1>5. CASE part # Unit
  <2>1. x = Unit * at + part /\ part \in 0 .. Unit - 1 /\ at \in Int BY <1>1, <1>2, <1>5
  <2>2. x \div Unit = at /\ x % Unit = part BY <1>1, <1>3, <2>1, Divides
  <2> QED BY <1>1, <2>2 DEF UpAt
<1> QED BY <1>4, <1>5

(* What is left along the way never grows. *)
LEMMA LeftShrinks ==
  ASSUME NEW t, NEW cs, InGrid(t, 3, cs)
  PROVE  /\ PathOf(cs) \in Paths
         /\ LeftAt(cs, 0) = Unit /\ LeftAt(cs, 4) = 0
         /\ \A i \in 1 .. 3 : PathOf(cs)[i] \in 1 .. 3 /\ LeftAt(cs, i) = cs[PathOf(cs)[i]].part
         /\ \A i \in 0 .. 4 : LeftAt(cs, i) \in 0 .. Unit
         /\ \A i \in 0 .. 3 : LeftAt(cs, i + 1) <= LeftAt(cs, i)
<1> DEFINE p == PathOf(cs)
           v == cs[1].part
           u == cs[2].part
           w == cs[3].part
           part == <<v, u, w>>
<1>1. v \in 0 .. Unit /\ u \in 0 .. Unit /\ w \in 0 .. Unit
  <2>1. 1 \in 1 .. 3 /\ 2 \in 1 .. 3 /\ 3 \in 1 .. 3 OBVIOUS
  <2> QED BY <2>1 DEF InGrid
<1>2. p = TetraPath(v, u, w) BY DEF PathOf
<1>3. p \in Paths BY PathIs
<1>4. p[1] \in 1 .. 3 /\ p[2] \in 1 .. 3 /\ p[3] \in 1 .. 3 BY <1>3 DEF Paths
<1>5. \A k \in 1 .. 3 : part[k] = cs[k].part OBVIOUS
<1>6. LeftAt(cs, 0) = Unit /\ LeftAt(cs, 4) = 0 /\ \A i \in 1 .. 3 : LeftAt(cs, i) = cs[p[i]].part
  BY DEF LeftAt
<1>7. /\ Unit >= part[p[1]] /\ part[p[1]] >= part[p[2]] /\ part[p[2]] >= part[p[3]]
      /\ part[p[3]] >= 0
  <2> HIDE DEF p, v, u, w
  <2> QED BY <1>1, <1>2, TetraWeights
<1>8. \A k \in 1 .. 3 : cs[k].part \in 0 .. Unit BY DEF InGrid
<1> HIDE DEF p, part
<1>9. \A i \in 1 .. 3 : p[i] \in 1 .. 3
  <2>1. \A i \in 1 .. 3 : i = 1 \/ i = 2 \/ i = 3 OBVIOUS
  <2> QED BY <1>4, <2>1
<1>10. \A i \in 1 .. 3 : LeftAt(cs, i) = part[p[i]] /\ LeftAt(cs, i) \in 0 .. Unit
  BY <1>5, <1>6, <1>8, <1>9
<1>11. \A i \in 0 .. 4 : LeftAt(cs, i) \in 0 .. Unit
  <2>1. \A i \in 0 .. 4 : i = 0 \/ i = 4 \/ i \in 1 .. 3 OBVIOUS
  <2> QED BY <1>6, <1>10, <2>1, UnitAssumption
<1>12. ASSUME NEW i \in 0 .. 3 PROVE LeftAt(cs, i + 1) <= LeftAt(cs, i)
  <2>1. i = 0 \/ i = 1 \/ i = 2 \/ i = 3 OBVIOUS
  <2>2. LeftAt(cs, 1) = part[p[1]] /\ LeftAt(cs, 2) = part[p[2]] /\ LeftAt(cs, 3) = part[p[3]]
    BY <1>10
  <2>3. /\ LeftAt(cs, 1) <= LeftAt(cs, 0) /\ LeftAt(cs, 2) <= LeftAt(cs, 1)
        /\ LeftAt(cs, 3) <= LeftAt(cs, 2) /\ LeftAt(cs, 4) <= LeftAt(cs, 3)
    <3>1. LeftAt(cs, 1) \in Int /\ LeftAt(cs, 2) \in Int /\ LeftAt(cs, 3) \in Int BY <1>10
    <3> QED BY <1>6, <1>7, <2>2, <3>1, UnitAssumption
  <2> QED BY <2>1, <2>3
<1> QED BY <1>3, <1>6, <1>9, <1>11, <1>12 DEF p

(* A level between what is left before and after a corner is at the corner,  *)
(* and no other level is.                                                    *)
LEMMA LevelsOfCorner ==
  ASSUME NEW t, NEW cs, InGrid(t, 3, cs), NEW i \in 0 .. 3, NEW level \in 1 .. Unit
  PROVE  (\A k \in 1 .. 3 : cs[k].part >= level <=> Has(PathCorner(PathOf(cs), i), k))
           <=> level \in LeftAt(cs, i + 1) + 1 .. LeftAt(cs, i)
<1> DEFINE p == PathOf(cs)
           l(m) == LeftAt(cs, m)
           c == PathCorner(p, i)
<1>1. p \in Paths /\ l(0) = Unit /\ l(4) = 0 BY LeftShrinks
<1>2. \A m \in 1 .. 3 : p[m] \in 1 .. 3 /\ l(m) = cs[p[m]].part BY LeftShrinks
<1>3. \A m \in 0 .. 4 : l(m) \in 0 .. Unit BY LeftShrinks
<1>4. \A m \in 0 .. 3 : l(m + 1) <= l(m) BY LeftShrinks
<1>5. \A k \in 1 .. 3 : Has(c, k) <=> \E m \in 1 .. i : p[m] = k
  <2> HIDE DEF p
  <2> QED BY <1>1, PathsPass
<1>6. \A k \in 1 .. 3 : \E m \in 1 .. 3 : p[m] = k
  <2> HIDE DEF p
  <2>1. p[1] = 1 \/ p[2] = 1 \/ p[3] = 1 BY <1>1 DEF Paths
  <2>2. p[1] = 2 \/ p[2] = 2 \/ p[3] = 2 BY <1>1 DEF Paths
  <2>3. p[1] = 3 \/ p[2] = 3 \/ p[3] = 3 BY <1>1 DEF Paths
  <2>4. \A k \in 1 .. 3 : k = 1 \/ k = 2 \/ k = 3 OBVIOUS
  <2> QED BY <2>1, <2>2, <2>3, <2>4
<1>7. \A a, b \in 1 .. 3 : p[a] = p[b] => a = b
  <2> HIDE DEF p
  <2>1. p[1] # p[2] /\ p[1] # p[3] /\ p[2] # p[3] BY <1>1 DEF Paths
  <2>2. \A k \in 1 .. 3 : k = 1 \/ k = 2 \/ k = 3 OBVIOUS
  <2> QED BY <2>1, <2>2
<1>8. \A m \in 1 .. 3 : Has(c, p[m]) <=> m <= i
  <2> TAKE m \in 1 .. 3
  <2> HIDE DEF p, c
  <2>1. p[m] \in 1 .. 3 BY <1>2
  <2>2. Has(c, p[m]) <=> \E a \in 1 .. i : p[a] = p[m] BY <1>5, <2>1
  <2>3. \A a \in 1 .. i : a \in 1 .. 3 OBVIOUS
  <2>4. (\E a \in 1 .. i : p[a] = p[m]) <=> m \in 1 .. i BY <1>7, <2>3
  <2> QED BY <2>2, <2>4
<1>9. l(0) \in Int /\ l(1) \in Int /\ l(2) \in Int /\ l(3) \in Int /\ l(4) \in Int
      /\ l(1) <= l(0) /\ l(2) <= l(1) /\ l(3) <= l(2) /\ l(4) <= l(3)
  <2> HIDE DEF l
  <2>1. 0 + 1 = 1 /\ 1 + 1 = 2 /\ 2 + 1 = 3 /\ 3 + 1 = 4 OBVIOUS
  <2>2. l(1) <= l(0) /\ l(2) <= l(1) /\ l(3) <= l(2) /\ l(4) <= l(3)
    <3>1. 0 \in 0 .. 3 /\ 1 \in 0 .. 3 /\ 2 \in 0 .. 3 /\ 3 \in 0 .. 3 OBVIOUS
    <3> QED BY <1>4, <2>1, <3>1
  <2> QED BY <1>3, <2>2
<1>10. (\A k \in 1 .. 3 : cs[k].part >= level <=> Has(c, k))
         <=> \A m \in 1 .. 3 : l(m) >= level <=> m <= i
  <2> HIDE DEF p, c, l
  <2>1. ASSUME \A k \in 1 .. 3 : cs[k].part >= level <=> Has(c, k), NEW m \in 1 .. 3
        PROVE  l(m) >= level <=> m <= i
    <3>1. p[m] \in 1 .. 3 /\ l(m) = cs[p[m]].part BY <1>2
    <3>2. cs[p[m]].part >= level <=> Has(c, p[m]) BY <2>1, <3>1
    <3> QED BY <1>8, <3>1, <3>2
  <2>2. ASSUME \A m \in 1 .. 3 : l(m) >= level <=> m <= i, NEW k \in 1 .. 3
        PROVE  cs[k].part >= level <=> Has(c, k)
    <3>1. PICK m \in 1 .. 3 : p[m] = k BY <1>6
    <3>2. l(m) = cs[k].part BY <1>2, <3>1
    <3>3. Has(c, k) <=> m <= i BY <1>8, <3>1
    <3> QED BY <2>2, <3>2, <3>3
  <2> QED BY <2>1, <2>2
<1>11. (\A m \in 1 .. 3 : l(m) >= level <=> m <= i) <=> level \in l(i + 1) + 1 .. l(i)
  <2>1. (\A m \in 1 .. 3 : l(m) >= level <=> m <= i)
          <=> /\ l(1) >= level <=> 1 <= i
              /\ l(2) >= level <=> 2 <= i
              /\ l(3) >= level <=> 3 <= i
    <3> HIDE DEF l
    <3>1. \A k \in 1 .. 3 : k = 1 \/ k = 2 \/ k = 3 OBVIOUS
    <3>2. 1 \in 1 .. 3 /\ 2 \in 1 .. 3 /\ 3 \in 1 .. 3 OBVIOUS
    <3> QED BY <3>1, <3>2
  <2> HIDE DEF l
  <2>2. CASE i = 0
    <3>1. l(i) = l(0) /\ l(i + 1) = l(1) BY <2>2
    <3> QED BY <1>1, <1>9, <2>1, <2>2, <3>1
  <2>3. CASE i = 1
    <3>1. l(i) = l(1) /\ l(i + 1) = l(2) BY <2>3
    <3> QED BY <1>1, <1>9, <2>1, <2>3, <3>1
  <2>4. CASE i = 2
    <3>1. l(i) = l(2) /\ l(i + 1) = l(3) BY <2>4
    <3> QED BY <1>1, <1>9, <2>1, <2>4, <3>1
  <2>5. CASE i = 3
    <3>1. l(i) = l(3) /\ l(i + 1) = l(4) BY <2>5
    <3> QED BY <1>1, <1>9, <2>1, <2>5, <3>1
  <2>6. i = 0 \/ i = 1 \/ i = 2 \/ i = 3 OBVIOUS
  <2> QED BY <2>2, <2>3, <2>4, <2>5, <2>6
<1> QED BY <1>10, <1>11

(* Every level is at one of the corners. *)
LEMMA LevelSomewhere ==
  ASSUME NEW t, NEW cs, InGrid(t, 3, cs), NEW level \in 1 .. Unit
  PROVE  \E i \in 0 .. 3 : level \in LeftAt(cs, i + 1) + 1 .. LeftAt(cs, i)
<1> DEFINE l(m) == LeftAt(cs, m)
<1>1. l(0) = Unit /\ l(4) = 0 BY LeftShrinks
<1>2. \A m \in 0 .. 4 : l(m) \in 0 .. Unit BY LeftShrinks
<1> HIDE DEF l
<1>3. l(1) \in Int /\ l(2) \in Int /\ l(3) \in Int BY <1>2
<1>4. Unit \in Nat BY UnitAssumption
<1>5. \/ level \in l(1) + 1 .. l(0) \/ level \in l(2) + 1 .. l(1)
      \/ level \in l(3) + 1 .. l(2) \/ level \in l(4) + 1 .. l(3) BY <1>1, <1>3, <1>4
<1>6. /\ 0 \in 0 .. 3 /\ 1 \in 0 .. 3 /\ 2 \in 0 .. 3 /\ 3 \in 0 .. 3
      /\ 0 + 1 = 1 /\ 1 + 1 = 2 /\ 2 + 1 = 3 /\ 3 + 1 = 4 OBVIOUS
<1>7. \E i \in 0 .. 3 : level \in l(i + 1) + 1 .. l(i) BY <1>5, <1>6
<1> QED BY <1>7 DEF l
-----------------------------------------------------------------------------
(* The levels at which the tetrahedron is at a node. *)
Levels(t, src, e) ==
  {level \in 1 .. Unit : \A k \in 1 .. 3 : Coordinate(t, e, k) = UpAt(Exact(t, k, src[k]), level)}

LEMMA LevelsAre ==
  ASSUME NEW t, ClutOf(t, 3), t.clip \in ClipKinds, NEW src, Sources1(3, src),
         NEW cs, cs = Cells(t, src, "tetra"), NEW e, NEW level \in 1 .. Unit
  PROVE  level \in Levels(t, src, e)
           <=> \A k \in 1 .. 3 :
                 Coordinate(t, e, k) = IF cs[k].part >= level THEN cs[k].at + 1 ELSE cs[k].at
<1>1. SameFirst(t, "tetra") BY DEF SameFirst
<1>2. ASSUME NEW k \in 1 .. 3
      PROVE  UpAt(Exact(t, k, src[k]), level) = IF cs[k].part >= level THEN cs[k].at + 1 ELSE cs[k].at
  <2> DEFINE x == Exact(t, k, src[k])
             at == cs[k].at
             part == cs[k].part
  <2>1. at \in 0 .. MaxGridPoint(t, k) - 1 /\ part \in 0 .. Unit /\ x = at * Unit + part
    BY <1>1, CellOfNumber
  <2> HIDE DEF x, at, part
  <2>2. at \in Nat BY <2>1
  <2>3. UpAt(x, level) = IF part >= level THEN at + 1 ELSE at BY <2>1, <2>2, UpAtCell
  <2> QED BY <2>3 DEF x, at, part
<1> QED BY <1>2 DEF Levels

LEMMA LevelsAtCorner ==
  ASSUME NEW t, ClutOf(t, 3), t.clip \in ClipKinds, NEW src, Sources1(3, src),
         NEW cs, cs = Cells(t, src, "tetra"), InGrid(t, 3, cs), NEW i \in 0 .. 3, NEW e,
         \A k \in 1 .. 3 : Coordinate(t, e, k) = CornerAt(cs, PathCorner(PathOf(cs), i))[k]
  PROVE  /\ Levels(t, src, e) = LeftAt(cs, i + 1) + 1 .. LeftAt(cs, i)
         /\ Cardinality(Levels(t, src, e)) = LeftAt(cs, i) - LeftAt(cs, i + 1)
<1> DEFINE c == PathCorner(PathOf(cs), i)
           a == LeftAt(cs, i + 1)
           b == LeftAt(cs, i)
           L == Levels(t, src, e)
<1>1. a \in 0 .. Unit /\ b \in 0 .. Unit /\ a <= b
  <2>1. i \in 0 .. 4 /\ i + 1 \in 0 .. 4 OBVIOUS
  <2> QED BY <2>1, LeftShrinks
<1>2. \A k \in 1 .. 3 : cs[k].at \in Int BY DEF InGrid
<1>3. \A k \in 1 .. 3 : Coordinate(t, e, k) = IF Has(c, k) THEN cs[k].at + 1 ELSE cs[k].at
  BY DEF InGrid, CornerAt
<1>4. ASSUME NEW level \in 1 .. Unit PROVE level \in L <=> level \in a + 1 .. b
  <2>1. level \in L
          <=> \A k \in 1 .. 3 :
                 Coordinate(t, e, k) = IF cs[k].part >= level THEN cs[k].at + 1 ELSE cs[k].at
    BY LevelsAre
  <2>2. ASSUME NEW k \in 1 .. 3
        PROVE  Coordinate(t, e, k) = (IF cs[k].part >= level THEN cs[k].at + 1 ELSE cs[k].at)
                 <=> (cs[k].part >= level <=> Has(c, k))
    <3> DEFINE at == cs[k].at
    <3>1. at \in Int /\ at # at + 1
      <4>1. at \in Int BY <1>2
      <4> HIDE DEF at
      <4> QED BY <4>1
    <3>2. Coordinate(t, e, k) = IF Has(c, k) THEN at + 1 ELSE at BY <1>3
    <3> HIDE DEF at, c
    <3>3. Coordinate(t, e, k) = (IF cs[k].part >= level THEN at + 1 ELSE at)
            <=> (cs[k].part >= level <=> Has(c, k)) BY <3>1, <3>2
    <3> QED BY <3>3 DEF at
  <2>3. (\A k \in 1 .. 3 : cs[k].part >= level <=> Has(c, k)) <=> level \in a + 1 .. b
    BY LevelsOfCorner
  <2> HIDE DEF L, a, b, c
  <2> QED BY <2>1, <2>2, <2>3
<1>5. L \subseteq 1 .. Unit BY DEF Levels
<1>6. a + 1 .. b \subseteq 1 .. Unit
  <2> HIDE DEF a, b
  <2> QED BY <1>1, UnitAssumption
<1>7. L = a + 1 .. b
  <2> HIDE DEF L, a, b
  <2> QED BY <1>4, <1>5, <1>6
<1>8. Cardinality(a + 1 .. b) = b - a
  <2> HIDE DEF a, b
  <2>1. a + 1 \in Int /\ b \in Int /\ a \in Int BY <1>1
  <2>2. Cardinality(a + 1 .. b) = IF a + 1 > b THEN 0 ELSE b - (a + 1) + 1 BY <2>1, FS_Interval
  <2> QED BY <1>1, <2>1, <2>2
<1> HIDE DEF L, a, b
<1> QED BY <1>7, <1>8 DEF L, a, b

(* Interp3dTetra weighs a corner by the levels its tetrahedron is there.     *)
THEOREM TetraAsMeant ==
  ASSUME NEW t, ClutOf(t, 3), t.clip \in ClipKinds, NEW src, Sources1(3, src)
  PROVE  {e \in Interp3dTetra(t, src) : e[2] # 0} = {e \in MeantTetra(t, src) : e[2] # 0}
<1> DEFINE cs == Cells(t, src, "tetra")
           c(i) == PathCorner(PathOf(cs), i)
           w(i) == LeftAt(cs, i) - LeftAt(cs, i + 1)
           u(e) == Cardinality(Levels(t, src, e))
<1>1. 3 \in Nat /\ GridOf(t, 3) /\ t.out \in Nat BY ClutSizes
<1>2. src \in [1 .. 3 -> Int] /\ SameFirst(t, "tetra") BY DEF Sources1, SameFirst
<1>3. InGrid(t, 3, cs) BY <1>2, CellsInGrid
<1>4. Interp3dTetra(t, src) = {<<Read(t, cs, c(i)), w(i)>> : i \in 0 .. 3} BY <1>2, TetraReads
<1>5. MeantTetra(t, src) = {<<e * t.out, u(e)>> : e \in 0 .. NumPoints(t) - 1}
  BY DEF MeantTetra, Levels
<1>6. ASSUME NEW i \in 0 .. 3
      PROVE  LET e == NodeAt(t, CornerAt(cs, c(i)))
             IN /\ e \in 0 .. NumPoints(t) - 1
                /\ Read(t, cs, c(i)) = e * t.out
                /\ w(i) = u(e)
  <2> DEFINE j == c(i)
             e == NodeAt(t, CornerAt(cs, j))
  <2>1. j \in 0 .. TwoTo[3] - 1
    <3>1. TwoTo[3] - 1 = 7 /\ PathOf(cs) \in Paths BY <1>3, FirstPowers, PathIs
    <3> HIDE DEF cs
    <3> QED BY <3>1, PathsPass
  <2>2. e \in 0 .. NumPoints(t) - 1
    <3> HIDE DEF cs, j
    <3> QED BY <1>3, <2>1, CornersInside
  <2>3. OnGrid(t, 3, CornerAt(cs, j))
    <3> HIDE DEF cs, j
    <3> QED BY <1>3, CornersOnGrid
  <2>4. \A k \in 1 .. 3 : Coordinate(t, e, k) = CornerAt(cs, j)[k]
    <3> HIDE DEF cs, j
    <3> QED BY <1>1, <2>3, NodeThere
  <2>5. u(e) = w(i)
    <3>1. cs = Cells(t, src, "tetra") OBVIOUS
    <3> HIDE DEF cs, e
    <3> QED BY <1>3, <2>4, <3>1, LevelsAtCorner
  <2>6. Read(t, cs, j) = t.out * e BY DEF Read
  <2> HIDE DEF e
  <2>7. e \in Int
    <3>1. 0 \in 0 .. 3 OBVIOUS
    <3>2. Stride(t, 0) = NumPoints(t) /\ Stride(t, 0) \in Nat BY <1>1, <3>1, Strides
    <3> QED BY <2>2, <3>2
  <2>8. t.out * e = e * t.out BY <1>1, <2>7
  <2> HIDE DEF cs, w, u
  <2> QED BY <2>2, <2>5, <2>6, <2>8 DEF e
<1>7. ASSUME NEW e \in 0 .. NumPoints(t) - 1, u(e) # 0
      PROVE  \E i \in 0 .. 3 : NodeAt(t, CornerAt(cs, c(i))) = e
  <2>1. Levels(t, src, e) # {} BY <1>7, FS_EmptySet
  <2>2. PICK level \in 1 .. Unit : level \in Levels(t, src, e) BY <2>1 DEF Levels
  <2>3. PICK i \in 0 .. 3 : level \in LeftAt(cs, i + 1) + 1 .. LeftAt(cs, i)
    <3> HIDE DEF cs
    <3> QED BY <1>3, LevelSomewhere
  <2>4. \A k \in 1 .. 3 : Coordinate(t, e, k) = IF cs[k].part >= level THEN cs[k].at + 1 ELSE cs[k].at
    <3>1. cs = Cells(t, src, "tetra") OBVIOUS
    <3> HIDE DEF cs
    <3> QED BY <2>2, <3>1, LevelsAre
  <2>5. \A k \in 1 .. 3 : cs[k].part >= level <=> Has(c(i), k)
    <3> HIDE DEF cs
    <3> QED BY <1>3, <2>3, LevelsOfCorner
  <2>6. \A k \in 1 .. 3 : CornerAt(cs, c(i))[k] = Coordinate(t, e, k)
    <3> HIDE DEF cs, c
    <3>1. \A k \in 1 .. 3 : CornerAt(cs, c(i))[k] = IF Has(c(i), k) THEN cs[k].at + 1 ELSE cs[k].at
      BY <1>3 DEF InGrid, CornerAt
    <3> QED BY <2>4, <2>5, <3>1
  <2>7. NodeAt(t, CornerAt(cs, c(i))) = e
    <3> HIDE DEF cs, c
    <3> QED BY <1>1, <2>6, NodeOfCoordinates
  <2> QED BY <2>7
<1> HIDE DEF cs, c, w, u
<1>8. ASSUME NEW e \in Interp3dTetra(t, src) PROVE e \in MeantTetra(t, src)
  <2>1. PICK i \in 0 .. 3 : e = <<Read(t, cs, c(i)), w(i)>> BY <1>4, <1>8
  <2> DEFINE m == NodeAt(t, CornerAt(cs, c(i)))
  <2>2. m \in 0 .. NumPoints(t) - 1 /\ Read(t, cs, c(i)) = m * t.out /\ w(i) = u(m) BY <1>6
  <2> HIDE DEF m
  <2>3. e = <<m * t.out, u(m)>> BY <2>1, <2>2
  <2> QED BY <1>5, <2>2, <2>3
<1>9. ASSUME NEW e \in MeantTetra(t, src), e[2] # 0 PROVE e \in Interp3dTetra(t, src)
  <2>1. PICK m \in 0 .. NumPoints(t) - 1 : e = <<m * t.out, u(m)>> BY <1>5
  <2>2. u(m) # 0 BY <1>9, <2>1
  <2>3. PICK i \in 0 .. 3 : NodeAt(t, CornerAt(cs, c(i))) = m BY <1>7, <2>2
  <2>4. Read(t, cs, c(i)) = m * t.out /\ w(i) = u(m) BY <1>6, <2>3
  <2>5. e = <<Read(t, cs, c(i)), w(i)>> BY <2>1, <2>4
  <2> QED BY <1>4, <2>5
<1> QED BY <1>8, <1>9
-----------------------------------------------------------------------------
(* A curve that is looked up as meant: the index of a curve tag has room for *)
(* its entries, and arrays are not of integers.                              *)
CurveServed(t) ==
  /\ CurveEnds(t)
  /\ t.form = "curve" => t.grid[1] <= IndexRange
  /\ t.form = "array" => t.clip # "integers"

Counting(entries) == {e \in entries : e[2] # 0}
Line(x, whole, max) ==
  LET i == Within(x \div whole, 0, max - 1)
  IN {<<i, whole * (i + 1) - x>>, <<i + 1, x - whole * i>>}

LEMMA WholeQuotient ==
  ASSUME NEW a \in Int, NEW b \in Nat, b > 0
  PROVE  a \div b \in Int /\ a % b \in 0 .. b - 1 /\ a = b * (a \div b) + (a % b)
  BY SMT

(* The line through the entries next to x: below the first cell, in a cell,  *)
(* and above the last.                                                       *)
LEMMA LineBelow ==
  ASSUME NEW whole \in Nat, whole > 0, NEW max \in Nat, max > 0, NEW x \in Int, x <= 0
  PROVE  Line(x, whole, max) = {<<0, whole - x>>, <<1, x>>}
<1> DEFINE q == x \div whole
           i == Within(q, 0, max - 1)
<1>1. q \in Int /\ x % whole \in 0 .. whole - 1 /\ x = whole * q + (x % whole) BY WholeQuotient
<1> HIDE DEF q
<1>2. q <= 0
  <2> SUFFICES ASSUME q >= 1 PROVE FALSE BY <1>1
  <2>1. q - 1 \in Nat /\ whole * (q - 1) \in Nat BY <1>1, Products
  <2>2. whole * (q - 1) = whole * q - whole BY <1>1
  <2>3. whole * q \in Int BY <1>1
  <2> QED BY <1>1, <2>1, <2>2, <2>3
<1>3. i = 0 BY <1>1, <1>2 DEF Within, Larger, Smaller
<1>4. Line(x, whole, max) = {<<i, whole * (i + 1) - x>>, <<i + 1, x - whole * i>>} BY DEF Line, q
<1> HIDE DEF i
<1>5. whole * (0 + 1) - x = whole - x /\ x - whole * 0 = x /\ 0 + 1 = 1 OBVIOUS
<1> QED BY <1>3, <1>4, <1>5

LEMMA LineInside ==
  ASSUME NEW whole \in Nat, whole > 0, NEW max \in Nat, max > 0, NEW x \in 0 .. max * whole,
         x \div whole # max
  PROVE  /\ Line(x, whole, max)
              = {<<x \div whole, whole - (x % whole)>>, <<x \div whole + 1, x % whole>>}
         /\ x \div whole \in Nat /\ x % whole \in Nat
<1> DEFINE q == x \div whole
           r == x % whole
           i == Within(q, 0, max - 1)
<1>1. x \in Nat
  <2>1. max * whole \in Nat BY Products
  <2> QED BY <2>1
<1>2. q \in 0 .. max BY QuotientUpTo
<1>3. r \in 0 .. whole - 1 /\ x = whole * q + r BY <1>1, Quotient
<1>4. Line(x, whole, max) = {<<i, whole * (i + 1) - x>>, <<i + 1, x - whole * i>>} BY DEF Line
<1>5. q # max OBVIOUS
<1> HIDE DEF q, r
<1>6. i = q BY <1>2, <1>5 DEF Within, Larger, Smaller
<1> HIDE DEF i
<1>7. whole * (q + 1) = whole * q + whole /\ whole * q \in Int BY <1>2
<1>8. whole * (q + 1) - x = whole - r /\ x - whole * q = r BY <1>2, <1>3, <1>7
<1>9. Line(x, whole, max) = {<<q, whole - r>>, <<q + 1, r>>} BY <1>4, <1>6, <1>8
<1>10. q \in Nat /\ r \in Nat BY <1>2, <1>3
<1> QED BY <1>9, <1>10 DEF q, r

LEMMA LineAbove ==
  ASSUME NEW whole \in Nat, whole > 0, NEW max \in Nat, max > 0, NEW x \in Int, x >= max * whole
  PROVE  Line(x, whole, max)
           = {<<max - 1, max * whole - x>>, <<max, whole + (x - max * whole)>>}
<1> DEFINE q == x \div whole
           i == Within(q, 0, max - 1)
           y == max * whole
<1>1. q \in Int /\ x % whole \in 0 .. whole - 1 /\ x = whole * q + (x % whole) BY WholeQuotient
<1>2. y \in Nat /\ x >= y BY Products
<1> HIDE DEF q
<1>3. q >= max
  <2> SUFFICES ASSUME q <= max - 1 PROVE FALSE BY <1>1
  <2>1. max - 1 - q \in Nat /\ whole * (max - 1 - q) \in Nat BY <1>1, Products
  <2>2. whole * (max - 1 - q) = y - whole - whole * q BY <1>1
  <2>3. whole * q \in Int BY <1>1
  <2> HIDE DEF y
  <2> QED BY <1>1, <1>2, <2>1, <2>2, <2>3
<1>4. i = max - 1 BY <1>1, <1>3 DEF Within, Larger, Smaller
<1>5. Line(x, whole, max) = {<<i, whole * (i + 1) - x>>, <<i + 1, x - whole * i>>} BY DEF Line, q
<1> HIDE DEF i
<1>6. max - 1 + 1 = max /\ whole * max = y /\ whole * (max - 1) = y - whole OBVIOUS
<1> HIDE DEF y
<1>7. x - (y - whole) = whole + (x - y) BY <1>2
<1>8. Line(x, whole, max) = {<<max - 1, y - x>>, <<max, whole + (x - y)>>} BY <1>4, <1>5, <1>6, <1>7
<1> QED BY <1>8 DEF y

(* Apply of sources inside is that line, but for entries that do not count.  *)
LEMMA BetweenAsLine ==
  ASSUME NEW whole \in Nat, whole > 0, NEW max \in Nat, max > 0, NEW x \in 0 .. max * whole
  PROVE  Counting(Between(x, whole)) = Counting(Line(x, whole, max))
<1> DEFINE q == x \div whole
           r == x % whole
<1>1. x \in Nat /\ x \in Int
  <2>1. max * whole \in Nat BY Products
  <2> QED BY <2>1
<1>2. q \in 0 .. max /\ (q = max => r = 0) BY QuotientUpTo
<1>3. r \in 0 .. whole - 1 /\ x = whole * q + r BY <1>1, Quotient
<1>4. CASE q = max
  <2>1. r = 0 BY <1>2, <1>4
  <2>2. x = max * whole
    <3> HIDE DEF q, r
    <3>1. whole * max = max * whole /\ whole * max \in Int OBVIOUS
    <3> QED BY <1>3, <1>4, <2>1, <3>1
  <2>3. Line(x, whole, max) = {<<max - 1, max * whole - x>>, <<max, whole + (x - max * whole)>>}
    <3>1. max * whole \in Int OBVIOUS
    <3>2. x >= max * whole BY <2>2, <3>1
    <3> QED BY <1>1, <3>2, LineAbove
  <2>4. max * whole - x = 0 /\ whole + (x - max * whole) = whole BY <1>1, <2>2
  <2>5. Line(x, whole, max) = {<<max - 1, 0>>, <<max, whole>>} BY <2>3, <2>4
  <2>6. Between(x, whole) = {<<max, whole>>} BY <1>4, <2>1 DEF Between
  <2> QED BY <2>5, <2>6 DEF Counting
<1>5. CASE q # max
  <2>1. Line(x, whole, max) = {<<q, whole - r>>, <<q + 1, r>>} BY <1>5, LineInside
  <2>2. CASE r = 0
    <3>1. Between(x, whole) = {<<q, whole>>} BY <2>2 DEF Between
    <3>2. whole - 0 = whole OBVIOUS
    <3> HIDE DEF q, r
    <3> QED BY <2>1, <2>2, <3>1, <3>2 DEF Counting
  <2>3. CASE r # 0
    <3>1. Between(x, whole) = {<<q, whole - r>>, <<q + 1, r>>} BY <2>3 DEF Between
    <3> HIDE DEF q, r
    <3> QED BY <2>1, <3>1 DEF Counting
  <2> QED BY <2>2, <2>3
<1> QED BY <1>4, <1>5

LEMMA CurveSizes ==
  ASSUME NEW t, CurveBegins(t), ~Reversed(t), t.form \in Sampled
  PROVE  /\ MaxGridPoint(t, 1) \in Nat /\ MaxGridPoint(t, 1) > 0
         /\ t.lo \in Int /\ t.hi \in Int /\ t.lo < t.hi /\ Whole(t) = t.hi - t.lo
         /\ \A v \in Int : Advance(t, v) = v - t.lo
<1>1. t.grid[1] \in Nat /\ t.grid[1] >= 2 /\ t.lo \in Int /\ t.hi \in Int /\ t.lo # t.hi
  BY DEF CurveBegins, Sampled
<1>2. t.lo < t.hi BY <1>1 DEF Reversed
<1>3. Whole(t) = t.hi - t.lo BY <1>2 DEF Whole, Sampled, Distance
<1>4. \A v \in Int : Advance(t, v) = v - t.lo BY <1>2 DEF Advance
<1> QED BY <1>1, <1>2, <1>3, <1>4 DEF MaxGridPoint

(* What a curve ought to be is the line. *)
LEMMA MeantIsLine ==
  ASSUME NEW t, NEW way
  PROVE  MeantLine(t, way) = Line(way * MaxGridPoint(t, 1), Whole(t), MaxGridPoint(t, 1))
  BY DEF MeantLine, Line

LEMMA WithinIs ==
  ASSUME NEW v \in Int, NEW lo \in Int, NEW hi \in Int, lo < hi
  PROVE  /\ Within(v, lo, hi) \in lo .. hi
         /\ Within(v, lo, hi) = IF v < lo THEN lo ELSE IF v > hi THEN hi ELSE v
  BY DEF Within, Larger, Smaller

LEMMA SegmentAsMeant ==
  ASSUME NEW t, CurveBegins(t), ~Reversed(t), t.form = "segment", NEW v \in Int, IsFinite(v)
  PROVE  Counting(ApplySegment(t, v)) = Counting(MeantLine(t, Within(Advance(t, v), 0, Whole(t))))
<1> DEFINE m == MaxGridPoint(t, 1)
           w == Whole(t)
           y == Within(v, t.lo, t.hi)
           x == (y - t.lo) * m
<1>1. /\ m \in Nat /\ m > 0 /\ t.lo \in Int /\ t.hi \in Int /\ t.lo < t.hi /\ w = t.hi - t.lo
      /\ \A u \in Int : Advance(t, u) = u - t.lo
  BY CurveSizes DEF Sampled
<1>2. y \in t.lo .. t.hi /\ y = IF v < t.lo THEN t.lo ELSE IF v > t.hi THEN t.hi ELSE v
  BY <1>1, WithinIs
<1>3. ApplySegment(t, v) = Between(x, w)
  <2>1. Clamped(t, v) = y BY <1>2 DEF Clamped
  <2>2. Advance(t, y) = y - t.lo BY <1>1, <1>2
  <2> HIDE DEF y
  <2> QED BY <2>1, <2>2 DEF ApplySegment
<1>4. MeantLine(t, Within(Advance(t, v), 0, w)) = Line(x, w, m)
  <2>1. Within(Advance(t, v), 0, w) = y - t.lo BY <1>1, <1>2 DEF Within, Larger, Smaller
  <2> QED BY <2>1, MeantIsLine
<1> HIDE DEF m, w, y
<1>5. w \in Nat /\ w > 0 /\ y - t.lo \in 0 .. w BY <1>1, <1>2
<1>6. x \in 0 .. m * w BY <1>1, <1>5, ScaledUpTo
<1> HIDE DEF x
<1> QED BY <1>1, <1>3, <1>4, <1>5, <1>6, BetweenAsLine DEF w

LEMMA SampledAsMeant ==
  ASSUME NEW t, CurveBegins(t), ~Reversed(t), t.form \in {"sampled", "calculator"}, NEW v \in Int
  PROVE  Counting(ApplySampled(t, v))
           = Counting(MeantLine(t, IF t.clip = "extend" THEN Advance(t, v)
                                   ELSE Within(Advance(t, v), 0, Whole(t))))
<1> DEFINE m == MaxGridPoint(t, 1)
           w == Whole(t)
           y == IF t.clip = "extend" THEN v ELSE Within(v, t.lo, t.hi)
           way == IF t.clip = "extend" THEN Advance(t, v) ELSE Within(Advance(t, v), 0, w)
           x == (y - t.lo) * m
<1>1. /\ m \in Nat /\ m > 0 /\ t.lo \in Int /\ t.hi \in Int /\ t.lo < t.hi /\ w = t.hi - t.lo
      /\ Advance(t, v) = v - t.lo
  BY CurveSizes DEF Sampled
<1>2. w \in Nat /\ w > 0 BY <1>1
<1>3. Within(v, t.lo, t.hi) = IF v < t.lo THEN t.lo ELSE IF v > t.hi THEN t.hi ELSE v BY <1>1, WithinIs
<1>4. MeantLine(t, way) = Line(x, w, m)
  <2>1. way = y - t.lo BY <1>1, <1>3 DEF Within, Larger, Smaller
  <2> HIDE DEF way, y
  <2> QED BY <2>1, MeantIsLine
<1>5. y \in Int BY <1>1, <1>3
<1>6. x \in Int BY <1>1, <1>5
<1>7. ASSUME v < t.lo PROVE Counting(ApplySampled(t, v)) = Counting(Line(x, w, m))
  <2>1. ApplySampled(t, v) = ApplyBelow(t, v) BY <1>1, <1>7 DEF ApplySampled
  <2>2. x <= 0
    <3>1. y - t.lo <= 0 /\ y - t.lo \in Int BY <1>1, <1>3, <1>7
    <3> DEFINE d == -(y - t.lo)
    <3>2. d \in Nat /\ d * m \in Nat /\ d * m = -x BY <1>1, <1>5, <3>1, Products
    <3> HIDE DEF x, d
    <3> QED BY <1>6, <3>2
  <2>3. Line(x, w, m) = {<<0, w - x>>, <<1, x>>}
    <3> HIDE DEF x, w, m
    <3> QED BY <1>1, <1>2, <1>6, <2>2, LineBelow
  <2>4. CASE t.clip = "extend"
    <3>1. ApplyBelow(t, v) = {<<0, w - x>>, <<1, x>>} BY <1>1, <2>4 DEF ApplyBelow
    <3> HIDE DEF x, w, m
    <3> QED BY <2>1, <2>3, <3>1
  <2>5. CASE t.clip # "extend"
    <3>1. ApplyBelow(t, v) = {<<0, w>>} BY <2>5 DEF ApplyBelow
    <3>2. x = 0 /\ w - 0 = w
      <4>1. y = t.lo /\ t.lo - t.lo = 0 /\ 0 * m = 0 BY <1>1, <1>3, <1>7, <2>5
      <4> QED BY <1>2, <4>1
    <3> HIDE DEF x, w, m
    <3>3. Line(x, w, m) = {<<0, w>>, <<1, 0>>} BY <2>3, <3>2
    <3> QED BY <1>2, <2>1, <3>1, <3>3 DEF Counting
  <2> QED BY <2>4, <2>5
<1>8. ASSUME v > t.hi PROVE Counting(ApplySampled(t, v)) = Counting(Line(x, w, m))
  <2>1. ApplySampled(t, v) = ApplyAbove(t, v)
    <3>1. v >= t.lo /\ ~(v < t.lo) /\ v \notin t.lo .. t.hi BY <1>1, <1>8
    <3> QED BY <1>8, <3>1, Zenon DEF ApplySampled
  <2> DEFINE z == (v - t.hi) * m
  <2>2. z \in Nat
    <3>1. v - t.hi \in Nat BY <1>1, <1>8
    <3> HIDE DEF m
    <3> QED BY <1>1, <3>1, Products
  <2>3. m * w \in Nat BY <1>1, <1>2, Products
  <2>4. CASE t.clip = "extend"
    <3>1. ApplyAbove(t, v) = {<<m, w + z>>, <<m - 1, -z>>}
      <4>1. Advance(t, v) - w = v - t.hi BY <1>1
      <4> QED BY <2>4, <4>1 DEF ApplyAbove
    <3>2. x = z + m * w
      <4>1. y = v /\ v - t.lo = (v - t.hi) + w BY <1>1, <2>4
      <4>2. ((v - t.hi) + w) * m = (v - t.hi) * m + w * m BY <1>1, <1>2
      <4>3. w * m = m * w BY <1>1, <1>2
      <4> QED BY <4>1, <4>2, <4>3
    <3> HIDE DEF x, w, m, z
    <3>3. x >= m * w /\ m * w - x = -z /\ w + (x - m * w) = w + z BY <1>2, <2>2, <2>3, <3>2
    <3>4. Line(x, w, m) = {<<m - 1, m * w - x>>, <<m, w + (x - m * w)>>}
      BY <1>1, <1>2, <1>6, <3>3, LineAbove, ZenonT(40)
    <3>5. Line(x, w, m) = {<<m, w + z>>, <<m - 1, -z>>} BY <3>3, <3>4
    <3> QED BY <2>1, <3>1, <3>5
  <2>5. CASE t.clip # "extend"
    <3>1. ApplyAbove(t, v) = {<<m, w>>} BY <2>5 DEF ApplyAbove
    <3>2. x = m * w
      <4>1. y = t.hi BY <1>1, <1>3, <1>8, <2>5
      <4>2. y - t.lo = w BY <1>1, <4>1
      <4> QED BY <1>1, <1>2, <4>2
    <3> HIDE DEF x, w, m
    <3>3. x >= m * w /\ m * w - x = 0 /\ w + (x - m * w) = w BY <1>2, <2>3, <3>2
    <3>4. Line(x, w, m) = {<<m - 1, m * w - x>>, <<m, w + (x - m * w)>>}
      BY <1>1, <1>2, <1>6, <3>3, LineAbove, ZenonT(40)
    <3>5. Line(x, w, m) = {<<m - 1, 0>>, <<m, w>>} BY <3>3, <3>4
    <3> QED BY <1>2, <2>1, <3>1, <3>5 DEF Counting
  <2> QED BY <2>4, <2>5
<1>9. ASSUME v \in t.lo .. t.hi PROVE Counting(ApplySampled(t, v)) = Counting(Line(x, w, m))
  <2>1. y = v BY <1>1, <1>3, <1>9
  <2>2. ApplySampled(t, v) = Between(x, w)
    <3>1. ~(v < t.lo) /\ ~(v > t.hi) BY <1>1, <1>9
    <3> QED BY <1>1, <1>9, <2>1, <3>1 DEF ApplySampled
  <2>3. y - t.lo \in 0 .. w BY <1>1, <1>9, <2>1
  <2> HIDE DEF y, w, m
  <2>4. x \in 0 .. m * w BY <1>1, <1>2, <2>3, ScaledUpTo
  <2> HIDE DEF x
  <2> QED BY <1>1, <1>2, <2>2, <2>4, BetweenAsLine
<1>10. v < t.lo \/ v > t.hi \/ v \in t.lo .. t.hi BY <1>1
<1>11. Counting(ApplySampled(t, v)) = Counting(Line(x, w, m)) BY <1>7, <1>8, <1>9, <1>10
<1> QED BY <1>4, <1>11

LEMMA TagCurveAsMeant ==
  ASSUME NEW t, CurveBegins(t), CurveServed(t), t.form = "curve", NEW v \in Int, IsFinite(v)
  PROVE  Counting(ApplyTagCurve(t, v)) = Counting(MeantLine(t, Within(Advance(t, v), 0, Whole(t))))
<1> DEFINE m == MaxGridPoint(t, 1)
           y == Within(v, 0, Unit)
           x == y * m
<1>1. m \in Nat /\ m > 0 /\ Whole(t) = Unit
  <2>1. t.grid[1] \in Nat /\ t.grid[1] >= 2 BY DEF CurveBegins
  <2> QED BY <2>1 DEF MaxGridPoint, Whole
<1>2. t.lo = 0 /\ t.hi = Unit /\ m < IndexRange
  <2>1. t.grid[1] \in Nat /\ t.grid[1] <= IndexRange BY DEF CurveBegins, CurveServed, CurveEnds
  <2> QED BY <2>1, IndexRangeAssumption DEF CurveServed, CurveEnds, MaxGridPoint
<1>3. MaxIndex(t) = m
  <2>1. MaxIndex(t) = m % IndexRange BY DEF MaxIndex
  <2> HIDE DEF m
  <2>2. m = IndexRange * 0 + m /\ m \in 0 .. IndexRange - 1 BY <1>1, <1>2, IndexRangeAssumption
  <2>3. m % IndexRange = m BY <1>1, <2>2, IndexRangeAssumption, Divides
  <2> QED BY <2>1, <2>3
<1>4. v # NaN /\ Unit \in Nat /\ Unit > 0 BY UnitAssumption DEF IsFinite, NaN, Infinity
<1>5. y \in 0 .. Unit BY Kept01
<1>6. ApplyTagCurve(t, v) = IF x \div Unit = m THEN {<<m, Unit>>}
        ELSE {<<x \div Unit, Unit - (x % Unit)>>, <<x \div Unit + 1, x % Unit>>}
  BY <1>3, <1>4 DEF ApplyTagCurve
<1>7. MeantLine(t, Within(Advance(t, v), 0, Whole(t))) = Line(x, Unit, m)
  <2>1. Advance(t, v) = v BY <1>2, <1>4 DEF Advance
  <2> QED BY <1>1, <2>1, MeantIsLine
<1> HIDE DEF m, y
<1>8. x \in 0 .. m * Unit BY <1>1, <1>4, <1>5, ScaledUpTo
<1> HIDE DEF x
<1>9. CASE x \div Unit = m
  <2>1. x % Unit = 0 BY <1>1, <1>4, <1>8, <1>9, QuotientUpTo
  <2>2. Between(x, Unit) = {<<m, Unit>>} BY <1>9, <2>1 DEF Between
  <2>3. ApplyTagCurve(t, v) = Between(x, Unit) BY <1>6, <1>9, <2>2
  <2> QED BY <1>1, <1>4, <1>7, <1>8, <2>3, BetweenAsLine
<1>10. CASE x \div Unit # m
  <2>1. Line(x, Unit, m) = {<<x \div Unit, Unit - (x % Unit)>>, <<x \div Unit + 1, x % Unit>>}
    BY <1>1, <1>4, <1>8, <1>10, LineInside
  <2> QED BY <1>6, <1>7, <1>10, <2>1
<1> QED BY <1>9, <1>10
-----------------------------------------------------------------------------
(* Of an array, and the client's vector before it where there is one: only   *)
(* the two vectors next to the source count.                                 *)
LEMMA VectorsAsMeant ==
  ASSUME NEW t, CurveBegins(t), CurveServed(t), t.form = "array", NEW v \in Int, IsFinite(v)
  PROVE  Counting(ApplyVectors(t, v)) = Counting(MeantVectors(t, v))
<1> DEFINE first == IF t.zero THEN -1 ELSE 0
           last == IF t.zero THEN t.grid[1] ELSE t.grid[1] - 1
           y == Within(v, 0, Unit)
           x == y * last
           at == Cell(x, last, Unit).at
           part == Cell(x, last, Unit).part
           weight(i) == Nearness(x, i - first)
<1>1. /\ last \in Nat /\ last > 0 /\ t.out \in Nat /\ first \in Int /\ t.grid[1] \in Nat
      /\ t.zero \in BOOLEAN /\ last + first = t.grid[1] - 1
  BY DEF CurveBegins
<1>2. v # NaN /\ Unit \in Nat /\ Unit > 0 BY UnitAssumption DEF IsFinite, NaN, Infinity
<1>3. y \in 0 .. Unit BY Kept01
<1>4. t.clip # "integers" BY DEF CurveServed
<1>5. KnotAt(t, at) = (at + first) * t.out /\ KnotAt(t, at + 1) = (at + 1 + first) * t.out
  <2>1. \A i \in Int : KnotAt(t, i) = (i + first) * t.out BY <1>1, <1>4 DEF KnotAt
  <2>2. at \in Int
    <3> HIDE DEF y, last
    <3>1. x \in 0 .. last * Unit BY <1>1, <1>2, <1>3, ScaledUpTo
    <3> HIDE DEF x
    <3>2. at \in 0 .. last - 1 BY <1>1, <1>2, <3>1, CellMakesUp
    <3> QED BY <3>2
  <2> HIDE DEF first, at
  <2>3. at + 1 \in Int BY <2>2
  <2> QED BY <2>1, <2>2, <2>3
<1>6. ApplyVectors(t, v) = {<<(at + first) * t.out, Unit - part>>, <<(at + 1 + first) * t.out, part>>}
  <2>1. ApplyVectors(t, v) = {<<KnotAt(t, at), Unit - part>>, <<KnotAt(t, at + 1), part>>}
    BY <1>1, <1>2 DEF ApplyVectors
  <2> QED BY <1>5, <2>1
<1>7. MeantVectors(t, v) = {<<i * t.out, weight(i)>> : i \in first .. t.grid[1] - 1}
  <2>1. MeantVectors(t, v)
          = {<<i * t.out, Nearness((t.grid[1] - 1 - first) * y, i - first)>> : i \in first .. t.grid[1] - 1}
    BY DEF MeantVectors
  <2>2. (t.grid[1] - 1 - first) * y = x
    <3>1. t.grid[1] - 1 - first = last BY <1>1
    <3>2. y \in Int BY <1>2, <1>3
    <3> HIDE DEF y, last
    <3>3. last * y = y * last BY <1>1, <3>2
    <3> QED BY <3>1, <3>3
  <2> HIDE DEF x, y, first
  <2> QED BY <2>1, <2>2
<1> HIDE DEF y
<1>8. x \in 0 .. last * Unit
  <2> HIDE DEF last
  <2> QED BY <1>1, <1>2, <1>3, ScaledUpTo
<1> HIDE DEF x, last
<1>9. at \in 0 .. last - 1 /\ part \in 0 .. Unit /\ x = at * Unit + part BY <1>1, <1>2, <1>8, CellMakesUp
<1> HIDE DEF at, part, first
<1>10. at \in Int /\ at + first \in first .. t.grid[1] - 1 /\ at + 1 + first \in first .. t.grid[1] - 1
  BY <1>1, <1>9
<1>11. \A i \in first .. t.grid[1] - 1 :
         weight(i) = IF i = at + first THEN Unit - part ELSE IF i = at + 1 + first THEN part ELSE 0
  <2> SUFFICES ASSUME NEW i \in first .. t.grid[1] - 1
               PROVE  weight(i) = IF i = at + first THEN Unit - part
                                  ELSE IF i = at + 1 + first THEN part ELSE 0
    OBVIOUS
  <2>1. i - first \in Int BY <1>1
  <2>2. weight(i) = IF i - first = at THEN Unit - part ELSE IF i - first = at + 1 THEN part ELSE 0
    BY <1>9, <1>10, <2>1, NearTheCell
  <2>3. (i - first = at <=> i = at + first) /\ (i - first = at + 1 <=> i = at + 1 + first)
    BY <1>1, <1>10
  <2> HIDE DEF weight
  <2> QED BY <2>2, <2>3
<1> HIDE DEF weight
<1>12. at + first # at + 1 + first BY <1>1, <1>10
<1> DEFINE p == at + first
           q == at + 1 + first
<1> HIDE DEF p, q
<1>13. /\ p \in first .. t.grid[1] - 1 /\ q \in first .. t.grid[1] - 1 /\ p # q
       /\ weight(p) = Unit - part /\ weight(q) = part
       /\ \A i \in first .. t.grid[1] - 1 : i \notin {p, q} => weight(i) = 0
       /\ ApplyVectors(t, v) = {<<p * t.out, Unit - part>>, <<q * t.out, part>>}
  BY <1>6, <1>10, <1>11, <1>12 DEF p, q
<1>14. Counting(ApplyVectors(t, v)) \subseteq Counting(MeantVectors(t, v))
  BY <1>7, <1>13 DEF Counting
<1>15. Counting(MeantVectors(t, v)) \subseteq Counting(ApplyVectors(t, v))
  <2> SUFFICES ASSUME NEW i \in first .. t.grid[1] - 1, weight(i) # 0
               PROVE  <<i * t.out, weight(i)>> \in ApplyVectors(t, v)
    BY <1>7 DEF Counting
  <2>1. i \in {p, q} BY <1>13
  <2> QED BY <1>13, <2>1
<1> QED BY <1>14, <1>15

(* Curves of every kind, sampled or tabulated, and arrays of vectors that    *)
(* Begin accepts: for every number, Apply and Interpolate weigh the entries  *)
(* as the line through the two next to it does, continued where the curve    *)
(* extends (CIccTagCurve, the sampled curves of elements, CIccTagNumArray);  *)
(* but not of a sampled curve whose first entry is above its last, which     *)
(* Begin takes too.                                                          *)
THEOREM CurvesAsMeant ==
  ASSUME NEW t, CurveBegins(t), CurveServed(t), ~Reversed(t), NEW src \in [1 .. 1 -> Int], IsFinite(src[1]),
         NEW method
  PROVE  Counting(LookUp(t, src, method)) = Counting(Meant(t, src, method))
<1> DEFINE v == src[1]
           w == IF t.clip = "extend" THEN Advance(t, v) ELSE Within(Advance(t, v), 0, Whole(t))
<1>1. v \in Int /\ IsFinite(v) BY SMT
<1>2. t.form \in CurveForms BY DEF CurveBegins
<1>3. t.form \notin {"clut", "array"} => Meant(t, src, method) = MeantLine(t, w) BY DEF Meant
<1>4. ASSUME t.form = "array" PROVE Counting(LookUp(t, src, method)) = Counting(Meant(t, src, method))
  <2>1. LookUp(t, src, method) = ApplyVectors(t, v) BY <1>4 DEF LookUp
  <2>2. Meant(t, src, method) = MeantVectors(t, v) BY <1>4 DEF Meant
  <2> QED BY <1>1, <1>4, <2>1, <2>2, VectorsAsMeant
<1>5. ASSUME t.form = "curve" PROVE Counting(LookUp(t, src, method)) = Counting(Meant(t, src, method))
  <2>1. LookUp(t, src, method) = ApplyTagCurve(t, v) BY <1>5 DEF LookUp
  <2>2. w = Within(Advance(t, v), 0, Whole(t)) BY <1>5 DEF CurveServed, CurveEnds
  <2> QED BY <1>1, <1>3, <1>5, <2>1, <2>2, TagCurveAsMeant
<1>6. ASSUME t.form = "segment" PROVE Counting(LookUp(t, src, method)) = Counting(Meant(t, src, method))
  <2>1. LookUp(t, src, method) = ApplySegment(t, v) BY <1>6 DEF LookUp
  <2>2. w = Within(Advance(t, v), 0, Whole(t)) BY <1>6 DEF CurveServed, CurveEnds
  <2> QED BY <1>1, <1>3, <1>6, <2>1, <2>2, SegmentAsMeant
<1>7. ASSUME t.form \in {"sampled", "calculator"}
      PROVE  Counting(LookUp(t, src, method)) = Counting(Meant(t, src, method))
  <2>1. LookUp(t, src, method) = ApplySampled(t, v)
    BY <1>1, <1>7 DEF LookUp, ApplySingleSampled, ApplyCalculatorCurve
  <2>2. Meant(t, src, method) = MeantLine(t, w) BY <1>3, <1>7
  <2> QED BY <1>1, <1>7, <2>1, <2>2, SampledAsMeant
<1> QED BY <1>2, <1>4, <1>5, <1>6, <1>7 DEF CurveForms
-----------------------------------------------------------------------------
(* Apply objects have room for the nodes of every table, and elements only   *)
(* of their chain.                                                           *)
RoomFor == [i \in {0} \cup DOMAIN xform.elems |-> NodesOf(TableAt(i))]
ApplySound ==
  /\ xform \in Transforms
  /\ phase \in {"ready", "applying", "done"} =>
       /\ room = RoomFor
       /\ xform.class = "mpe" => chain \in Seq(DOMAIN xform.elems)
  /\ phase = "applying" /\ xform.class = "mpe" => todo \in Seq(DOMAIN xform.elems)

LEMMA ChainAmong ==
  ASSUME xform \in Transforms, NEW S
  PROVE  Kept(Positions(xform), S) \in Seq(DOMAIN xform.elems)
<1> DEFINE n == Len(xform.elems)
           s == Positions(xform)
           r == Kept(s, S)
<1>1. n \in Nat /\ DOMAIN xform.elems = 1 .. n BY TransformsAssumption
<1>2. List(s) /\ Len(s) = n BY <1>1, Numbers DEF Positions
<1>3. \A i \in 1 .. n : s[i] = i BY DEF Positions
<1> HIDE DEF s
<1>4. List(r) BY <1>2, KeptIsList
<1>5. \A k \in 1 .. Len(r) : r[k] \in 1 .. n
  <2>1. \A k \in 1 .. Len(r) : \E i \in 1 .. Len(s) : r[k] = s[i] BY <1>2, KeptAmong
  <2> HIDE DEF r
  <2> QED BY <1>2, <1>3, <2>1
<1> HIDE DEF r
<1>6. Len(r) \in Nat /\ r \in [1 .. Len(r) -> 1 .. n] BY <1>4, <1>5 DEF List
<1>7. r \in Seq(1 .. n) BY <1>6
<1> QED BY <1>1, <1>7 DEF r, s

LEMMA TodoShrinks ==
  ASSUME NEW D, NEW s \in Seq(D), Len(s) > 0
  PROVE  s[1] \in D /\ Tail(s) \in Seq(D)
  OBVIOUS

LEMMA NothingToDo ==
  ASSUME NEW D PROVE <<>> \in Seq(D)
  OBVIOUS

LEMMA MoreThanNone ==
  ASSUME NEW D, NEW s \in Seq(D), NEW n \in Nat, Len(s) > n \/ Len(s) = n + 1
  PROVE  Len(s) > 0
  OBVIOUS

LEMMA RoomStays ==
  ASSUME xform' = xform PROVE RoomFor' = RoomFor
  BY DEF RoomFor, NodesOf, TableAt, ElemOf

LEMMA NewRoom ==
  ASSUME NewApply PROVE room' = RoomFor /\ xform' = xform
  BY DEF NewApply, RoomFor

LEMMA ApplyStaysSound ==
  ASSUME ApplySound, [Next]_vars PROVE ApplySound'
<1> USE DEF ApplySound
<1>0. xform' = xform => RoomFor' = RoomFor BY RoomStays
<1>1. CASE Begin BY <1>0, <1>1 DEF Begin
<1>2. CASE ExtractCurves BY <1>0, <1>2 DEF ExtractCurves
<1>3. CASE NewApply
  <2>1. PICK S : chain' = Kept(Positions(xform), S) BY <1>3 DEF NewApply
  <2>2. chain' \in Seq(DOMAIN xform.elems) BY <2>1, ChainAmong
  <2> QED BY <1>0, <1>3, <2>2, NewRoom DEF NewApply
<1>4. CASE NewApplyFails BY <1>0, <1>4 DEF NewApplyFails
<1>5. ASSUME NEW place \in BOOLEAN, StartPixel(place) PROVE ApplySound' BY <1>0, <1>5 DEF StartPixel
<1>6. CASE LutStep BY <1>0, <1>6 DEF LutStep
<1>7. CASE LutDone BY <1>0, <1>7 DEF LutDone
<1>8. ASSUME phase = "applying", xform.class = "mpe", Len(todo) > 0, todo' = Tail(todo),
             UNCHANGED <<xform, phase, room, chain>>
      PROVE  ApplySound'
  <2>1. todo \in Seq(DOMAIN xform.elems) BY <1>8
  <2>2. Tail(todo) \in Seq(DOMAIN xform.elems) BY <1>8, <2>1, TodoShrinks
  <2> QED BY <1>0, <1>8, <2>2
<1>9. CASE OnlyElement
  <2>1. Len(todo) = 1 BY <1>9 DEF OnlyElement, First
  <2>2. Len(todo) > 0 BY <2>1
  <2> QED BY <1>8, <1>9, <2>2 DEF OnlyElement
<1>10. CASE FirstElement
  <2>1. phase = "applying" /\ xform.class = "mpe" /\ Len(todo) > 1 BY <1>10 DEF FirstElement, First
  <2>2. Len(todo) > 0 BY <2>1, MoreThanNone
  <2> QED BY <1>8, <1>10, <2>2 DEF FirstElement
<1>11. CASE SkipAcs
  <2>1. phase = "applying" /\ xform.class = "mpe" /\ Len(todo) > 1 BY <1>11 DEF SkipAcs
  <2>2. Len(todo) > 0 BY <2>1, MoreThanNone
  <2> QED BY <1>8, <1>11, <2>2 DEF SkipAcs
<1>12. CASE NextElement
  <2>1. phase = "applying" /\ xform.class = "mpe" /\ Len(todo) > 1 BY <1>12 DEF NextElement
  <2>2. Len(todo) > 0 BY <2>1, MoreThanNone
  <2> QED BY <1>8, <1>12, <2>2 DEF NextElement
<1>13. CASE LastElement
  <2>1. <<>> \in Seq(DOMAIN xform.elems) BY NothingToDo
  <2> QED BY <1>0, <1>13, <2>1 DEF LastElement
<1>14. CASE ChainDone BY <1>0, <1>14 DEF ChainDone
<1>15. CASE EndPixel BY <1>0, <1>15 DEF EndPixel
<1>16. CASE UNCHANGED vars BY <1>0, <1>16 DEF vars
<1> QED
  BY <1>1, <1>2, <1>3, <1>4, <1>5, <1>6, <1>7, <1>9, <1>10, <1>11, <1>12, <1>13, <1>14, <1>15, <1>16
  DEF Next

LEMMA ClutFits ==
  ASSUME NEW t, NEW n, ClutBegins(t, n)
  PROVE  ClutOf(t, n) /\ t.form = "clut" /\ t.clip \in ClipKinds
<1>1. t.form = "clut" /\ t.clip \in ClipKinds /\ n \in 1 .. 16 BY DEF ClutBegins, ClipKinds
<1>2. GridOf(t, n) BY DEF ClutBegins, GridOf
<1>3. t.out \in Nat \ {0} BY DEF ClutBegins
<1>4. t.out \in Nat /\ t.out > 0 BY <1>3
<1> QED BY <1>1, <1>2, <1>4 DEF ClutOf

(* The method says how many inputs there are. *)
LEMMA MethodServes ==
  ASSUME NEW t, NEW n, ClutBegins(t, n), NEW class, NEW tetra, NEW m, m = Method(class, n, tetra),
         m = "4d" => t.grid[1] = t.grid[2]
  PROVE  ServedBy(t, n, m)
<1>1. n \in 1 .. 16 /\ GridOf(t, n) BY DEF ClutBegins, GridOf
<1>2. Inputs(t) = n
  <2>1. n \in Nat BY <1>1
  <2> QED BY <1>1, <2>1, InputsAre
<1>3. /\ m = "4d" => n = 4
      /\ m = "2d" => n = 2
      /\ m = "tetra" => n = 3
  <2>1. CASE n = 3 BY <2>1 DEF Method
  <2>2. CASE n = 4 BY <2>2 DEF Method
  <2>3. CASE n = 5 BY <2>3 DEF Method
  <2>4. CASE n = 6 BY <2>4 DEF Method
  <2>5. CASE n \in 1 .. 2
    <3>1. n # 3 /\ n # 4 /\ n # 5 /\ n # 6 BY <2>5
    <3>2. m \in {"nd"} \cup {IF n = 1 THEN "1d" ELSE "2d"} BY <2>5, <3>1 DEF Method
    <3> QED BY <2>5, <3>2
  <2>6. CASE n \notin 1 .. 6
    <3>1. n # 3 /\ n # 4 /\ n # 5 /\ n # 6 /\ n \notin 1 .. 2 BY <2>6
    <3>2. m = "nd" BY <3>1 DEF Method
    <3> QED BY <3>2
  <2> QED BY <1>1, <2>1, <2>2, <2>3, <2>4, <2>5, <2>6
<1>4. m = "4d" => Inputs(t) > 1 BY <1>2, <1>3
<1> QED BY <1>3, <1>4 DEF ServedBy, SameFirst

LEMMA ClutAsMeant ==
  ASSUME NEW t, NEW n, ClutBegins(t, n), NEW src, Sources1(n, src), NEW m, ServedBy(t, n, m)
  PROVE  Counting(LookUp(t, src, m)) = Counting(Meant(t, src, m))
<1>1. ClutOf(t, n) /\ t.form = "clut" /\ t.clip \in ClipKinds BY ClutFits
<1>2. CASE m = "tetra"
  <2>1. n = 3 BY <1>2 DEF ServedBy
  <2>2. LookUp(t, src, m) = Interp3dTetra(t, src) BY <1>1, <1>2 DEF LookUp, InterpClut
  <2>3. Meant(t, src, m) = MeantTetra(t, src) BY <1>1, <1>2 DEF Meant
  <2> QED BY <1>1, <2>1, <2>2, <2>3, TetraAsMeant DEF Counting
<1>3. CASE m # "tetra"
  <2>1. LookUp(t, src, m) = InterpLinear(t, src, m) BY <1>1, <1>3 DEF LookUp, InterpClut
  <2>2. Meant(t, src, m) = MeantLinear(t, src) BY <1>1, <1>3 DEF Meant
  <2> QED BY <1>1, <2>1, <2>2, LinearAsMeant DEF Counting
<1> QED BY <1>2, <1>3

(* What Interpolates says of the lookup in looked. *)
AsMeant(l) ==
  ~Confused(l) =>
    /\ Reads(l.table, l.entries) \subseteq NumbersOf(l.table)
    /\ l.method = "nd" => l.room >= TwoTo[Inputs(l.table)]
    /\ ~Reversed(l.table) /\ (\A k \in DOMAIN l.src : IsFinite(l.src[k])) =>
         Counting(l.entries) = Counting(Meant(l.table, l.src, l.method))

LEMMA LookupInterpolates ==
  ASSUME NEW t, NEW n, Serves(t, n), t # NoTable, NEW src \in Sources(t), NEW class, NEW tetra,
         NEW l, l = [table |-> t, src |-> src,
                   method |-> IF t.form = "clut" THEN Method(class, n, tetra) ELSE "none",
                   entries |-> LookUp(t, src, IF t.form = "clut" THEN Method(class, n, tetra) ELSE "none"),
                   room |-> NodesOf(t)]
  PROVE  AsMeant(l)
<1> DEFINE m == IF t.form = "clut" THEN Method(class, n, tetra) ELSE "none"
<1>1. /\ l.table = t /\ l.src = src /\ l.method = m
      /\ l.entries = LookUp(t, src, m) /\ l.room = NodesOf(t)
  OBVIOUS
<1>2. src \in [1 .. n -> Int] BY DEF Serves
<1>3. SUFFICES ASSUME ~Confused(l)
               PROVE  /\ Reads(t, LookUp(t, src, m)) \subseteq NumbersOf(t)
                      /\ m = "nd" => NodesOf(t) >= TwoTo[Inputs(t)]
                      /\ ~Reversed(t) /\ (\A k \in DOMAIN src : IsFinite(src[k])) =>
                           Counting(LookUp(t, src, m)) = Counting(Meant(t, src, m))
  BY <1>1 DEF AsMeant
<1>4. /\ m = "4d" => t.grid[1] = t.grid[2]
      /\ m = "nd" => t.clip # "as is"
      /\ t.clip # "integers"
      /\ t.form = "curve" => ~(t.grid[1] > IndexRange)
  BY <1>1, <1>3 DEF Confused
<1>5. CASE ClutBegins(t, n)
  <2>1. ClutOf(t, n) /\ t.form = "clut" /\ t.clip \in ClipKinds
    BY <1>5, ClutFits
  <2>2. m = Method(class, n, tetra) BY <2>1
  <2> HIDE DEF m
  <2>3. ServedBy(t, n, m) BY <1>4, <1>5, <2>2, MethodServes
  <2>4. Reads(t, LookUp(t, src, m)) \subseteq NumbersOf(t) BY <1>2, <2>1, <2>3, TablesReadInside
  <2>5. m = "nd" => NodesOf(t) >= TwoTo[Inputs(t)]
    <3>1. Inputs(t) = n /\ n \in 0 .. 17 BY <2>1, ClutSizes
    <3>2. TwoTo[n] \in Nat BY <3>1, Powers
    <3>3. t.clip # "as is" => NodesOf(t) = TwoTo[n] BY <3>1 DEF NodesOf
    <3> SUFFICES ASSUME m = "nd" PROVE NodesOf(t) >= TwoTo[Inputs(t)] OBVIOUS
    <3>4. NodesOf(t) = TwoTo[n] BY <1>4, <3>3
    <3> DEFINE p == TwoTo[n]
    <3> HIDE DEF p
    <3>5. p \in Nat /\ p >= p BY <3>2 DEF p
    <3> QED BY <3>1, <3>4, <3>5 DEF p
  <2>6. ASSUME \A k \in DOMAIN src : IsFinite(src[k])
        PROVE  Counting(LookUp(t, src, m)) = Counting(Meant(t, src, m))
    <3>1. Sources1(n, src) BY <1>2, <2>6 DEF Sources1
    <3> QED BY <1>5, <2>3, <3>1, ClutAsMeant
  <2> QED BY <2>4, <2>5, <2>6
<1>6. CASE n = 1 /\ CurveBegins(t) /\ CurveEnds(t)
  <2>1. m = "none" BY <1>6 DEF CurveBegins, CurveForms
  <2>2. src \in [1 .. 1 -> Int] BY <1>2, <1>6
  <2>3. CurveServed(t)
    <3>1. t.grid[1] \in Nat BY <1>6 DEF CurveBegins
    <3>2. t.form = "curve" => ~(t.grid[1] > IndexRange) BY <1>4
    <3>3. t.form = "curve" => t.grid[1] <= IndexRange BY <3>1, <3>2, IndexRangeAssumption
    <3>4. t.clip # "integers" BY <1>4
    <3> QED BY <1>6, <3>3, <3>4 DEF CurveServed
  <2> HIDE DEF m
  <2>4. Reads(t, LookUp(t, src, m)) \subseteq NumbersOf(t) BY <1>4, <1>6, <2>2, CurvesReadInside
  <2>5. ASSUME ~Reversed(t), \A k \in DOMAIN src : IsFinite(src[k])
        PROVE  Counting(LookUp(t, src, m)) = Counting(Meant(t, src, m))
    <3>1. IsFinite(src[1]) BY <2>2, <2>5
    <3> QED BY <1>6, <2>2, <2>3, <2>5, <3>1, CurvesAsMeant
  <2> QED BY <2>1, <2>4, <2>5
<1> QED BY <1>5, <1>6 DEF Serves

LEMMA LookupStep ==
  ASSUME ApplySound, room = RoomFor, xform' = xform,
         NEW i \in {0} \cup DOMAIN xform.elems, LookedUp(i)
  PROVE  Interpolates'
<1> DEFINE t == TableAt(i)
           m == IF t.form = "clut" THEN Method(xform.class, InputsAt(i), xform.tetra) ELSE "none"
<1>1. Serves(t, InputsAt(i))
  <2>1. xform \in Transforms BY DEF ApplySound
  <2>2. Serves(xform.table, xform.nIn)
        /\ \A k \in DOMAIN xform.elems : Serves(xform.elems[k].table, xform.elems[k].in)
    BY <2>1, TablesAssumption
  <2>3. CASE i = 0 BY <2>2, <2>3 DEF TableAt, InputsAt
  <2>4. CASE i # 0
    <3>1. i \in DOMAIN xform.elems BY <2>4
    <3> QED BY <2>2, <2>4, <3>1 DEF TableAt, InputsAt, ElemOf
  <2> QED BY <2>3, <2>4
<1>2. CASE t = NoTable
  <2>1. looked' = NoLookup BY <1>2 DEF LookedUp
  <2> QED BY <2>1 DEF Interpolates
<1>3. CASE t # NoTable
  <2>1. PICK src \in Sources(t) :
          looked' = [table |-> t, src |-> src, method |-> m, entries |-> LookUp(t, src, m), room |-> room[i]]
    BY <1>3 DEF LookedUp
  <2>2. room[i] = NodesOf(t) BY DEF RoomFor
  <2>3. looked' = [table |-> t, src |-> src,
                   method |-> m, entries |-> LookUp(t, src, m), room |-> NodesOf(t)]
    BY <2>1, <2>2
  <2>4. AsMeant(looked')
    <3> HIDE DEF t
    <3> QED BY <1>1, <1>3, <2>3, LookupInterpolates
  <2> QED BY <2>4 DEF AsMeant, Interpolates, Confused, Counting
<1> QED BY <1>2, <1>3
-----------------------------------------------------------------------------
LEMMA LookupsStayMeant ==
  ASSUME ApplySound, Interpolates, [Next]_vars PROVE Interpolates'
<1>1. ASSUME looked' = NoLookup PROVE Interpolates' BY <1>1 DEF Interpolates
<1>2. ASSUME looked' = looked PROVE Interpolates' BY <1>2 DEF Interpolates, Confused
<1>3. CASE LutStep
  <2>1. room = RoomFor /\ xform' = xform BY <1>3 DEF LutStep, ApplySound
  <2>2. looked' = NoLookup \/ LookedUp(0) BY <1>3 DEF LutStep
  <2>3. 0 \in {0} \cup DOMAIN xform.elems OBVIOUS
  <2> QED BY <1>1, <2>1, <2>2, <2>3, LookupStep
<1>4. ASSUME phase = "applying", xform.class = "mpe", Len(todo) > 0, xform' = xform, LookedUp(todo[1])
      PROVE  Interpolates'
  <2>1. room = RoomFor /\ todo \in Seq(DOMAIN xform.elems) BY <1>4 DEF ApplySound
  <2>2. todo[1] \in DOMAIN xform.elems BY <1>4, <2>1, TodoShrinks
  <2>3. todo[1] \in {0} \cup DOMAIN xform.elems BY <2>2
  <2> QED BY <1>4, <2>1, <2>3, LookupStep
<1>5. CASE OnlyElement
  <2>1. Len(todo) = 1 /\ phase = "applying" /\ xform.class = "mpe" /\ xform' = xform
    BY <1>5 DEF OnlyElement, First
  <2>2. Len(todo) > 0 BY <2>1
  <2>3. LookedUp(todo[1]) BY <1>5 DEF OnlyElement, Element
  <2> QED BY <1>4, <2>1, <2>2, <2>3
<1>6. ASSUME phase = "applying", xform.class = "mpe", xform' = xform, LookedUp(todo[1]),
             Len(todo) > 1 \/ Len(todo) = 1
      PROVE  Interpolates'
  <2>1. todo \in Seq(DOMAIN xform.elems) BY <1>6 DEF ApplySound
  <2>2. Len(todo) > 0
    <3>1. CASE Len(todo) > 1 BY <2>1, <3>1, MoreThanNone
    <3>2. CASE Len(todo) = 1 BY <3>2
    <3> QED BY <1>6, <3>1, <3>2
  <2> QED BY <1>4, <1>6, <2>2
<1>7. CASE FirstElement BY <1>6, <1>7 DEF FirstElement, First, Element
<1>8. CASE NextElement BY <1>6, <1>8 DEF NextElement, Element
<1>9. CASE LastElement BY <1>6, <1>9 DEF LastElement, Last, Element
<1>10. CASE LutDone BY <1>1, <1>10 DEF LutDone
<1>11. CASE ChainDone BY <1>1, <1>11 DEF ChainDone
<1>12. CASE Begin \/ ExtractCurves \/ NewApply \/ NewApplyFails \/ SkipAcs \/ EndPixel
  BY <1>2, <1>12 DEF Begin, ExtractCurves, NewApply, NewApplyFails, SkipAcs, EndPixel
<1>13. ASSUME NEW place \in BOOLEAN, StartPixel(place) PROVE Interpolates'
  BY <1>2, <1>13 DEF StartPixel
<1>14. CASE UNCHANGED vars BY <1>2, <1>14 DEF vars
<1> QED
  BY <1>3, <1>5, <1>7, <1>8, <1>9, <1>10, <1>11, <1>12, <1>13, <1>14 DEF Next

(* Every lookup of every transform, for tables and curves of any size and    *)
(* any integers as sources, reads entries its table has, in scratch memory   *)
(* with room for every node; and for numbers the entries count as the        *)
(* interpolation means them to (Interp1d to InterpND, the tetrahedra, and    *)
(* Apply of the curves and arrays), but for the lookups of Confused and the  *)
(* sampled curves whose first entry is above the last.                       *)
THEOREM LookupsInterpolate == Spec => []Interpolates
<1>1. Init => ApplySound /\ Interpolates
  BY DEF Init, ApplySound, Interpolates
<1>2. (ApplySound /\ Interpolates) /\ [Next]_vars => (ApplySound /\ Interpolates)'
  BY ApplyStaysSound, LookupsStayMeant
<1> QED
  BY <1>1, <1>2, PTL DEF Spec
=============================================================================
