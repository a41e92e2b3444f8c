------------------------------- MODULE Lookup -------------------------------
(***************************************************************************)
(* Tables and what a lookup makes of them: CIccCLUT and CIccTagCurve         *)
(* (IccProfLib/IccTagLut.cpp), the sampled curves of IccMpeBasic.cpp, and    *)
(* Interpolate of number arrays (IccTagBasic.cpp).  A lookup is the set of   *)
(* the entries it reads, each with its weight; an entry is its index in      *)
(* m_pData, m_Curve, m_pSamples or m_Num.  Sources are integers, of which    *)
(* Unit make 1.0, so that all weights are exact; very large ones stand for   *)
(* what is not finite.                                                       *)
(*                                                                           *)
(* A table is a record: form says which code; grid the entries along each    *)
(* input; out how many values an entry has; clip what becomes of a source    *)
(* outside; lo and hi the sources of the first and the last entry, of which  *)
(* a sampled curve may have lo above hi.                                     *)
(***************************************************************************)
EXTENDS Integers, Sequences, FiniteSets

CONSTANTS
  Unit,         \* what makes 1.0
  IndexRange    \* how many values the index of a curve tag has (2^16 in the code)

ASSUME UnitAssumption == Unit \in Nat /\ Unit > 1
ASSUME IndexRangeAssumption == IndexRange \in Nat /\ IndexRange > 1

NaN      == 3000 * Unit
Infinity == 2000 * Unit
IsFinite(v) == v < Infinity /\ v > -Infinity

Smaller(a, b) == IF a < b THEN a ELSE b
Larger(a, b) == IF a < b THEN b ELSE a
Within(v, low, high) == Larger(low, Smaller(v, high))
Distance(a, b) == IF a < b THEN b - a ELSE a - b

Inputs(t) == Len(t.grid)

(* Of sequences of numbers. *)
Product(s) == LET p[k \in 0 .. Len(s)] == IF k = 0 THEN 1 ELSE p[k - 1] * s[k] IN p[Len(s)]
Total(s) == LET p[k \in 0 .. Len(s)] == IF k = 0 THEN 0 ELSE p[k - 1] + s[k] IN p[Len(s)]

(* What of a sequence is in a set.                                           *)
Kept(s, S) ==
  LET kept[k \in 0 .. Len(s)] ==
        IF k = 0 THEN <<>> ELSE IF s[k] \in S THEN Append(kept[k - 1], s[k]) ELSE kept[k - 1]
  IN kept[Len(s)]

NumPoints(t) == Product(t.grid)
-----------------------------------------------------------------------------
(* What becomes of a source before it is scaled: an encoded table clips it,  *)
(* the table of an element makes infinity, of either sign, a large number,   *)
(* and one of a spectral element takes it as it is.                          *)
ClutUnitClip(v) == IF v = NaN THEN 0 ELSE Within(v, 0, Unit)
NoClip(v) == CASE v = NaN -> 0 [] v # NaN /\ ~IsFinite(v) -> 1000 * Unit [] OTHER -> v

UnitClip(t, v) ==
  CASE t.clip = "unit" -> ClutUnitClip(v) [] t.clip = "none" -> NoClip(v) [] t.clip = "as is" -> v

(* How far along input k the source is, with max the last entry there.       *)
MaxGridPoint(t, k) == t.grid[k] - 1

NoNumber == -1
Scaled(t, k, v) == Larger(0, UnitClip(t, v) * MaxGridPoint(t, k))

Along(t, k, v) ==
  IF UnitClip(t, v) = NaN THEN NoNumber ELSE Smaller(Scaled(t, k, v), MaxGridPoint(t, k) * Unit)

(* Interp4d compares its first channel with the second one's limit.          *)
AlongFirstOf4(t, v) ==
  IF UnitClip(t, v) = NaN THEN NoNumber
  ELSE IF Scaled(t, 1, v) > MaxGridPoint(t, 2) * Unit THEN MaxGridPoint(t, 1) * Unit
  ELSE Scaled(t, 1, v)

(* The entry at or below x and the part of the way to the next, of whole;    *)
(* the last entry is the end of the cell below it.  No number is cast to 0,  *)
(* as 64-bit processors leave it.                                            *)
CellAtEnd(x, max, whole) ==
  IF x = NoNumber THEN [at |-> 0, part |-> 0] ELSE [at |-> x \div whole, part |-> x % whole]
Cell(x, max, whole) ==
  CASE x = NoNumber                          -> [at |-> 0, part |-> 0]
    [] x # NoNumber /\ x \div whole = max    -> [at |-> max - 1, part |-> whole]
    [] OTHER                                 -> [at |-> x \div whole, part |-> x % whole]

Cells(t, src, method) ==
  [k \in 1 .. Inputs(t) |->
     Cell(IF method = "4d" /\ k = 1 THEN AlongFirstOf4(t, src[k]) ELSE Along(t, k, src[k]),
          MaxGridPoint(t, k), Unit)]
-----------------------------------------------------------------------------
(* Begin: the distance between neighbours along each input, and of the       *)
(* corners of a cell from its first.  Corner j is one step up along the      *)
(* inputs whose bits it has.                                                 *)
DimSize(t) ==
  LET dim[k \in 1 .. Inputs(t)] ==
        IF k = Inputs(t) THEN t.out ELSE dim[k + 1] * t.grid[k + 1]
  IN dim

(* Powers of two, as 1 << n makes them; a table has at most 16 inputs. *)
TwoTo[n \in 0 .. 17] == IF n = 0 THEN 1 ELSE 2 * TwoTo[n - 1]

Corners(t) == 0 .. TwoTo[Inputs(t)] - 1
HighestBit(j) == CHOOSE h \in 0 .. 16 : TwoTo[h] <= j /\ j < TwoTo[h + 1]
Has(j, k) == (j \div TwoTo[k - 1]) % 2 = 1

Offset(t) ==
  LET dim == DimSize(t)
      offset[j \in Corners(t)] ==
        IF j = 0 THEN 0 ELSE dim[HighestBit(j) + 1] + offset[j - TwoTo[HighestBit(j)]]
  IN offset

FirstCorner(t, cells) ==
  LET dim == DimSize(t) IN Total([k \in 1 .. Inputs(t) |-> cells[k].at * dim[k]])

(* Interp2d keeps a cell from reaching past the table. *)
FirstCorner2d(t, cells) ==
  Smaller(FirstCorner(t, cells), NumPoints(t) * t.out - (t.out + Offset(t)[3]))

CornerWeight(cells, j) ==
  Product([k \in DOMAIN cells |-> IF Has(j, k) THEN cells[k].part ELSE Unit - cells[k].part])

InterpLinear(t, src, method) ==
  LET cells == Cells(t, src, method)
      first == IF method = "2d" THEN FirstCorner2d(t, cells) ELSE FirstCorner(t, cells)
      offset == Offset(t)
  IN {<<first + offset[j], CornerWeight(cells, j)>> : j \in Corners(t)}

(* Tetrahedra: the corners on the way from the first to the last, one input  *)
(* after the other, which Interp3dTetra chooses by comparing the parts.      *)
TetraPath(v, u, t) ==
  CASE t < u /\ t > v               -> <<2, 3, 1>>
    [] t < u /\ t <= v /\ u < v     -> <<1, 2, 3>>
    [] t < u /\ t <= v /\ u >= v    -> <<2, 1, 3>>
    [] t >= u /\ t < v              -> <<1, 3, 2>>
    [] t >= u /\ t >= v /\ u < v    -> <<3, 1, 2>>
    [] t >= u /\ t >= v /\ u >= v   -> <<3, 2, 1>>

Interp3dTetra(t, src) ==
  LET cells == Cells(t, src, "tetra")
      part == [k \in 1 .. 3 |-> cells[k].part]
      path == TetraPath(part[1], part[2], part[3])
      after == [i \in 0 .. 3 |-> Offset(t)[Total([n \in 1 .. i |-> TwoTo[path[n] - 1]])]]
      left == [i \in 0 .. 4 |-> IF i = 0 THEN Unit ELSE IF i = 4 THEN 0 ELSE part[path[i]]]
  IN {<<FirstCorner(t, cells) + after[i], left[i] - left[i + 1]>> : i \in 0 .. 3}

(* Which function serves a table of so many inputs. *)
Method(class, n, tetra) ==
  CASE n = 3 -> IF tetra THEN "tetra" ELSE "3d"
    [] n = 4 -> "4d"
    [] n = 5 -> "5d"
    [] n = 6 -> "6d"
    [] n \in 1 .. 2 /\ class = "mpe" -> IF n = 1 THEN "1d" ELSE "2d"
    [] OTHER -> "nd"

InterpClut(t, src, method) ==
  IF method = "tetra" THEN Interp3dTetra(t, src) ELSE InterpLinear(t, src, method)
-----------------------------------------------------------------------------
(* Curves.  Whole is what the weights of a lookup add up to. *)
Whole(t) ==
  CASE t.form = "clut"                 -> Unit^Inputs(t)
    [] t.form \in {"curve", "array"}   -> Unit
    [] OTHER                           -> Distance(t.lo, t.hi)

(* How far a source is from the first entry, towards the last one.           *)
Advance(t, v) == IF t.lo < t.hi THEN v - t.lo ELSE t.lo - v
Sampled == {"segment", "sampled", "calculator"}
Reversed(t) == t.form \in Sampled /\ t.hi < t.lo

Between(x, whole) ==
  IF x % whole = 0 THEN {<<x \div whole, whole>>}
  ELSE {<<x \div whole, whole - (x % whole)>>, <<x \div whole + 1, x % whole>>}

(* CIccTagCurve of two or more entries, whose last index is cut to 16 bits. *)
MaxIndex(t) == MaxGridPoint(t, 1) % IndexRange
ApplyTagCurve(t, v) ==
  LET max == MaxIndex(t)
      x == (IF v = NaN THEN 0 ELSE Within(v, 0, Unit)) * max
  IN IF x \div Unit = max THEN {<<max, Unit>>}
     ELSE {<<x \div Unit, Unit - (x % Unit)>>, <<x \div Unit + 1, x % Unit>>}

(* A sampled segment ends at its ends; what is not finite is its start.  Of  *)
(* a reversed one only the two ends are read.                                *)
Clamped(t, v) == IF v < t.lo THEN t.lo ELSE IF v > t.hi THEN t.hi ELSE v
ApplySegment(t, v) ==
  LET inside == IF IsFinite(v) THEN Clamped(t, v) ELSE t.lo
  IN Between(Advance(t, inside) * MaxGridPoint(t, 1), Whole(t))

(* The other sampled curves continue with the slope Begin computed at each   *)
(* end; a single sampled curve has constants for what is not finite, and     *)
(* reads nothing then.  Every source of a reversed curve is beyond an end.   *)
ApplyBelow(t, v) ==
  LET x == Advance(t, v) * MaxGridPoint(t, 1)
  IN IF t.clip = "extend" THEN {<<0, Whole(t) - x>>, <<1, x>>} ELSE {<<0, Whole(t)>>}

ApplyAbove(t, v) ==
  LET max == MaxGridPoint(t, 1)
      x == (Advance(t, v) - Whole(t)) * max
  IN IF t.clip = "extend" THEN {<<max, Whole(t) + x>>, <<max - 1, -x>>} ELSE {<<max, Whole(t)>>}

ApplySampled(t, v) ==
  CASE v < t.lo                    -> ApplyBelow(t, v)
    [] v >= t.lo /\ v > t.hi       -> ApplyAbove(t, v)
    [] v \in t.lo .. t.hi          -> Between(Advance(t, v) * MaxGridPoint(t, 1), Whole(t))

ApplySingleSampled(t, v) == IF IsFinite(v) THEN ApplySampled(t, v) ELSE {}
ApplyCalculatorCurve(t, v) == ApplySampled(t, IF IsFinite(v) THEN v ELSE t.lo)

(* Vectors of out numbers each.  The client may have one of its own to stand *)
(* before the first (zeroVals), whose numbers have the indices below 0 here; *)
(* CIccTagNum tests for it the other way round.                              *)
KnotAt(t, i) ==
  IF t.clip = "integers" THEN (IF t.zero THEN i ELSE i - 1) * t.out
  ELSE (IF t.zero THEN i - 1 ELSE i) * t.out

ApplyVectors(t, v) ==
  LET last == IF t.zero THEN t.grid[1] ELSE t.grid[1] - 1
      cell == Cell(IF v = NaN THEN NoNumber ELSE Within(v, 0, Unit) * last, last, Unit)
  IN IF last = 0 THEN {}
     ELSE {<<KnotAt(t, cell.at), Unit - cell.part>>, <<KnotAt(t, cell.at + 1), cell.part>>}

(* Curves and arrays that Begin accepts. *)
CurveForms == {"curve", "segment", "sampled", "calculator", "array"}
CurveBegins(t) ==
  /\ t.form \in CurveForms
  /\ t.grid \in Seq(Nat) /\ Len(t.grid) = 1
  /\ t.grid[1] >= (IF t.form = "array" /\ t.zero THEN 1 ELSE 2)
  /\ t.lo \in Int /\ t.hi \in Int /\ t.lo # t.hi
  /\ t.out \in Nat /\ t.out > 0 /\ (t.form # "array" => t.out = 1)
  /\ t.zero \in BOOLEAN

(* A curve tag goes from 0 to 1; it and a segment stop at their ends. *)
CurveEnds(t) ==
  /\ t.form \in {"curve", "segment"} => t.clip # "extend"
  /\ t.form = "curve" => t.lo = 0 /\ t.hi = Unit

(* Tables of at least two entries along each of at most 16 inputs. *)
ClutBegins(t, n) ==
  /\ t.form = "clut" /\ t.clip \in {"unit", "none", "as is"}
  /\ n \in 1 .. 16 /\ t.grid \in [1 .. n -> Nat \ {0, 1}]
  /\ t.out \in Nat \ {0}

LookUp(t, src, method) ==
  CASE t.form = "clut"         -> InterpClut(t, src, method)
    [] t.form = "curve"        -> ApplyTagCurve(t, src[1])
    [] t.form = "segment"      -> ApplySegment(t, src[1])
    [] t.form = "sampled"      -> ApplySingleSampled(t, src[1])
    [] t.form = "calculator"   -> ApplyCalculatorCurve(t, src[1])
    [] t.form = "array"        -> ApplyVectors(t, src[1])

(* The numbers that are read and those that there are. *)
Reads(t, entries) == {e[1] + o : e \in entries, o \in 0 .. t.out - 1}
NumbersOf(t) ==
  IF t.form = "clut" THEN 0 .. NumPoints(t) * t.out - 1
  ELSE (IF t.form = "array" /\ t.zero THEN -t.out ELSE 0) .. t.grid[1] * t.out - 1
-----------------------------------------------------------------------------
(* What a lookup ought to be, without cells: of a table, each grid point     *)
(* counts by how near it is along every input; of tetrahedra, for each level *)
(* between 0 and 1 the point one up along the inputs whose part reaches it;  *)
(* of a curve, a line through the two entries next to the source, the        *)
(* outermost ones continued where it extends.                                *)
Exact(t, k, v) == Within(v, 0, Unit) * MaxGridPoint(t, k)

(* Where grid point e lies along input k: the last input varies fastest. *)
Coordinate(t, e, k) == (e \div Product(SubSeq(t.grid, k + 1, Inputs(t)))) % t.grid[k]

Nearness(x, at) == Larger(0, Unit - Distance(x, at * Unit))

MeantLinear(t, src) ==
  {<<e * t.out,
     Product([k \in 1 .. Inputs(t) |-> Nearness(Exact(t, k, src[k]), Coordinate(t, e, k))])>> :
     e \in 0 .. NumPoints(t) - 1}

UpAt(x, level) == IF x % Unit >= level THEN x \div Unit + 1 ELSE x \div Unit
MeantTetra(t, src) ==
  {<<e * t.out,
     Cardinality({level \in 1 .. Unit :
       \A k \in 1 .. 3 : Coordinate(t, e, k) = UpAt(Exact(t, k, src[k]), level)})>> :
     e \in 0 .. NumPoints(t) - 1}

MeantLine(t, way) ==
  LET x == way * MaxGridPoint(t, 1)
      i == Within(x \div Whole(t), 0, MaxGridPoint(t, 1) - 1)
  IN {<<i, Whole(t) * (i + 1) - x>>, <<i + 1, x - Whole(t) * i>>}

MeantVectors(t, v) ==
  LET first == IF t.zero THEN -1 ELSE 0
      last == t.grid[1] - 1
  IN {<<i * t.out, Nearness((last - first) * Within(v, 0, Unit), i - first)>> :
        i \in first .. last}

Meant(t, src, method) ==
  CASE t.form = "clut" /\ method = "tetra"   -> MeantTetra(t, src)
    [] t.form = "clut" /\ method # "tetra"   -> MeantLinear(t, src)
    [] t.form = "array"                      -> MeantVectors(t, src[1])
    [] OTHER -> MeantLine(t, IF t.clip = "extend" THEN Advance(t, src[1])
                             ELSE Within(Advance(t, src[1]), 0, Whole(t)))
=============================================================================
