--------------------------- MODULE CompoundFormats ---------------------------
(***************************************************************************)
(* How tags made of several texts, curves or matrices are read and written  *)
(* (IccProfLib/IccTagBasic.cpp, IccTagLut.cpp, IccTagDict.cpp,              *)
(* IccTagProfSeqId.cpp, IccMpeBasic.cpp), in the terms of TagFormats.  All  *)
(* parts of an image are alike and lie where Write puts them, but where a   *)
(* field says otherwise; the width of what they hold is counted in bytes.   *)
(***************************************************************************)
EXTENDS ElementFormats

Larger(a, b) == IF a > b THEN a ELSE b
Padding(x) == PaddedTo4(x) - x

(* Localized text: n strings of m bytes in records of k bytes; the first     *)
(* string stands at u, the others follow.  v = 1: all are of one language    *)
(* and country, 2: all share the bytes of the first, 3: they are no UTF-16.  *)
LocalizedEnd(i) == i.u + (IF i.v = 2 THEN 1 ELSE i.n) * i.m

LocalizedUsed(i) == IF i.n = 0 THEN 16 ELSE Larger(16 + 12 * i.n, LocalizedEnd(i))

LocalizedRead(i) ==
  Marked(Object(i.n, 0, IF i.n = 0 THEN 0 ELSE i.m, 0), IF i.v = 1 THEN 1 ELSE 0)

(* A mutant: takes the records for the whole tag. *)
LoadLocalizedTrusting(i) ==
  LoadedIf(/\ i.k = 12 /\ i.n <= 65536 /\ 16 + 12 * i.n <= i.size
           /\ i.n > 0 /\ i.m > 0 => i.m % 2 = 0 /\ i.u >= 16 + 12 * i.n /\ i.v < 3,
           LocalizedRead(i), LocalizedUsed(i))

LoadLocalized(i) ==
  LoadedIf(/\ i.k = 12 /\ i.n <= 65536 /\ 16 + 12 * i.n <= i.size
           /\ i.n > 0 => LocalizedEnd(i) <= i.size
           /\ i.n > 0 /\ i.m > 0 => i.m % 2 = 0 /\ i.u >= 16 + 12 * i.n /\ i.v < 3,
           LocalizedRead(i), LocalizedUsed(i))

SaveLocalized(o) == Image(16 + o.n * (12 + o.m), [o EXCEPT !.k = 12, !.u = 16 + 12 * o.n])

(* A localized text inside another tag: none or one string, of m bytes. *)
TextBytes(records, m) == 16 + records * (12 + m)
TextAllowed(records, m) == IF records = 0 THEN m = 0 ELSE records = 1 /\ m % 2 = 0

(* Dictionary: n entries in records of k bytes.  m and u tell of an entry's  *)
(* name and value: 0 absent, 1 empty, x + 1 of x bytes.  v says which of the *)
(* two (1 the name, 2 the value) it has a localized form of too, a text of   *)
(* no strings.  A name that is there and empty sets the value, not the name. *)
RecordLength(v) == CASE v = 0 -> 16 [] v = 1 -> 24 [] OTHER -> 32

FormsRead(v, k) ==
  CASE k = 16 -> 0 [] k = 24 -> v % 2 [] OTHER -> v

FormsCount(v) == CASE v = 0 -> 0 [] v = 3 -> 2 [] OTHER -> 1

PartBytes(x) == IF x = 0 THEN 0 ELSE x - 1

EntryBytes(name, value, v) == PaddedTo4(name) + PaddedTo4(value) + 16 * FormsCount(v)

LastPadding(name, value, v) ==
  CASE v > 0             -> 0
    [] v = 0 /\ value > 0 -> Padding(value)
    [] OTHER             -> Padding(name)

ValueRead(m, u) ==
  CASE u > 0            -> 1 + PartBytes(u)
    [] u = 0 /\ m = 1   -> 1
    [] OTHER            -> 0

LoadDict(i) ==
  LET name == PartBytes(i.m)
      value == PartBytes(i.u)
      v == FormsRead(i.v, i.k)
      end == 16 + i.n * i.k + i.n * EntryBytes(name, value, v)
               - (IF i.n = 0 THEN 0 ELSE LastPadding(name, value, v))
  IN LoadedIf(/\ i.k \in {16, 24, 32} /\ i.n <= 1048576
              /\ 16 + i.n * i.k <= i.size
              /\ end <= i.size
              /\ i.n > 0 => value % 2 = 0,
              IF i.n = 0 THEN Object(0, 0, 0, 0)
              ELSE Marked(Object(i.n, 0, 1 + 2 * (name \div 2), ValueRead(i.m, i.u)), v), end)

SaveDict(o) ==
  Image(16 + o.n * (RecordLength(o.v) + EntryBytes(PartBytes(o.m), PartBytes(o.u), o.v)),
        [o EXCEPT !.k = RecordLength(o.v)])

(* Profile sequence: n profiles, each with 20 bytes of fields and two        *)
(* localized texts of k strings of m bytes.  The reader finds a text after   *)
(* the padding of the one before, but not fields: after the first profile    *)
(* these are read where the padding starts (v = 1).  It compares a text with *)
(* what is left before that padding, and a profile with its own struct.      *)
ProfileDescStructBytes == 88
FieldsMove(n, text) == n > 1 /\ Padding(text) > 0

LoadProfileSequence(i) ==
  LET text == TextBytes(i.k, i.m)
      pad == Padding(text)
      end == 12 + i.n * (20 + 2 * PaddedTo4(text)) - pad
  IN IF i.n = 0 THEN LoadedIf(12 <= i.size, Object(0, 0, 0, 0), 12)
     ELSE LoadedIf(/\ 12 + ProfileDescStructBytes <= i.size
                   /\ i.n <= i.size \div 20
                   /\ TextAllowed(i.k, i.m)
                   /\ end - pad <= i.size,
                   Marked(Object(i.n, i.k, i.m, 0), IF FieldsMove(i.n, text) THEN 1 ELSE i.v),
                   end)

SaveProfileSequence(o) ==
  Image(12 + o.n * (20 + 2 * PaddedTo4(TextBytes(o.k, o.m))), o)

(* Profile sequence identifiers: a table of n positions and sizes, then an   *)
(* identifier and a localized text for each.                                 *)
LoadProfileSequenceId(i) ==
  LET text == 16 + TextBytes(i.k, i.m)
      end == 12 + 8 * i.n + i.n * PaddedTo4(text) - (IF i.n = 0 THEN 0 ELSE Padding(text))
  IN LoadedIf(/\ 12 + 8 * i.n <= i.size
              /\ i.n > 0 => end <= i.size /\ TextAllowed(i.k, i.m),
              IF i.n = 0 THEN Object(0, 0, 0, 0) ELSE Object(i.n, i.k, i.m, 0), end)

SaveProfileSequenceId(o) ==
  Image(12 + 8 * o.n + o.n * PaddedTo4(16 + TextBytes(o.k, o.m)), o)

(* Response curves: n curves of k channels with m measurements each, in a    *)
(* tag that starts at v in the file.  A curve's position in the file, not in *)
(* the tag, is compared with the tag's size; room is asked for one           *)
(* measurement of each channel, and all are read.                            *)
CurveBytes(k, m) == 4 + k * (16 + 8 * m)
LastCurve(o) == 12 + 4 * o.n + (o.n - 1) * CurveBytes(o.k, o.m)

LoadResponseCurves(i) ==
  IF i.n = 0 THEN LoadedIf(12 <= i.size, Marked(Object(0, i.k, 0, 0), i.v), 12)
  ELSE LoadedIf(/\ 12 + 4 * i.n <= i.size
                /\ i.k > 0 /\ LastCurve(i) + 4 <= i.size
                /\ i.v + LastCurve(i) <= i.size
                /\ CurveBytes(i.k, 1) <= i.size - LastCurve(i),
                Marked(Object(i.n, i.k, i.m, 0), i.v), LastCurve(i) + CurveBytes(i.k, i.m))

SaveResponseCurves(o) == Image(12 + 4 * o.n + o.n * CurveBytes(o.k, o.m), o)

(* Sparse matrices: n of them, each of m rows and v entries, in blocks of k  *)
(* floats in memory; u is the type of the values.  The entries of a file     *)
(* take less room than a block.  All that follows is read too.               *)
EntryWidth(u) == CASE u = 1 -> 1 [] u = 4 -> 4 [] OTHER -> 2
MaxEntries(k, m) == (4 * k - 4 - 4 * (m + 1) - 3) \div 6
SparseBytes(i) == PaddedTo4(6 + 2 * i.m + 2 * i.v) + PaddedTo4(i.v * EntryWidth(i.u))

SparseInMemory(i) ==
  /\ i.n \in 1 .. 65536 /\ i.k >= 1 /\ 4 * i.n * i.k <= 67108864
  /\ i.m <= 4096 /\ 11 + 4 * i.m <= 4 * i.k
  /\ i.v \in 1 .. MaxEntries(i.k, i.m) /\ i.u \in 1 .. 4

LoadSparseMatrices(i) ==
  LoadedIf(18 <= i.size /\ SparseInMemory(i) /\ 16 + i.n * SparseBytes(i) <= i.size,
           Marked(Object(i.n, i.k, i.m, i.u), i.v), i.size)

SaveSparseMatrices(o) == Image(16 + o.n * SparseBytes(o), o)

(* Segmented curve: n segments, formulas of type k or, when v = 1, sampled   *)
(* ones of m samples, after the n - 1 breakpoints between them.              *)
Breakpoints(n) == IF n > 1 THEN 4 * (n - 1) ELSE 0

LoadSegment(i, left) ==
  LET segment == [i EXCEPT !.size = left, !.n = i.m]
  IN IF i.v = 1 THEN LoadSampledSegment(segment) ELSE LoadFormulaSegment(segment)

SegmentBytes(i) ==
  IF i.v = 1 THEN 12 + 4 * i.m
  ELSE IF i.k \in 0 .. 7 THEN 12 + 4 * FormulaParameters[i.k + 1] ELSE 0

LoadSegmentedCurve(i) ==
  LET last == 12 + Breakpoints(i.n) + (i.n - 1) * SegmentBytes(i)
      segment == LoadSegment(i, i.size - last)
  IN IF i.n = 0 THEN LoadedIf(12 <= i.size, Object(0, 0, 0, 0), 12)
     ELSE LoadedIf(/\ 12 <= i.size /\ last <= i.size /\ segment.ok
                   /\ IF i.n = 1 THEN 16 <= i.size ELSE i.n <= i.size - 12,
                   IF i.v = 1 THEN Marked(Object(i.n, 0, segment.n, 0), 1)
                   ELSE Object(i.n, i.k, 0, 0),
                   last + segment.used)

SaveSegmentedCurve(o) ==
  LET segments == IF o.v = 1 THEN [o EXCEPT !.m = @ - 1] ELSE o
  IN Image(12 + Breakpoints(o.n) + o.n * SegmentBytes(segments), segments)

(* LUT of curves, matrix and table, from k inputs to m outputs.  v has a bit *)
(* for each part that is there: 1 the B curves, 2 the matrix, 4 the M        *)
(* curves, 8 the table, 16 the A curves; and 32 for two bytes of each value  *)
(* of the table, which has u grid points.  All curves have n entries and are *)
(* not the identity.  B and M curves are on the side of the PCS.             *)
Has(v, part) == (v \div part) % 2 = 1

LutCurves(o, part, channels) == IF Has(o.v, part) THEN channels * PaddedTo4(12 + 2 * o.n) ELSE 0

LutTable(o) == [size |-> 0, after |-> 0, n |-> o.u, k |-> o.k, m |-> o.m,
                u |-> IF Has(o.v, 32) THEN 2 ELSE 1, v |-> 0]

(* Where the parts start and end, of which pcs have B and M curves and       *)
(* device A curves.                                                          *)
LutEnds(o, pcs, device) ==
  LET b == 32 + LutCurves(o, 1, pcs)
      matrix == b + (IF Has(o.v, 2) THEN 48 ELSE 0)
      m == matrix + LutCurves(o, 4, pcs)
      table == SaveCLUT(LutTable(o)).size
      clut == m + (IF Has(o.v, 8) THEN PaddedTo4(table) ELSE 0)
  IN [b |-> b, matrix |-> matrix, m |-> m, clut |-> clut,
      a |-> clut + LutCurves(o, 16, device)]

LoadLutParts(i, pcs, device) ==
  LET end == LutEnds(i, pcs, device)
      pad == Padding(12 + 2 * i.n)
      table == LoadCLUT([LutTable(i) EXCEPT !.size = i.size - end.m, !.after = i.after])
  IN LoadedIf(/\ 32 <= i.size /\ i.k \in 1 .. 15 /\ i.m \in 1 .. 15
              /\ Has(i.v, 1) => end.b - pad <= i.size
              /\ Has(i.v, 2) => end.matrix <= i.size
              /\ Has(i.v, 4) => end.m - pad <= i.size
              /\ Has(i.v, 8) => end.m <= i.size /\ table.ok
              /\ Has(i.v, 16) => end.a - pad <= i.size,
              i,
              CASE Has(i.v, 16)                     -> end.a - pad
                [] Has(i.v, 8) /\ ~Has(i.v, 16)     -> end.m + table.used
                [] Has(i.v, 4) /\ i.v % 32 < 8      -> end.m - pad
                [] Has(i.v, 2) /\ i.v % 32 < 4      -> end.matrix
                [] Has(i.v, 1) /\ i.v % 32 = 1      -> end.b - pad
                [] OTHER                            -> 32)

LoadLutAtoB(i) == LoadLutParts(i, i.m, i.k)
LoadLutBtoA(i) == LoadLutParts(i, i.k, i.m)
SaveLutAtoB(o) == Image(LutEnds(o, o.m, o.k).a, o)
SaveLutBtoA(o) == Image(LutEnds(o, o.k, o.m).a, o)
=============================================================================
