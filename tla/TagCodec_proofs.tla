--------------------------- MODULE TagCodec_proofs ---------------------------
(***************************************************************************)
(* TagCodec for every size, count and header field.  First, what the Read    *)
(* functions accept lies inside the tag, but for the formats that Overruns   *)
(* names.  Then the XML and JSON documents: what a reader accepts is what    *)
(* was written but for what is forgotten, and a second trip in the same      *)
(* language changes nothing.                                                 *)
(***************************************************************************)
EXTENDS TagCodec, TLAPS

ImageSet == [size : Nat, after : Nat, n : Nat, k : Nat, m : Nat, u : Nat, v : Nat]

(* Whole elements of a width take no more bytes than there are. *)
LEMMA WholeElements ==
  ASSUME NEW x \in Nat, NEW w \in Nat \ {0}
  PROVE  /\ x \div w \in Nat
         /\ (x \div w) * w <= x
  OBVIOUS

FormatSet ==
  [head : Nat, least : Nat, width : Nat \ {0}, from : {"size", "field", "none"},
   low : Nat, top : Nat]

(* The formats of a header and elements: what is read fits when the least    *)
(* size covers the header.                                                   *)
LEMMA PlainFits ==
  ASSUME NEW f \in FormatSet, f.head <= f.least, NEW i \in ImageSet, LoadPlain(f, i).ok
  PROVE  LoadPlain(f, i).used <= i.size
<1> DEFINE n == Elements(f, i)
<1>1. f.least <= i.size /\ (f.from = "field" => n <= (i.size - f.head) \div f.width)
  BY DEF LoadPlain, LoadedIf, Refused
<1>2. LoadPlain(f, i).used = f.head + n * f.width
  BY DEF LoadPlain, LoadedIf, Refused
<1>3. i.size - f.head \in Nat /\ f.width \in Nat \ {0} /\ f.head \in Nat /\ i.size \in Nat
  BY <1>1 DEF FormatSet, ImageSet
<1>4. (i.size - f.head) \div f.width \in Nat
      /\ ((i.size - f.head) \div f.width) * f.width <= i.size - f.head
  BY <1>3, WholeElements
<1>5. CASE f.from = "size"
  <2>1. n = (i.size - f.head) \div f.width
    BY <1>5 DEF Elements
  <2> QED BY <2>1, <1>2, <1>3, <1>4
<1>6. CASE f.from = "field"
  <2>1. n = i.n /\ n \in Nat
    BY <1>6 DEF Elements, ImageSet
  <2>2. n <= (i.size - f.head) \div f.width
    BY <1>1, <1>6
  <2>3. n * f.width <= ((i.size - f.head) \div f.width) * f.width
    BY <2>1, <2>2, <1>3, <1>4
  <2> QED BY <2>1, <2>3, <1>2, <1>3, <1>4
<1>7. CASE f.from = "none"
  <2>1. n = 0
    BY <1>7 DEF Elements
  <2> QED BY <2>1, <1>1, <1>2, <1>3
<1> QED BY <1>5, <1>6, <1>7 DEF FormatSet

LEMMA PlainFormats ==
  ASSUME NEW t \in Plain
  PROVE  PlainFormat[t] \in FormatSet /\ PlainFormat[t].head <= PlainFormat[t].least
<1>1. t \in {"unknown", "zipUtf8", "xyz", "fixedNum", "num8", "num16", "num32", "num64",
            "float16", "float32", "float64", "data", "height", "normal", "mpeUnknown",
            "acs", "colorantTable", "signature", "cicp", "dateTime", "spectral",
            "measurement", "viewing", "cam"}
  BY DEF Plain, PlainFormat
<1>2. Unlimited \in Nat
  BY WordAssumption DEF Unlimited
<1>3. CASE t \in {"unknown", "zipUtf8", "xyz", "fixedNum"}
  BY <1>3, <1>2 DEF PlainFormat, FormatSet, Rest, Unknown, ZipUtf8Text, XYZ, FixedNum
<1>4. CASE t \in {"num8", "num16", "num32", "num64"}
  BY <1>4, <1>2 DEF PlainFormat, FormatSet, Rest, Num
<1>5. CASE t \in {"float16", "float32", "float64"}
  BY <1>5, <1>2 DEF PlainFormat, FormatSet, Rest, FloatNum
<1>6. CASE t \in {"data", "height", "normal", "mpeUnknown", "acs"}
  BY <1>6, <1>2 DEF PlainFormat, FormatSet, Rest, Data, EmbeddedHeightImage,
       EmbeddedNormalImage, MpeUnknown, MpeAcs
<1>7. CASE t = "colorantTable"
  BY <1>7 DEF PlainFormat, FormatSet, Field, ColorantTable
<1>8. CASE t \in {"signature", "cicp", "dateTime", "spectral", "measurement", "viewing", "cam"}
  BY <1>8 DEF PlainFormat, FormatSet, Fixed, Signature, Cicp, DateTime, SpectralDataInfo,
       Measurement, ViewingConditions, MpeCAM
<1> QED BY <1>1, <1>3, <1>4, <1>5, <1>6, <1>7, <1>8

LEMMA LoadOfPlain ==
  ASSUME NEW t \in Plain \ {"dateTime"}, NEW i
  PROVE  Load(t, i) = LoadPlain(PlainFormat[t], i)
<1>1. t \notin {"dateTime", "text", "utf8", "utf16", "description"}
  BY DEF Plain, PlainFormat
<1>2. t \notin {"namedColor2", "chromaticity", "colorantOrder", "curve", "parametricCurve", "clut", "lut8", "lut16", "spectralViewing", "gamutBoundary", "formulaSegment"}
  BY DEF Plain, PlainFormat
<1>3. t \notin {"sampledSegment", "sampledCurve", "tintArray", "toneMap", "matrix", "mpeClut", "mpeExtClut", "spectralClut", "spectralMatrix", "spectralObserver"}
  BY DEF Plain, PlainFormat
<1>4. t \notin {"localized", "dict", "profileSequence", "profileSequenceId", "responseCurves", "sparseMatrices", "segmentedCurve", "lutAtoB", "lutBtoA"}
  BY DEF Plain, PlainFormat
<1> QED BY <1>1, <1>2, <1>3, <1>4, Zenon DEF Load

LEMMA NotPlain ==
  ASSUME NEW t \in Formats, t \notin Plain
  PROVE  t \in {"text", "utf8", "utf16", "description", "namedColor2", "chromaticity",
    "colorantOrder", "curve", "parametricCurve", "clut", "lut8", "lut16", "spectralViewing", "gamutBoundary", "formulaSegment",
    "sampledSegment", "sampledCurve", "tintArray", "toneMap", "matrix", "mpeClut",
    "mpeExtClut", "spectralClut", "spectralMatrix", "spectralObserver",
    "localized", "dict", "profileSequence", "profileSequenceId", "responseCurves",
    "sparseMatrices", "segmentedCurve", "lutAtoB", "lutBtoA"}
  BY DEF Formats

LEMMA NamesNotPlain ==
  Plain \cap {"text", "utf8", "utf16", "description", "namedColor2", "chromaticity",
    "colorantOrder", "curve", "parametricCurve", "clut", "lut8", "lut16", "spectralViewing", "gamutBoundary", "formulaSegment",
    "sampledSegment", "sampledCurve", "tintArray", "toneMap", "matrix", "mpeClut",
    "mpeExtClut", "spectralClut", "spectralMatrix", "spectralObserver",
    "localized", "dict", "profileSequence", "profileSequenceId", "responseCurves",
    "sparseMatrices", "segmentedCurve", "lutAtoB", "lutBtoA"} = {}
  BY DEF Plain, PlainFormat
-----------------------------------------------------------------------------
(* Texts and counted tags: each Read compares what it counts with the size. *)
LEMMA TextFits ==
  ASSUME NEW i \in ImageSet, LoadText(i).ok
  PROVE  LoadText(i).used <= i.size
  BY DEF LoadText, LoadedIf, Refused, ImageSet

LEMMA Utf16TextFits ==
  ASSUME NEW i \in ImageSet, LoadUtf16Text(i).ok
  PROVE  LoadUtf16Text(i).used <= i.size
  BY DEF LoadUtf16Text, LoadedIf, Refused, ImageSet

LEMMA NamedColor2Fits ==
  ASSUME NEW i \in ImageSet, LoadNamedColor2(i).ok
  PROVE  LoadNamedColor2(i).used <= i.size
<1> DEFINE w == NamedColorWidth(i.k)
<1>1. 84 <= i.size /\ i.n <= (i.size - 84) \div w
      /\ LoadNamedColor2(i).used = 84 + i.n * w
  BY DEF LoadNamedColor2, LoadedIf, Refused
<1>2. w \in Nat \ {0} /\ i.size - 84 \in Nat /\ i.n \in Nat
  BY <1>1 DEF NamedColorWidth, ImageSet
<1> HIDE DEF w
<1>3. ((i.size - 84) \div w) * w <= i.size - 84 /\ (i.size - 84) \div w \in Nat
  BY <1>2, WholeElements
<1>4. i.n * w <= ((i.size - 84) \div w) * w
  BY <1>1, <1>2, <1>3
<1> QED BY <1>1, <1>2, <1>3, <1>4 DEF ImageSet

LEMMA ChromaticityFits ==
  ASSUME NEW i \in ImageSet, LoadChromaticity(i).ok
  PROVE  LoadChromaticity(i).used <= i.size
  BY DEF LoadChromaticity, LoadedIf, Refused, ImageSet

LEMMA ColorantOrderFits ==
  ASSUME NEW i \in ImageSet, LoadColorantOrder(i).ok
  PROVE  LoadColorantOrder(i).used <= i.size
  BY DEF LoadColorantOrder, LoadedIf, Refused, ImageSet

LEMMA DateTimeFits ==
  ASSUME NEW i \in ImageSet, LoadDateTime(i).ok
  PROVE  LoadDateTime(i).used <= i.size
<1>1. LoadDateTime(i) = LoadPlain(DateTime, i)
  BY DEF LoadDateTime, Refused
<1>2. DateTime \in FormatSet /\ DateTime.head <= DateTime.least
  BY DEF DateTime, Fixed, FormatSet
<1> QED BY <1>1, <1>2, PlainFits

LEMMA CurveFits ==
  ASSUME NEW i \in ImageSet, LoadCurve(i).ok
  PROVE  LoadCurve(i).used <= i.size
  BY DEF LoadCurve, LoadedIf, Refused, ImageSet

LEMMA ParametricCurveFits ==
  ASSUME NEW i \in ImageSet, LoadParametricCurve(i).ok
  PROVE  LoadParametricCurve(i).used <= i.size
  BY DEF LoadParametricCurve, LoadedIf, Refused

LEMMA GamutBoundaryFits ==
  ASSUME NEW i \in ImageSet, LoadGamutBoundaryDesc(i).ok
  PROVE  LoadGamutBoundaryDesc(i).used <= i.size
  BY DEF LoadGamutBoundaryDesc, LoadedIf, Refused
-----------------------------------------------------------------------------
(* Elements: curves, tints and matrices. *)
LEMMA SampledSegmentFits ==
  ASSUME NEW i \in ImageSet, LoadSampledSegment(i).ok
  PROVE  LoadSampledSegment(i).used <= i.size
  BY DEF LoadSampledSegment, LoadedIf, Refused, ImageSet

LEMMA SampledCurveFits ==
  ASSUME NEW i \in ImageSet, LoadSingleSampledCurve(i).ok
  PROVE  LoadSingleSampledCurve(i).used <= i.size
<1>1. StorageBytes(i.k) \in {0, 1, 2, 4}
  BY DEF StorageBytes
<1>2. 24 <= i.size /\ (i.n > 0 => i.n * StorageBytes(i.k) <= i.size - 24)
      /\ LoadSingleSampledCurve(i).used = 24 + i.n * StorageBytes(i.k)
  BY DEF LoadSingleSampledCurve, LoadedIf, Refused
<1>3. CASE i.n = 0
  BY <1>1, <1>2, <1>3 DEF ImageSet
<1>4. CASE i.n > 0
  BY <1>1, <1>2, <1>4 DEF ImageSet
<1> QED BY <1>3, <1>4 DEF ImageSet

LEMMA ToneMapFits ==
  ASSUME NEW i \in ImageSet, LoadToneMapFunc(i).ok
  PROVE  LoadToneMapFunc(i).used <= i.size
<1>1. 12 <= i.size /\ LoadToneMapFunc(i).used = 12 + 4 * (((i.size - 12) \div 4) % 256)
  BY DEF LoadToneMapFunc, LoadedIf, Refused
<1>2. ((i.size - 12) \div 4) % 256 <= (i.size - 12) \div 4
  BY <1>1 DEF ImageSet
<1> QED BY <1>1, <1>2 DEF ImageSet

LEMMA TintArrayFits ==
  ASSUME NEW i \in ImageSet, LoadTintArray(i).ok, i.u \in Nat \ {0}
  PROVE  LoadTintArray(i).used <= i.size
<1> DEFINE rest == [i EXCEPT !.size = @ - 12]
           array == LoadPlain(Num(i.u), rest)
<1>1. 16 <= i.size /\ array.ok /\ LoadTintArray(i).used = 12 + array.used
  BY DEF LoadTintArray, LoadedIf, Refused
<1>2. rest \in ImageSet /\ rest.size = i.size - 12
  BY <1>1 DEF ImageSet
<1>3. Num(i.u) \in FormatSet /\ Num(i.u).head <= Num(i.u).least
  BY WordAssumption DEF Num, Rest, FormatSet, Unlimited, ImageSet
<1>4. array.used <= rest.size
  BY <1>1, <1>2, <1>3, PlainFits
<1>5. array.used \in Int
  <2>1. array.used = 8 + ((rest.size - 8) \div i.u) * i.u
    BY <1>1 DEF LoadPlain, LoadedIf, Refused, Num, Rest, Elements
  <2>2. rest.size - 8 \in Int /\ i.u \in Nat \ {0}
    BY <1>2 DEF ImageSet
  <2> QED BY <2>1, <2>2
<1> QED BY <1>1, <1>2, <1>4, <1>5 DEF ImageSet

LEMMA MatrixFits ==
  ASSUME NEW i \in ImageSet, LoadMatrix(i).ok
  PROVE  LoadMatrix(i).used <= i.size
<1> DEFINE data == i.size - 12
           matrix == 4 * i.k * i.m
           n == IF matrix <= data THEN 1 ELSE 0
           u == IF 4 * i.m <= data - n * matrix THEN 1 ELSE 0
<1>1. matrix \in Nat /\ 4 * i.m \in Nat /\ data \in Int
  BY DEF ImageSet
<1>2. 12 <= i.size /\ LoadMatrix(i).used = 12 + n * matrix + 4 * u * i.m
  BY DEF LoadMatrix, LoadedIf, Refused
<1> HIDE DEF matrix
<1>3. CASE matrix <= data
  BY <1>1, <1>2, <1>3 DEF ImageSet
<1>4. CASE ~(matrix <= data)
  BY <1>1, <1>2, <1>4 DEF ImageSet
<1> QED BY <1>3, <1>4
-----------------------------------------------------------------------------
(* Lookup tables.  The size of the table is an integer product that is        *)
(* compared modulo the width of the count; the points per input are at least  *)
(* two each, so n is not zero.                                                *)
LEMMA CLUTFits ==
  ASSUME NEW i \in ImageSet, i.size + i.after < Word, LoadCLUT(i).ok,
         ~(LoadCLUT(i).used > i.size + i.after)
  PROVE  LoadCLUT(i).used <= i.size
<1> DEFINE points == i.n * i.m
<1>1. points \in Nat
  BY DEF ImageSet
<1>2. 20 <= i.size /\ points < Word /\ (points * i.u) % Word <= i.size - 20
      /\ i.u \in {1, 2} /\ LoadCLUT(i).used = 20 + points * i.u
  BY DEF LoadCLUT, LoadedIf, Refused, InitCLUT
<1> HIDE DEF points
<1>3. points * i.u < Word
  BY <1>1, <1>2, WordAssumption DEF ImageSet
<1>4. points * i.u \in Nat
  BY <1>1, <1>2
<1>5. (points * i.u) % Word = points * i.u
  BY <1>3, <1>4, WordAssumption
<1> QED BY <1>2, <1>4, <1>5 DEF ImageSet

LEMMA Lut8Fits ==
  ASSUME NEW i \in ImageSet, LoadLut8(i).ok
  PROVE  LoadLut8(i).used <= i.size
  BY DEF LoadLut8, LoadedIf, Refused

LEMMA Lut16Fits ==
  ASSUME NEW i \in ImageSet, LoadLut16(i).ok
  PROVE  LoadLut16(i).used <= i.size
  BY DEF LoadLut16, LoadedIf, Refused

LEMMA SpectralViewingFits ==
  ASSUME NEW i \in ImageSet, LoadSpectralViewing(i).ok
  PROVE  LoadSpectralViewing(i).used <= i.size
  BY DEF LoadSpectralViewing, LoadedIf, Refused

LEMMA ExtCLUTFits ==
  ASSUME NEW i \in ImageSet, i.k # 1, LoadMpeExtCLUT(i).ok
  PROVE  LoadMpeExtCLUT(i).used <= i.size
<1> DEFINE width == StorageBytes(i.u)
           points == i.n * i.m
<1>1. width \in {0, 1, 2, 4} /\ points \in Nat
  BY DEF StorageBytes, ImageSet
<1>2. 32 <= i.size /\ width > 0 /\ points <= i.size - 32
      /\ LoadMpeExtCLUT(i).used = 32 + points * width
      /\ (i.size - 32 > 0 => points * width <= i.size - 32)
  BY DEF LoadMpeExtCLUT, LoadedIf, Refused, InitCLUT, ImageSet
<1> HIDE DEF points, width
<1>3. CASE i.size = 32
  BY <1>1, <1>2, <1>3
<1>4. CASE i.size > 32
  BY <1>1, <1>2, <1>4 DEF ImageSet
<1> QED BY <1>2, <1>3, <1>4 DEF ImageSet

LEMMA SpectralCLUTFits ==
  ASSUME NEW i \in ImageSet, TableInputs(i.k) # 1, i.size # 40, LoadSpectralCLUT(i).ok
  PROVE  LoadSpectralCLUT(i).used <= i.size
<1> DEFINE width == StorageBytes(i.u)
           table == i.n * i.m * width
           white == i.m * width
<1>1. width \in {0, 1, 2, 4} /\ table \in Nat /\ white \in Nat
  <2>1. width \in {0, 1, 2, 4}
    BY DEF StorageBytes
  <2>2. i.n * i.m \in Nat /\ i.m \in Nat
    BY DEF ImageSet
  <2> HIDE DEF width
  <2> QED BY <2>1, <2>2
<1>2. 40 <= i.size /\ (i.size - 40 > 0 => table <= i.size - 40)
      /\ (i.size - 40 - table < 0 \/ white <= i.size - 40 - table)
      /\ LoadSpectralCLUT(i).used = 40 + (i.n + 1) * i.m * width
  <2> DEFINE inputs == TableInputs(i.k)
  <2>1. inputs # 1 OBVIOUS
  <2> HIDE DEF inputs
  <2>2. LoadSpectralCLUT(i) =
          LoadedIf(/\ 40 <= i.size /\ width > 0
                   /\ i.k >= 1 /\ InitCLUT(i.n, inputs, i.m, i.size - 40, width)
                   /\ i.size - 40 - table < 0 \/ white <= i.size - 40 - table,
                   i, 40 + (i.n + 1) * i.m * width)
    BY DEF LoadSpectralCLUT, inputs
  <2>3. /\ 40 <= i.size /\ InitCLUT(i.n, inputs, i.m, i.size - 40, width)
        /\ (i.size - 40 - table < 0 \/ white <= i.size - 40 - table)
        /\ LoadSpectralCLUT(i).used = 40 + (i.n + 1) * i.m * width
    BY <2>2 DEF LoadedIf, Refused
  <2>4. inputs > 1 BY <2>1, <2>3 DEF InitCLUT
  <2> QED BY <2>3, <2>4 DEF InitCLUT
<1>3. (i.n + 1) * i.m * width = table + white
  <2>1. width \in Nat
    BY <1>1
  <2> HIDE DEF width
  <2> QED BY <2>1 DEF ImageSet
<1> HIDE DEF table, white, width
<1> QED BY <1>1, <1>2, <1>3 DEF ImageSet

LEMMA SpectralMatrixFits ==
  ASSUME NEW i \in ImageSet, LoadSpectralMatrix(i).ok
  PROVE  LoadSpectralMatrix(i).used <= i.size
<1> DEFINE needed == 20 + 4 * i.m + 4 * i.k * i.m
<1>1. needed \in Nat
  BY DEF ImageSet
<1>2. needed <= i.size
      /\ LoadSpectralMatrix(i).used = needed + (IF needed + 4 * i.m <= i.size THEN 4 * i.m ELSE 0)
  BY DEF LoadSpectralMatrix, LoadedIf, Refused
<1> HIDE DEF needed
<1> QED BY <1>1, <1>2 DEF ImageSet

LEMMA SpectralObserverFits ==
  ASSUME NEW i \in ImageSet, LoadSpectralObserver(i).ok
  PROVE  LoadSpectralObserver(i).used <= i.size
  BY DEF LoadSpectralObserver, LoadedIf, Refused
-----------------------------------------------------------------------------
(* Tags of parts: the end of the last part is compared with the size. *)
LEMMA TableImage ==
  ASSUME NEW i \in ImageSet, NEW left \in Nat
  PROVE  /\ [LutTable(i) EXCEPT !.size = left, !.after = i.after] \in ImageSet
         /\ [LutTable(i) EXCEPT !.size = left, !.after = i.after].size = left
         /\ [LutTable(i) EXCEPT !.size = left, !.after = i.after].after = i.after
  BY DEF LutTable, ImageSet

LEMMA LocalizedFits ==
  ASSUME NEW i \in ImageSet, LoadLocalized(i).ok
  PROVE  LoadLocalized(i).used <= i.size
<1>1. 16 + 12 * i.n <= i.size /\ (i.n > 0 => LocalizedEnd(i) <= i.size)
      /\ LoadLocalized(i).used = IF i.n = 0 THEN 16 ELSE Larger(16 + 12 * i.n, LocalizedEnd(i))
  BY DEF LoadLocalized, LocalizedUsed, LoadedIf, Refused
<1> QED BY <1>1 DEF Larger, ImageSet

LEMMA DictFits ==
  ASSUME NEW i \in ImageSet, LoadDict(i).ok
  PROVE  LoadDict(i).used <= i.size
  BY DEF LoadDict, LoadedIf, Refused

LEMMA ProfileSequenceFits ==
  ASSUME NEW i \in ImageSet, LoadProfileSequence(i).ok, ~(Padding(TextBytes(i.k, i.m)) > 0)
  PROVE  LoadProfileSequence(i).used <= i.size
<1> DEFINE pad == Padding(TextBytes(i.k, i.m))
           end == 12 + i.n * (20 + 2 * PaddedTo4(TextBytes(i.k, i.m))) - pad
<1>1. CASE i.n = 0
  BY <1>1 DEF LoadProfileSequence, LoadedIf, Refused
<1>2. CASE i.n # 0
  <2>1. end - pad <= i.size /\ LoadProfileSequence(i).used = end
    BY <1>2 DEF LoadProfileSequence, LoadedIf, Refused
  <2>2. TextBytes(i.k, i.m) \in Nat
    BY DEF TextBytes, ImageSet
  <2>3. pad = 0
    BY <2>2 DEF Padding, PaddedTo4
  <2>4. end \in Int
    BY <2>2, <2>3 DEF PaddedTo4, ImageSet
  <2> QED BY <2>1, <2>3, <2>4
<1> QED BY <1>1, <1>2

LEMMA ProfileSequenceIdFits ==
  ASSUME NEW i \in ImageSet, LoadProfileSequenceId(i).ok
  PROVE  LoadProfileSequenceId(i).used <= i.size
<1> DEFINE text == 16 + TextBytes(i.k, i.m)
           end == 12 + 8 * i.n + i.n * PaddedTo4(text) - (IF i.n = 0 THEN 0 ELSE Padding(text))
<1>1. 12 + 8 * i.n <= i.size /\ (i.n > 0 => end <= i.size)
      /\ LoadProfileSequenceId(i).used = end
  BY DEF LoadProfileSequenceId, LoadedIf, Refused
<1>2. i.n = 0 => end = 12
  <2>1. PaddedTo4(text) \in Int
    BY DEF TextBytes, PaddedTo4, ImageSet
  <2> QED BY <2>1
<1> QED BY <1>1, <1>2 DEF ImageSet

LEMMA SparseMatricesFits ==
  ASSUME NEW i \in ImageSet, LoadSparseMatrices(i).ok
  PROVE  LoadSparseMatrices(i).used <= i.size
<1>1. LoadSparseMatrices(i).used = i.size
  BY DEF LoadSparseMatrices, LoadedIf, Refused
<1> QED BY <1>1 DEF ImageSet

LEMMA SegmentedCurveFits ==
  ASSUME NEW i \in ImageSet, LoadSegmentedCurve(i).ok, i.v = 1
  PROVE  LoadSegmentedCurve(i).used <= i.size
<1> DEFINE start == 12 + Breakpoints(i.n) + (i.n - 1) * SegmentBytes(i)
           left == i.size - start
           segment == [i EXCEPT !.size = left, !.n = i.m]
<1>1. CASE i.n = 0
  BY <1>1 DEF LoadSegmentedCurve, LoadedIf, Refused
<1>2. CASE i.n # 0
  <2>1. start <= i.size /\ LoadSampledSegment(segment).ok
        /\ LoadSegmentedCurve(i).used = start + LoadSampledSegment(segment).used
    BY <1>2 DEF LoadSegmentedCurve, LoadSegment, LoadedIf, Refused
  <2>2. start \in Int
    BY DEF Breakpoints, SegmentBytes, ImageSet
  <2>3. segment \in ImageSet /\ segment.size = i.size - start
    <3> HIDE DEF start
    <3>1. left \in Nat /\ i.m \in Nat
      BY <2>1, <2>2 DEF ImageSet
    <3>2. segment \in ImageSet /\ segment.size = left
      <4> HIDE DEF left
      <4> QED BY <3>1 DEF ImageSet
    <3> QED BY <3>2
  <2>4. LoadSampledSegment(segment).used <= segment.size
    BY <2>1, <2>3, SampledSegmentFits
  <2>5. LoadSampledSegment(segment).used \in Int
    BY <2>1, <2>3 DEF LoadSampledSegment, LoadedIf, Refused, ImageSet
  <2> HIDE DEF start, segment
  <2> QED BY <2>1, <2>2, <2>3, <2>4, <2>5 DEF ImageSet
<1> QED BY <1>1, <1>2

(* The table is the last part unless there are A curves, which follow it.    *)
LEMMA LutPartsFits ==
  ASSUME NEW i \in ImageSet, i.size + i.after < Word, NEW pcs \in Nat, NEW device \in Nat,
         LoadLutParts(i, pcs, device).ok,
         ~(LoadLutParts(i, pcs, device).used > i.size + i.after)
  PROVE  LoadLutParts(i, pcs, device).used <= i.size
<1> DEFINE end == LutEnds(i, pcs, device)
           pad == Padding(12 + 2 * i.n)
           table == [LutTable(i) EXCEPT !.size = i.size - end.m, !.after = i.after]
           l == LoadLutParts(i, pcs, device)
<1>1. 32 <= i.size
  BY DEF LoadLutParts, LoadedIf, Refused
<1>2. /\ Has(i.v, 1) => end.b - pad <= i.size
      /\ Has(i.v, 2) => end.matrix <= i.size
      /\ Has(i.v, 4) => end.m - pad <= i.size
      /\ Has(i.v, 8) => end.m <= i.size /\ LoadCLUT(table).ok
      /\ Has(i.v, 16) => end.a - pad <= i.size
  BY DEF LoadLutParts, LoadedIf, Refused
<1>3. \/ Has(i.v, 16) /\ l.used = end.a - pad
      \/ Has(i.v, 8) /\ l.used = end.m + LoadCLUT(table).used
      \/ Has(i.v, 4) /\ l.used = end.m - pad
      \/ Has(i.v, 2) /\ l.used = end.matrix
      \/ Has(i.v, 1) /\ l.used = end.b - pad
      \/ l.used = 32
  BY DEF LoadLutParts, LoadedIf, Refused
<1>4. CASE Has(i.v, 8) /\ l.used = end.m + LoadCLUT(table).used
  <2>1. end.m \in Int
    <3>1. end.m = 32 + LutCurves(i, 1, pcs) + (IF Has(i.v, 2) THEN 48 ELSE 0) + LutCurves(i, 4, pcs)
      BY DEF LutEnds
    <3>2. LutCurves(i, 1, pcs) \in Int /\ LutCurves(i, 4, pcs) \in Int
      BY DEF LutCurves, PaddedTo4, ImageSet
    <3> QED BY <3>1, <3>2
  <2>2. table \in ImageSet /\ table.size = i.size - end.m /\ table.after = i.after
    <3> HIDE DEF end
    <3>1. i.size - end.m \in Nat
      BY <1>2, <1>4, <2>1 DEF ImageSet
    <3> QED BY <3>1, TableImage
  <2>3. LoadCLUT(table).ok /\ LoadCLUT(table).used = 20 + table.n * table.m * table.u
        /\ 20 <= table.size
    BY <1>2, <1>4 DEF LoadCLUT, LoadedIf, Refused
  <2> HIDE DEF table, end
  <2>4. LoadCLUT(table).used \in Int
    BY <2>2, <2>3 DEF ImageSet
  <2>5. 32 <= end.m
    <3>1. LutCurves(i, 1, pcs) \in Nat /\ LutCurves(i, 4, pcs) \in Nat
      BY DEF LutCurves, PaddedTo4, ImageSet
    <3>2. end.m = 32 + LutCurves(i, 1, pcs) + (IF Has(i.v, 2) THEN 48 ELSE 0) + LutCurves(i, 4, pcs)
      BY DEF LutEnds, end
    <3> QED BY <3>1, <3>2
  <2>6. table.size + table.after < Word /\ ~(LoadCLUT(table).used > table.size + table.after)
    <3>1. i.size \in Nat /\ i.after \in Nat /\ Word \in Nat
      BY WordAssumption DEF ImageSet
    <3>2. ~(end.m + LoadCLUT(table).used > i.size + i.after)
      BY <1>4
    <3> QED BY <3>1, <3>2, <2>1, <2>2, <2>4, <2>5
  <2>7. LoadCLUT(table).used <= table.size
    BY <2>2, <2>3, <2>6, CLUTFits
  <2> QED BY <1>4, <2>1, <2>2, <2>4, <2>7 DEF ImageSet
<1> QED BY <1>1, <1>2, <1>3, <1>4
-----------------------------------------------------------------------------
(* Each format's Read, under the name the directory knows it by. *)
LEMMA LoadFits ==
  ASSUME NEW t \in Formats, NEW i \in ImageSet, i.size + i.after < Word,
         t = "tintArray" => i.u > 0,
         ~Overruns(t, i), Load(t, i).ok, ~(Load(t, i).used > i.size + i.after)
  PROVE  Load(t, i).used <= i.size
<1>1. CASE t \in Plain \ {"dateTime"}
  BY <1>1, LoadOfPlain, PlainFormats, PlainFits
<1>2. CASE t = "dateTime"
  <2>1. Load(t, i) = LoadDateTime(i)
    BY <1>2, Zenon DEF Load
  <2> QED BY <2>1, DateTimeFits
<1>3. CASE t \in {"text", "utf8"}
  <2>1. Load(t, i) = LoadText(i)
    <3>1. t \notin Plain /\ t \notin {"dateTime", "utf16", "description", "namedColor2"}
      BY <1>3, NamesNotPlain
    <3>2. t \notin {"chromaticity", "colorantOrder", "curve", "parametricCurve", "clut", "lut8", "lut16", "spectralViewing",
            "gamutBoundary", "formulaSegment", "sampledSegment", "sampledCurve"}
      BY <1>3
    <3>3. t \notin {"tintArray", "toneMap", "matrix", "mpeClut", "mpeExtClut",
            "spectralClut", "spectralMatrix", "spectralObserver"}
      BY <1>3
    <3>4. t \notin {"localized", "dict", "profileSequence", "profileSequenceId",
            "responseCurves", "sparseMatrices", "segmentedCurve", "lutAtoB", "lutBtoA"}
      BY <1>3
    <3> QED BY <1>3, <3>1, <3>2, <3>3, <3>4, Zenon DEF Load
  <2> QED BY <2>1, TextFits
<1>4. CASE t \in {"description", "formulaSegment", "mpeClut"}
  BY <1>4 DEF Overruns
<1>5. CASE t = "utf16"
  <2>1. Load(t, i) = LoadUtf16Text(i)
    <3>1. t \notin Plain
      BY <1>5, NamesNotPlain
    <3> QED BY <1>5, <3>1, Zenon DEF Load
  <2> QED BY <1>5, <2>1, Utf16TextFits
<1>6. CASE t = "namedColor2"
  <2>1. Load(t, i) = LoadNamedColor2(i)
    <3>1. t \notin Plain
      BY <1>6, NamesNotPlain
    <3> QED BY <1>6, <3>1, Zenon DEF Load
  <2> QED BY <1>6, <2>1, NamedColor2Fits
<1>7. CASE t = "chromaticity"
  <2>1. Load(t, i) = LoadChromaticity(i)
    <3>1. t \notin Plain
      BY <1>7, NamesNotPlain
    <3> QED BY <1>7, <3>1, Zenon DEF Load
  <2> QED BY <1>7, <2>1, ChromaticityFits
<1>8. CASE t = "colorantOrder"
  <2>1. Load(t, i) = LoadColorantOrder(i)
    <3>1. t \notin Plain
      BY <1>8, NamesNotPlain
    <3> QED BY <1>8, <3>1, Zenon DEF Load
  <2> QED BY <1>8, <2>1, ColorantOrderFits
<1>9. CASE t = "curve"
  <2>1. Load(t, i) = LoadCurve(i)
    <3>1. t \notin Plain
      BY <1>9, NamesNotPlain
    <3> QED BY <1>9, <3>1, Zenon DEF Load
  <2> QED BY <1>9, <2>1, CurveFits
<1>10. CASE t = "parametricCurve"
  <2>1. Load(t, i) = LoadParametricCurve(i)
    <3>1. t \notin Plain
      BY <1>10, NamesNotPlain
    <3> QED BY <1>10, <3>1, Zenon DEF Load
  <2> QED BY <1>10, <2>1, ParametricCurveFits
<1>11. CASE t = "gamutBoundary"
  <2>1. Load(t, i) = LoadGamutBoundaryDesc(i)
    <3>1. t \notin Plain
      BY <1>11, NamesNotPlain
    <3> QED BY <1>11, <3>1, Zenon DEF Load
  <2> QED BY <1>11, <2>1, GamutBoundaryFits
<1>12. CASE t = "sampledSegment"
  <2>1. Load(t, i) = LoadSampledSegment(i)
    <3>1. t \notin Plain
      BY <1>12, NamesNotPlain
    <3> QED BY <1>12, <3>1, Zenon DEF Load
  <2> QED BY <1>12, <2>1, SampledSegmentFits
<1>13. CASE t = "sampledCurve"
  <2>1. Load(t, i) = LoadSingleSampledCurve(i)
    <3>1. t \notin Plain
      BY <1>13, NamesNotPlain
    <3> QED BY <1>13, <3>1, Zenon DEF Load
  <2> QED BY <1>13, <2>1, SampledCurveFits
<1>14. CASE t = "toneMap"
  <2>1. Load(t, i) = LoadToneMapFunc(i)
    <3>1. t \notin Plain
      BY <1>14, NamesNotPlain
    <3> QED BY <1>14, <3>1, Zenon DEF Load
  <2> QED BY <1>14, <2>1, ToneMapFits
<1>15. CASE t = "matrix"
  <2>1. Load(t, i) = LoadMatrix(i)
    <3>1. t \notin Plain
      BY <1>15, NamesNotPlain
    <3> QED BY <1>15, <3>1, Zenon DEF Load
  <2> QED BY <1>15, <2>1, MatrixFits
<1>16. CASE t = "spectralMatrix"
  <2>1. Load(t, i) = LoadSpectralMatrix(i)
    <3>1. t \notin Plain
      BY <1>16, NamesNotPlain
    <3> QED BY <1>16, <3>1, Zenon DEF Load
  <2> QED BY <1>16, <2>1, SpectralMatrixFits
<1>17. CASE t = "spectralObserver"
  <2>1. Load(t, i) = LoadSpectralObserver(i)
    <3>1. t \notin Plain
      BY <1>17, NamesNotPlain
    <3> QED BY <1>17, <3>1, Zenon DEF Load
  <2> QED BY <1>17, <2>1, SpectralObserverFits
<1>18. CASE t = "clut"
  <2>1. Load(t, i) = LoadCLUT(i)
    <3>1. t \notin Plain
      BY <1>18, NamesNotPlain
    <3> QED BY <1>18, <3>1, Zenon DEF Load
  <2> QED BY <1>18, <2>1, CLUTFits
<1>19. CASE t = "tintArray"
  <2>1. Load(t, i) = LoadTintArray(i)
    <3>1. t \notin Plain
      BY <1>19, NamesNotPlain
    <3> QED BY <1>19, <3>1, Zenon DEF Load
  <2> QED BY <1>19, <2>1, TintArrayFits DEF ImageSet
<1>20. CASE t = "mpeExtClut"
  <2>1. Load(t, i) = LoadMpeExtCLUT(i)
    <3>1. t \notin Plain
      BY <1>20, NamesNotPlain
    <3> QED BY <1>20, <3>1, Zenon DEF Load
  <2> QED BY <1>20, <2>1, ExtCLUTFits DEF Overruns
<1>21. CASE t = "spectralClut"
  <2>1. Load(t, i) = LoadSpectralCLUT(i)
    <3>1. t \notin Plain
      BY <1>21, NamesNotPlain
    <3> QED BY <1>21, <3>1, Zenon DEF Load
  <2> QED BY <1>21, <2>1, SpectralCLUTFits DEF Overruns
<1>22. CASE t = "lut8"
  <2>1. Load(t, i) = LoadLut8(i)
    <3>1. t \notin Plain
      BY <1>22, NamesNotPlain
    <3> QED BY <1>22, <3>1, Zenon DEF Load
  <2> QED BY <1>22, <2>1, Lut8Fits
<1>23. CASE t = "lut16"
  <2>1. Load(t, i) = LoadLut16(i)
    <3>1. t \notin Plain
      BY <1>23, NamesNotPlain
    <3> QED BY <1>23, <3>1, Zenon DEF Load
  <2> QED BY <1>23, <2>1, Lut16Fits
<1>24. CASE t = "spectralViewing"
  <2>1. Load(t, i) = LoadSpectralViewing(i)
    <3>1. t \notin Plain
      BY <1>24, NamesNotPlain
    <3> QED BY <1>24, <3>1, Zenon DEF Load
  <2> QED BY <1>24, <2>1, SpectralViewingFits
<1>25. CASE t = "localized"
  <2>1. Load(t, i) = LoadLocalized(i)
    <3>1. t \notin Plain
      BY <1>25, NamesNotPlain
    <3> QED BY <1>25, <3>1, Zenon DEF Load
  <2> QED BY <1>25, <2>1, LocalizedFits
<1>26. CASE t = "dict"
  <2>1. Load(t, i) = LoadDict(i)
    <3>1. t \notin Plain
      BY <1>26, NamesNotPlain
    <3> QED BY <1>26, <3>1, Zenon DEF Load
  <2> QED BY <1>26, <2>1, DictFits
<1>27. CASE t = "profileSequence"
  <2>1. Load(t, i) = LoadProfileSequence(i)
    <3>1. t \notin Plain
      BY <1>27, NamesNotPlain
    <3> QED BY <1>27, <3>1, Zenon DEF Load
  <2> QED BY <1>27, <2>1, ProfileSequenceFits DEF Overruns
<1>28. CASE t = "profileSequenceId"
  <2>1. Load(t, i) = LoadProfileSequenceId(i)
    <3>1. t \notin Plain
      BY <1>28, NamesNotPlain
    <3> QED BY <1>28, <3>1, Zenon DEF Load
  <2> QED BY <1>28, <2>1, ProfileSequenceIdFits
<1>29. CASE t = "sparseMatrices"
  <2>1. Load(t, i) = LoadSparseMatrices(i)
    <3>1. t \notin Plain
      BY <1>29, NamesNotPlain
    <3> QED BY <1>29, <3>1, Zenon DEF Load
  <2> QED BY <1>29, <2>1, SparseMatricesFits
<1>30. CASE t = "segmentedCurve"
  <2>1. Load(t, i) = LoadSegmentedCurve(i)
    <3>1. t \notin Plain
      BY <1>30, NamesNotPlain
    <3> QED BY <1>30, <3>1, Zenon DEF Load
  <2> QED BY <1>30, <2>1, SegmentedCurveFits DEF Overruns
<1>31. CASE t = "lutAtoB"
  <2>1. Load(t, i) = LoadLutAtoB(i)
    <3>1. t \notin Plain
      BY <1>31, NamesNotPlain
    <3> QED BY <1>31, <3>1, Zenon DEF Load
  <2> QED BY <1>31, <2>1, LutPartsFits DEF LoadLutAtoB, ImageSet
<1>32. CASE t = "lutBtoA"
  <2>1. Load(t, i) = LoadLutBtoA(i)
    <3>1. t \notin Plain
      BY <1>32, NamesNotPlain
    <3> QED BY <1>32, <3>1, Zenon DEF Load
  <2> QED BY <1>32, <2>1, LutPartsFits DEF LoadLutBtoA, ImageSet
<1>33. CASE t = "responseCurves"
  BY <1>33 DEF Overruns
<1> QED BY NotPlain, <1>1, <1>2, <1>3, <1>4, <1>5, <1>6, <1>7, <1>8,
     <1>9, <1>10, <1>11, <1>12, <1>13, <1>14, <1>15,
     <1>16, <1>17, <1>18, <1>19, <1>20, <1>21, <1>22, <1>23, <1>24,
     <1>25, <1>26, <1>27, <1>28, <1>29, <1>30, <1>31, <1>32, <1>33

LEMMA ReadTagFits ==
  ASSUME NEW t \in Types, NEW i \in Images(t), ~Overruns(t, i), ReadTag(t, i).ok
  PROVE  ReadTag(t, i).used <= i.size
<1>1. /\ t \in Formats /\ i \in ImageSet /\ i.size + i.after < Word
      /\ t = "tintArray" => i.u > 0
  BY TypesAssumption, ImagesAssumption DEF ImageSet
<1>2. ~(Load(t, i).used > i.size + i.after) /\ ReadTag(t, i) = Load(t, i)
  BY DEF ReadTag, Refused
<1> QED BY <1>1, <1>2, LoadFits
-----------------------------------------------------------------------------
(* What Contained needs besides: the image is one of Images until the first  *)
(* save or document, and used is what its Read used.                         *)
FirstFile == saves = 0 /\ docs = <<>>

Inv ==
  /\ type \in Types
  /\ saves \in Nat
  /\ docs \in Seq({"xml", "json"})
  /\ phase \in {"file", "object"} /\ FirstFile => img \in Images(type)
  /\ phase = "document" => docs # <<>>
  /\ phase = "object" /\ FirstFile => ReadTag(type, img).ok /\ used = ReadTag(type, img).used

LEMMA InitInv == Init => Inv
  BY DEF Init, Inv, FirstFile

LEMMA NextInv == Inv /\ [Next]_vars => Inv'
<1> SUFFICES ASSUME Inv, [Next]_vars PROVE Inv'
  OBVIOUS
<1>1. CASE Read
  <2> DEFINE r == ReadTag(type, img)
  <2>1. UNCHANGED <<type, img, saves, docs>> /\ phase = "file"
    BY <1>1 DEF Read
  <2>2. \/ phase' = "object" /\ r.ok /\ used' = r.used
        \/ phase' = "refused"
    BY <1>1 DEF Read
  <2> HIDE DEF r
  <2>3. r = ReadTag(type', img')
    BY <2>1 DEF r
  <2> QED BY <2>1, <2>2, <2>3 DEF Inv, FirstFile
<1>2. CASE SetSize
  <2>1. UNCHANGED <<type, img, phase, used, saves, docs>>
    BY <1>2 DEF SetSize
  <2> QED BY <2>1 DEF Inv, FirstFile
<1>3. CASE Write
  <2>1. CASE Writes(type, obj)
    <3>1. saves' = saves + 1 /\ phase' = "file" /\ UNCHANGED <<type, docs>>
      BY <1>3, <2>1 DEF Write
    <3> QED BY <3>1 DEF Inv, FirstFile
  <2>2. CASE ~Writes(type, obj)
    <3>1. phase' = "unsaved" /\ UNCHANGED <<type, saves, docs>>
      BY <1>3, <2>2 DEF Write
    <3> QED BY <3>1 DEF Inv, FirstFile
  <2> QED BY <2>1, <2>2
<1>4. CASE ToDocument
  <2>1. UNCHANGED <<type, saves>>
    BY <1>4 DEF ToDocument
  <2>2. \/ phase' = "unsaved" /\ docs' = docs
        \/ phase' = "document" /\ \E language \in {"xml", "json"} : docs' = Append(docs, language)
    BY <1>4 DEF ToDocument
  <2>3. CASE phase' = "unsaved" /\ docs' = docs
    BY <2>1, <2>3 DEF Inv, FirstFile
  <2>4. CASE phase' = "document"
    <3>1. PICK language \in {"xml", "json"} : docs' = Append(docs, language)
      BY <2>2, <2>4
    <3>2. docs' \in Seq({"xml", "json"}) /\ docs' # <<>>
      BY <3>1 DEF Inv
    <3> QED BY <2>1, <2>4, <3>2 DEF Inv, FirstFile
  <2> QED BY <2>2, <2>3, <2>4
<1>5. CASE FromDocument
  <2>1. UNCHANGED <<type, saves, docs>> /\ docs # <<>> /\ phase' # "document"
    BY <1>5 DEF FromDocument, Inv
  <2> QED BY <2>1 DEF Inv, FirstFile
<1>6. CASE UNCHANGED vars
  BY <1>6 DEF vars, Inv, FirstFile
<1> QED BY <1>1, <1>2, <1>3, <1>4, <1>5, <1>6 DEF Next

LEMMA InvContained == Inv => Contained
  BY ReadTagFits DEF Inv, Contained, FirstFile

(* Whatever a file claims in the header fields of a tag, a Read that accepts *)
(* it used no byte beyond its size, but for the formats Overruns names (the  *)
(* Read functions of IccTagBasic.cpp, IccTagLut.cpp and the elements).       *)
THEOREM FormatsContained == Spec => []Contained
  BY InitInv, NextInv, InvContained, PTL DEF Spec

-----------------------------------------------------------------------------
(* Documents. *)

IsObject(o) == o = Fields(o)

LEMMA FieldsIsObject ==
  ASSUME NEW r
  PROVE  IsObject(Fields(r))
  BY DEF IsObject, Fields, Object

(* An object that is kept is the same one. *)
LEMMA LoadedIsSame ==
  ASSUME NEW o, IsObject(o), NEW test, LoadedIf(test, o, 0).ok
  PROVE  Fields(LoadedIf(test, o, 0)) = o
  BY DEF LoadedIf, Refused, IsObject, Fields, Object

(* The types with a function of their own. *)
OneName ==
  {"unknown", "text", "utf8", "zipUtf8", "utf16", "description", "namedColor2", "xyz",
   "chromaticity", "fixedNum", "data", "colorantOrder", "colorantTable", "height", "normal",
   "spectralViewing", "curve", "parametricCurve", "gamutBoundary", "mpeUnknown", "acs",
   "formulaSegment", "sampledSegment", "sampledCurve", "tintArray", "toneMap", "matrix",
   "mpeClut", "mpeExtClut", "spectralClut", "spectralMatrix", "spectralObserver",
   "localized", "dict", "profileSequence", "profileSequenceId", "responseCurves",
   "sparseMatrices", "segmentedCurve"}

(* The types that a reader keeps as they are or refuses. *)
XmlSame ==
  Floats \cup {"lut8", "lut16"} \cup {"lutAtoB", "lutBtoA"} \cup
  {"unknown", "utf8", "utf16", "xyz", "chromaticity", "fixedNum", "data",
   "colorantOrder", "colorantTable", "height", "normal", "spectralViewing", "curve",
   "parametricCurve", "gamutBoundary", "mpeUnknown", "acs", "sampledSegment",
   "sampledCurve", "tintArray", "mpeClut", "mpeExtClut", "spectralClut",
   "spectralMatrix", "spectralObserver", "profileSequence", "responseCurves",
   "segmentedCurve"}

LEMMA XmlSameObject ==
  ASSUME NEW t \in XmlSame, NEW o, IsObject(o), ParseXml(t, o).ok
  PROVE  Fields(ParseXml(t, o)) = o
<1>1. CASE t \in Floats
  <2>1. t \notin OneName
    BY <1>1 DEF Numbers, Floats, OneName
  <2>2. t \notin Numbers /\ t \notin {"lut8", "lut16"} /\ t \notin {"lutAtoB", "lutBtoA"}
    BY <1>1 DEF Numbers, Floats
  <2>3. ParseXml(t, o) = XmlFloatNum(o)
    BY <1>1, <2>1, <2>2, Zenon DEF ParseXml, OneName
  <2> QED BY <2>3, LoadedIsSame DEF XmlFloatNum, Counted, Kept
<1>2. CASE t = "unknown"
  <2>1. t \notin Numbers \cup Floats
    BY <1>2 DEF Numbers, Floats
  <2>2. ParseXml(t, o) = XmlUnknown(o)
    BY <1>2, <2>1, Zenon DEF ParseXml
  <2> QED BY <2>2, LoadedIsSame DEF XmlUnknown, Counted, Kept
<1>3. CASE t = "utf8"
  <2>1. t \notin Numbers \cup Floats
    BY <1>3 DEF Numbers, Floats
  <2>2. ParseXml(t, o) = XmlUtf8Text(o)
    BY <1>3, <2>1, Zenon DEF ParseXml
  <2> QED BY <2>2, LoadedIsSame DEF XmlUtf8Text, Always, Kept
<1>4. CASE t = "utf16"
  <2>1. t \notin Numbers \cup Floats
    BY <1>4 DEF Numbers, Floats
  <2>2. ParseXml(t, o) = XmlUtf16Text(o)
    BY <1>4, <2>1, Zenon DEF ParseXml
  <2> QED BY <2>2, LoadedIsSame DEF XmlUtf16Text, Always, Kept
<1>5. CASE t = "xyz"
  <2>1. t \notin Numbers \cup Floats
    BY <1>5 DEF Numbers, Floats
  <2>2. ParseXml(t, o) = XmlXYZ(o)
    BY <1>5, <2>1, Zenon DEF ParseXml
  <2> QED BY <2>2, LoadedIsSame DEF XmlXYZ, Counted, Kept
<1>6. CASE t = "chromaticity"
  <2>1. t \notin Numbers \cup Floats
    BY <1>6 DEF Numbers, Floats
  <2>2. ParseXml(t, o) = XmlChromaticity(o)
    BY <1>6, <2>1, Zenon DEF ParseXml
  <2> QED BY <2>2, LoadedIsSame DEF XmlChromaticity, Counted, Kept
<1>7. CASE t = "fixedNum"
  <2>1. t \notin Numbers \cup Floats
    BY <1>7 DEF Numbers, Floats
  <2>2. ParseXml(t, o) = XmlFixedNum(o)
    BY <1>7, <2>1, Zenon DEF ParseXml
  <2> QED BY <2>2, LoadedIsSame DEF XmlFixedNum, Kept
<1>8. CASE t = "data"
  <2>1. t \notin Numbers \cup Floats
    BY <1>8 DEF Numbers, Floats
  <2>2. ParseXml(t, o) = XmlTagData(o)
    BY <1>8, <2>1, Zenon DEF ParseXml
  <2> QED BY <2>2, LoadedIsSame DEF XmlTagData, Always, Kept
<1>9. CASE t = "colorantOrder"
  <2>1. t \notin Numbers \cup Floats
    BY <1>9 DEF Numbers, Floats
  <2>2. ParseXml(t, o) = XmlColorantOrder(o)
    BY <1>9, <2>1, Zenon DEF ParseXml
  <2> QED BY <2>2, LoadedIsSame DEF XmlColorantOrder, Counted, Kept
<1>10. CASE t = "colorantTable"
  <2>1. t \notin Numbers \cup Floats
    BY <1>10 DEF Numbers, Floats
  <2>2. ParseXml(t, o) = XmlColorantTable(o)
    BY <1>10, <2>1, Zenon DEF ParseXml
  <2> QED BY <2>2, LoadedIsSame DEF XmlColorantTable, Counted, Kept
<1>11. CASE t = "height"
  <2>1. t \notin Numbers \cup Floats
    BY <1>11 DEF Numbers, Floats
  <2>2. ParseXml(t, o) = XmlHeightImage(o)
    BY <1>11, <2>1, Zenon DEF ParseXml
  <2> QED BY <2>2, LoadedIsSame DEF XmlHeightImage, Counted, Kept
<1>12. CASE t = "normal"
  <2>1. t \notin Numbers \cup Floats
    BY <1>12 DEF Numbers, Floats
  <2>2. ParseXml(t, o) = XmlNormalImage(o)
    BY <1>12, <2>1, Zenon DEF ParseXml
  <2> QED BY <2>2, LoadedIsSame DEF XmlNormalImage, Counted, Kept
<1>13. CASE t = "spectralViewing"
  <2>1. t \notin Numbers \cup Floats
    BY <1>13 DEF Numbers, Floats
  <2>2. ParseXml(t, o) = XmlSpectralViewing(o)
    BY <1>13, <2>1, Zenon DEF ParseXml
  <2> QED BY <2>2, LoadedIsSame DEF XmlSpectralViewing, Kept
<1>14. CASE t = "curve"
  <2>1. t \notin Numbers \cup Floats
    BY <1>14 DEF Numbers, Floats
  <2>2. ParseXml(t, o) = XmlCurve(o)
    BY <1>14, <2>1, Zenon DEF ParseXml
  <2> QED BY <2>2, LoadedIsSame DEF XmlCurve, Kept
<1>15. CASE t = "parametricCurve"
  <2>1. t \notin Numbers \cup Floats
    BY <1>15 DEF Numbers, Floats
  <2>2. ParseXml(t, o) = XmlParametricCurve(o)
    BY <1>15, <2>1, Zenon DEF ParseXml
  <2> QED BY <2>2, LoadedIsSame DEF XmlParametricCurve, Kept
<1>16. CASE t \in {"lut8", "lut16"}
  <2>1. t \notin OneName
    BY <1>16 DEF Numbers, Floats, OneName
  <2>2. t \notin Numbers /\ t \notin Floats /\ t \notin {"lutAtoB", "lutBtoA"}
    BY <1>16 DEF Numbers, Floats
  <2>3. ParseXml(t, o) = XmlLut(o)
    BY <1>16, <2>1, <2>2, Zenon DEF ParseXml, OneName
  <2> QED BY <2>3, LoadedIsSame DEF XmlLut, LutKept, Kept
<1>17. CASE t = "gamutBoundary"
  <2>1. t \notin Numbers \cup Floats
    BY <1>17 DEF Numbers, Floats
  <2>2. ParseXml(t, o) = XmlGamutBoundaryDesc(o)
    BY <1>17, <2>1, Zenon DEF ParseXml
  <2> QED BY <2>2, LoadedIsSame DEF XmlGamutBoundaryDesc, Kept
<1>18. CASE t = "mpeUnknown"
  <2>1. t \notin Numbers \cup Floats
    BY <1>18 DEF Numbers, Floats
  <2>2. ParseXml(t, o) = XmlMpeUnknown(o)
    BY <1>18, <2>1, Zenon DEF ParseXml
  <2> QED BY <2>2, LoadedIsSame DEF XmlMpeUnknown, Always, Kept
<1>19. CASE t = "acs"
  <2>1. t \notin Numbers \cup Floats
    BY <1>19 DEF Numbers, Floats
  <2>2. ParseXml(t, o) = XmlAcs(o)
    BY <1>19, <2>1, Zenon DEF ParseXml
  <2> QED BY <2>2, LoadedIsSame DEF XmlAcs, Always, Kept
<1>20. CASE t = "sampledSegment"
  <2>1. t \notin Numbers \cup Floats
    BY <1>20 DEF Numbers, Floats
  <2>2. ParseXml(t, o) = XmlSampledSegment(o)
    BY <1>20, <2>1, Zenon DEF ParseXml
  <2> QED BY <2>2, LoadedIsSame DEF XmlSampledSegment, Counted, Kept
<1>21. CASE t = "sampledCurve"
  <2>1. t \notin Numbers \cup Floats
    BY <1>21 DEF Numbers, Floats
  <2>2. ParseXml(t, o) = XmlSingleSampledCurve(o)
    BY <1>21, <2>1, Zenon DEF ParseXml
  <2> QED BY <2>2, LoadedIsSame DEF XmlSingleSampledCurve, Counted, Kept
<1>22. CASE t = "tintArray"
  <2>1. t \notin Numbers \cup Floats
    BY <1>22 DEF Numbers, Floats
  <2>2. ParseXml(t, o) = XmlTintArray(o)
    BY <1>22, <2>1, Zenon DEF ParseXml
  <2> QED BY <2>2, LoadedIsSame DEF XmlTintArray, Kept
<1>23. CASE t = "mpeClut"
  <2>1. t \notin Numbers \cup Floats
    BY <1>23 DEF Numbers, Floats
  <2>2. ParseXml(t, o) = XmlMpeCLUT(o)
    BY <1>23, <2>1, Zenon DEF ParseXml
  <2> QED BY <2>2, LoadedIsSame DEF XmlMpeCLUT, TableKept, Kept
<1>24. CASE t = "mpeExtClut"
  <2>1. t \notin Numbers \cup Floats
    BY <1>24 DEF Numbers, Floats
  <2>2. ParseXml(t, o) = XmlMpeExtCLUT(o)
    BY <1>24, <2>1, Zenon DEF ParseXml
  <2> QED BY <2>2, LoadedIsSame DEF XmlMpeExtCLUT, TableKept, Kept
<1>25. CASE t = "spectralClut"
  <2>1. t \notin Numbers \cup Floats
    BY <1>25 DEF Numbers, Floats
  <2>2. ParseXml(t, o) = XmlSpectralCLUT(o)
    BY <1>25, <2>1, Zenon DEF ParseXml
  <2> QED BY <2>2, LoadedIsSame DEF XmlSpectralCLUT, TableKept, Kept
<1>26. CASE t = "spectralMatrix"
  <2>1. t \notin Numbers \cup Floats
    BY <1>26 DEF Numbers, Floats
  <2>2. ParseXml(t, o) = XmlSpectralMatrix(o)
    BY <1>26, <2>1, Zenon DEF ParseXml
  <2> QED BY <2>2, LoadedIsSame DEF XmlSpectralMatrix, Kept
<1>27. CASE t = "spectralObserver"
  <2>1. t \notin Numbers \cup Floats
    BY <1>27 DEF Numbers, Floats
  <2>2. ParseXml(t, o) = XmlSpectralObserver(o)
    BY <1>27, <2>1, Zenon DEF ParseXml
  <2> QED BY <2>2, LoadedIsSame DEF XmlSpectralObserver, Kept
<1>28. CASE t = "profileSequence"
  <2>1. t \notin Numbers \cup Floats
    BY <1>28 DEF Numbers, Floats
  <2>2. ParseXml(t, o) = XmlProfileSequence(o)
    BY <1>28, <2>1, Zenon DEF ParseXml
  <2> QED BY <2>2, LoadedIsSame DEF XmlProfileSequence, Always, Kept
<1>29. CASE t = "responseCurves"
  <2>1. t \notin Numbers \cup Floats
    BY <1>29 DEF Numbers, Floats
  <2>2. ParseXml(t, o) = XmlResponseCurves(o)
    BY <1>29, <2>1, Zenon DEF ParseXml
  <2> QED BY <2>2, LoadedIsSame DEF XmlResponseCurves, Always, Kept
<1>30. CASE t = "segmentedCurve"
  <2>1. t \notin Numbers \cup Floats
    BY <1>30 DEF Numbers, Floats
  <2>2. ParseXml(t, o) = XmlSegmentedCurve(o)
    BY <1>30, <2>1, Zenon DEF ParseXml
  <2> QED BY <2>2, LoadedIsSame DEF XmlSegmentedCurve, SegmentsKept, Kept
<1>31. CASE t \in {"lutAtoB", "lutBtoA"}
  <2>1. t \notin OneName
    BY <1>31 DEF Numbers, Floats, OneName
  <2>2. t \notin Numbers /\ t \notin Floats /\ t \notin {"lut8", "lut16"}
    BY <1>31 DEF Numbers, Floats
  <2>3. ParseXml(t, o) = XmlLutParts(o)
    BY <1>31, <2>1, <2>2, Zenon DEF ParseXml, OneName
  <2> QED BY <2>3, LoadedIsSame DEF XmlLutParts, Kept
<1> QED BY <1>1, <1>2, <1>3, <1>4, <1>5, <1>6, <1>7, <1>8, <1>9, <1>10, <1>11, <1>12, <1>13, <1>14, <1>15, <1>16, <1>17, <1>18, <1>19, <1>20, <1>21, <1>22, <1>23, <1>24, <1>25, <1>26, <1>27, <1>28, <1>29, <1>30, <1>31 DEF XmlSame

JsonSame ==
  Numbers \cup Floats \cup {"lut8", "lut16"} \cup {"lutAtoB", "lutBtoA"} \cup
  {"unknown", "utf8", "zipUtf8", "namedColor2", "xyz", "chromaticity", "fixedNum",
   "data", "colorantOrder", "colorantTable", "height", "normal", "spectralViewing",
   "curve", "gamutBoundary", "mpeUnknown", "acs", "sampledSegment", "sampledCurve",
   "tintArray", "mpeClut", "mpeExtClut", "spectralClut", "spectralMatrix",
   "spectralObserver", "profileSequence", "profileSequenceId", "responseCurves",
   "segmentedCurve"}

LEMMA JsonSameObject ==
  ASSUME NEW t \in JsonSame, NEW o, IsObject(o), ParseJson(t, o).ok
  PROVE  Fields(ParseJson(t, o)) = o
<1>1. CASE t \in Numbers
  <2>1. t \notin OneName
    BY <1>1 DEF Numbers, Floats, OneName
  <2>2. t \notin Floats /\ t \notin {"lut8", "lut16"} /\ t \notin {"lutAtoB", "lutBtoA"}
    BY <1>1 DEF Numbers, Floats
  <2>3. ParseJson(t, o) = JsonNum(o)
    BY <1>1, <2>1, <2>2, Zenon DEF ParseJson, OneName
  <2> QED BY <2>3, LoadedIsSame DEF JsonNum, Counted, Kept
<1>2. CASE t \in Floats
  <2>1. t \notin OneName
    BY <1>2 DEF Numbers, Floats, OneName
  <2>2. t \notin Numbers /\ t \notin {"lut8", "lut16"} /\ t \notin {"lutAtoB", "lutBtoA"}
    BY <1>2 DEF Numbers, Floats
  <2>3. ParseJson(t, o) = JsonFloatNum(o)
    BY <1>2, <2>1, <2>2, Zenon DEF ParseJson, OneName
  <2> QED BY <2>3, LoadedIsSame DEF JsonFloatNum, Counted, Kept
<1>3. CASE t = "unknown"
  <2>1. t \notin Numbers \cup Floats
    BY <1>3 DEF Numbers, Floats
  <2>2. ParseJson(t, o) = JsonUnknown(o)
    BY <1>3, <2>1, Zenon DEF ParseJson
  <2> QED BY <2>2, LoadedIsSame DEF JsonUnknown, Kept
<1>4. CASE t = "utf8"
  <2>1. t \notin Numbers \cup Floats
    BY <1>4 DEF Numbers, Floats
  <2>2. ParseJson(t, o) = JsonUtf8Text(o)
    BY <1>4, <2>1, Zenon DEF ParseJson
  <2> QED BY <2>2, LoadedIsSame DEF JsonUtf8Text, Always, Kept
<1>5. CASE t = "zipUtf8"
  <2>1. t \notin Numbers \cup Floats
    BY <1>5 DEF Numbers, Floats
  <2>2. ParseJson(t, o) = JsonZipUtf8Text(o)
    BY <1>5, <2>1, Zenon DEF ParseJson
  <2> QED BY <2>2, LoadedIsSame DEF JsonZipUtf8Text, Counted, Kept
<1>6. CASE t = "namedColor2"
  <2>1. t \notin Numbers \cup Floats
    BY <1>6 DEF Numbers, Floats
  <2>2. ParseJson(t, o) = JsonNamedColor2(o)
    BY <1>6, <2>1, Zenon DEF ParseJson
  <2> QED BY <2>2, LoadedIsSame DEF JsonNamedColor2, Kept
<1>7. CASE t = "xyz"
  <2>1. t \notin Numbers \cup Floats
    BY <1>7 DEF Numbers, Floats
  <2>2. ParseJson(t, o) = JsonXYZ(o)
    BY <1>7, <2>1, Zenon DEF ParseJson
  <2> QED BY <2>2, LoadedIsSame DEF JsonXYZ, Counted, Kept
<1>8. CASE t = "chromaticity"
  <2>1. t \notin Numbers \cup Floats
    BY <1>8 DEF Numbers, Floats
  <2>2. ParseJson(t, o) = JsonChromaticity(o)
    BY <1>8, <2>1, Zenon DEF ParseJson
  <2> QED BY <2>2, LoadedIsSame DEF JsonChromaticity, Kept
<1>9. CASE t = "fixedNum"
  <2>1. t \notin Numbers \cup Floats
    BY <1>9 DEF Numbers, Floats
  <2>2. ParseJson(t, o) = JsonFixedNum(o)
    BY <1>9, <2>1, Zenon DEF ParseJson
  <2> QED BY <2>2, LoadedIsSame DEF JsonFixedNum, Counted, Kept
<1>10. CASE t = "data"
  <2>1. t \notin Numbers \cup Floats
    BY <1>10 DEF Numbers, Floats
  <2>2. ParseJson(t, o) = JsonTagData(o)
    BY <1>10, <2>1, Zenon DEF ParseJson
  <2> QED BY <2>2, LoadedIsSame DEF JsonTagData, Counted, Kept
<1>11. CASE t = "colorantOrder"
  <2>1. t \notin Numbers \cup Floats
    BY <1>11 DEF Numbers, Floats
  <2>2. ParseJson(t, o) = JsonColorantOrder(o)
    BY <1>11, <2>1, Zenon DEF ParseJson
  <2> QED BY <2>2, LoadedIsSame DEF JsonColorantOrder, Counted, Kept
<1>12. CASE t = "colorantTable"
  <2>1. t \notin Numbers \cup Floats
    BY <1>12 DEF Numbers, Floats
  <2>2. ParseJson(t, o) = JsonColorantTable(o)
    BY <1>12, <2>1, Zenon DEF ParseJson
  <2> QED BY <2>2, LoadedIsSame DEF JsonColorantTable, Counted, Kept
<1>13. CASE t = "height"
  <2>1. t \notin Numbers \cup Floats
    BY <1>13 DEF Numbers, Floats
  <2>2. ParseJson(t, o) = JsonHeightImage(o)
    BY <1>13, <2>1, Zenon DEF ParseJson
  <2> QED BY <2>2, LoadedIsSame DEF JsonHeightImage, Counted, Kept
<1>14. CASE t = "normal"
  <2>1. t \notin Numbers \cup Floats
    BY <1>14 DEF Numbers, Floats
  <2>2. ParseJson(t, o) = JsonNormalImage(o)
    BY <1>14, <2>1, Zenon DEF ParseJson
  <2> QED BY <2>2, LoadedIsSame DEF JsonNormalImage, Counted, Kept
<1>15. CASE t = "spectralViewing"
  <2>1. t \notin Numbers \cup Floats
    BY <1>15 DEF Numbers, Floats
  <2>2. ParseJson(t, o) = JsonSpectralViewing(o)
    BY <1>15, <2>1, Zenon DEF ParseJson
  <2> QED BY <2>2, LoadedIsSame DEF JsonSpectralViewing, Always, Kept
<1>16. CASE t = "curve"
  <2>1. t \notin Numbers \cup Floats
    BY <1>16 DEF Numbers, Floats
  <2>2. ParseJson(t, o) = JsonCurve(o)
    BY <1>16, <2>1, Zenon DEF ParseJson
  <2> QED BY <2>2, LoadedIsSame DEF JsonCurve, Kept
<1>17. CASE t \in {"lut8", "lut16"}
  <2>1. t \notin OneName
    BY <1>17 DEF Numbers, Floats, OneName
  <2>2. t \notin Numbers /\ t \notin Floats /\ t \notin {"lutAtoB", "lutBtoA"}
    BY <1>17 DEF Numbers, Floats
  <2>3. ParseJson(t, o) = JsonLut(o)
    BY <1>17, <2>1, <2>2, Zenon DEF ParseJson, OneName
  <2> QED BY <2>3, LoadedIsSame DEF JsonLut, LutKept, Kept
<1>18. CASE t = "gamutBoundary"
  <2>1. t \notin Numbers \cup Floats
    BY <1>18 DEF Numbers, Floats
  <2>2. ParseJson(t, o) = JsonGamutBoundaryDesc(o)
    BY <1>18, <2>1, Zenon DEF ParseJson
  <2> QED BY <2>2, LoadedIsSame DEF JsonGamutBoundaryDesc, Kept
<1>19. CASE t = "mpeUnknown"
  <2>1. t \notin Numbers \cup Floats
    BY <1>19 DEF Numbers, Floats
  <2>2. ParseJson(t, o) = JsonMpeUnknown(o)
    BY <1>19, <2>1, Zenon DEF ParseJson
  <2> QED BY <2>2, LoadedIsSame DEF JsonMpeUnknown, Always, Kept
<1>20. CASE t = "acs"
  <2>1. t \notin Numbers \cup Floats
    BY <1>20 DEF Numbers, Floats
  <2>2. ParseJson(t, o) = JsonAcs(o)
    BY <1>20, <2>1, Zenon DEF ParseJson
  <2> QED BY <2>2, LoadedIsSame DEF JsonAcs, Always, Kept
<1>21. CASE t = "sampledSegment"
  <2>1. t \notin Numbers \cup Floats
    BY <1>21 DEF Numbers, Floats
  <2>2. ParseJson(t, o) = JsonSampledSegment(o)
    BY <1>21, <2>1, Zenon DEF ParseJson
  <2> QED BY <2>2, LoadedIsSame DEF JsonSampledSegment, Counted, Kept
<1>22. CASE t = "sampledCurve"
  <2>1. t \notin Numbers \cup Floats
    BY <1>22 DEF Numbers, Floats
  <2>2. ParseJson(t, o) = JsonSingleSampledCurve(o)
    BY <1>22, <2>1, Zenon DEF ParseJson
  <2> QED BY <2>2, LoadedIsSame DEF JsonSingleSampledCurve, Kept
<1>23. CASE t = "tintArray"
  <2>1. t \notin Numbers \cup Floats
    BY <1>23 DEF Numbers, Floats
  <2>2. ParseJson(t, o) = JsonTintArray(o)
    BY <1>23, <2>1, Zenon DEF ParseJson
  <2> QED BY <2>2, LoadedIsSame DEF JsonTintArray, Counted, Kept
<1>24. CASE t = "mpeClut"
  <2>1. t \notin Numbers \cup Floats
    BY <1>24 DEF Numbers, Floats
  <2>2. ParseJson(t, o) = JsonMpeCLUT(o)
    BY <1>24, <2>1, Zenon DEF ParseJson
  <2> QED BY <2>2, LoadedIsSame DEF JsonMpeCLUT, Kept, TableKept
<1>25. CASE t = "mpeExtClut"
  <2>1. t \notin Numbers \cup Floats
    BY <1>25 DEF Numbers, Floats
  <2>2. ParseJson(t, o) = JsonMpeExtCLUT(o)
    BY <1>25, <2>1, Zenon DEF ParseJson
  <2> QED BY <2>2, LoadedIsSame DEF JsonMpeExtCLUT, Kept, TableKept
<1>26. CASE t = "spectralClut"
  <2>1. t \notin Numbers \cup Floats
    BY <1>26 DEF Numbers, Floats
  <2>2. ParseJson(t, o) = JsonSpectralCLUT(o)
    BY <1>26, <2>1, Zenon DEF ParseJson
  <2> QED BY <2>2, LoadedIsSame DEF JsonSpectralCLUT, Kept, TableKept
<1>27. CASE t = "spectralMatrix"
  <2>1. t \notin Numbers \cup Floats
    BY <1>27 DEF Numbers, Floats
  <2>2. ParseJson(t, o) = JsonSpectralMatrix(o)
    BY <1>27, <2>1, Zenon DEF ParseJson
  <2> QED BY <2>2, LoadedIsSame DEF JsonSpectralMatrix, Kept
<1>28. CASE t = "spectralObserver"
  <2>1. t \notin Numbers \cup Floats
    BY <1>28 DEF Numbers, Floats
  <2>2. ParseJson(t, o) = JsonSpectralObserver(o)
    BY <1>28, <2>1, Zenon DEF ParseJson
  <2> QED BY <2>2, LoadedIsSame DEF JsonSpectralObserver, Kept
<1>29. CASE t = "profileSequence"
  <2>1. t \notin Numbers \cup Floats
    BY <1>29 DEF Numbers, Floats
  <2>2. ParseJson(t, o) = JsonProfileSequence(o)
    BY <1>29, <2>1, Zenon DEF ParseJson
  <2> QED BY <2>2, LoadedIsSame DEF JsonProfileSequence, Always, Kept
<1>30. CASE t = "profileSequenceId"
  <2>1. t \notin Numbers \cup Floats
    BY <1>30 DEF Numbers, Floats
  <2>2. ParseJson(t, o) = JsonProfileSequenceId(o)
    BY <1>30, <2>1, Zenon DEF ParseJson
  <2> QED BY <2>2, LoadedIsSame DEF JsonProfileSequenceId, Always, Kept
<1>31. CASE t = "responseCurves"
  <2>1. t \notin Numbers \cup Floats
    BY <1>31 DEF Numbers, Floats
  <2>2. ParseJson(t, o) = JsonResponseCurves(o)
    BY <1>31, <2>1, Zenon DEF ParseJson
  <2> QED BY <2>2, LoadedIsSame DEF JsonResponseCurves, Kept
<1>32. CASE t = "segmentedCurve"
  <2>1. t \notin Numbers \cup Floats
    BY <1>32 DEF Numbers, Floats
  <2>2. ParseJson(t, o) = JsonSegmentedCurve(o)
    BY <1>32, <2>1, Zenon DEF ParseJson
  <2> QED BY <2>2, LoadedIsSame DEF JsonSegmentedCurve, SegmentsKept, Kept
<1>33. CASE t \in {"lutAtoB", "lutBtoA"}
  <2>1. t \notin OneName
    BY <1>33 DEF Numbers, Floats, OneName
  <2>2. t \notin Numbers /\ t \notin Floats /\ t \notin {"lut8", "lut16"}
    BY <1>33 DEF Numbers, Floats
  <2>3. ParseJson(t, o) = JsonLutParts(o)
    BY <1>33, <2>1, <2>2, Zenon DEF ParseJson, OneName
  <2> QED BY <2>3, LoadedIsSame DEF JsonLutParts, Kept
<1> QED BY <1>1, <1>2, <1>3, <1>4, <1>5, <1>6, <1>7, <1>8, <1>9, <1>10, <1>11, <1>12, <1>13, <1>14, <1>15, <1>16, <1>17, <1>18, <1>19, <1>20, <1>21, <1>22, <1>23, <1>24, <1>25, <1>26, <1>27, <1>28, <1>29, <1>30, <1>31, <1>32, <1>33 DEF JsonSame-----------------------------------------------------------------------------
(* What the types whose objects may change need: a description's ASCII       *)
(* buffer ends with its NUL, there is a named colour, a matrix is there or   *)
(* not, formulas and tone maps have the parameters of their type, and the    *)
(* counts that are compared are numbers.                                     *)
Sound(t, o) ==
  /\ IsObject(o)
  /\ t = "text" => o.n \in Nat
  /\ t = "description" => o.u \in Nat /\ o.n = o.u + 1 /\ o.m \in Nat /\ o.v \in 0 .. 2
  /\ t = "namedColor2" => o.n # 0
  /\ t = "matrix" => o.n \in {0, 1}
  /\ t = "formulaSegment" => o.k \in 0 .. 7 /\ o.n = FormulaParameters[o.k + 1]
  /\ t = "toneMap" => o.n \in Nat /\ o.n >= NumArgs(o.k)
  /\ t = "localized" => o.n \in Nat
  /\ t = "dict" => o.m \in Nat /\ o.u \in Nat
  /\ t = "profileSequenceId" => o.k \in Nat /\ o.m \in Nat

(* What a reader accepts is again such an object, holds what was written     *)
(* unless that is forgotten, and is kept by a second trip.  What XML keeps   *)
(* of a description has a lemma of its own.                                  *)
XmlDescribes(t, language) == t = "description" /\ language = "xml"

Stable(t, o, language) ==
  LET back == Fields(Reread(t, o, language))
      again == Reread(t, back, language)
  IN /\ Sound(t, back)
     /\ XmlDescribes(t, language) \/ Forgotten(t, o, language) \/ Content(t, back) = Content(t, o)
     /\ again.ok
     /\ Fields(again) = back

LEMMA SameIsStable ==
  ASSUME NEW t, NEW o, Sound(t, o), NEW language,
         Reread(t, o, language).ok, Fields(Reread(t, o, language)) = o
  PROVE  Stable(t, o, language)
  BY DEF Stable

(* An object is the record of its fields. *)
LEMMA ObjectRecord ==
  ASSUME NEW o, IsObject(o)
  PROVE  o = [n |-> o.n, k |-> o.k, m |-> o.m, u |-> o.u, v |-> o.v]
  BY DEF IsObject, Fields, Object

(* A reader that makes the same new object of the old and of the new one. *)
LEMMA ChangedIsStable ==
  ASSUME NEW t, NEW o, NEW language, NEW new, Sound(t, new), NEW test,
         Reread(t, o, language) = LoadedIf(test, new, 0), Reread(t, o, language).ok,
         Reread(t, new, language) = LoadedIf(TRUE, new, 0),
         Forgotten(t, o, language) \/ Content(t, new) = Content(t, o)
  PROVE  Stable(t, o, language)
<1>1. IsObject(new)
  BY DEF Sound
<1>2. Fields(Reread(t, o, language)) = new
  BY <1>1, LoadedIsSame
<1>3. Reread(t, new, language).ok
  BY DEF LoadedIf
<1>4. Fields(Reread(t, new, language)) = new
  BY <1>1, <1>3, LoadedIsSame
<1> QED BY <1>2, <1>3, <1>4 DEF Stable

LEMMA XmlTextStable ==
  ASSUME NEW o, Sound("text", o)
  PROVE  Stable("text", o, "xml")
<1>1. \A x : ParseXml("text", x) = XmlText(x)
  <2>1. "text" \notin Numbers \cup Floats
    BY DEF Numbers, Floats
  <2> QED BY <2>1, Zenon DEF ParseXml
<1>2. IsObject(o) /\ o.n \in Nat
  BY DEF Sound
<1>3. CASE o.v = 1
  <2>1. Reread("text", o, "xml") = LoadedIf(TRUE, o, 0)
    BY <1>1, <1>3 DEF Reread, XmlText, IsTextLegalCDATA, Always, Kept
  <2>2. Reread("text", o, "xml").ok
    BY <2>1 DEF LoadedIf
  <2> QED BY <2>1, <2>2, ChangedIsStable
<1>4. CASE o.v # 1
  <2> DEFINE cut == [o EXCEPT !.n = AnsiToUtf8(o.n)]
  <2>1. Reread("text", o, "xml") = LoadedIf(TRUE, cut, 0)
    BY <1>1, <1>4 DEF Reread, XmlText, IsTextLegalCDATA, Always, Kept
  <2>2. IsObject(cut) /\ cut.v = o.v /\ cut.n = AnsiToUtf8(o.n)
    BY <1>2 DEF IsObject, Fields, Object
  <2>3. AnsiToUtf8(cut.n) = cut.n /\ cut.n \in Nat
    BY <2>2, <1>2 DEF AnsiToUtf8, AnsiLimit, Smaller
  <2>4. [cut EXCEPT !.n = AnsiToUtf8(cut.n)] = cut
    BY <2>2, <2>3 DEF IsObject, Fields, Object
  <2>5. Reread("text", cut, "xml") = LoadedIf(TRUE, cut, 0)
    BY <1>1, <1>4, <2>2, <2>4 DEF Reread, XmlText, IsTextLegalCDATA, Always, Kept
  <2>6. Forgotten("text", o, "xml") \/ cut = o
    <3>1. CASE o.n > AnsiLimit
      BY <3>1, <1>4 DEF Forgotten, ForgottenInXml, IsTextLegalCDATA
    <3>2. CASE ~(o.n > AnsiLimit)
      <4>1. AnsiToUtf8(o.n) = o.n
        BY <3>2, <1>2 DEF AnsiToUtf8, AnsiLimit, Smaller
      <4> QED BY <4>1, <1>2 DEF IsObject, Fields, Object
    <3> QED BY <3>1, <3>2
  <2>7. Sound("text", cut)
    BY <2>2, <2>3 DEF Sound
  <2> HIDE DEF cut
  <2>8. Reread("text", o, "xml").ok
    BY <2>1 DEF LoadedIf
  <2> QED BY <2>1, <2>5, <2>6, <2>7, <2>8, ChangedIsStable
<1> QED BY <1>3, <1>4

(* In JSON a text and a 16-bit text lose their mark, in XML a number does. *)
LEMMA UnmarkedIsStable ==
  ASSUME NEW t, t \in {"text", "utf16"} \cup Numbers, NEW o, Sound(t, o), NEW language,
         NEW test, Reread(t, o, language) = LoadedIf(test, [o EXCEPT !.v = 0], 0),
         Reread(t, o, language).ok,
         Reread(t, [o EXCEPT !.v = 0], language) = LoadedIf(TRUE, [o EXCEPT !.v = 0], 0),
         o.v = 0 \/ Forgotten(t, o, language)
  PROVE  Stable(t, o, language)
<1> DEFINE plain == [o EXCEPT !.v = 0]
<1>1. IsObject(plain) /\ plain.n = o.n /\ (o.v = 0 => plain = o)
  BY DEF Sound, IsObject, Fields, Object
<1>2. Sound(t, plain)
  BY <1>1 DEF Sound, Numbers
<1> QED BY <1>1, <1>2, ChangedIsStable

(* An XML document keeps all of a description but its language code. *)
LEMMA XmlDescription ==
  ASSUME NEW o, Sound("description", o), ParseXml("description", o).ok
  PROVE  /\ Stable("description", o, "xml")
         /\ \/ Forgotten("description", o, "xml")
            \/ Content("description", Fields(Reread("description", o, "xml")))
                 = Content("description", Carried("description", o, "xml"))
<1> DEFINE t == "description"
           back == Fields(Reread(t, o, "xml"))
<1>1. \A x : ParseXml(t, x) = XmlTextDescription(x)
  <2>1. "description" \notin Numbers \cup Floats
    BY DEF Numbers, Floats
  <2> QED BY <2>1, Zenon DEF ParseXml
<1>2. \A x : Content(t, x) = [x EXCEPT !.k = 0]
  BY Zenon DEF Content
<1>3. IsObject(o) /\ o.u \in Nat /\ o.n = o.u + 1 /\ o.m \in Nat /\ o.v \in 0 .. 2
  BY DEF Sound
<1> DEFINE ascii == AnsiToUtf8(o.u)
           new == Object(ascii + 1, o.m + 1, o.m, ascii)
<1>4. new = [n |-> ascii + 1, k |-> o.m + 1, m |-> o.m, u |-> ascii, v |-> 0]
  BY DEF Object
<1>5. Reread(t, o, "xml") = LoadedIf(o.v # 2, new, 0)
  BY <1>1 DEF Reread, XmlTextDescription, Kept
<1>6. ascii \in Nat /\ AnsiToUtf8(ascii) = ascii /\ (~(o.u > AnsiLimit) => ascii = o.u)
  BY <1>3 DEF AnsiToUtf8, AnsiLimit, Smaller
<1>7. Reread(t, o, "xml").ok /\ o.v # 2
  BY <1>5 DEF Reread, LoadedIf, Refused
<1> HIDE DEF ascii
<1>8. Object(AnsiToUtf8(new.u) + 1, new.m + 1, new.m, AnsiToUtf8(new.u)) = new
  BY <1>4, <1>6
<1>9. new.v # 2
  BY <1>4
<1>10. IsObject(new)
  BY <1>4 DEF IsObject, Fields, Object
<1>11. Sound(t, new)
  BY <1>3, <1>4, <1>6, <1>10 DEF Sound
<1>12. Forgotten(t, o, "xml") \/ Content(t, new) = Content(t, Carried(t, o, "xml"))
  <2>1. CASE o.u > AnsiLimit
    BY <2>1 DEF Forgotten, ForgottenInXml
  <2>2. CASE ~(o.u > AnsiLimit)
    <3>1. new = [n |-> o.u + 1, k |-> o.m + 1, m |-> o.m, u |-> o.u, v |-> 0]
      BY <2>2, <1>4, <1>6
    <3>2. o = [n |-> o.u + 1, k |-> o.k, m |-> o.m, u |-> o.u, v |-> o.v]
      <4>1. o = [n |-> o.n, k |-> o.k, m |-> o.m, u |-> o.u, v |-> o.v]
        BY <1>3, ObjectRecord
      <4> QED BY <1>3, <4>1, Zenon
    <3>3. Carried(t, o, "xml") = [n |-> o.u + 1, k |-> o.k, m |-> o.m, u |-> o.u, v |-> 0]
      <4>1. CASE o.v = 1
        <5>1. Carried(t, o, "xml") = [o EXCEPT !.v = 0]
          BY <4>1 DEF Carried
        <5> QED BY <5>1, <3>2
      <4>2. CASE o.v # 1
        <5>1. Carried(t, o, "xml") = o /\ o.v = 0
          BY <4>2, <1>3, <1>7 DEF Carried
        <5> QED BY <5>1, <3>2, Zenon
      <4> QED BY <4>1, <4>2
    <3> DEFINE carried == [n |-> o.u + 1, k |-> o.k, m |-> o.m, u |-> o.u, v |-> 0]
    <3>4. [new EXCEPT !.k = 0] = [carried EXCEPT !.k = 0]
      BY <3>1
    <3> HIDE DEF new, carried
    <3> QED BY <1>2, <3>3, <3>4 DEF carried
  <2> QED BY <2>1, <2>2
<1> HIDE DEF new
<1>13. Reread(t, new, "xml") = LoadedIf(TRUE, new, 0)
  BY <1>1, <1>8, <1>9 DEF Reread, XmlTextDescription, Kept
<1>14. back = new
  BY <1>5, <1>7, <1>10, LoadedIsSame
<1>15. Reread(t, new, "xml").ok
  BY <1>13 DEF LoadedIf
<1>16. Fields(Reread(t, new, "xml")) = new
  BY <1>10, <1>13, <1>15, LoadedIsSame
<1> QED BY <1>11, <1>12, <1>14, <1>15, <1>16 DEF Stable, XmlDescribes

(* Strings merged once stay merged. *)
LEMMA LocalizedStable ==
  ASSUME NEW o, Sound("localized", o), NEW language \in {"xml", "json"}, NEW test,
         Reread("localized", o, language) = LoadedIf(test, Merged(o), 0),
         Reread("localized", o, language).ok,
         Reread("localized", Merged(o), language) = LoadedIf(TRUE, Merged(Merged(o)), 0)
  PROVE  Stable("localized", o, language)
<1> DEFINE n == IF o.v = 1 THEN Smaller(o.n, 1) ELSE o.n
           new == Merged(o)
<1>1. IsObject(o) /\ o.n \in Nat
  BY DEF Sound
<1>2. n \in Nat /\ (o.v = 1 => Smaller(n, 1) = n) /\ (o.v = 1 /\ ~(o.n > 1) => n = o.n)
  BY <1>1 DEF Smaller
<1>3. new = [n |-> n, k |-> o.k, m |-> o.m, u |-> o.u, v |-> o.v]
  BY <1>1, ObjectRecord DEF Merged
<1> HIDE DEF n, new
<1>4. IsObject(new)
  BY <1>3 DEF IsObject, Fields, Object
<1>5. Merged(new) = new
  BY <1>2, <1>3 DEF Merged
<1>6. Sound("localized", new)
  BY <1>2, <1>3, <1>4 DEF Sound
<1>7. Forgotten("localized", o, language) \/ new = o
  <2>1. CASE o.v = 1 /\ o.n > 1
    BY <2>1 DEF Forgotten, ForgottenInXml, ForgottenInJson
  <2>2. CASE ~(o.v = 1 /\ o.n > 1)
    <3>1. n = o.n
      BY <2>2, <1>2 DEF n
    <3> QED BY <3>1, <1>3, <1>1, ObjectRecord
  <2> QED BY <2>1, <2>2
<1>8. /\ Reread("localized", o, language) = LoadedIf(test, new, 0)
      /\ Reread("localized", new, language) = LoadedIf(TRUE, new, 0)
  BY <1>5 DEF new
<1> QED BY <1>6, <1>7, <1>8, ChangedIsStable

(* So do the entries that are left. *)
LEMMA SparseStable ==
  ASSUME NEW o, Sound("sparseMatrices", o), NEW language \in {"xml", "json"}, NEW test,
         Reread("sparseMatrices", o, language) = LoadedIf(test, InRows(o), 0),
         Reread("sparseMatrices", o, language).ok,
         Reread("sparseMatrices", InRows(o), language) = LoadedIf(TRUE, InRows(InRows(o)), 0)
  PROVE  Stable("sparseMatrices", o, language)
<1> DEFINE v == IF o.m = 0 THEN 0 ELSE o.v
           new == InRows(o)
<1>1. IsObject(o)
  BY DEF Sound
<1>2. new = [n |-> o.n, k |-> o.k, m |-> o.m, u |-> o.u, v |-> v]
  BY <1>1, ObjectRecord DEF InRows, Marked
<1>3. InRows(new) = new
  BY <1>2 DEF InRows, Marked
<1> HIDE DEF new
<1>4. IsObject(new)
  BY <1>2 DEF IsObject, Fields, Object
<1>5. Sound("sparseMatrices", new)
  BY <1>4 DEF Sound
<1>6. Forgotten("sparseMatrices", o, language) \/ new = o
  <2>1. CASE o.m = 0 /\ o.v # 0
    BY <2>1 DEF Forgotten, ForgottenInXml, ForgottenInJson
  <2>2. CASE ~(o.m = 0 /\ o.v # 0)
    BY <2>2, <1>1, <1>2, ObjectRecord
  <2> QED BY <2>1, <2>2
<1>7. /\ Reread("sparseMatrices", o, language) = LoadedIf(test, new, 0)
      /\ Reread("sparseMatrices", new, language) = LoadedIf(TRUE, new, 0)
  BY <1>3 DEF new
<1> QED BY <1>5, <1>6, <1>7, ChangedIsStable

(* And the parts of a dictionary that were cut, to what both readers take.   *)
LEMMA DictStable ==
  ASSUME NEW o, Sound("dict", o), NEW language \in {"xml", "json"},
         NEW m \in Nat, NEW u \in Nat,
         Reread("dict", o, language) = Always(Object(o.n, o.k, m, u)),
         \A x : IsObject(x) /\ x.m = m /\ x.u = u /\ x.v = 0 => Reread("dict", x, language) = Always(x),
         Forgotten("dict", o, language) \/ (m = o.m /\ u = o.u)
  PROVE  Stable("dict", o, language)
<1> DEFINE new == Object(o.n, o.k, m, u)
<1>1. IsObject(o)
  BY DEF Sound
<1>2. new = [n |-> o.n, k |-> o.k, m |-> m, u |-> u, v |-> 0]
  BY DEF Object
<1>3. Reread("dict", o, language) = LoadedIf(TRUE, new, 0)
  BY DEF Always, Kept
<1> HIDE DEF new
<1>4. IsObject(new) /\ new.m = m /\ new.u = u /\ new.v = 0
  BY <1>2 DEF IsObject, Fields, Object
<1>5. Reread("dict", new, language) = LoadedIf(TRUE, new, 0)
  BY <1>4 DEF Always, Kept
<1>6. Sound("dict", new)
  BY <1>4 DEF Sound
<1>7. Forgotten("dict", o, language) \/ new = o
  <2>1. CASE o.v # 0
    BY <2>1 DEF Forgotten, ForgottenInXml, ForgottenInJson
  <2>2. CASE o.v = 0 /\ m = o.m /\ u = o.u
    BY <2>2, <1>1, <1>2, ObjectRecord
  <2> QED BY <2>1, <2>2
<1>8. Reread("dict", o, language).ok
  BY <1>3 DEF LoadedIf
<1> QED BY <1>3, <1>5, <1>6, <1>7, <1>8, ChangedIsStable

LEMMA XmlStable ==
  ASSUME NEW t \in Documented, NEW o, Sound(t, o), ParseXml(t, o).ok
  PROVE  Stable(t, o, "xml")
<1>1. \A x : Reread(t, x, "xml") = ParseXml(t, x)
  BY DEF Reread
<1>2. IsObject(o)
  BY DEF Sound
<1>3. CASE t \in XmlSame
  BY <1>1, <1>2, <1>3, XmlSameObject, SameIsStable
<1>4. CASE t = "text"
  BY <1>4, XmlTextStable
<1>5. CASE t = "description"
  BY <1>5, XmlDescription
<1>6. CASE t \in Numbers
  <2>1. t \notin OneName
    BY <1>6 DEF Numbers, OneName
  <2>2. t \notin Floats /\ t \notin {"lut8", "lut16"} /\ t \notin {"lutAtoB", "lutBtoA"}
    BY <1>6 DEF Numbers, Floats
  <2>3. \A x : ParseXml(t, x) = XmlNum(x)
    BY <1>6, <2>1, <2>2, Zenon DEF ParseXml, OneName
  <2> DEFINE plain == [o EXCEPT !.v = 0]
  <2>4. plain.n = o.n /\ [plain EXCEPT !.v = 0] = plain
    BY <1>2 DEF IsObject, Fields, Object
  <2>5. o.n > 0
    BY <2>3 DEF XmlNum, Kept, LoadedIf, Refused
  <2>6. /\ Reread(t, o, "xml") = LoadedIf(TRUE, plain, 0)
        /\ Reread(t, plain, "xml") = LoadedIf(TRUE, plain, 0)
    BY <1>1, <2>3, <2>4, <2>5 DEF XmlNum, Kept
  <2>7. o.v = 0 \/ Forgotten(t, o, "xml")
    BY <1>6 DEF Forgotten, ForgottenInXml
  <2>8. Reread(t, o, "xml").ok
    BY <1>1
  <2> QED BY <2>6, <2>7, <2>8, <1>6, UnmarkedIsStable
<1>7. CASE t \in {"zipUtf8", "namedColor2", "formulaSegment", "toneMap", "matrix"}
  <2>1. t \notin Numbers \cup Floats
    BY <1>7 DEF Numbers, Floats
  <2>2. CASE t = "zipUtf8"
    <3> DEFINE new == IF o.n = 0 THEN [o EXCEPT !.n = EmptyZipped] ELSE o
    <3>1. \A x : ParseXml(t, x) = XmlZipUtf8Text(x)
      BY <2>1, <2>2, Zenon DEF ParseXml
    <3>2. IsObject(new) /\ new.n # 0
      BY <1>2 DEF IsObject, Fields, Object, EmptyZipped
    <3>3. Sound(t, new)
      BY <2>2, <3>2 DEF Sound
    <3>4. \A x : x.n # 0 => Reread(t, x, "xml") = LoadedIf(TRUE, x, 0)
      BY <1>1, <3>1 DEF XmlZipUtf8Text, Always, Kept
    <3>5. Reread(t, o, "xml") = LoadedIf(TRUE, new, 0)
      BY <1>1, <3>1 DEF XmlZipUtf8Text, Always, Kept
    <3>6. Forgotten(t, o, "xml") \/ new = o
      BY <2>2 DEF Forgotten, ForgottenInXml
    <3>7. Reread(t, o, "xml").ok
      BY <1>1
    <3> HIDE DEF new
    <3> QED BY <3>2, <3>3, <3>4, <3>5, <3>6, <3>7, ChangedIsStable
  <2>3. CASE t = "namedColor2"
    <3>1. ParseXml(t, o) = XmlNamedColor2(o)
      BY <2>1, <2>3, Zenon DEF ParseXml
    <3>2. [o EXCEPT !.n = IF o.n = 0 THEN 1 ELSE o.n] = o
      BY <2>3, <1>2 DEF Sound, IsObject, Fields, Object
    <3>3. ParseXml(t, o) = LoadedIf(TRUE, o, 0)
      BY <3>1, <3>2 DEF XmlNamedColor2, Always, Kept
    <3>4. Fields(ParseXml(t, o)) = o
      BY <3>3, <1>2, LoadedIsSame
    <3> QED BY <3>4, <1>1, SameIsStable
  <2>4. CASE t = "formulaSegment"
    <3> DEFINE wanted == FormulaParameters[o.k + 1]
    <3>1. ParseXml(t, o) = XmlFormulaSegment(o)
      BY <2>1, <2>4, Zenon DEF ParseXml
    <3>2. WithParameters(o, wanted) = o
      BY <2>4, <1>2 DEF Sound, WithParameters, IsObject, Fields, Object
    <3>3. ParseXml(t, o) = LoadedIf(o.k \in 0 .. 7 /\ o.n >= wanted, o, 0)
      BY <3>1, <3>2 DEF XmlFormulaSegment, Kept
    <3>4. Fields(ParseXml(t, o)) = o
      BY <3>3, <1>2, LoadedIsSame
    <3> QED BY <3>4, <1>1, SameIsStable
  <2>5. CASE t = "toneMap"
    <3> DEFINE new == WithParameters(o, 3)
    <3>1. \A x : ParseXml(t, x) = XmlToneMapFunc(x)
      BY <2>1, <2>5, Zenon DEF ParseXml
    <3>2. o.k = 0 /\ o.n >= 3
      BY <3>1 DEF XmlToneMapFunc, Kept, LoadedIf, Refused, NumArgs
    <3>3. new.k = 0 /\ new.n = 3 /\ IsObject(new) /\ WithParameters(new, 3) = new
      <4>1. new = [n |-> 3, k |-> o.k, m |-> o.m, u |-> o.u, v |-> o.v]
        BY <1>2, ObjectRecord DEF WithParameters
      <4> HIDE DEF new
      <4> QED BY <4>1, <3>2 DEF WithParameters, IsObject, Fields, Object
    <3>4. Reread(t, o, "xml") = LoadedIf(TRUE, new, 0)
      BY <1>1, <3>1, <3>2 DEF XmlToneMapFunc, Kept, NumArgs
    <3>5. Reread(t, new, "xml") = LoadedIf(TRUE, new, 0)
      <4> HIDE DEF new
      <4>1. NumArgs(new.k) = 3
        BY <3>3 DEF NumArgs
      <4>2. Reread(t, new, "xml") = Kept(new.k = 0 /\ new.n >= 3, new)
        BY <1>1, <3>1, <3>3, <4>1 DEF XmlToneMapFunc
      <4> QED BY <4>2, <3>3 DEF Kept, LoadedIf
    <3>6. Sound(t, new)
      BY <2>5, <3>3 DEF Sound, NumArgs
    <3>7. Forgotten(t, o, "xml") \/ new = o
      <4>1. CASE o.n > 3
        BY <4>1, <2>5, <3>2 DEF Forgotten, ForgottenInXml, NumArgs
      <4>2. CASE ~(o.n > 3)
        <5>1. o.n = 3
          BY <4>2, <3>2, <2>5 DEF Sound
        <5> QED BY <5>1, <1>2 DEF WithParameters, IsObject, Fields, Object
      <4> QED BY <4>1, <4>2
    <3>8. Reread(t, o, "xml").ok
      BY <1>1
    <3> HIDE DEF new
    <3> QED BY <3>4, <3>5, <3>6, <3>7, <3>8, ChangedIsStable
  <2>6. CASE t = "matrix"
    <3> DEFINE new == [o EXCEPT !.u = 1]
    <3>1. \A x : ParseXml(t, x) = XmlMatrix(x)
      BY <2>1, <2>6, Zenon DEF ParseXml
    <3>2. o.k \in MatrixChannels /\ o.m \in MatrixChannels
      BY <3>1 DEF XmlMatrix, Kept, LoadedIf, Refused
    <3>3. new.k = o.k /\ new.m = o.m /\ IsObject(new) /\ [new EXCEPT !.u = 1] = new
      <4>1. new = [n |-> o.n, k |-> o.k, m |-> o.m, u |-> 1, v |-> o.v]
        BY <1>2, ObjectRecord
      <4> HIDE DEF new
      <4> QED BY <4>1 DEF IsObject, Fields, Object
    <3>4. /\ Reread(t, o, "xml") = LoadedIf(TRUE, new, 0)
          /\ Reread(t, new, "xml") = LoadedIf(TRUE, new, 0)
      BY <1>1, <3>1, <3>2, <3>3 DEF XmlMatrix, Kept
    <3>5. Sound(t, new)
      <4>1. new.n = o.n
        BY <1>2, ObjectRecord
      <4> QED BY <2>6, <3>3, <4>1 DEF Sound
    <3>6. Content(t, new) = Content(t, o)
      <4>1. \A x : Content(t, x) = [x EXCEPT !.u = 1]
        BY <2>6, Zenon DEF Content
      <4> QED BY <4>1, <3>3
    <3>7. Reread(t, o, "xml").ok
      BY <1>1
    <3> HIDE DEF new
    <3> QED BY <3>4, <3>5, <3>6, <3>7, ChangedIsStable
  <2> QED BY <1>7, <2>2, <2>3, <2>4, <2>5, <2>6
<1>8. CASE t \in {"localized", "dict", "profileSequenceId", "sparseMatrices"}
  <2>1. t \notin Numbers \cup Floats
    BY <1>8 DEF Numbers, Floats
  <2>2. CASE t = "localized"
    <3>1. \A x : ParseXml(t, x) = LoadedIf(x.n > 0, Merged(x), 0)
      <4>1. \A x : ParseXml(t, x) = XmlLocalized(x)
        BY <2>1, <2>2, Zenon DEF ParseXml
      <4> QED BY <4>1 DEF XmlLocalized, Kept
    <3>2. o.n \in Nat /\ o.n > 0
      BY <3>1, <2>2 DEF Sound, LoadedIf, Refused
    <3>3. Merged(o).n > 0
      BY <3>2, <1>2, ObjectRecord DEF Merged, Smaller
    <3>4. Reread("localized", Merged(o), "xml") = LoadedIf(TRUE, Merged(Merged(o)), 0)
      <4> DEFINE new == Merged(o)
      <4>1. new.n > 0
        BY <3>3
      <4> HIDE DEF new
      <4>2. Reread("localized", new, "xml") = LoadedIf(new.n > 0, Merged(new), 0)
        BY <1>1, <2>2, <3>1
      <4>3. Reread("localized", new, "xml") = LoadedIf(TRUE, Merged(new), 0)
        BY <4>1, <4>2 DEF LoadedIf
      <4> QED BY <4>3 DEF new
    <3>5. Reread("localized", o, "xml") = LoadedIf(o.n > 0, Merged(o), 0)
      BY <1>1, <2>2, <3>1
    <3>6. Reread("localized", o, "xml").ok
      BY <1>1, <2>2
    <3> QED BY <2>2, <3>4, <3>5, <3>6, LocalizedStable
  <2>3. CASE t = "dict"
    <3> DEFINE m == Smaller(o.m, OneCharacter)
               u == Smaller(o.u, OneCharacter)
    <3>1. \A x : ParseXml(t, x) = XmlDict(x)
      BY <2>1, <2>3, Zenon DEF ParseXml
    <3>2. o.m \in Nat /\ o.u \in Nat
      BY <2>3 DEF Sound
    <3>3. /\ m \in Nat /\ u \in Nat
          /\ Smaller(m, OneCharacter) = m /\ Smaller(u, OneCharacter) = u
          /\ ~(o.m > OneCharacter \/ o.u > OneCharacter) => m = o.m /\ u = o.u
      BY <3>2 DEF Smaller, OneCharacter
    <3>4. Reread("dict", o, "xml") = Always(Object(o.n, o.k, m, u))
      BY <1>1, <2>3, <3>1 DEF XmlDict
    <3>5. Forgotten("dict", o, "xml") \/ (m = o.m /\ u = o.u)
      BY <3>3 DEF Forgotten, ForgottenInXml
    <3> HIDE DEF m, u
    <3>6. ASSUME NEW x, IsObject(x), x.m = m, x.u = u, x.v = 0
          PROVE  Reread("dict", x, "xml") = Always(x)
      <4>1. Object(x.n, x.k, m, u) = x
        BY <3>6, ObjectRecord DEF Object
      <4>2. Reread("dict", x, "xml") = XmlDict(x)
        BY <1>1, <2>3, <3>1
      <4> QED BY <3>3, <3>6, <4>1, <4>2 DEF XmlDict
    <3> QED BY <2>3, <3>3, <3>4, <3>5, <3>6, DictStable
  <2>4. CASE t = "profileSequenceId"
    <3> DEFINE new == Marked(Object(o.n, 0, 0, o.u), o.v)
    <3>1. \A x : ParseXml(t, x) = XmlProfileSequenceId(x)
      BY <2>1, <2>4, Zenon DEF ParseXml
    <3>2. new = [n |-> o.n, k |-> 0, m |-> 0, u |-> o.u, v |-> o.v]
      BY DEF Marked, Object
    <3>3. Reread(t, o, "xml") = LoadedIf(TRUE, new, 0)
      BY <1>1, <3>1 DEF XmlProfileSequenceId, Always, Kept
    <3> HIDE DEF new
    <3>4. IsObject(new) /\ Marked(Object(new.n, 0, 0, new.u), new.v) = new
      BY <3>2 DEF IsObject, Fields, Object, Marked
    <3>5. Reread(t, new, "xml") = LoadedIf(TRUE, new, 0)
      BY <1>1, <3>1, <3>4 DEF XmlProfileSequenceId, Always, Kept
    <3>6. Sound(t, new)
      BY <2>4, <3>2, <3>4 DEF Sound
    <3>7. Forgotten(t, o, "xml") \/ new = o
      <4>1. CASE o.k > 0 \/ o.m > 0
        BY <4>1, <2>4 DEF Forgotten, ForgottenInXml
      <4>2. CASE ~(o.k > 0 \/ o.m > 0)
        <5>1. o.k = 0 /\ o.m = 0
          BY <4>2, <2>4 DEF Sound
        <5> QED BY <5>1, <3>2, <1>2, ObjectRecord
      <4> QED BY <4>1, <4>2
    <3>8. Reread(t, o, "xml").ok
      BY <1>1
    <3> QED BY <3>3, <3>5, <3>6, <3>7, <3>8, ChangedIsStable
  <2>5. CASE t = "sparseMatrices"
    <3> DEFINE new == InRows(o)
    <3>1. \A x : ParseXml(t, x) = LoadedIf(x.m <= x.v, InRows(x), 0)
      <4>1. \A x : ParseXml(t, x) = XmlSparseMatrices(x)
        BY <2>1, <2>5, Zenon DEF ParseXml
      <4> QED BY <4>1 DEF XmlSparseMatrices, Kept
    <3>2. o.m <= o.v
      BY <3>1 DEF LoadedIf, Refused
    <3>3. new.m <= new.v
      BY <3>2, <1>2, ObjectRecord DEF InRows, Marked
    <3> HIDE DEF new
    <3>4. Reread("sparseMatrices", new, "xml") = LoadedIf(new.m <= new.v, InRows(new), 0)
      BY <1>1, <2>5, <3>1
    <3>5. Reread("sparseMatrices", new, "xml") = LoadedIf(TRUE, InRows(new), 0)
      BY <3>3, <3>4 DEF LoadedIf
    <3>6. Reread("sparseMatrices", o, "xml") = LoadedIf(o.m <= o.v, InRows(o), 0)
      BY <1>1, <2>5, <3>1
    <3>7. Reread("sparseMatrices", o, "xml").ok
      BY <1>1, <2>5
    <3> QED BY <2>5, <3>5, <3>6, <3>7, SparseStable DEF new
  <2> QED BY <1>8, <2>2, <2>3, <2>4, <2>5
<1> QED BY <1>3, <1>4, <1>5, <1>6, <1>7, <1>8 DEF Documented, XmlSame

LEMMA JsonDescriptionStable ==
  ASSUME NEW o, Sound("description", o)
  PROVE  Stable("description", o, "json")
<1> DEFINE t == "description"
           new == Object(o.u + 1, 1, 0, o.u)
<1>1. \A x : Reread(t, x, "json") = LoadedIf(TRUE, Object(x.u + 1, 1, 0, x.u), 0)
  <2>1. "description" \notin Numbers \cup Floats
    BY DEF Numbers, Floats
  <2>2. \A x : ParseJson(t, x) = JsonTextDescription(x)
    BY <2>1, Zenon DEF ParseJson
  <2> QED BY <2>2 DEF Reread, JsonTextDescription, Always, Kept
<1>2. IsObject(o) /\ o.u \in Nat /\ o.n = o.u + 1 /\ o.m \in Nat /\ o.v \in 0 .. 2
  BY DEF Sound
<1>3. new = [n |-> o.u + 1, k |-> 1, m |-> 0, u |-> o.u, v |-> 0]
  BY DEF Object
<1>4. Object(new.u + 1, 1, 0, new.u) = new
  BY <1>3
<1>5. Sound(t, new)
  BY <1>2, <1>3 DEF Sound, IsObject, Fields, Object
<1>6. Forgotten(t, o, "json") \/ Content(t, new) = Content(t, o)
  <2>1. CASE o.v # 0 \/ o.m > 0
    BY <2>1 DEF Forgotten, ForgottenInJson
  <2>2. CASE ~(o.v # 0 \/ o.m > 0)
    <3>1. \A x : Content(t, x) = [x EXCEPT !.k = 0]
      BY Zenon DEF Content
    <3>2. o = [n |-> o.u + 1, k |-> o.k, m |-> 0, u |-> o.u, v |-> 0]
      <4>1. o.m = 0 /\ o.v = 0
        BY <1>2, <2>2
      <4>2. o = [n |-> o.n, k |-> o.k, m |-> o.m, u |-> o.u, v |-> o.v]
        BY <1>2, ObjectRecord
      <4> QED BY <1>2, <4>1, <4>2, Zenon
    <3>3. [o EXCEPT !.k = 0] = [n |-> o.u + 1, k |-> 0, m |-> 0, u |-> o.u, v |-> 0]
      BY <3>2
    <3> QED BY <3>1, <3>3, <1>3
  <2> QED BY <2>1, <2>2
<1> HIDE DEF new
<1>7. /\ Reread(t, o, "json") = LoadedIf(TRUE, new, 0)
      /\ Reread(t, new, "json") = LoadedIf(TRUE, new, 0)
  BY <1>1, <1>4 DEF new
<1>8. Reread(t, o, "json").ok
  BY <1>7 DEF LoadedIf
<1> QED BY <1>5, <1>6, <1>7, <1>8, ChangedIsStable

LEMMA JsonStable ==
  ASSUME NEW t \in Documented, NEW o, Sound(t, o), ParseJson(t, o).ok
  PROVE  Stable(t, o, "json")
<1>1. \A x : Reread(t, x, "json") = ParseJson(t, x)
  BY DEF Reread
<1>2. IsObject(o)
  BY DEF Sound
<1>3. CASE t \in JsonSame
  BY <1>1, <1>2, <1>3, JsonSameObject, SameIsStable
<1>4. CASE t = "description"
  BY <1>4, JsonDescriptionStable
<1>5. CASE t \in {"text", "utf16", "parametricCurve", "formulaSegment", "toneMap", "matrix"}
  <2>1. t \notin Numbers \cup Floats
    BY <1>5 DEF Numbers, Floats
  <2>2. CASE t \in {"text", "utf16"}
    <3> DEFINE plain == [o EXCEPT !.v = 0]
    <3>1. \A x : ParseJson(t, x) = LoadedIf(TRUE, [x EXCEPT !.v = 0], 0)
      <4>1. CASE t = "text"
        <5>1. \A x : ParseJson(t, x) = JsonText(x)
          BY <2>1, <4>1, Zenon DEF ParseJson
        <5> QED BY <5>1 DEF JsonText, Always, Kept
      <4>2. CASE t = "utf16"
        <5>1. \A x : ParseJson(t, x) = JsonUtf16Text(x)
          BY <2>1, <4>2, Zenon DEF ParseJson
        <5> QED BY <5>1 DEF JsonUtf16Text, Always, Kept
      <4> QED BY <2>2, <4>1, <4>2
    <3>2. [plain EXCEPT !.v = 0] = plain
      BY <1>2 DEF IsObject, Fields, Object
    <3>3. /\ Reread(t, o, "json") = LoadedIf(TRUE, plain, 0)
          /\ Reread(t, plain, "json") = LoadedIf(TRUE, plain, 0)
      BY <1>1, <3>1, <3>2
    <3>4. o.v = 0 \/ Forgotten(t, o, "json")
      BY <2>2 DEF Forgotten, ForgottenInJson
    <3>5. Reread(t, o, "json").ok
      BY <1>1
    <3> QED BY <2>2, <3>3, <3>4, <3>5, UnmarkedIsStable
  <2>3. CASE t = "parametricCurve"
    <3>1. \A x : ParseJson(t, x) = JsonParametricCurve(x)
      BY <2>1, <2>3, Zenon DEF ParseJson
    <3>2. CASE o.k \in 0 .. 4
      <4>1. ParseJson(t, o) = LoadedIf(TRUE, o, 0)
        BY <3>1, <3>2 DEF JsonParametricCurve, Always, Kept
      <4>2. Fields(ParseJson(t, o)) = o
        BY <4>1, <1>2, LoadedIsSame
      <4> QED BY <4>2, <1>1, SameIsStable
    <3>3. CASE o.k \notin 0 .. 4
      <4> DEFINE new == WithParameters(o, 0)
      <4>1. new = [n |-> 0, k |-> o.k, m |-> o.m, u |-> o.u, v |-> o.v]
        BY <1>2, ObjectRecord DEF WithParameters
      <4>2. Reread(t, o, "json") = LoadedIf(TRUE, new, 0)
        BY <1>1, <3>1, <3>3 DEF JsonParametricCurve, Always, Kept
      <4> HIDE DEF new
      <4>3. IsObject(new) /\ WithParameters(new, 0) = new /\ new.k = o.k
        BY <4>1 DEF WithParameters, IsObject, Fields, Object
      <4>4. Reread(t, new, "json") = LoadedIf(TRUE, new, 0)
        BY <1>1, <3>1, <3>3, <4>3 DEF JsonParametricCurve, Always, Kept
      <4>5. Sound(t, new)
        BY <2>3, <4>3 DEF Sound
      <4>6. Forgotten(t, o, "json")
        BY <2>3, <3>3 DEF Forgotten, ForgottenInJson
      <4>7. Reread(t, o, "json").ok
        BY <1>1
      <4> QED BY <4>2, <4>4, <4>5, <4>6, <4>7, ChangedIsStable
    <3> QED BY <3>2, <3>3
  <2>4. CASE t = "formulaSegment"
    <3>1. ParseJson(t, o) = JsonFormulaSegment(o)
      BY <2>1, <2>4, Zenon DEF ParseJson
    <3>2. WithParameters(o, FormulaParameters[o.k + 1]) = o
      BY <2>4, <1>2 DEF Sound, WithParameters, IsObject, Fields, Object
    <3>3. o.k \in 0 .. 7
      BY <2>4 DEF Sound
    <3>4. ParseJson(t, o) = LoadedIf(TRUE, o, 0)
      BY <3>1, <3>2, <3>3 DEF JsonFormulaSegment, Kept
    <3>5. Fields(ParseJson(t, o)) = o
      BY <3>4, <1>2, LoadedIsSame
    <3> QED BY <3>5, <1>1, SameIsStable
  <2>5. CASE t = "toneMap"
    <3> DEFINE new == WithParameters(o, 3)
    <3>1. \A x : ParseJson(t, x) = JsonToneMapFunc(x)
      BY <2>1, <2>5, Zenon DEF ParseJson
    <3>2. o.k = 0 /\ o.n \in Nat /\ o.n >= 3
      <4>1. o.k = 0
        BY <3>1 DEF JsonToneMapFunc, Kept, LoadedIf, Refused
      <4> QED BY <4>1, <2>5 DEF Sound, NumArgs
    <3>3. new = [n |-> 3, k |-> 0, m |-> o.m, u |-> o.u, v |-> o.v]
      BY <1>2, <3>2, ObjectRecord DEF WithParameters
    <3>4. Reread(t, o, "json") = LoadedIf(TRUE, new, 0)
      BY <1>1, <3>1, <3>2 DEF JsonToneMapFunc, Kept, NumArgs
    <3>5. Forgotten(t, o, "json") \/ new = o
      <4>1. CASE o.n > 3
        BY <4>1, <2>5, <3>2 DEF Forgotten, ForgottenInJson, NumArgs
      <4>2. CASE ~(o.n > 3)
        <5>1. o.n = 3
          BY <4>2, <3>2
        <5> QED BY <5>1, <3>2, <3>3, <1>2, ObjectRecord
      <4> QED BY <4>1, <4>2
    <3> HIDE DEF new
    <3>6. IsObject(new) /\ WithParameters(new, 3) = new /\ new.k = 0 /\ new.n = 3
      BY <3>3 DEF WithParameters, IsObject, Fields, Object
    <3>7. Reread(t, new, "json") = LoadedIf(TRUE, new, 0)
      BY <1>1, <3>1, <3>6 DEF JsonToneMapFunc, Kept, NumArgs
    <3>8. Sound(t, new)
      BY <2>5, <3>6 DEF Sound, NumArgs
    <3>9. Reread(t, o, "json").ok
      BY <1>1
    <3> QED BY <3>4, <3>5, <3>7, <3>8, <3>9, ChangedIsStable
  <2>6. CASE t = "matrix"
    <3> DEFINE new == Marked(Object(1, o.k, o.m, 1), o.v)
    <3>1. \A x : ParseJson(t, x) = JsonMatrix(x)
      BY <2>1, <2>6, Zenon DEF ParseJson
    <3>2. o.k \in MatrixChannels /\ o.m \in MatrixChannels
      BY <3>1 DEF JsonMatrix, Kept, LoadedIf, Refused
    <3>3. new = [n |-> 1, k |-> o.k, m |-> o.m, u |-> 1, v |-> o.v]
      BY DEF Marked, Object
    <3>4. Reread(t, o, "json") = LoadedIf(TRUE, new, 0)
      BY <1>1, <3>1, <3>2 DEF JsonMatrix, Kept
    <3> HIDE DEF new
    <3>5. IsObject(new) /\ Marked(Object(1, new.k, new.m, 1), new.v) = new
      BY <3>3 DEF IsObject, Fields, Object, Marked
    <3>6. new.k = o.k /\ new.m = o.m /\ new.n = 1
      BY <3>3
    <3>7. Reread(t, new, "json") = LoadedIf(TRUE, new, 0)
      BY <1>1, <3>1, <3>2, <3>5, <3>6 DEF JsonMatrix, Kept
    <3>8. Sound(t, new)
      BY <2>6, <3>5, <3>6 DEF Sound
    <3>9. Forgotten(t, o, "json") \/ Content(t, new) = Content(t, o)
      <4>1. CASE o.n = 0
        BY <4>1, <2>6 DEF Forgotten, ForgottenInJson
      <4>2. CASE o.n # 0
        <5>1. \A x : Content(t, x) = [x EXCEPT !.u = 1]
          BY <2>6, Zenon DEF Content
        <5>2. o.n = 1
          BY <4>2, <2>6 DEF Sound
        <5>3. [o EXCEPT !.u = 1] = [n |-> 1, k |-> o.k, m |-> o.m, u |-> 1, v |-> o.v]
          BY <5>2, <1>2, ObjectRecord
        <5> QED BY <5>1, <5>3, <3>3
      <4> QED BY <4>1, <4>2
    <3>10. Reread(t, o, "json").ok
      BY <1>1
    <3> QED BY <3>4, <3>7, <3>8, <3>9, <3>10, ChangedIsStable
  <2> QED BY <1>5, <2>2, <2>3, <2>4, <2>5, <2>6
<1>6. CASE t \in {"localized", "dict", "sparseMatrices"}
  <2>1. t \notin Numbers \cup Floats
    BY <1>6 DEF Numbers, Floats
  <2>2. CASE t = "localized"
    <3>1. \A x : ParseJson(t, x) = JsonLocalized(x)
      BY <2>1, <2>2, Zenon DEF ParseJson
    <3>2. \A x : Reread("localized", x, "json") = LoadedIf(TRUE, Merged(x), 0)
      BY <1>1, <2>2, <3>1 DEF JsonLocalized, Always, Kept
    <3>3. Reread("localized", o, "json").ok
      BY <1>1, <2>2
    <3> QED BY <2>2, <3>2, <3>3, LocalizedStable
  <2>3. CASE t = "dict"
    <3>1. \A x : ParseJson(t, x) = JsonDict(x)
      BY <2>1, <2>3, Zenon DEF ParseJson
    <3>2. o.m \in Nat /\ o.u \in Nat /\ IsObject(o)
      BY <2>3 DEF Sound
    <3>4. Reread("dict", o, "json") = Always(Object(o.n, o.k, o.m, o.u))
      BY <1>1, <2>3, <3>1, <3>2 DEF JsonDict
    <3>5. ASSUME NEW x, IsObject(x), x.m = o.m, x.u = o.u, x.v = 0
          PROVE  Reread("dict", x, "json") = Always(x)
      <4>1. Object(x.n, x.k, x.m, x.u) = x
        BY <3>5, ObjectRecord DEF Object
      <4>2. Reread("dict", x, "json") = JsonDict(x)
        BY <1>1, <2>3, <3>1
      <4> QED BY <4>1, <4>2 DEF JsonDict
    <3> QED BY <2>3, <3>2, <3>4, <3>5, DictStable
  <2>4. CASE t = "sparseMatrices"
    <3>1. \A x : ParseJson(t, x) = JsonSparseMatrices(x)
      BY <2>1, <2>4, Zenon DEF ParseJson
    <3>2. \A x : Reread("sparseMatrices", x, "json") = LoadedIf(TRUE, InRows(x), 0)
      BY <1>1, <2>4, <3>1 DEF JsonSparseMatrices, Always, Kept
    <3>3. Reread("sparseMatrices", o, "json").ok
      BY <1>1, <2>4
    <3> QED BY <2>4, <3>2, <3>3, SparseStable
  <2> QED BY <1>6, <2>2, <2>3, <2>4
<1> QED BY <1>3, <1>4, <1>5, <1>6 DEF Documented, JsonSame

(* Whatever the language. *)
LEMMA RereadStable ==
  ASSUME NEW t \in Documented, NEW o, Sound(t, o), NEW language \in {"xml", "json"},
         Reread(t, o, language).ok
  PROVE  Stable(t, o, language)
  BY XmlStable, JsonStable DEF Reread
-----------------------------------------------------------------------------
(* What the Read functions make of a tag is such an object. *)
LEMMA LoadSound ==
  ASSUME NEW t \in Types, NEW i \in Images(t), ReadTag(t, i).ok
  PROVE  Sound(t, Fields(ReadTag(t, i)))
<1>1. /\ t \in Formats
      /\ i \in [size : Nat, after : Nat, n : Nat, k : Nat, m : Nat, u : Nat, v : Nat]
      /\ t = "description" => i.v \in 0 .. 2
  BY TypesAssumption, ImagesAssumption
<1> DEFINE r == ReadTag(t, i)
           o == Fields(r)
<1>2. r = Load(t, i)
  BY DEF ReadTag, Refused
<1>3. IsObject(o) /\ o.n = r.n /\ o.k = r.k /\ o.m = r.m /\ o.u = r.u /\ o.v = r.v
  BY DEF IsObject, Fields, Object
<1>4. t \in {"text", "description", "namedColor2", "matrix", "formulaSegment", "toneMap",
              "localized", "dict", "profileSequenceId"}
      => t \notin Plain
  BY DEF Plain, PlainFormat
<1>5. CASE t = "text"
  <2>1. r = LoadText(i)
    BY <1>2, <1>4, <1>5, Zenon DEF Load
  <2>2. r.n \in Nat
    BY <2>1, <1>1 DEF LoadText, LoadedIf, Refused, Counting, Marked, Object, Smaller
  <2> QED BY <1>3, <1>5, <2>2 DEF Sound
<1>6. CASE t = "description"
  <2>1. r = LoadTextDescription(i)
    BY <1>2, <1>4, <1>6, Zenon DEF Load
  <2> DEFINE ascii == Smaller(i.u, i.n)
             unicode == Smaller(i.m, i.k)
  <2>2. ascii \in Nat /\ unicode \in Nat /\ MarkOf(ascii, i.v) \in 0 .. 2
    BY <1>1, <1>6 DEF Smaller, MarkOf
  <2>3. r.n = ascii + 1 /\ r.u = ascii /\ r.m = unicode /\ r.v = MarkOf(ascii, i.v)
    BY <2>1 DEF LoadTextDescription, LoadedIf, Refused, Marked, Object
  <2> HIDE DEF ascii, unicode
  <2> QED BY <1>3, <1>6, <2>2, <2>3 DEF Sound
<1>7. CASE t = "namedColor2"
  <2>1. r = LoadNamedColor2(i)
    BY <1>2, <1>4, <1>7, Zenon DEF Load
  <2>2. r.n # 0
    BY <2>1 DEF LoadNamedColor2, LoadedIf, Refused, Object
  <2> QED BY <1>3, <1>7, <2>2 DEF Sound
<1>8. CASE t = "matrix"
  <2>1. r = LoadMatrix(i)
    BY <1>2, <1>4, <1>8, Zenon DEF Load
  <2>2. r.n \in {0, 1}
    BY <2>1 DEF LoadMatrix, LoadedIf, Refused, Object
  <2> QED BY <1>3, <1>8, <2>2 DEF Sound
<1>9. CASE t = "formulaSegment"
  <2>1. r = LoadFormulaSegment(i)
    BY <1>2, <1>4, <1>9, Zenon DEF Load
  <2>2. i.k \in 0 .. 7 /\ r.k = i.k /\ r.n = FormulaParameters[i.k + 1]
    BY <2>1 DEF LoadFormulaSegment, LoadedIf, Refused, Object
  <2> QED BY <1>3, <1>9, <2>2 DEF Sound
<1>10. CASE t = "toneMap"
  <2>1. r = LoadToneMapFunc(i)
    BY <1>2, <1>4, <1>10, Zenon DEF Load
  <2> DEFINE n == ((i.size - 12) \div 4) % 256
  <2>2. 12 <= i.size /\ n >= NumArgs(i.k) /\ r.n = n /\ r.k = i.k
    BY <2>1 DEF LoadToneMapFunc, LoadedIf, Refused, Object
  <2>3. n \in Nat
    BY <2>2, <1>1
  <2> HIDE DEF n
  <2> QED BY <1>3, <1>10, <2>2, <2>3 DEF Sound
<1>11. CASE t = "localized"
  <2>1. r = LoadLocalized(i)
    BY <1>2, <1>4, <1>11, Zenon DEF Load
  <2>2. r.n = i.n
    BY <2>1 DEF LoadLocalized, LocalizedRead, LoadedIf, Refused, Marked, Object
  <2> QED BY <1>1, <1>3, <1>11, <2>2 DEF Sound
<1>12. CASE t = "dict"
  <2> DEFINE name == PartBytes(i.m)
  <2>1. r = LoadDict(i)
    BY <1>2, <1>4, <1>12, Zenon DEF Load
  <2>2. name \in Nat /\ ValueRead(i.m, i.u) \in Nat
    BY <1>1 DEF PartBytes, ValueRead
  <2>3. \/ r.m = 0 /\ r.u = 0
        \/ r.m = 1 + 2 * (name \div 2) /\ r.u = ValueRead(i.m, i.u)
    BY <2>1 DEF LoadDict, LoadedIf, Refused, Marked, Object
  <2> HIDE DEF name
  <2>4. r.m \in Nat /\ r.u \in Nat
    BY <2>2, <2>3
  <2> QED BY <1>3, <1>12, <2>4 DEF Sound
<1>13. CASE t = "profileSequenceId"
  <2>1. r = LoadProfileSequenceId(i)
    BY <1>2, <1>4, <1>13, Zenon DEF Load
  <2>2. r.k \in {0, i.k} /\ r.m \in {0, i.m}
    BY <2>1 DEF LoadProfileSequenceId, LoadedIf, Refused, Object
  <2> QED BY <1>1, <1>3, <1>13, <2>2 DEF Sound
<1>14. CASE t \notin {"text", "description", "namedColor2", "matrix", "formulaSegment", "toneMap",
                     "localized", "dict", "profileSequenceId"}
  <2>1. /\ t # "text" /\ t # "description" /\ t # "namedColor2" /\ t # "matrix"
        /\ t # "formulaSegment" /\ t # "toneMap"
        /\ t # "localized" /\ t # "dict" /\ t # "profileSequenceId"
    BY <1>14
  <2> QED BY <1>3, <2>1, Zenon DEF Sound
<1> QED BY <1>5, <1>6, <1>7, <1>8, <1>9, <1>10, <1>11, <1>12, <1>13, <1>14

(* And what the client resizes stays one. *)
LEMMA ResizedSound ==
  ASSUME NEW t, NEW o, Sound(t, o), NEW n \in ClientSizes, SizeTaken(t, n)
  PROVE  Sound(t, Resized(t, o, n))
<1> DEFINE new == Resized(t, o, n)
<1>1. /\ t # "description" /\ t # "matrix" /\ t # "formulaSegment" /\ t # "toneMap"
      /\ t # "localized" /\ t # "dict" /\ t # "profileSequenceId"
  BY DEF SizeTaken
<1>3. IsObject(new) /\ new.n = SizeKept(t, n)
  <2> DEFINE same == t \notin {"text", "utf8", "utf16"} /\ (t = "curve" => n = o.n)
             v == IF same THEN o.v ELSE 0
  <2>1. new = Marked([o EXCEPT !.n = SizeKept(t, n)], v)
    BY DEF Resized
  <2> HIDE DEF v
  <2>2. new = [n |-> SizeKept(t, n), k |-> o.k, m |-> o.m, u |-> o.u, v |-> v]
    BY <2>1, ObjectRecord DEF Sound, Marked
  <2> HIDE DEF new
  <2> QED BY <2>2 DEF IsObject, Fields, Object
<1>4. t = "text" => SizeKept(t, n) \in Nat
  BY ClientSizesAssumption DEF SizeKept
<1>5. t = "namedColor2" => SizeKept(t, n) # 0
  BY ClientSizesAssumption DEF SizeKept
<1> QED BY <1>1, <1>3, <1>4, <1>5, Zenon DEF Sound

-----------------------------------------------------------------------------
(* Before the first save the object is sound; in a document it is what was   *)
(* written; and what a document gave is what its reader made of an object.   *)
MadeFrom(t, new, o, language) ==
  /\ Sound(t, o)
  /\ Reread(t, o, language).ok
  /\ new = Fields(Reread(t, o, language))

DocsInv ==
  /\ type \in Types
  /\ docs \in Seq({"xml", "json"})
  /\ docs # <<>> => type \in Documented
  /\ phase = "file" /\ saves = 0 => img \in Images(type) /\ docs = <<>>
  /\ phase = "object" /\ saves = 0 => Sound(type, obj)
  /\ phase = "object" /\ saves = 0 /\ docs # <<>> => \E o : MadeFrom(type, obj, o, docs[Len(docs)])
  /\ phase = "document" => saves = 0 /\ docs # <<>> /\ Sound(type, last)
  /\ phase = "document" /\ Len(docs) > 1 => \E o : MadeFrom(type, last, o, docs[Len(docs) - 1])
  /\ saves \in Nat

LEMMA DocsInit == Init => DocsInv
  BY DEF Init, DocsInv

LEMMA DocsNext == DocsInv /\ [Next]_vars => DocsInv'
<1> SUFFICES ASSUME DocsInv, [Next]_vars PROVE DocsInv'
  OBVIOUS
<1> USE DEF DocsInv
<1>1. CASE Read
  <2> DEFINE r == ReadTag(type, img)
  <2>1. UNCHANGED <<type, img, last, saves, docs>> /\ phase = "file"
    BY <1>1 DEF Read
  <2>2. \/ phase' = "object" /\ r.ok /\ obj' = Fields(r)
        \/ phase' = "refused"
    BY <1>1 DEF Read
  <2>3. saves = 0 /\ phase' = "object" => docs = <<>> /\ Sound(type, obj')
    BY <2>1, <2>2, LoadSound
  <2> HIDE DEF r
  <2> QED BY <2>1, <2>2, <2>3
<1>2. CASE SetSize
  <2>1. UNCHANGED <<type, img, phase, last, saves, docs>> /\ phase = "object" /\ saves = 0
        /\ docs = <<>>
    BY <1>2 DEF SetSize
  <2>2. Sound(type, obj')
    BY <1>2, <2>1, ResizedSound DEF SetSize
  <2> QED BY <2>1, <2>2
<1>3. CASE Write
  <2>1. phase' \in {"file", "unsaved"} /\ UNCHANGED <<type, docs>>
        /\ (phase' = "file" => saves' = saves + 1) /\ (phase' = "unsaved" => saves' = saves)
    BY <1>3 DEF Write
  <2> QED BY <2>1
<1>4. CASE ToDocument
  <2>1. UNCHANGED <<type, obj, saves>> /\ last' = obj /\ phase = "object" /\ saves = 0
        /\ type \in Documented
    BY <1>4 DEF ToDocument
  <2>2. \/ phase' = "unsaved" /\ docs' = docs
        \/ phase' = "document" /\ \E language \in {"xml", "json"} : docs' = Append(docs, language)
    BY <1>4 DEF ToDocument
  <2>3. CASE phase' = "unsaved" /\ docs' = docs
    BY <2>1, <2>3
  <2>4. CASE phase' = "document"
    <3>1. PICK language \in {"xml", "json"} : docs' = Append(docs, language)
      BY <2>2, <2>4
    <3>2. docs' \in Seq({"xml", "json"}) /\ docs' # <<>> /\ Len(docs') = Len(docs) + 1
      BY <3>1
    <3>3. Len(docs') > 1 => docs # <<>> /\ docs'[Len(docs') - 1] = docs[Len(docs)]
      BY <3>1, <3>2
    <3>4. ASSUME Len(docs') > 1
          PROVE  \E o : MadeFrom(type, obj, o, docs'[Len(docs') - 1])
      <4>1. \E o : MadeFrom(type, obj, o, docs[Len(docs)])
        BY <2>1, <3>3, <3>4
      <4> QED BY <4>1, <3>3, <3>4
    <3> QED BY <2>1, <2>4, <3>2, <3>4
  <2> QED BY <2>2, <2>3, <2>4
<1>5. CASE FromDocument
  <2> DEFINE language == docs[Len(docs)]
             r == Reread(type, last, language)
  <2>1. UNCHANGED <<type, img, last, saves, docs>> /\ phase = "document"
    BY <1>5 DEF FromDocument
  <2>2. \/ phase' = "object" /\ r.ok /\ obj' = Fields(r)
        \/ phase' = "refused"
    BY <1>5 DEF FromDocument
  <2>3. saves = 0 /\ docs # <<>> /\ Sound(type, last) /\ type \in Documented
    BY <2>1
  <2>4. language \in {"xml", "json"}
    BY <2>3
  <2>5. CASE phase' = "object"
    <3>1. r.ok /\ obj' = Fields(r)
      BY <2>2, <2>5
    <3> HIDE DEF language
    <3>2. Stable(type, last, language)
      BY <2>3, <2>4, <3>1, RereadStable
    <3>3. Sound(type, obj')
      BY <3>1, <3>2 DEF Stable
    <3>4. MadeFrom(type, obj', last, language)
      BY <2>3, <3>1 DEF MadeFrom
    <3>5. \E o : MadeFrom(type, obj', o, docs[Len(docs)])
      BY <3>4 DEF language
    <3> HIDE DEF r
    <3> QED BY <2>1, <2>3, <2>5, <3>3, <3>5
  <2>6. CASE phase' = "refused"
    <3> HIDE DEF r, language
    <3> QED BY <2>1, <2>3, <2>6
  <2> QED BY <2>2, <2>5, <2>6
<1>6. CASE UNCHANGED vars
  BY <1>6 DEF vars
<1> QED BY <1>1, <1>2, <1>3, <1>4, <1>5, <1>6 DEF Next

LEMMA DocsReload == DocsInv => DocumentReloads
<1> SUFFICES ASSUME DocsInv, phase = "document", ~Forgotten(type, last, docs[Len(docs)]),
                    Reread(type, last, docs[Len(docs)]).ok
             PROVE  Content(type, Fields(Reread(type, last, docs[Len(docs)])))
                      = Content(type, Carried(type, last, docs[Len(docs)]))
  BY DEF DocumentReloads
<1>1. docs[Len(docs)] \in {"xml", "json"} /\ type \in Documented /\ Sound(type, last)
  BY DEF DocsInv
<1>2. Stable(type, last, docs[Len(docs)])
  BY <1>1, RereadStable
<1>3. CASE type = "description" /\ docs[Len(docs)] = "xml"
  <2>1. ParseXml("description", last).ok
    BY <1>3 DEF Reread
  <2> QED BY <1>1, <1>3, <2>1, XmlDescription
<1>4. CASE ~(type = "description" /\ docs[Len(docs)] = "xml")
  <2>1. Carried(type, last, docs[Len(docs)]) = last
    BY <1>4 DEF Carried
  <2> QED BY <1>2, <1>4, <2>1 DEF Stable, XmlDescribes
<1> QED BY <1>3, <1>4

LEMMA DocsSettle == DocsInv => DocumentSettles
<1> SUFFICES ASSUME DocsInv, phase = "document", Again
             PROVE  /\ Reread(type, last, docs[2]).ok
                    /\ Fields(Reread(type, last, docs[2])) = last
  BY DEF DocumentSettles
<1>1. Len(docs) = 2 /\ docs[2] \in {"xml", "json"} /\ docs[1] = docs[2] /\ type \in Documented
  BY DEF DocsInv, Again
<1>2. PICK o : MadeFrom(type, last, o, docs[2])
  BY <1>1 DEF DocsInv
<1>3. Stable(type, o, docs[2])
  BY <1>1, <1>2, RereadStable DEF MadeFrom
<1> QED BY <1>2, <1>3 DEF Stable, MadeFrom

(* Whatever the counts of a tag, a reader that accepts the document made of  *)
(* it gives back what was written, but for what is forgotten (each ToXml and *)
(* ToJson of the modelled types beside its ParseXml and ParseJson).          *)
THEOREM DocumentsReload == Spec => []DocumentReloads
  BY DocsInit, DocsNext, DocsReload, PTL DEF Spec

(* What came out of an XML or a JSON document is accepted from the next      *)
(* document in the same language, and unchanged, whatever its counts.        *)
THEOREM DocumentsSettle == Spec => []DocumentSettles
  BY DocsInit, DocsNext, DocsSettle, PTL DEF Spec
=============================================================================
