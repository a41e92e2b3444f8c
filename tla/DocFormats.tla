----------------------------- MODULE DocFormats -----------------------------
(***************************************************************************)
(* What comes back when a tag or element is written into an XML or a JSON    *)
(* document and the document is read (ToXml and ParseXml in IccXML, ToJson   *)
(* and ParseJson in IccJSON), in the terms of TagFormats: refused by the     *)
(* reader, or an object.  Numbers are taken to be printed and scanned        *)
(* without harm, wavelengths to ascend; texts hold no markup.                *)
(*                                                                           *)
(* The field v says what the counts do not: of a text, 1 when it is not of   *)
(* characters (8 bits: no byte is legal UTF-8, 16 bits: nothing is ASCII);   *)
(* of a description, 1 with a language code, 2 when its ASCII text is none;  *)
(* of fixed point numbers, 1 when unsigned; of 64-bit numbers, 1 when one    *)
(* needs more than 32; of a curve, 1 when it is the identity; of a localized *)
(* text, 1 when all its strings are of one language and country.             *)
(***************************************************************************)
EXTENDS CompoundFormats

Kept(test, o) == LoadedIf(test, o, 0)
Always(o) == Kept(TRUE, o)
Counted(o) == Kept(o.n > 0, o)

(* Texts go into CDATA when they are legal there, and else as hexadecimal    *)
(* bytes.  Conversion from and to the code page of the system stops after    *)
(* 256 bytes.                                                                *)
IsTextLegalCDATA(o) == o.v # 1
AnsiLimit == 256
AnsiToUtf8(n) == Smaller(n, AnsiLimit)

XmlText(o) ==
  Always(IF IsTextLegalCDATA(o) THEN [o EXCEPT !.n = AnsiToUtf8(o.n)] ELSE o)

XmlUtf8Text(o) == Always(o)
XmlUtf16Text(o) == Always(o)

(* No compressed bytes are not found in the document, and become the         *)
(* compressed form of a text that is empty but for its NUL.                  *)
EmptyZipped == 9
XmlZipUtf8Text(o) == Always(IF o.n = 0 THEN [o EXCEPT !.n = EmptyZipped] ELSE o)

(* A mutant: the 16-bit text is taken with a language code only.             *)
XmlTextDescriptionWithCode(o) ==
  LET ascii == AnsiToUtf8(o.u)
      unicode == IF o.v = 1 THEN o.m ELSE 0
  IN Kept(o.v # 2, Object(ascii + 1, unicode + 1, unicode, ascii))

(* A description is refused when its ASCII text is hexadecimal; its language *)
(* code is written and not taken.                                            *)
XmlTextDescription(o) ==
  LET ascii == AnsiToUtf8(o.u) IN Kept(o.v # 2, Object(ascii + 1, o.m + 1, o.m, ascii))

XmlUnknown(o) == Counted(o)
XmlNamedColor2(o) == Always([o EXCEPT !.n = IF o.n = 0 THEN 1 ELSE o.n])
XmlXYZ(o) == Counted(o)
XmlChromaticity(o) == Counted(o)

(* An array of unsigned fixed point numbers is closed and never opened.      *)
FixedNumLimit == 16777215
XmlWritesFixedNum(o) == o.n <= FixedNumLimit
XmlFixedNum(o) == Kept(o.v = 0 /\ o.n > 0, o)

(* Whole numbers are printed with 32 bits.                                   *)
XmlNum(o) == Kept(o.n > 0, [o EXCEPT !.v = 0])
XmlFloatNum(o) == Counted(o)
XmlTagData(o) == Always(o)
XmlColorantOrder(o) == Counted(o)
XmlColorantTable(o) == Counted(o)
XmlHeightImage(o) == Counted(o)
XmlNormalImage(o) == Counted(o)
XmlSpectralViewing(o) == Kept(o.n > 0 /\ o.k > 0, o)

(* The identity is written as its size, and one of one entry is refused.     *)
XmlCurve(o) == Kept(~(o.n = 1 /\ o.v = 1), o)
XmlParametricCurve(o) == Kept(o.k \in 0 .. 4, o)

LutChannels == 1 .. 15
LutKept(o) ==
  Kept(o.k \in LutChannels /\ o.m \in LutChannels /\ InitCLUT(o.n, o.k, o.m, 0, 0), o)
XmlLut(o) == LutKept(o)
XmlGamutBoundaryDesc(o) == Kept(o.k > 0 /\ o.n >= 4 /\ o.u > 0, o)
-----------------------------------------------------------------------------
(* The parameters a formula or a tone map function wants are taken. *)
WithParameters(o, n) == [o EXCEPT !.n = n]

XmlMpeUnknown(o) == Always(o)
XmlAcs(o) == Always(o)
XmlFormulaSegment(o) ==
  LET wanted == FormulaParameters[o.k + 1]
  IN Kept(o.k \in 0 .. 7 /\ o.n >= wanted, WithParameters(o, wanted))

(* The reader of the binary form adds a sample that is not there; these two  *)
(* do not.                                                                   *)
XmlSampledSegment(o) == Counted(o)
XmlSingleSampledCurve(o) == Counted(o)
XmlTintArray(o) == Kept(o.k > 0 /\ o.n > 0, o)
XmlToneMapFunc(o) == Kept(o.k = 0 /\ o.n >= NumArgs(o.k), WithParameters(o, NumArgs(o.k)))

(* Constants of zero are left out, and there are constants when read. *)
MatrixChannels == 1 .. 255
XmlMatrix(o) == Kept(o.k \in MatrixChannels /\ o.m \in MatrixChannels, [o EXCEPT !.u = 1])
TableKept(o) == Kept(o.k > 0 /\ o.m > 0 /\ InitCLUT(o.n, o.k, o.m, 0, 0), o)
XmlMpeCLUT(o) == TableKept(o)
XmlMpeExtCLUT(o) == TableKept(o)
XmlSpectralCLUT(o) == Kept(TableKept([o EXCEPT !.k = TableInputs(@)]).ok, o)
XmlSpectralMatrix(o) == Kept(o.k \in MatrixChannels /\ o.m >= 2, o)
XmlSpectralObserver(o) == Kept(o.k > 0 /\ o.m = o.k, o)
-----------------------------------------------------------------------------
(* JSON: every character that is not printable ASCII becomes a question mark *)
(* in a text, a 16-bit text and a description, which has nothing else.       *)
JsonText(o) == Always([o EXCEPT !.v = 0])
JsonUtf16Text(o) == Always([o EXCEPT !.v = 0])
JsonTextDescription(o) == Always(Object(o.u + 1, 1, 0, o.u))

(* The library that prints the document throws at illegal UTF-8. *)
JsonWritesUtf8Text(o) == o.v # 1
JsonUtf8Text(o) == Always(o)
JsonZipUtf8Text(o) == Counted(o)

JsonUnknown(o) == Kept(o.n <= 16777216, o)
JsonWritesNamedColor2(o) == o.n <= 65536 /\ o.k <= 256
JsonNamedColor2(o) == Kept(o.k <= 15, o)
JsonWritesXYZ(o) == o.n <= 65536
JsonXYZ(o) == Counted(o)
JsonChromaticity(o) == Kept(0 < o.n /\ o.n <= 65535, o)
JsonFixedNum(o) == Counted(o)
JsonWritesNum(o) == o.n <= FixedNumLimit
JsonNum(o) == Counted(o)
JsonFloatNum(o) == Counted(o)
JsonTagData(o) == Counted(o)
JsonColorantOrder(o) == Counted(o)
JsonColorantTable(o) == Counted(o)
JsonHeightImage(o) == Counted(o)
JsonNormalImage(o) == Counted(o)

(* What has no steps is left out and is not missed. *)
JsonSpectralViewing(o) == Always(o)
JsonCurve(o) == Kept(o.n <= 65536, o)

(* A curve of an unknown type comes back without its parameters; the mutant  *)
(* does not take it without.                                                 *)
JsonParametricCurveWanting(o) ==
  Kept(o.k \in 0 .. 4 \/ o.n > 0, IF o.k \in 0 .. 4 THEN o ELSE WithParameters(o, 0))

JsonParametricCurve(o) == Always(IF o.k \in 0 .. 4 THEN o ELSE WithParameters(o, 0))
JsonLut(o) == LutKept(o)
JsonGamutBoundaryDesc(o) == Kept(o.k > 0 /\ o.n >= 4 /\ o.u > 0, o)

JsonMpeUnknown(o) == Always(o)
JsonAcs(o) == Always(o)
JsonFormulaSegment(o) ==
  Kept(o.k \in 0 .. 7, WithParameters(o, FormulaParameters[o.k + 1]))
JsonSampledSegment(o) == Counted(o)
JsonSingleSampledCurve(o) == Kept(o.n <= 65535, o)
JsonTintArray(o) == Counted(o)
JsonToneMapFunc(o) == Kept(o.k = 0, WithParameters(o, NumArgs(o.k)))

(* A matrix of constants only comes back with a matrix of zeros. *)
JsonMatrix(o) ==
  Kept(o.k \in MatrixChannels /\ o.m \in MatrixChannels, Marked(Object(1, o.k, o.m, 1), o.v))
JsonMpeCLUT(o) == Kept(o.k <= 16 /\ TableKept(o).ok, o)
JsonMpeExtCLUT(o) == Kept(o.k <= 16 /\ TableKept(o).ok, o)
JsonSpectralCLUT(o) == Kept(o.k <= 16 /\ o.m >= 2 /\ TableKept(o).ok, o)
JsonSpectralMatrix(o) == Kept(o.k \in MatrixChannels /\ o.m >= 2, o)
JsonSpectralObserver(o) == Kept(o.m >= 2 /\ o.m = o.k, o)
-----------------------------------------------------------------------------
(* The strings of one language and country overwrite each other.  No string  *)
(* is an error in XML only.                                                  *)
Merged(o) == IF o.v = 1 THEN [o EXCEPT !.n = Smaller(@, 1)] ELSE o
XmlLocalized(o) == Kept(o.n > 0, Merged(o))
JsonLocalized(o) == Always(Merged(o))

(* A dictionary's names and values are strings of 32-bit characters, but     *)
(* converted as if of 16: XML keeps their first character, JSON their number *)
(* of characters with NULs among them.  Localized forms without strings are  *)
(* not written.                                                              *)
OneCharacter == 3
XmlDict(o) ==
  Always(Object(o.n, o.k, Smaller(o.m, OneCharacter), Smaller(o.u, OneCharacter)))
JsonDict(o) == Always(Object(o.n, o.k, o.m, o.u))

XmlProfileSequence(o) == Always(o)
JsonProfileSequence(o) == Always(o)

(* The texts are looked for beside the identifier they stand in. *)
XmlProfileSequenceId(o) == Always(Marked(Object(o.n, 0, 0, o.u), o.v))
JsonProfileSequenceId(o) == Always(o)
XmlResponseCurves(o) == Always(o)
JsonResponseCurves(o) == Kept(o.k > 0, o)

(* Entries are taken to stand in as many rows as they can: XML refuses a row *)
(* without any.  Entries that belong to no row are not written.              *)
InRows(o) == IF o.m = 0 THEN Marked(o, 0) ELSE o
XmlSparseMatrices(o) == Kept(o.m <= o.v, InRows(o))
JsonSparseMatrices(o) == Always(InRows(o))

SegmentsKept(o) ==
  Kept(o.n = 0 \/ (IF o.v = 1 THEN o.m > 0 ELSE o.k \in 0 .. 7), o)
XmlSegmentedCurve(o) == SegmentsKept(o)
JsonSegmentedCurve(o) == SegmentsKept(o)

PartsKept(o) ==
  /\ o.k \in LutChannels /\ o.m \in LutChannels
  /\ Has(o.v, 8) => InitCLUT(o.u, o.k, o.m, 0, 0)
XmlLutParts(o) == Kept(PartsKept(o), o)
JsonLutParts(o) == Kept(PartsKept(o) /\ o.n <= 65536, o)
-----------------------------------------------------------------------------
(* Which function reads which type.  The types without anything that is      *)
(* counted are not considered, nor the table that is no tag of its own.      *)
Numbers == {"num8", "num16", "num32", "num64"}
Floats == {"float16", "float32", "float64"}

Documented ==
  Numbers \cup Floats \cup
  {"unknown", "text", "utf8", "zipUtf8", "utf16", "description", "namedColor2", "xyz",
   "chromaticity", "fixedNum", "data", "colorantOrder", "colorantTable", "height", "normal",
   "spectralViewing", "curve", "parametricCurve", "lut8", "lut16", "gamutBoundary",
   "mpeUnknown", "acs", "formulaSegment", "sampledSegment", "sampledCurve", "tintArray",
   "toneMap", "matrix", "mpeClut", "mpeExtClut", "spectralClut", "spectralMatrix",
   "spectralObserver", "localized", "dict", "profileSequence", "profileSequenceId",
   "responseCurves", "sparseMatrices", "segmentedCurve", "lutAtoB", "lutBtoA"}

ToXml(t, o) == t = "fixedNum" => XmlWritesFixedNum(o)

ToJson(t, o) ==
  /\ t = "utf8" => JsonWritesUtf8Text(o)
  /\ t = "namedColor2" => JsonWritesNamedColor2(o)
  /\ t = "xyz" => JsonWritesXYZ(o)
  /\ t \in Numbers => JsonWritesNum(o)

ParseXml(t, o) ==
  CASE t \in Numbers          -> XmlNum(o)
    [] t \in Floats           -> XmlFloatNum(o)
    [] t = "unknown"          -> XmlUnknown(o)
    [] t = "text"             -> XmlText(o)
    [] t = "utf8"             -> XmlUtf8Text(o)
    [] t = "zipUtf8"          -> XmlZipUtf8Text(o)
    [] t = "utf16"            -> XmlUtf16Text(o)
    [] t = "description"      -> XmlTextDescription(o)
    [] t = "namedColor2"      -> XmlNamedColor2(o)
    [] t = "xyz"              -> XmlXYZ(o)
    [] t = "chromaticity"     -> XmlChromaticity(o)
    [] t = "fixedNum"         -> XmlFixedNum(o)
    [] t = "data"             -> XmlTagData(o)
    [] t = "colorantOrder"    -> XmlColorantOrder(o)
    [] t = "colorantTable"    -> XmlColorantTable(o)
    [] t = "height"           -> XmlHeightImage(o)
    [] t = "normal"           -> XmlNormalImage(o)
    [] t = "spectralViewing"  -> XmlSpectralViewing(o)
    [] t = "curve"            -> XmlCurve(o)
    [] t = "parametricCurve"  -> XmlParametricCurve(o)
    [] t \in {"lut8", "lut16"} -> XmlLut(o)
    [] t = "gamutBoundary"    -> XmlGamutBoundaryDesc(o)
    [] t = "mpeUnknown"       -> XmlMpeUnknown(o)
    [] t = "acs"              -> XmlAcs(o)
    [] t = "formulaSegment"   -> XmlFormulaSegment(o)
    [] t = "sampledSegment"   -> XmlSampledSegment(o)
    [] t = "sampledCurve"     -> XmlSingleSampledCurve(o)
    [] t = "tintArray"        -> XmlTintArray(o)
    [] t = "toneMap"          -> XmlToneMapFunc(o)
    [] t = "matrix"           -> XmlMatrix(o)
    [] t = "mpeClut"          -> XmlMpeCLUT(o)
    [] t = "mpeExtClut"       -> XmlMpeExtCLUT(o)
    [] t = "spectralClut"     -> XmlSpectralCLUT(o)
    [] t = "spectralMatrix"   -> XmlSpectralMatrix(o)
    [] t = "spectralObserver" -> XmlSpectralObserver(o)
    [] t = "localized"        -> XmlLocalized(o)
    [] t = "dict"             -> XmlDict(o)
    [] t = "profileSequence"  -> XmlProfileSequence(o)
    [] t = "profileSequenceId" -> XmlProfileSequenceId(o)
    [] t = "responseCurves"   -> XmlResponseCurves(o)
    [] t = "sparseMatrices"   -> XmlSparseMatrices(o)
    [] t = "segmentedCurve"   -> XmlSegmentedCurve(o)
    [] t \in {"lutAtoB", "lutBtoA"} -> XmlLutParts(o)

ParseJson(t, o) ==
  CASE t \in Numbers          -> JsonNum(o)
    [] t \in Floats           -> JsonFloatNum(o)
    [] t = "unknown"          -> JsonUnknown(o)
    [] t = "text"             -> JsonText(o)
    [] t = "utf8"             -> JsonUtf8Text(o)
    [] t = "zipUtf8"          -> JsonZipUtf8Text(o)
    [] t = "utf16"            -> JsonUtf16Text(o)
    [] t = "description"      -> JsonTextDescription(o)
    [] t = "namedColor2"      -> JsonNamedColor2(o)
    [] t = "xyz"              -> JsonXYZ(o)
    [] t = "chromaticity"     -> JsonChromaticity(o)
    [] t = "fixedNum"         -> JsonFixedNum(o)
    [] t = "data"             -> JsonTagData(o)
    [] t = "colorantOrder"    -> JsonColorantOrder(o)
    [] t = "colorantTable"    -> JsonColorantTable(o)
    [] t = "height"           -> JsonHeightImage(o)
    [] t = "normal"           -> JsonNormalImage(o)
    [] t = "spectralViewing"  -> JsonSpectralViewing(o)
    [] t = "curve"            -> JsonCurve(o)
    [] t = "parametricCurve"  -> JsonParametricCurve(o)
    [] t \in {"lut8", "lut16"} -> JsonLut(o)
    [] t = "gamutBoundary"    -> JsonGamutBoundaryDesc(o)
    [] t = "mpeUnknown"       -> JsonMpeUnknown(o)
    [] t = "acs"              -> JsonAcs(o)
    [] t = "formulaSegment"   -> JsonFormulaSegment(o)
    [] t = "sampledSegment"   -> JsonSampledSegment(o)
    [] t = "sampledCurve"     -> JsonSingleSampledCurve(o)
    [] t = "tintArray"        -> JsonTintArray(o)
    [] t = "toneMap"          -> JsonToneMapFunc(o)
    [] t = "matrix"           -> JsonMatrix(o)
    [] t = "mpeClut"          -> JsonMpeCLUT(o)
    [] t = "mpeExtClut"       -> JsonMpeExtCLUT(o)
    [] t = "spectralClut"     -> JsonSpectralCLUT(o)
    [] t = "spectralMatrix"   -> JsonSpectralMatrix(o)
    [] t = "spectralObserver" -> JsonSpectralObserver(o)
    [] t = "localized"        -> JsonLocalized(o)
    [] t = "dict"             -> JsonDict(o)
    [] t = "profileSequence"  -> JsonProfileSequence(o)
    [] t = "profileSequenceId" -> JsonProfileSequenceId(o)
    [] t = "responseCurves"   -> JsonResponseCurves(o)
    [] t = "sparseMatrices"   -> JsonSparseMatrices(o)
    [] t = "segmentedCurve"   -> JsonSegmentedCurve(o)
    [] t \in {"lutAtoB", "lutBtoA"} -> JsonLutParts(o)
=============================================================================
