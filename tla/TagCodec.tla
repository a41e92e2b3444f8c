------------------------------ MODULE TagCodec ------------------------------
(***************************************************************************)
(* One tag or element in its life between files and memory: Read from what a *)
(* file holds (CIccProfile::LoadTag, CIccTagMultiProcessElement::Read),      *)
(* resized by the client, written (CIccProfile::Write) and read again, or    *)
(* taken through an XML or a JSON document and back.                         *)
(***************************************************************************)
EXTENDS DocFormats, Sequences

CONSTANTS
  Types,          \* the types considered
  Images(_),      \* of each, what files may hold
  After,          \* how many bytes may follow a tag in its file
  ClientSizes,    \* sizes the client asks for
  MaxSaves,       \* bound on the number of saves
  MaxDocs         \* bound on the number of documents

Formats ==
  Plain \cup {"text", "utf8", "utf16", "description", "namedColor2", "chromaticity",
    "colorantOrder", "curve", "parametricCurve", "clut", "lut8", "lut16",
    "spectralViewing", "gamutBoundary", "formulaSegment",
    "sampledSegment", "sampledCurve", "tintArray", "toneMap", "matrix", "mpeClut",
    "mpeExtClut", "spectralClut", "spectralMatrix", "spectralObserver",
    "localized", "dict", "profileSequence", "profileSequenceId", "responseCurves",
    "sparseMatrices", "segmentedCurve", "lutAtoB", "lutBtoA"}

ASSUME TypesAssumption == Types \subseteq Formats
(* No file is longer than its 32-bit length says; array values have a width, *)
(* a description has one of the marks, a dictionary two kinds of forms.      *)
ASSUME ImagesAssumption ==
  \A t \in Types : \A i \in Images(t) :
    /\ i \in [size : Nat, after : Nat, n : Nat, k : Nat, m : Nat, u : Nat, v : Nat]
    /\ i.size + i.after < Word
    /\ t = "tintArray" => i.u > 0
    /\ t = "description" => i.v \in 0 .. 2
    /\ t = "dict" => i.v \in 0 .. 3
    /\ t \in {"lutAtoB", "lutBtoA"} => i.v \in 0 .. 63 /\ i.n <= 65536
ASSUME AfterAssumption == After \subseteq Nat
ASSUME ClientSizesAssumption == ClientSizes \subseteq Nat
ASSUME BoundsAssumption == MaxSaves \in Nat /\ MaxDocs \in Nat

VARIABLES
  type,
  img,      \* the tag in the file
  obj,      \* the object in memory
  phase,    \* "file": img is to be read; "object"; "document"; "refused"; "unsaved"
  used,     \* the bytes the last successful Read used
  last,     \* the object that was written last
  saves,    \* how often one was written
  docs      \* the documents it went through: "xml" and "json"

vars == <<type, img, obj, phase, used, last, saves, docs>>

NoObject == Object(0, 0, 0, 0)
Fields(r) == [Object(r.n, r.k, r.m, r.u) EXCEPT !.v = r.v]

Load(t, i) ==
  CASE t \in Plain \ {"dateTime"} -> LoadPlain(PlainFormat[t], i)
    [] t = "dateTime"             -> LoadDateTime(i)
    [] t \in {"text", "utf8"}     -> LoadText(i)
    [] t = "utf16"                -> LoadUtf16Text(i)
    [] t = "description"          -> LoadTextDescription(i)
    [] t = "namedColor2"          -> LoadNamedColor2(i)
    [] t = "chromaticity"         -> LoadChromaticity(i)
    [] t = "colorantOrder"        -> LoadColorantOrder(i)
    [] t = "curve"                -> LoadCurve(i)
    [] t = "parametricCurve"      -> LoadParametricCurve(i)
    [] t = "clut"                 -> LoadCLUT(i)
    [] t = "lut8"                 -> LoadLut8(i)
    [] t = "lut16"                -> LoadLut16(i)
    [] t = "spectralViewing"      -> LoadSpectralViewing(i)
    [] t = "gamutBoundary"        -> LoadGamutBoundaryDesc(i)
    [] t = "formulaSegment"       -> LoadFormulaSegment(i)
    [] t = "sampledSegment"       -> LoadSampledSegment(i)
    [] t = "sampledCurve"         -> LoadSingleSampledCurve(i)
    [] t = "tintArray"            -> LoadTintArray(i)
    [] t = "toneMap"              -> LoadToneMapFunc(i)
    [] t = "matrix"               -> LoadMatrix(i)
    [] t = "mpeClut"              -> LoadMpeCLUT(i)
    [] t = "mpeExtClut"           -> LoadMpeExtCLUT(i)
    [] t = "spectralClut"         -> LoadSpectralCLUT(i)
    [] t = "spectralMatrix"       -> LoadSpectralMatrix(i)
    [] t = "spectralObserver"     -> LoadSpectralObserver(i)
    [] t = "localized"            -> LoadLocalized(i)
    [] t = "dict"                 -> LoadDict(i)
    [] t = "profileSequence"      -> LoadProfileSequence(i)
    [] t = "profileSequenceId"    -> LoadProfileSequenceId(i)
    [] t = "responseCurves"       -> LoadResponseCurves(i)
    [] t = "sparseMatrices"       -> LoadSparseMatrices(i)
    [] t = "segmentedCurve"       -> LoadSegmentedCurve(i)
    [] t = "lutAtoB"              -> LoadLutAtoB(i)
    [] t = "lutBtoA"              -> LoadLutBtoA(i)

(* Reading past the end of the file fails. *)
ReadTag(t, i) ==
  LET r == Load(t, i) IN IF r.used > i.size + i.after THEN Refused ELSE r

Saved(t, o) ==
  CASE t \in Plain               -> SavePlain(PlainFormat[t], o)
    [] t \in {"text", "utf8"}    -> SaveText(o)
    [] t = "utf16"               -> SaveUtf16Text(o)
    [] t = "description"         -> SaveTextDescription(o)
    [] t = "namedColor2"         -> SaveNamedColor2(o)
    [] t = "chromaticity"        -> SaveChromaticity(o)
    [] t = "colorantOrder"       -> SaveColorantOrder(o)
    [] t = "curve"               -> SaveCurve(o)
    [] t = "parametricCurve"     -> SaveParametricCurve(o)
    [] t = "clut"                -> SaveCLUT(o)
    [] t = "lut8"                -> SaveLut8(o)
    [] t = "lut16"               -> SaveLut16(o)
    [] t = "spectralViewing"     -> SaveSpectralViewing(o)
    [] t = "gamutBoundary"       -> SaveGamutBoundaryDesc(o)
    [] t = "formulaSegment"      -> SaveFormulaSegment(o)
    [] t = "sampledSegment"      -> SaveSampledSegment(o)
    [] t = "sampledCurve"        -> SaveSingleSampledCurve(o)
    [] t = "tintArray"           -> SaveTintArray(o)
    [] t = "toneMap"             -> SaveToneMapFunc(o)
    [] t = "matrix"              -> SaveMatrix(o)
    [] t = "mpeClut"             -> SaveMpeCLUT(o)
    [] t = "mpeExtClut"          -> SaveMpeExtCLUT(o)
    [] t = "spectralClut"        -> SaveSpectralCLUT(o)
    [] t = "spectralMatrix"      -> SaveSpectralMatrix(o)
    [] t = "spectralObserver"    -> SaveSpectralObserver(o)
    [] t = "localized"           -> SaveLocalized(o)
    [] t = "dict"                -> SaveDict(o)
    [] t = "profileSequence"     -> SaveProfileSequence(o)
    [] t = "profileSequenceId"   -> SaveProfileSequenceId(o)
    [] t = "responseCurves"      -> SaveResponseCurves(o)
    [] t = "sparseMatrices"      -> SaveSparseMatrices(o)
    [] t = "segmentedCurve"      -> SaveSegmentedCurve(o)
    [] t = "lutAtoB"             -> SaveLutAtoB(o)
    [] t = "lutBtoA"             -> SaveLutBtoA(o)

Writes(t, o) ==
  /\ t = "toneMap" => SavesToneMapFunc(o)
  /\ t = "sampledCurve" => SavesSampledCurve(o)

(* The sizes a client's SetSize or SetText takes, and what it makes of them. *)
SizeTaken(t, n) ==
  \/ t \in {"text", "utf8", "utf16", "curve", "namedColor2"}
  \/ t \in {"colorantTable", "colorantOrder", "chromaticity"} /\ n > 0 /\ n <= 65535
  \/ t = "xyz" /\ n > 0 /\ n <= 65536
  \/ t \in {"data", "height", "normal", "num16", "float32", "sampledSegment"} /\ n > 0
  \/ t = "sampledCurve" /\ n <= 65535

SizeKept(t, n) ==
  CASE t = "curve" /\ n > 65536       -> 0
    [] t = "namedColor2" /\ n = 0     -> 1
    [] OTHER                          -> n

Resized(t, o, n) ==
  LET same == t \notin {"text", "utf8", "utf16"} /\ (t = "curve" => n = o.n)
  IN Marked([o EXCEPT !.n = SizeKept(t, n)], IF same THEN o.v ELSE 0)
-----------------------------------------------------------------------------
Init ==
  /\ type \in Types
  /\ img \in Images(type)
  /\ obj = NoObject /\ last = NoObject
  /\ phase = "file" /\ used = 0 /\ saves = 0 /\ docs = <<>>

Read ==
  /\ phase = "file"
  /\ LET r == ReadTag(type, img)
     IN IF r.ok THEN /\ obj' = Fields(r)
                     /\ used' = r.used
                     /\ phase' = "object"
        ELSE phase' = "refused" /\ UNCHANGED <<obj, used>>
  /\ UNCHANGED <<type, img, last, saves, docs>>

SetSize ==
  /\ phase = "object" /\ saves = 0 /\ docs = <<>>
  /\ \E n \in ClientSizes :
       /\ SizeTaken(type, n)
       /\ obj' = Resized(type, obj, n)
  /\ UNCHANGED <<type, img, phase, used, last, saves, docs>>

Write ==
  /\ phase = "object" /\ saves < MaxSaves
  /\ IF Writes(type, obj)
     THEN /\ \E a \in After : img' = [Saved(type, obj) EXCEPT !.after = a]
          /\ last' = obj /\ saves' = saves + 1 /\ phase' = "file"
     ELSE phase' = "unsaved" /\ UNCHANGED <<img, last, saves>>
  /\ UNCHANGED <<type, obj, used, docs>>

(* The object is written into a document, or that fails.  The file it came   *)
(* from is out of sight.                                                     *)
ToDocument ==
  /\ phase = "object" /\ saves = 0 /\ Len(docs) < MaxDocs
  /\ type \in Documented
  /\ \E language \in {"xml", "json"} :
       IF (language = "xml" /\ ToXml(type, obj)) \/ (language = "json" /\ ToJson(type, obj))
       THEN phase' = "document" /\ docs' = Append(docs, language)
       ELSE phase' = "unsaved" /\ UNCHANGED docs
  /\ last' = obj /\ img' = Image(0, NoObject) /\ used' = 0
  /\ UNCHANGED <<type, obj, saves>>

Reread(t, o, language) == IF language = "xml" THEN ParseXml(t, o) ELSE ParseJson(t, o)

(* A new object is made from the document. *)
FromDocument ==
  /\ phase = "document"
  /\ LET r == Reread(type, last, docs[Len(docs)])
     IN IF r.ok THEN obj' = Fields(r) /\ phase' = "object"
        ELSE phase' = "refused" /\ UNCHANGED obj
  /\ UNCHANGED <<type, img, used, last, saves, docs>>

Next == Read \/ SetSize \/ Write \/ ToDocument \/ FromDocument

Spec == Init /\ [][Next]_vars
-----------------------------------------------------------------------------
(* The formats whose Read does not compare all it reads with the size: the   *)
(* script text of a description, the parameters of a formula (alone or in a  *)
(* segmented curve), lookup tables of elements, of one input (a spectral one *)
(* of 257 too, counted in 8 bits) or with nothing left for the limit, the    *)
(* measurements of response curves, and a profile sequence's text behind     *)
(* padding.                                                                  *)
Overruns(t, i) ==
  \/ t \in {"description", "formulaSegment", "mpeClut"}
  \/ t = "mpeExtClut" /\ i.k = 1
  \/ t = "spectralClut" /\ TableInputs(i.k) = 1
  \/ t = "spectralClut" /\ i.size = 40
  \/ t = "responseCurves"
  \/ t = "segmentedCurve" /\ i.v # 1
  \/ t = "profileSequence" /\ Padding(TextBytes(i.k, i.m)) > 0

(* A tag that was read used no byte beyond the size its directory states,    *)
(* whatever its header fields claim (the Read functions; the bytes after it  *)
(* are those of another tag).                                                *)
Contained ==
  phase = "object" /\ saves = 0 /\ docs = <<>> /\ ~Overruns(type, img) => used <= img.size

(* What a saved tag holds, as its next reader sees it: a matrix without      *)
(* constants comes back with zeros, a description's 16-bit buffer keeps its  *)
(* text and not its length, and two fields hold what a file said beside it.  *)
(* A dictionary's entry with neither name nor value comes back with a value, *)
(* and the profiles of a sequence whose texts are padded with other fields.  *)
Content(t, o) ==
  CASE t = "matrix"                       -> [o EXCEPT !.u = 1]
    [] t = "description"                  -> [o EXCEPT !.k = 0]
    [] t \in {"text", "utf8", "utf16"}    -> [o EXCEPT !.u = 0]
    [] t = "dict" /\ o.n > 0              -> [o EXCEPT !.u = ValueRead(o.m, o.u)]
    [] t = "profileSequence"              ->
         [o EXCEPT !.v = IF FieldsMove(o.n, TextBytes(o.k, o.m)) THEN 1 ELSE o.v]
    [] OTHER                              -> o

(* Some objects are written and then refused: a 16-bit text of no            *)
(* characters, a description longer by its NULs than the longest that is     *)
(* taken, more named colours than Read takes, response curves without        *)
(* measurements or farther from the start of the file than the tag is long,  *)
(* a profile sequence shorter than the struct of one profile, and the sparse *)
(* matrices a document leaves without entries.                               *)
WriteOnly(t, o) ==
  \/ t = "utf16" /\ o.n = 0
  \/ t = "description" /\ (o.n > LongestAscii \/ o.k > LongestUnicode)
  \/ t = "namedColor2" /\ o.n > 65536
  \/ /\ t = "responseCurves" /\ o.n > 0
     /\ o.m = 0 \/ o.v + LastCurve(o) > SaveResponseCurves(o).size
  \/ /\ t = "profileSequence" /\ o.n > 0
     /\ SaveProfileSequence(o).size < 12 + ProfileDescStructBytes
  \/ t = "sparseMatrices" /\ o.v = 0

(* All others are read again as they were written: the same object, from all *)
(* the bytes of the file but padding (each Write beside its Read).           *)
Reloads ==
  phase = "file" /\ saves > 0 /\ ~WriteOnly(type, last) =>
    LET r == ReadTag(type, img)
    IN /\ r.ok
       /\ Content(type, Fields(r)) = Content(type, last)
       /\ img.size - r.used \in 0 .. 3

(* Saving and reading again comes to rest: the third file is the second,     *)
(* byte counts and all, also where one reading changes the object.  A        *)
(* description from a document, whose 16-bit buffer starts with one unit,    *)
(* grows once more.                                                          *)
SettlesAfter == IF type = "description" /\ docs # <<>> THEN 3 ELSE 2

Settles ==
  [][saves' # saves /\ saves >= SettlesAfter => img' = [img EXCEPT !.after = img'.after]]_vars

(* What a document leaves out and its reader does not miss.  An XML document *)
(* keeps 256 bytes of a text and 32 bits of a number; the JSON one no        *)
(* character beyond ASCII, no description but the ASCII one, no parameters   *)
(* of an unknown curve and no constants that stand alone.  Neither keeps the *)
(* parameters a tone map has too many, a second string of one language, more *)
(* than one character of a dictionary's names and values (the counts do not  *)
(* show what JSON loses), its localized forms without strings, and the       *)
(* entries of a sparse matrix without rows; XML drops the texts beside       *)
(* profile identifiers too.                                                  *)
ForgottenInXml(t, o) ==
  \/ t = "text" /\ IsTextLegalCDATA(o) /\ o.n > AnsiLimit
  \/ t = "description" /\ o.u > AnsiLimit
  \/ t \in Numbers /\ o.v # 0
  \/ t = "zipUtf8" /\ o.n = 0
  \/ t = "toneMap" /\ o.n > NumArgs(o.k)
  \/ t = "localized" /\ o.v = 1 /\ o.n > 1
  \/ t = "dict" /\ (o.m > OneCharacter \/ o.u > OneCharacter \/ o.v # 0)
  \/ t = "profileSequenceId" /\ (o.k > 0 \/ o.m > 0)
  \/ t = "sparseMatrices" /\ o.m = 0 /\ o.v # 0

ForgottenInJson(t, o) ==
  \/ t \in {"text", "utf16"} /\ o.v # 0
  \/ t = "description" /\ (o.v # 0 \/ o.m > 0)
  \/ t = "parametricCurve" /\ o.k \notin 0 .. 4
  \/ t = "matrix" /\ o.n = 0
  \/ t = "toneMap" /\ o.n > NumArgs(o.k)
  \/ t = "localized" /\ o.v = 1 /\ o.n > 1
  \/ t = "dict" /\ (o.m > OneCharacter \/ o.u > OneCharacter \/ o.v # 0)
  \/ t = "sparseMatrices" /\ o.m = 0 /\ o.v # 0

Forgotten(t, o, language) ==
  IF language = "xml" THEN ForgottenInXml(t, o) ELSE ForgottenInJson(t, o)

(* The language code of a description is all that an XML document loses of   *)
(* it.                                                                       *)
Carried(t, o, language) ==
  IF t = "description" /\ language = "xml" /\ o.v = 1 THEN [o EXCEPT !.v = 0] ELSE o

(* A document says so or loses nothing: what its reader accepts is what was  *)
(* written, but for what is forgotten (each ToXml and ToJson beside its      *)
(* ParseXml and ParseJson).                                                  *)
DocumentReloads ==
  phase = "document" /\ ~Forgotten(type, last, docs[Len(docs)]) =>
    LET r == Reread(type, last, docs[Len(docs)])
    IN r.ok => Content(type, Fields(r)) = Content(type, Carried(type, last, docs[Len(docs)]))

(* What came out of a document goes through the same kind of document again  *)
(* unharmed: it is accepted, and nothing changes.                            *)
Again == Len(docs) = 2 /\ docs[1] = docs[2]

DocumentSettles ==
  phase = "document" /\ Again =>
    LET r == Reread(type, last, docs[2])
    IN r.ok /\ Fields(r) = last
=============================================================================
