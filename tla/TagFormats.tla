----------------------------- MODULE TagFormats -----------------------------
(***************************************************************************)
(* How the tags and multi process elements without an offset table of their  *)
(* own are read and written (Read and Write in IccProfLib/IccTagBasic.cpp,   *)
(* IccTagLut.cpp, IccMpeBasic.cpp, IccMpeSpectral.cpp).  An image is what a  *)
(* file holds of one tag: the size its directory states, the bytes that      *)
(* follow it in the file, and the header fields that decide how much is      *)
(* read, named n, k, m, u and v: which is which is said with each format.    *)
(* An object has the same fields.  Values are not modelled.                  *)
(***************************************************************************)
EXTENDS Integers, FiniteSets

CONSTANT Word   \* sizes and counts are 32-bit: 2^32 in the code

ASSUME WordAssumption == Word \in Nat /\ Word >= 65536

Smaller(a, b) == IF a < b THEN a ELSE b
PaddedTo4(x) == x + ((-x) % 4)

(* What Read makes of an image: refused, or an object and the bytes used. *)
Refused == [ok |-> FALSE, n |-> 0, k |-> 0, m |-> 0, u |-> 0, v |-> 0, used |-> 0]

LoadedIf(test, obj, used) ==
  IF test THEN [ok |-> TRUE, n |-> obj.n, k |-> obj.k, m |-> obj.m, u |-> obj.u, v |-> obj.v,
                used |-> used]
  ELSE Refused

Object(n, k, m, u) == [n |-> n, k |-> k, m |-> m, u |-> u, v |-> 0]
Marked(o, v) == [o EXCEPT !.v = v]

Image(size, o) ==
  [size |-> size, after |-> 0, n |-> o.n, k |-> o.k, m |-> o.m, u |-> o.u, v |-> o.v]
-----------------------------------------------------------------------------
(* Plain formats: a header of head bytes, then elements of one width.  Read  *)
(* wants at least so many bytes and at most top elements, whose number comes *)
(* from the size that is left, or from a field the size must have room for;  *)
(* icRealloc of nothing fails, which most tags take for an error.            *)
Rest(head, least, width, top) ==
  [head |-> head, least |-> least, width |-> width, from |-> "size", low |-> 0, top |-> top]

Field(head, least, width, low, top) ==
  [head |-> head, least |-> least, width |-> width, from |-> "field", low |-> low, top |-> top]

Fixed(size) ==
  [head |-> size, least |-> size, width |-> 1, from |-> "none", low |-> 0, top |-> 0]

Unlimited == Word - 1

Unknown              == Rest(4, 5, 1, 268435456)
ZipUtf8Text          == Rest(8, 8, 1, Unlimited)
XYZ                  == Rest(8, 20, 12, 65536)
FixedNum             == Rest(8, 12, 4, Unlimited)
Num(w)               == Rest(8, 8 + w, w, Unlimited)
FloatNum(w)          == Rest(8, 8 + w, w, Unlimited)
Data                 == Rest(12, 13, 1, Unlimited)
EmbeddedHeightImage  == Rest(24, 25, 1, Unlimited)
EmbeddedNormalImage  == Rest(16, 17, 1, Unlimited)
MpeUnknown           == Rest(12, 12, 1, Unlimited)
MpeAcs               == Rest(16, 16, 1, Unlimited)
ColorantTable        == Field(12, 50, 38, 1, 65535)
Signature            == Fixed(12)
Cicp                 == Fixed(12)
DateTime             == Fixed(20)
SpectralDataInfo     == Fixed(24)
Measurement          == Fixed(36)
ViewingConditions    == Fixed(36)
MpeCAM               == Fixed(44)

PlainFormat ==
  [unknown |-> Unknown, zipUtf8 |-> ZipUtf8Text, xyz |-> XYZ, fixedNum |-> FixedNum,
   num8 |-> Num(1), num16 |-> Num(2), num32 |-> Num(4), num64 |-> Num(8),
   float16 |-> FloatNum(2), float32 |-> FloatNum(4), float64 |-> FloatNum(8),
   data |-> Data, height |-> EmbeddedHeightImage, normal |-> EmbeddedNormalImage,
   mpeUnknown |-> MpeUnknown, acs |-> MpeAcs, colorantTable |-> ColorantTable,
   signature |-> Signature, cicp |-> Cicp, dateTime |-> DateTime, spectral |-> SpectralDataInfo,
   measurement |-> Measurement, viewing |-> ViewingConditions, cam |-> MpeCAM]

Plain == DOMAIN PlainFormat

Elements(f, i) ==
  CASE f.from = "size"  -> (i.size - f.head) \div f.width
    [] f.from = "field" -> i.n
    [] OTHER            -> 0

LoadPlain(f, i) ==
  LET n == Elements(f, i)
  IN LoadedIf(/\ f.least <= i.size
              /\ n \in f.low .. f.top
              /\ f.from = "field" => n <= (i.size - f.head) \div f.width,
              Marked(Object(n, 0, 0, 0), i.v), f.head + n * f.width)

SavePlain(f, o) == Image(f.head + o.n * f.width, o)
-----------------------------------------------------------------------------
(* Text: u is where the first NUL stands in the file, n the length without,  *)
(* v marks a text that is not of characters.  The 16-bit text wants room for *)
(* one character and is saved without a NUL.                                 *)
Counting(n, v) == Marked(Object(n, 0, 0, 0), IF n = 0 THEN 0 ELSE v)

LoadText(i) == LoadedIf(8 <= i.size, Counting(Smaller(i.u, i.size - 8), i.v), i.size)

SaveText(o) == Image(8 + o.n + 1, [o EXCEPT !.u = o.n])

LoadUtf16Text(i) ==
  LET units == (i.size - 8) \div 2
  IN LoadedIf(10 <= i.size, Counting(Smaller(i.u, units), i.v), 8 + 2 * units)

SaveUtf16Text(o) == Image(8 + 2 * o.n, [o EXCEPT !.u = o.n])

(* Text description: n ASCII bytes with the first NUL at u, k 16-bit units   *)
(* with the first NUL at m, no script text; v is 1 when there is a language  *)
(* code, 2 when the ASCII text is none.  The ASCII buffer is cut after its   *)
(* NUL, the 16-bit one is two units longer than the text or its NUL; all 67  *)
(* bytes of script are read, or those there are.  The mutant does not cut    *)
(* the 16-bit buffer.                                                        *)
MarkOf(ascii, v) == IF ascii = 0 /\ v = 2 THEN 0 ELSE v

LongestAscii == 67108864
LongestUnicode == 33554432

LoadTextDescriptionUncut(i) ==
  LET script == 12 + i.n + 8 + 2 * i.k + 3
      ascii == Smaller(i.u, i.n)
  IN LoadedIf(/\ 12 + i.n + 8 <= i.size /\ script <= i.size /\ script < i.size + i.after,
              Marked(Object(ascii + 1, i.k + 2, Smaller(i.m, i.k), ascii), MarkOf(ascii, i.v)),
              Smaller(script + 67, i.size + i.after))

LoadTextDescription(i) ==
  LET script == 12 + i.n + 8 + 2 * i.k + 3
      ascii == Smaller(i.u, i.n)
      unicode == Smaller(i.m, i.k)
      units == IF unicode + 1 < i.k THEN unicode + 3 ELSE i.k + 2
  IN LoadedIf(/\ 12 + i.n + 8 <= i.size /\ i.n <= LongestAscii
              /\ script <= i.size /\ i.k <= LongestUnicode
              /\ script < i.size + i.after,
              Marked(Object(ascii + 1, units, unicode, ascii), MarkOf(ascii, i.v)),
              Smaller(script + 67, i.size + i.after))

SaveTextDescription(o) ==
  LET units == IF o.k > 1 THEN o.k ELSE 0
  IN Image(12 + o.n + 8 + 2 * units + 3 + 67, [o EXCEPT !.k = units])

(* Named colours: n entries with k device coordinates; none becomes one. *)
NamedColorWidth(coords) == 32 + 2 * (3 + coords)

LoadNamedColor2(i) ==
  LoadedIf(/\ 84 <= i.size /\ i.n <= 65536 /\ i.k <= 256
           /\ i.n <= (i.size - 84) \div NamedColorWidth(i.k),
           Object(IF i.n = 0 THEN 1 ELSE i.n, i.k, 0, 0),
           84 + i.n * NamedColorWidth(i.k))

SaveNamedColor2(o) == Image(84 + o.n * NamedColorWidth(o.k), o)

(* Chromaticity: the header's n may state fewer channels than are read. *)
LoadChromaticity(i) ==
  LET channels == (i.size - 12) \div 8
  IN LoadedIf(20 <= i.size /\ i.n <= channels /\ channels <= 65535,
              Object(channels, 0, 0, 0), 12 + 8 * channels)

SaveChromaticity(o) == Image(12 + 8 * o.n, o)

(* Colorant order: the count is compared in 32 bits and kept in 16. *)
LoadColorantOrder(i) ==
  LoadedIf(12 <= i.size /\ i.n <= i.size - 12 /\ i.n % 65536 # 0,
           Object(i.n % 65536, 0, 0, 0), 12 + (i.n % 65536))

SaveColorantOrder(o) == Image(12 + o.n, o)

(* Date and time: a larger tag is refused. *)
LoadDateTime(i) ==
  IF (i.size - 8) \div 2 > 6 THEN Refused ELSE LoadPlain(DateTime, i)
-----------------------------------------------------------------------------
(* Curve: more than 65536 entries are taken for none; v marks an identity.   *)
LoadCurve(i) ==
  LET n == IF i.n > 65536 THEN 0 ELSE i.n
  IN LoadedIf(12 <= i.size /\ 12 + 2 * i.n <= i.size, Counting(n, i.v), 12 + 2 * n)

SaveCurve(o) == Image(PaddedTo4(12 + 2 * o.n), o)

(* Parametric curve: k is the function type; n parameters, for a type that   *)
(* is not known as many as fit.                                              *)
ParametersOf == <<1, 3, 4, 5, 7>>

LoadParametricCurve(i) ==
  LET known == i.k \in 0 .. 4
      n == IF known THEN ParametersOf[i.k + 1] ELSE (i.size - 12) \div 4
  IN LoadedIf(12 <= i.size /\ (~known => n <= 2048) /\ 12 + 4 * n <= i.size,
              Object(n, i.k, 0, 0), 12 + 4 * n)

SaveParametricCurve(o) == Image(PaddedTo4(12 + 4 * o.n), o)

(* Lookup table: n grid points for k inputs, m outputs, u bytes each.  Init  *)
(* compares with a limit, unless that is zero, from the second input on; n   *)
(* is a product of at least two points per input.                            *)
InitCLUT(n, k, m, limit, width) ==
  /\ limit > 0 => width > 0
  /\ k \in 1 .. 16 /\ m >= 1 /\ n >= 2 ^ k
  /\ k > 1 /\ limit > 0 => n * m * width <= limit
  /\ n * m < Word

LoadCLUT(i) ==
  LoadedIf(/\ 20 <= i.size
           /\ InitCLUT(i.n, i.k, i.m, i.size - 20, i.u)
           /\ (i.n * i.m * i.u) % Word <= i.size - 20
           /\ i.u \in {1, 2},
           i, 20 + i.n * i.m * i.u)

SaveCLUT(o) == Image(20 + o.n * o.m * o.u, o)

(* Lookup tables with curves of one length before and after, of u and v      *)
(* entries in a lut16 and of 256 in a lut8.                                  *)
Lut8Bytes(o) == 48 + 256 * o.k + o.n * o.m + 256 * o.m
Lut16Curves(channels, entries) == 2 * entries * channels
Lut16Bytes(o) == 52 + Lut16Curves(o.k, o.u) + 2 * o.n * o.m + Lut16Curves(o.m, o.v)

LoadLut8(i) ==
  LET left == i.size - 48 - 256 * i.k
  IN LoadedIf(/\ 52 <= i.size /\ i.k \in 1 .. 15 /\ i.m \in 1 .. 15
              /\ left >= 0 /\ InitCLUT(i.n, i.k, i.m, left, 1)
              /\ Lut8Bytes(i) <= i.size,
              Object(i.n, i.k, i.m, 0), Lut8Bytes(i))

SaveLut8(o) == Image(Lut8Bytes(o), o)

(* What the header and the tables of a lut16 must be before the output       *)
(* curves are read.                                                          *)
Lut16Head(i) ==
  LET left == i.size - 52 - Lut16Curves(i.k, i.u)
  IN /\ 52 <= i.size /\ i.k \in 1 .. 15 /\ i.m \in 1 .. 15
     /\ i.u \in 2 .. 4096 /\ i.v \in 2 .. 4096
     /\ left >= 0 /\ InitCLUT(i.n, i.k, i.m, left, 2)

LoadLut16(i) ==
  LoadedIf(Lut16Head(i) /\ Lut16Bytes(i) <= i.size, i, Lut16Bytes(i))

SaveLut16(o) == Image(Lut16Bytes(o), o)

(* Spectral viewing conditions: an observer of n steps, an illuminant of k.  *)
LoadSpectralViewing(i) ==
  LET needed == 60 + 12 * i.n + 4 * i.k
  IN LoadedIf(needed <= i.size, Object(i.n, i.k, 0, 0), needed)

SaveSpectralViewing(o) == Image(60 + 12 * o.n + 4 * o.k, o)

(* Gamut boundary: n vertices of k PCS and m device channels, u triangles. *)
GamutBytes(o) == 20 + 12 * o.u + 4 * o.n * (o.k + o.m)

LoadGamutBoundaryDesc(i) ==
  LoadedIf(/\ 20 <= i.size /\ i.k <= 3 /\ i.m <= 15
           /\ i.n >= 4 /\ i.u >= 4 /\ GamutBytes(i) <= i.size,
           i, GamutBytes(i))

SaveGamutBoundaryDesc(o) == Image(GamutBytes(o), o)
=============================================================================
