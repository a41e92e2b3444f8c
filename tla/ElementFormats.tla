--------------------------- MODULE ElementFormats ---------------------------
(***************************************************************************)
(* How the curves, matrices and tables of multi process elements are read    *)
(* and written (IccProfLib/IccMpeBasic.cpp, IccMpeSpectral.cpp), in the      *)
(* terms of TagFormats.                                                      *)
(***************************************************************************)
EXTENDS TagFormats

(* icGetStorageTypeBytes: 8 and 16 bits, 16 and 32 bit floats. *)
StorageBytes(type) ==
  CASE type = 0 -> 4 [] type = 1 -> 2 [] type = 2 -> 2 [] type = 3 -> 1 [] OTHER -> 0

(* Formula segment: k is the function type, whose n parameters are read      *)
(* whether or not the size has room for them.                                *)
FormulaParameters == <<4, 5, 5, 5, 5, 6, 7, 6>>

LoadFormulaSegment(i) ==
  LET n == IF i.k \in 0 .. 7 THEN FormulaParameters[i.k + 1] ELSE 0
  IN LoadedIf(12 <= i.size /\ i.k \in 0 .. 7, Object(n, i.k, 0, 0), 12 + 4 * n)

SaveFormulaSegment(o) == Image(12 + 4 * o.n, o)

(* Sampled segment: an object has one sample more than the file. *)
LoadSampledSegment(i) ==
  LoadedIf(12 <= i.size /\ 4 * i.n <= i.size - 12, Object(i.n + 1, 0, 0, 0), 12 + 4 * i.n)

(* A mutant: the sample that the object has more is written too. *)
SaveSampledSegmentAll(o) == Image(12 + 4 * o.n, o)

SaveSampledSegment(o) ==
  LET n == IF o.n > 0 THEN o.n - 1 ELSE 0 IN Image(12 + 4 * n, [o EXCEPT !.n = n])

(* Sampled curve: n samples of storage type k. *)
LoadSingleSampledCurve(i) ==
  LoadedIf(/\ 24 <= i.size /\ i.n <= 65535 /\ i.n <= i.size - 24
           /\ i.n > 0 => StorageBytes(i.k) > 0 /\ i.n * StorageBytes(i.k) <= i.size - 24,
           Object(i.n, i.k, 0, 0), 24 + i.n * StorageBytes(i.k))

SavesSampledCurve(o) == o.n > 0 => StorageBytes(o.k) > 0
SaveSingleSampledCurve(o) == Image(24 + o.n * StorageBytes(o.k), o)

(* Tone map function of type k: the parameters that fit, counted in a byte;  *)
(* only an object with just as many as the type has is written.              *)
NumArgs(k) == IF k = 0 THEN 3 ELSE 0

LoadToneMapFunc(i) ==
  LET n == ((i.size - 12) \div 4) % 256
  IN LoadedIf(12 <= i.size /\ n >= NumArgs(i.k), Object(n, i.k, 0, 0), 12 + 4 * n)

SavesToneMapFunc(o) == o.n = NumArgs(o.k)
SaveToneMapFunc(o) == Image(12 + 4 * o.n, o)

(* Tint array: after the header a number array of width u, of at least two   *)
(* tints for each of k outputs.                                              *)
LoadTintArray(i) ==
  LET array == LoadPlain(Num(i.u), [i EXCEPT !.size = @ - 12])
  IN LoadedIf(/\ 16 <= i.size /\ i.k >= 1 /\ array.ok
              /\ array.n \div i.k >= 2 /\ array.n % i.k = 0,
              Object(array.n, i.k, 0, i.u), 12 + array.used)

SaveTintArray(o) == Image(20 + o.n * o.u, o)

(* Matrix of k inputs and m outputs: the size tells whether there are        *)
(* constants too (u = 1), or nothing else (n = 0).  A matrix without         *)
(* constants is saved with zeros for them.                                   *)
LoadMatrix(i) ==
  LET data == i.size - 12
      matrix == 4 * i.k * i.m
      n == IF matrix <= data THEN 1 ELSE 0
      u == IF 4 * i.m <= data - n * matrix THEN 1 ELSE 0
  IN LoadedIf(/\ 12 <= i.size /\ i.k <= 255 /\ i.m \in 1 .. 255
              /\ n = 1 => i.k >= 1
              /\ n = 1 \/ u = 1,
              Object(n, i.k, i.m, u), 12 + n * matrix + 4 * u * i.m)

SaveMatrix(o) == Image(12 + 4 * o.n * o.k * o.m + 4 * o.m, o)

(* Lookup tables: n grid points, k inputs, m outputs, u the storage type.    *)
(* The plain one compares no more than one value per input and output with   *)
(* the size, the extended one relies on Init for 32-bit floats, and the      *)
(* spectral one on Init alone; its m white values follow the table.          *)
LoadMpeCLUT(i) ==
  LoadedIf(/\ 28 <= i.size /\ i.k <= 16 /\ 4 * i.k * i.m <= i.size - 28
           /\ InitCLUT(i.n, i.k, i.m, 0, 0),
           Object(i.n, i.k, i.m, 0), 28 + 4 * i.n * i.m)

SaveMpeCLUT(o) == Image(28 + 4 * o.n * o.m, o)

LoadMpeExtCLUT(i) ==
  LET width == StorageBytes(i.u)
      left == i.size - 32
  IN LoadedIf(/\ 32 <= i.size /\ i.k <= 16 /\ i.k * i.m <= left /\ width > 0
              /\ InitCLUT(i.n, i.k, i.m, left, width)
              /\ i.n * i.m <= left
              /\ width = 2 => (2 * i.n * i.m) % Word <= left,
              i, 32 + i.n * i.m * width)

SaveMpeExtCLUT(o) == Image(32 + o.n * o.m * StorageBytes(o.u), o)

(* The inputs of its table are those of the element cut to a byte.           *)
TableInputs(k) == k % 256

LoadSpectralCLUT(i) ==
  LET width == StorageBytes(i.u)
      left == i.size - 40 - i.n * i.m * width
  IN LoadedIf(/\ 40 <= i.size /\ width > 0
              /\ i.k >= 1 /\ InitCLUT(i.n, TableInputs(i.k), i.m, i.size - 40, width)
              /\ left < 0 \/ i.m * width <= left,
              i, 40 + (i.n + 1) * i.m * width)

SaveSpectralCLUT(o) == Image(40 + (o.n + 1) * o.m * StorageBytes(o.u), o)

(* Spectral matrix: k vectors of m steps and the white; the offset when      *)
(* there is room for it, and always when saved.                              *)
LoadSpectralMatrix(i) ==
  LET needed == 20 + 4 * i.m + 4 * i.k * i.m
  IN LoadedIf(i.k >= 1 /\ needed <= i.size, Object(0, i.k, i.m, 0),
              needed + (IF needed + 4 * i.m <= i.size THEN 4 * i.m ELSE 0))

SaveSpectralMatrix(o) == Image(20 + 8 * o.m + 4 * o.k * o.m, o)

LoadSpectralObserver(i) ==
  LoadedIf(i.k >= 1 /\ 20 + 4 * i.m <= i.size, Object(0, i.k, i.m, 0), 20 + 4 * i.m)

SaveSpectralObserver(o) == Image(20 + 4 * o.m, o)
=============================================================================
