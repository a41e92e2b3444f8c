----------------------------- MODULE MCTagCodec -----------------------------
(***************************************************************************)
(* Instances of TagCodec: every format, with sizes and header fields on both *)
(* sides of each comparison its Read makes.                                  *)
(***************************************************************************)
EXTENDS TagCodec

Grid(sizes, ns, ks, ms, us) ==
  [size : sizes, after : {0, 200}, n : ns, k : ks, m : ms, u : us, v : {0}]

(* The same, and each with one of the marks vs. *)
WithMarks(images, vs) == {[i EXCEPT !.v = w] : w \in vs, i \in images}

Small == 0 .. 60
Large == {70000, 131084, 131086, 786452, 786464, 16777015}
Zero == {0}

(* Tables with the same number of points for each input. *)
Powers(i) == \E g \in 1 .. 4 : i.n = g ^ i.k

HeldIn(t) ==
  CASE t = "colorantTable" -> Grid(Small \cup 85 .. 90, 0 .. 3 \cup {65536, Unlimited}, Zero, Zero, Zero)
    [] t \in Plain \ {"colorantTable"} ->
         WithMarks(Grid(Small \cup Large, Zero, Zero, Zero, Zero),
                   IF t \in {"fixedNum", "num64"} THEN {0, 1} ELSE Zero)
    [] t \in {"text", "utf8", "utf16"} ->
         WithMarks(Grid(Small \cup {264, 265, 300}, Zero, Zero, Zero, 0 .. 5 \cup {99, 999}), {0, 1})
    [] t = "description" ->
         WithMarks(Grid({11, 12} \cup 19 .. 36 \cup {90, 100, 110, 310}, {0, 1, 3, 280},
                        {0, 1, 2, 5}, {0, 1, 4, 9}, {0, 2, 9, 270}), {0, 1, 2})
    [] t = "namedColor2" ->
         Grid({83, 84} \cup 121 .. 126 \cup 160 .. 168, {0, 1, 2, 65537}, {0, 1, 257}, Zero, Zero)
    [] t = "chromaticity" -> Grid(Small \cup {524292, 524300}, {0, 1, 2, 3, 65535}, Zero, Zero, Zero)
    [] t = "colorantOrder" -> Grid(Small \cup {70000}, 0 .. 4 \cup {65536, 65537}, Zero, Zero, Zero)
    [] t = "curve" ->
         WithMarks(Grid(Small \cup Large, 0 .. 5 \cup {65536, 65537, Unlimited}, Zero, Zero, Zero), {0, 1})
    [] t = "parametricCurve" -> Grid(Small \cup {8204, 8208}, Zero, 0 .. 5, Zero, Zero)
    [] t = "clut" ->
         Grid({19, 20, 21, 24, 25, 28, 29, 36, 37}, {1, 2, 4, 8, 8388608}, 0 .. 3, 0 .. 2, 0 .. 3)
    [] t = "lut8" ->
         {i \in Grid({51, 52, 303, 304} \cup 562 .. 566 \cup 820 .. 825 \cup 1080 .. 1090,
                     {1, 2, 3, 4}, 0 .. 2, 0 .. 2, Zero) : Powers(i)}
    [] t = "lut16" ->
         {[i EXCEPT !.v = w] : w \in {0, 2, 3},
            i \in {j \in Grid(51 .. 90, {1, 2, 3, 4}, 0 .. 2, 0 .. 2, {1, 2, 3}) : Powers(j)}}
    [] t = "spectralViewing" -> Grid({19, 20} \cup Small \cup 61 .. 100, 0 .. 3, 0 .. 3, Zero, Zero)
    [] t = "gamutBoundary" ->
         Grid({19, 20} \cup 83 .. 86 \cup 99 .. 101 \cup 115 .. 117, {3, 4, 5}, {0, 1, 4}, {0, 1, 16}, {3, 4, 5})
    [] t = "formulaSegment" -> Grid(Small, Zero, 0 .. 8, Zero, Zero)
    [] t = "sampledSegment" -> Grid(Small, 0 .. 4 \cup {4194304}, Zero, Zero, Zero)
    [] t = "sampledCurve" -> Grid(Small \cup {65560}, 0 .. 4 \cup {65535, 65536}, 0 .. 4, Zero, Zero)
    [] t = "tintArray" -> Grid(Small, Zero, 0 .. 3, Zero, {1, 2, 4})
    [] t = "toneMap" -> Grid(Small \cup {1036, 1048}, Zero, {0, 1}, Zero, Zero)
    [] t = "matrix" -> Grid(Small, Zero, 0 .. 3, 0 .. 3, Zero)
    [] t \in {"mpeClut", "mpeExtClut", "spectralClut"} ->
         Grid({27, 28, 31, 32, 33, 36, 39, 40, 41, 44, 48, 49, 56, 57, 64, 72},
              {1, 2, 4, 8}, 0 .. 3 \cup {16, 17, 256, 257, 258}, 0 .. 2, 0 .. 4)
    [] t \in {"spectralMatrix", "spectralObserver"} -> Grid(Small, Zero, 0 .. 3, 0 .. 3, Zero)
    [] t = "localized" ->
         WithMarks(Grid(0 .. 75, 0 .. 3 \cup {65537}, {12, 16}, {0, 1, 2, 6}, {0, 27, 28, 40, 52}), 0 .. 3)
    [] t = "dict" ->
         WithMarks(Grid(14 .. 60 \cup {68, 76, 84, 96, 116, 120, 124}, 0 .. 2 \cup {1048577}, {15, 16, 24, 32},
                        {0, 1, 2, 3, 5}, {0, 1, 2, 3, 7}), 0 .. 3)
    [] t = "profileSequence" ->
         Grid({11, 12, 99, 100} \cup 84 .. 108 \cup 160 .. 190, 0 .. 3, {0, 1, 2}, {0, 1, 2, 6, 8}, Zero)
    [] t = "profileSequenceId" ->
         Grid(10 .. 80 \cup 110 .. 130, 0 .. 3, {0, 1, 2}, {0, 1, 2, 6}, Zero)
    [] t = "responseCurves" ->
         WithMarks(Grid(10 .. 60 \cup {196, 200, 204} \cup 370 .. 390, 0 .. 2, 0 .. 2, {0, 1, 2, 20, 21}, Zero), {144, 400})
    [] t = "sparseMatrices" ->
         WithMarks(Grid(16 .. 56, {0, 1, 2, 65537}, {0, 3, 4, 5, 9, 16777216}, 0 .. 2, 0 .. 5), 0 .. 4)
    [] t = "segmentedCurve" ->
         WithMarks(Grid(10 .. 72 \cup {76, 80, 84, 88, 100, 112, 124}, 0 .. 3, 0 .. 8, {0, 1, 2}, Zero), {0, 1})
    [] t \in {"lutAtoB", "lutBtoA"} ->
         WithMarks(Grid({31, 32, 44, 46, 47, 48, 79, 80, 96, 102, 110, 112, 124, 128, 134, 152, 160, 192, 200}, {0, 1}, {0, 1, 2, 16}, 1 .. 2, {1, 2, 4}), 0 .. 63)

Following == {0, 200}
AskedSizes == {0, 1, 2, 5, 65535, 65536, 65537}
=============================================================================
