---------------------------- MODULE MCEvaluation ----------------------------
(* Instances of Evaluation: one transform for every way a lookup tag can be  *)
(* built, chains of up to four elements, and tables of one to seven inputs.  *)
EXTENDS Evaluation

Table(form, clip, grid, out, lo, hi, zero) ==
  [form |-> form, clip |-> clip, grid |-> grid, out |-> out, lo |-> lo, hi |-> hi, zero |-> zero]
Clut(clip, grid, out) == Table("clut", clip, grid, out, 0, Unit, FALSE)
Same(n, g) == [k \in 1 .. n |-> g]

Elem(in, out, acs, t) == [in |-> in, out |-> out, acs |-> acs, table |-> t]
Plain(n) == Elem(n, n, FALSE, NoTable)
Acs(n) == Elem(n, n, TRUE, NoTable)
Lut(t) == Elem(Inputs(t), t.out, FALSE, t)

Grey == [class |-> "mono", input |-> TRUE, inputMatrix |-> FALSE, tetra |-> FALSE,
         adjust |-> FALSE, pcs |-> FALSE, pcsXYZ |-> TRUE, nIn |-> 1, nOut |-> 3, from |-> 1,
         space |-> 3, A |-> "real", B |-> "none", M |-> "none", matrix |-> "none",
         table |-> NoTable, elems |-> <<>>]

Shapers ==
  {[Grey EXCEPT !.input = i, !.adjust = a, !.A = c, !.nIn = IF i THEN 1 ELSE 3,
                !.nOut = IF i THEN 3 ELSE 1] :
     i \in BOOLEAN, a \in BOOLEAN, c \in Curves}
  \cup {[Grey EXCEPT !.class = "matrix", !.input = i, !.adjust = a, !.A = c, !.matrix = m,
                     !.nIn = 3, !.pcsXYZ = x] :
          i \in BOOLEAN, a \in BOOLEAN, c \in Curves, m \in {"real", "singular", "none"},
          x \in BOOLEAN}

ClassOf(n) == CASE n = 3 -> "3d" [] n = 4 -> "4d" [] OTHER -> "nd"
LutTag(t, in, out) ==
  [Grey EXCEPT !.class = ClassOf(in), !.nIn = in, !.nOut = out, !.from = in, !.space = out,
               !.A = "none", !.table = t]

Tags ==
  {[LutTag(t, in, out) EXCEPT !.input = i, !.inputMatrix = im, !.A = a, !.B = b, !.M = m,
                              !.matrix = x, !.adjust = IF i THEN out = 3 ELSE in = 3] :
     in \in {2, 3, 4}, out \in {3, 5}, t \in {NoTable}, i \in BOOLEAN, im \in BOOLEAN,
     a \in Curves, b \in {"none", "real"}, m \in {"none", "real"}, x \in {"none", "identity", "real"}}
  \cup {[LutTag(Clut("unit", Same(in, 2), 3), in, 3) EXCEPT !.input = i, !.inputMatrix = im,
                !.A = a, !.B = b, !.M = "real", !.matrix = "real"] :
          in \in {3, 5}, i \in BOOLEAN, im \in BOOLEAN, a \in Curves, b \in Curves}
  \cup {[LutTag(NoTable, 3, 3) EXCEPT !.space = 4]}

(* Only a side of three channels is a PCS. *)
PcsSide(x) == IF x.input THEN x.nOut ELSE x.nIn

Chains ==
  {x \in {[Grey EXCEPT !.class = "mpe", !.input = i, !.adjust = a, !.pcs = p, !.from = 3, !.nIn = 3,
                       !.nOut = o, !.space = o, !.elems = e] :
             i \in BOOLEAN, a \in BOOLEAN, p \in BOOLEAN, o \in {3, 4},
             e \in {<<>>, <<Plain(3)>>, <<Acs(3)>>, <<Plain(3), Plain(3)>>,
                    <<Acs(3), Plain(3), Acs(3)>>, <<Plain(3), Elem(3, 4, FALSE, NoTable)>>,
                    <<Plain(3), Plain(4)>>,
                    <<Acs(3), Elem(3, 6, FALSE, NoTable), Elem(6, 4, FALSE, NoTable)>>,
                    <<Plain(3), Acs(3), Acs(3), Plain(3)>>, <<Plain(3), Plain(3), Acs(3), Plain(3)>>,
                    <<Elem(3, 1, FALSE, NoTable), Acs(1), Elem(1, 4, FALSE, NoTable), Plain(4)>>}} :
     x.adjust \/ x.pcs => PcsSide(x) = 3}

ElementOnly(t) ==
  [Grey EXCEPT !.class = "mpe", !.from = Inputs(t), !.nIn = Inputs(t), !.nOut = t.out,
               !.space = t.out, !.elems = <<Lut(t)>>]

EncodedTables ==
  {Clut("unit", g, 2) : g \in {<<2>>, <<3, 2>>, <<2, 4>>, <<2, 3, 4>>, <<4, 2, 2>>,
                               <<3, 3, 2, 2>>, <<2, 2, 3, 2>>, <<3, 2, 2, 2>>,
                               <<2, 3, 2, 2, 2>>, <<3, 2, 2, 2, 2, 2>>, <<2, 2, 2, 2, 2, 3, 2>>}}
ElementTables ==
  {Clut(c, g, 2) : c \in {"none", "as is"},
                   g \in {<<2>>, <<5>>, <<3, 2>>, <<2, 4>>, <<3, 3>>, <<2, 3, 4>>, <<3, 3, 2, 2>>,
                          <<2, 3, 2, 2>>, <<2, 3, 2, 2, 2>>, Same(6, 2), Same(7, 2)}}
(* The sources of the first and the last entry: in order or reversed. *)
Ends == {<<1, 2>>, <<1, 4>>, <<4, 1>>}
CurveTables ==
  {Table("curve", "unit", <<n>>, 1, 0, Unit, FALSE) : n \in {2, 3, 4, 6}}
  \cup {Table(f, c, <<n>>, 1, e[1], e[2], FALSE) :
          f \in {"sampled", "calculator"}, c \in {"clip", "extend"}, n \in {2, 3, 4}, e \in Ends}
  \cup {Table("segment", "clip", <<n>>, 1, e[1], e[2], FALSE) : n \in {2, 3, 4}, e \in Ends}
  \cup {Table("array", c, <<n>>, o, 0, Unit, z) :
          c \in {"numbers", "integers"}, n \in {2, 3}, o \in {1, 2}, z \in BOOLEAN}
  \cup {Table("array", "numbers", <<1>>, 2, 0, Unit, TRUE)}

SomeTransforms ==
  Shapers \cup Tags \cup Chains
  \cup {LutTag(t, Inputs(t), 2) : t \in EncodedTables}
  \cup {[LutTag(t, 3, 2) EXCEPT !.tetra = TRUE] : t \in {u \in EncodedTables : Inputs(u) = 3}}
  \cup {ElementOnly(t) : t \in ElementTables \cup CurveTables}

(* The tables of three outputs are there for the stages around them. *)
Odd == {-Infinity, -1, Unit + 1, Infinity, NaN}
SourcesOf(t) ==
  LET n == Inputs(t) IN
  IF t.out = 3 THEN {[k \in 1 .. n |-> 1]} ELSE
  [1 .. n -> CASE n <= 2 -> 0 .. Unit \cup Odd
               [] n = 3  -> 0 .. Unit \cup {-1, Unit + 1, Infinity}
               [] n = 4  -> {0, 1, Unit, Unit + 1}
               [] n = 5  -> {0, 1, Unit}
               [] OTHER  -> {1, Unit}]
=============================================================================
