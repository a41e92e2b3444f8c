--------------------------- MODULE MCCalcElement ---------------------------
(***************************************************************************)
(* Instances of CalcElement.  Written holds functions as ParseFuncDef writes  *)
(* them: a branching operator is followed by its else, case and dflt, then   *)
(* by their blocks.  Odd holds what Read takes from a file as it is: short   *)
(* sequences of any operators, and parsed functions with one size changed.   *)
(***************************************************************************)
EXTENDS CalcElement, SequencesExt

O(s, x, y) == [sig |-> s, a |-> x, b |-> y]
Size(s, block) == O(s, Len(block), 0)

IfCode(t) == <<Size("if", t)>> \o t
IfElseCode(t, f) == <<Size("if", t), Size("else", f)>> \o t \o f
SelCode(cases) ==
  <<O("sel", 0, 0)>> \o [k \in DOMAIN cases |-> Size("case", cases[k])]
    \o FlattenSeq(cases)
SelDefaultCode(cases, other) ==
  <<O("sel", 0, 0)>> \o [k \in DOMAIN cases |-> Size("case", cases[k])]
    \o <<Size("dflt", other)>> \o FlattenSeq(cases) \o other

Num == O("data", 0, 0)
Put == O("tput", 0, 0)
Get == O("tget", 0, 0)
GetNext == O("tget", 1, 0)

Blocks == {<<>>, <<Num, Num>>, <<Num, Put>>, <<Get>>, <<O("pop", 0, 0)>>}

Branches ==
  Blocks
  \cup {IfCode(t) : t \in Blocks}
  \cup {IfElseCode(t, f) : t \in Blocks, f \in Blocks}
  \cup {SelCode(<<t>>) : t \in Blocks}
  \cup {SelDefaultCode(<<t>>, f) : t \in Blocks, f \in Blocks}
  \cup {SelDefaultCode(<<s, <<Num, Put>>>>, f) : s \in Blocks, f \in Blocks}

Heads == {<<Num>>, <<Num, Num, Num>>}
Tails == {<<>>, <<O("if", 0, 0)>>, <<Get, O("add", 0, 0)>>, <<O("out", 0, 0)>>,
          <<O("in", 0, 1), O("solv", 0, 1)>>}

Nested ==
  {IfElseCode(<<Num>> \o IfCode(<<Num>> \o IfElseCode(t, <<Num>>)), f) :
     t \in Blocks, f \in Blocks}
  \cup {SelDefaultCode(<<IfElseCode(t, <<Get>>), <<Num>> \o SelCode(<<t>>)>>, t) :
     t \in {<<Num>>} \cup Blocks}
  \cup {SelDefaultCode(<<<<Num>> \o IfElseCode(<<Num>> \o IfElseCode(t, t), t)>>, t) :
     t \in {<<Num>>} \cup Blocks}

Plain ==
  {<<O("in", 0, 1), O("in", 0, 1), o, O("out", 0, 0)>> :
     o \in {O("copy", 0, 0), O("copy", 1, 1), O("copy", 3, 1), O("rotl", 2, 1), O("flip", 1, 0),
            O("posd", 1, 2), O("solv", 0, 0), O("solv", 1, 1), O("tran", 1, 1),
            O("sum", 1, 0), O("sadd", 1, 0), O("add", 1, 0), O("polar", 1, 0),
            O("lab", 0, 0), O("neg", 1, 0), O("elem", 0, 0), O("elem", 1, 0),
            O("env", 0, 0), O("const", 0, 0), O("tsav", 0, 1), O("bad", 0, 0)}}

(* A full stack and a tran or solv that takes more, as the counts of the     *)
(* static check are cut to the largest stack.                                *)
Full ==
  {[k \in 1 .. 7 |-> Num] \o <<o, O("pop", 0, 0)>> :
     o \in {O("tran", 0, 6), O("tran", 3, 3), O("tran", 7, 3), O("tran", 7, 6),
            O("tran", 7, 7), O("solv", 7, 6), O("solv", 7, 7)}}

Written ==
  {h \o b \o t : h \in Heads, b \in Branches \cup Nested, t \in Tails} \cup Plain

Some == {O("data", 0, 0), O("add", 0, 0), O("in", 0, 0), O("in", 1, 1), O("out", 0, 0),
         O("tput", 0, 1), O("if", 0, 0), O("if", 1, 0), O("if", 2, 0), O("else", 0, 0),
         O("else", 1, 0), O("sel", 0, 0), O("case", 0, 0), O("case", 1, 0), O("dflt", 1, 0)}

Resized(p) ==
  {[p EXCEPT ![j].a = x] : j \in {k \in DOMAIN p : p[k].sig \in Flow}, x \in {0, 1, 4}}

Odd ==
  BoundedSeq(Some, 3)
  \cup {<<Num>> \o s : s \in [1 .. 3 -> Some]}
  \cup UNION {Resized(<<Num>> \o b) : b \in Branches \cup Nested}

ManyTemps == {<<Num, Num, O("tput", 3, 1), Num, Num>>, <<Num, O("tput", 3, 0)>>}

All == Written \cup Odd \cup Full \cup ManyTemps

ASSUME WrittenAssumption == \A p \in Written : WellNested(p)

TwoElems == <<[in |-> 2, out |-> 3], [in |-> 5, out |-> 1]>>
=============================================================================
