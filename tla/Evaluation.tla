----------------------------- MODULE Evaluation -----------------------------
(***************************************************************************)
(* One transform from Begin to its pixels: the classes made from a profile's *)
(* curves and lookup tables (CIccXformMonochrome, CIccXformMatrixTRC,        *)
(* CIccXform3DLut, 4DLut and NDLut) and the one made from a chain of         *)
(* elements (CIccXformMpe with CIccTagMultiProcessElement), in               *)
(* IccProfLib/IccCmm.cpp and IccTagMPE.cpp.                                  *)
(*                                                                           *)
(* A pixel is what was done to it (by) and how many of its channels have     *)
(* been written (n).  Where a table is looked up, the source is any of       *)
(* Sources and the entries read are kept in looked.                          *)
(*                                                                           *)
(* Callers take curves out of a begun transform, each once, and before they  *)
(* make apply objects.                                                       *)
(***************************************************************************)
EXTENDS Lookup

CONSTANTS
  Transforms,     \* the transforms considered
  Sources(_),     \* of each table, the sources looked up
  MaxPixels       \* bound on the pixels one apply object transforms

NoTable == [form |-> "none", clip |-> "unit", grid |-> <<>>, out |-> 0, lo |-> 0, hi |-> 0,
            zero |-> FALSE]
Curves == {"none", "identity", "real"}

(* from and space: the samples of the two sides; A, B and M curves, matrix and     *)
(* table of a lookup tag; of a matrix or grey profile, A are its TRCs.       *)
Classes == {"mono", "matrix", "3d", "4d", "nd", "mpe"}
ASSUME TransformsAssumption ==
  \A x \in Transforms :
    /\ x.class \in Classes /\ {x.input, x.inputMatrix, x.tetra, x.adjust} \subseteq BOOLEAN
    /\ {x.A, x.B, x.M} \subseteq Curves
    /\ {x.nIn, x.nOut, x.from, x.space} \subseteq 1 .. 16
    /\ Len(x.elems) \in Nat /\ DOMAIN x.elems = 1 .. Len(x.elems)
    /\ \A i \in DOMAIN x.elems : x.elems[i].in \in Nat /\ x.elems[i].out \in Nat

(* A transform that begins has begun its tables, each of as many inputs as   *)
(* what holds it, and a source has a number for each.                        *)
Serves(t, n) ==
  t # NoTable =>
    /\ ClutBegins(t, n) \/ (n = 1 /\ CurveBegins(t) /\ CurveEnds(t))
    /\ Sources(t) \subseteq [1 .. n -> Int]
ASSUME TablesAssumption ==
  \A x \in Transforms :
    Serves(x.table, x.nIn) /\ \A i \in DOMAIN x.elems : Serves(x.elems[i].table, x.elems[i].in)
ASSUME MaxPixelsAssumption == MaxPixels \in Nat

VARIABLES
  xform,    \* the transform
  phase,    \* "loaded", "refused", "begun", "ready", "applying", "done"
  uses,     \* the parts Apply will use (m_ApplyCurvePtr..., m_ApplyMatrixPtr)
  taken,    \* the curves the caller has taken out
  room,     \* of each table, the nodes its scratch memory has room for
  chain,    \* the elements the apply object has, by position in the tag
  todo,     \* what is left to do to the pixel
  cells,    \* source, destination, a local pixel and the two buffers of a chain
  inPlace,  \* whether the destination is the source
  swapped,  \* whether the buffers have changed roles
  looked,   \* the last lookup of this pixel
  pixels

vars == <<xform, phase, uses, taken, room, chain, todo, cells, inPlace, swapped, looked, pixels>>

NoLookup == [table |-> NoTable, src |-> <<>>, method |-> "none", entries |-> {}, room |-> 0]
Pixel(by, n) == [by |-> by, n |-> n]
Empty == Pixel(<<>>, 0)
Places == {"src", "temp", "dst", "one", "two"}

Init ==
  /\ xform \in Transforms
  /\ phase = "loaded"
  /\ uses = {} /\ taken = {}
  /\ room = <<>>
  /\ chain = <<>> /\ todo = <<>>
  /\ cells = [p \in Places |-> Empty]
  /\ inPlace = FALSE /\ swapped = FALSE
  /\ looked = NoLookup
  /\ pixels = 0

HasTable(x) == x.table # NoTable
Positions(x) == [i \in 1 .. Len(x.elems) |-> i]
-----------------------------------------------------------------------------
(* Begin.  A part that changes nothing is not used. *)
Real(x, parts) == {p \in parts : x[p] = "real"}

Begins3DLut(x) ==
  /\ x.nIn = 3
  /\ x.space = x.nOut
  /\ x.matrix # "none" => (x.inputMatrix \/ x.nOut = 3)

BeginsOtherLut(x) ==
  /\ IF x.class = "4d" THEN x.nIn = 4 ELSE x.nIn \notin 3 .. 4
  /\ x.space = x.nOut
  /\ x.matrix # "none" => ~x.inputMatrix /\ x.nOut = 3

UsedOtherLut(x) == Real(x, IF x.inputMatrix THEN {"A", "B"} ELSE {"A", "B", "M", "matrix"})

(* Neighbours in a chain agree, and so do its ends with the tag and the tag  *)
(* with the transform; an empty chain has as many channels in as out.        *)
ChainAgrees(x) ==
  LET e == x.elems IN
  /\ x.from = x.nIn /\ x.space = x.nOut
  /\ IF e = <<>> THEN x.nIn = x.nOut
     ELSE /\ e[1].in = x.nIn /\ e[Len(e)].out = x.nOut
          /\ \A i \in 2 .. Len(e) : e[i].in = e[i - 1].out
          /\ \A i \in DOMAIN e : e[i].acs => e[i].in = e[i].out

Begins(x) ==
  CASE x.class = "mono"             -> x.A # "none"
    [] x.class = "matrix"           -> /\ x.A # "none" /\ x.matrix # "none"
                                       /\ ~x.input => x.pcsXYZ /\ x.matrix # "singular"
    [] x.class = "3d"               -> Begins3DLut(x)
    [] x.class \in {"4d", "nd"}     -> BeginsOtherLut(x)
    [] x.class = "mpe"              -> ChainAgrees(x)

Used(x) ==
  CASE x.class \in {"mono", "matrix"}   -> Real(x, {"A"})
    [] x.class = "3d"                   -> Real(x, {"A", "B", "M", "matrix"})
    [] x.class \in {"4d", "nd"}         -> UsedOtherLut(x)
    [] x.class = "mpe"                  -> {}

Begin ==
  /\ phase = "loaded"
  /\ IF Begins(xform) THEN phase' = "begun" /\ uses' = Used(xform)
     ELSE phase' = "refused" /\ uses' = uses
  /\ UNCHANGED <<xform, taken, room, chain, todo, cells, inPlace, swapped, looked, pixels>>

(* The caller takes the curves next to the device, to use them itself. *)
DeviceCurvesA(x) == "A"
DeviceCurves(x) ==
  CASE x.class \in {"mono", "matrix"}                  -> "A"
    [] x.class \in {"3d", "4d", "nd"} /\ x.input       -> IF x.inputMatrix THEN "B" ELSE "A"
    [] x.class \in {"3d", "4d", "nd"} /\ ~x.input      -> IF x.inputMatrix THEN "A" ELSE "B"

ExtractCurves ==
  /\ phase = "begun"
  /\ xform.class # "mpe" /\ taken = {}
  /\ xform[DeviceCurves(xform)] # "none"
  /\ taken' = {DeviceCurves(xform)}
  /\ uses' = uses \ taken'
  /\ UNCHANGED <<xform, phase, room, chain, todo, cells, inPlace, swapped, looked, pixels>>
-----------------------------------------------------------------------------
(* An apply object has scratch memory for the nodes of its table, and for a  *)
(* chain two buffers and the elements, of which those that cannot be made    *)
(* are missing.  A spectral element counts the nodes of the table it was     *)
(* read with, which Begin did not begin.                                     *)
NodesOf(t) == IF t.clip = "as is" THEN 0 ELSE TwoTo[Inputs(t)]
ElemOf(i) == xform.elems[i]
TableAt(i) == IF i = 0 THEN xform.table ELSE ElemOf(i).table
InputsAt(i) == IF i = 0 THEN xform.nIn ELSE ElemOf(i).in

NewApply ==
  /\ phase = "begun"
  /\ \E missing \in SUBSET DOMAIN xform.elems :
       chain' = Kept(Positions(xform), DOMAIN xform.elems \ missing)
  /\ room' = [i \in {0} \cup DOMAIN xform.elems |-> NodesOf(TableAt(i))]
  /\ swapped' = FALSE
  /\ phase' = "ready"
  /\ UNCHANGED <<xform, uses, taken, todo, cells, inPlace, looked, pixels>>

NewApplyFails ==
  /\ phase = "begun"
  /\ phase' = "refused"
  /\ UNCHANGED <<xform, uses, taken, room, chain, todo, cells, inPlace, swapped, looked, pixels>>
-----------------------------------------------------------------------------
(* Apply of the classes without a chain. *)
LutParts(x) ==
  CASE x.class = "3d" /\ x.inputMatrix           -> <<"B", "matrix", "M", "table", "A">>
    [] x.class \in {"4d", "nd"} /\ x.inputMatrix -> <<"B", "table", "A">>
    [] OTHER                                     -> <<"A", "table", "M", "matrix", "B">>

LutSteps(x) == Kept(LutParts(x), uses \cup (IF HasTable(x) THEN {"table"} ELSE {}))

Steps(x) ==
  CASE x.class = "mono"                 -> Kept(IF x.input THEN <<"A", "white">> ELSE <<"white", "A">>,
                                                uses \cup {"white"})
    [] x.class = "matrix"               -> Kept(IF x.input THEN <<"A", "matrix">> ELSE <<"matrix", "A">>,
                                                uses \cup {"matrix"})
    [] x.class \in {"3d", "4d", "nd"}   -> LutSteps(x)
    [] x.class = "mpe"                  -> <<>>

(* A PCS that has to be adjusted is, on its side of the transform; elements  *)
(* get it in its real encoding.                                              *)
BeforeChain(x) == IF ~x.input /\ x.pcs THEN <<"decode">> ELSE <<>>
AfterChain(x) == IF x.input /\ x.pcs THEN <<"encode">> ELSE <<>>
CheckSrcAbs(x) == IF x.adjust /\ ~x.input THEN <<"adjust">> ELSE <<>>
CheckDstAbs(x) == IF x.adjust /\ x.input THEN <<"adjust">> ELSE <<>>

(* The local pixel has the inputs, and zeroes up to the outputs but for a    *)
(* transform of four inputs.                                                 *)
Written(x) == IF x.class = "4d" THEN 4 ELSE Larger(x.nIn, x.nOut)

(* What is adjusted or decoded is a copy of the source.                     *)
Copied(x) == CheckSrcAbs(x) \o BeforeChain(x) # <<>>
Source == IF xform.class = "mpe" /\ ~Copied(xform) THEN "src" ELSE "temp"
Destination == IF inPlace THEN "src" ELSE "dst"

StartPixel(place) ==
  /\ phase = "ready" /\ pixels < MaxPixels
  /\ inPlace' = place
  /\ IF xform.class = "mpe"
     THEN /\ todo' = chain
          /\ cells' = [cells EXCEPT ![Source] = Pixel(CheckSrcAbs(xform) \o BeforeChain(xform), xform.nIn),
                                    !["dst"] = Empty]
     ELSE /\ todo' = Steps(xform)
          /\ cells' = [cells EXCEPT !["temp"] = Pixel(CheckSrcAbs(xform), Written(xform)),
                                    !["dst"] = Empty]
  /\ phase' = "applying"
  /\ pixels' = pixels + 1
  /\ UNCHANGED <<xform, uses, taken, room, chain, swapped, looked>>

(* After a table or a white has been used all outputs are written. *)
Done(p, s) == Pixel(Append(p.by, s), IF s \in {"table", "white"} THEN xform.nOut ELSE p.n)

LookedUp(i) ==
  LET t == TableAt(i)
      m == IF t.form = "clut" THEN Method(xform.class, InputsAt(i), xform.tetra) ELSE "none"
  IN IF t = NoTable THEN looked' = NoLookup
     ELSE \E src \in Sources(t) :
            looked' = [table |-> t, src |-> src, method |-> m, entries |-> LookUp(t, src, m),
                       room |-> room[i]]

LutStep ==
  /\ phase = "applying" /\ xform.class # "mpe" /\ todo # <<>>
  /\ cells' = [cells EXCEPT !["temp"] = Done(@, Head(todo))]
  /\ IF Head(todo) = "table" THEN LookedUp(0) ELSE looked' = NoLookup
  /\ todo' = Tail(todo)
  /\ UNCHANGED <<xform, phase, uses, taken, room, chain, inPlace, swapped, pixels>>

LutDone ==
  /\ phase = "applying" /\ xform.class # "mpe" /\ todo = <<>>
  /\ cells' = [cells EXCEPT ![Destination] =
                 Pixel(cells["temp"].by \o CheckDstAbs(xform), Smaller(cells["temp"].n, xform.nOut))]
  /\ phase' = "done"
  /\ looked' = NoLookup
  /\ UNCHANGED <<xform, uses, taken, room, chain, todo, inPlace, swapped, pixels>>
-----------------------------------------------------------------------------
(* Apply of a chain.  An element reads its inputs from one place and writes  *)
(* its outputs to another; what it reads beyond what was written there, or   *)
(* from where it writes, is another pixel's.                                 *)
SrcBufNotSwitched == "one"
SrcBuf == IF swapped THEN "two" ELSE "one"
DstBuf == IF swapped THEN "one" ELSE "two"

Ran(i, from, to) ==
  LET e == ElemOf(i)
      p == cells[from]
      sound == p.n >= e.in /\ (from # to \/ e.acs)
  IN Pixel(IF ~sound THEN <<"stale">> ELSE IF e.acs THEN p.by ELSE Append(p.by, i), e.out)

Element(i, from, to) ==
  /\ cells' = [cells EXCEPT ![to] = Ran(i, from, to)]
  /\ LookedUp(i)

First == Len(todo) = Len(chain)
Last == Len(todo) = 1

(* The only element writes to a buffer when source and destination are one. *)
OnlyElement ==
  /\ phase = "applying" /\ xform.class = "mpe" /\ Len(chain) = 1 /\ First
  /\ IF Source = Destination
     THEN LET p == Ran(todo[1], Source, DstBuf)
          IN /\ cells' = [cells EXCEPT ![DstBuf] = p, ![Destination] = Pixel(p.by, xform.nOut)]
             /\ LookedUp(todo[1])
     ELSE Element(todo[1], Source, Destination)
  /\ todo' = Tail(todo)
  /\ UNCHANGED <<xform, phase, uses, taken, room, chain, inPlace, swapped, pixels>>

FirstElement ==
  /\ phase = "applying" /\ xform.class = "mpe" /\ Len(chain) > 1 /\ First
  /\ Element(todo[1], Source, DstBuf)
  /\ swapped' = ~swapped
  /\ todo' = Tail(todo)
  /\ UNCHANGED <<xform, phase, uses, taken, room, chain, inPlace, pixels>>

(* An ACS element only passes its pixel on; in the middle it is passed over. *)
SkipAcs ==
  /\ phase = "applying" /\ xform.class = "mpe" /\ ~First /\ Len(todo) > 1
  /\ ElemOf(todo[1]).acs
  /\ todo' = Tail(todo)
  /\ UNCHANGED <<xform, phase, uses, taken, room, chain, cells, inPlace, swapped, looked, pixels>>

NextElement ==
  /\ phase = "applying" /\ xform.class = "mpe" /\ ~First /\ Len(todo) > 1
  /\ ~ElemOf(todo[1]).acs
  /\ Element(todo[1], SrcBuf, DstBuf)
  /\ swapped' = ~swapped
  /\ todo' = Tail(todo)
  /\ UNCHANGED <<xform, phase, uses, taken, room, chain, inPlace, pixels>>

LastElement ==
  /\ phase = "applying" /\ xform.class = "mpe" /\ ~First /\ Last
  /\ Element(todo[1], SrcBuf, Destination)
  /\ todo' = <<>>
  /\ UNCHANGED <<xform, phase, uses, taken, room, chain, inPlace, swapped, pixels>>

(* Without elements the inputs are copied. *)
ChainDone ==
  /\ phase = "applying" /\ xform.class = "mpe" /\ todo = <<>>
  /\ LET p == cells[IF chain = <<>> THEN Source ELSE Destination]
     IN cells' = [cells EXCEPT ![Destination] =
                    Pixel(p.by \o AfterChain(xform) \o CheckDstAbs(xform), p.n)]
  /\ phase' = "done"
  /\ looked' = NoLookup
  /\ UNCHANGED <<xform, uses, taken, room, chain, todo, inPlace, swapped, pixels>>

EndPixel ==
  /\ phase = "done"
  /\ phase' = "ready"
  /\ UNCHANGED <<xform, uses, taken, room, chain, todo, cells, inPlace, swapped, looked, pixels>>

Next ==
  \/ Begin \/ ExtractCurves \/ NewApply \/ NewApplyFails
  \/ \E place \in BOOLEAN : StartPixel(place)
  \/ LutStep \/ LutDone
  \/ OnlyElement \/ FirstElement \/ SkipAcs \/ NextElement \/ LastElement \/ ChainDone
  \/ EndPixel

Spec == Init /\ [][Next]_vars
-----------------------------------------------------------------------------
(* Where the code does something else (see the README): the first of four    *)
(* inputs when the first two grids differ, scratch memory of spectral        *)
(* elements with seven inputs, arrays of integers, and curve tags of more    *)
(* entries than an index has values; a lookup tag of four or more inputs     *)
(* ignores M curves before its table, and one of four inputs without a table *)
(* leaves outputs beyond the fourth unwritten; and an element whose apply    *)
(* object could not be made is left out.                                     *)
Confused(l) ==
  \/ l.method = "4d" /\ l.table.grid[1] # l.table.grid[2]
  \/ l.method = "nd" /\ l.table.clip = "as is"
  \/ l.table.clip = "integers"
  \/ l.table.form = "curve" /\ l.table.grid[1] > IndexRange

Dropped(x) == x.class \in {"4d", "nd"} /\ x.inputMatrix /\ x.M = "real"
Unwritten(x) == x.class = "4d" /\ ~HasTable(x) /\ x.nOut > 4
Incomplete == Len(chain) < Len(xform.elems)

(* Whatever the source, a lookup reads entries the table has, and the        *)
(* scratch memory it uses has room for every node; for a number the weights  *)
(* are those of the interpolation meant (Interp1d to InterpND,               *)
(* IccTagLut.cpp:2602-3425, and the curves' and arrays' own), but where a    *)
(* sampled curve's first entry is above its last: Begin takes such a curve   *)
(* and Apply never interpolates it (IccMpeBasic.cpp:1779-1838).              *)
Interpolates ==
  looked # NoLookup /\ ~Confused(looked) =>
    /\ Reads(looked.table, looked.entries) \subseteq NumbersOf(looked.table)
    /\ looked.method = "nd" => looked.room >= TwoTo[Inputs(looked.table)]
    /\ ~Reversed(looked.table) /\ (\A k \in DOMAIN looked.src : IsFinite(looked.src[k])) =>
         {e \in looked.entries : e[2] # 0}
           = {e \in Meant(looked.table, looked.src, looked.method) : e[2] # 0}

(* A pixel goes through the curves, matrix and table of its tag once each    *)
(* and in the order the tag's direction says, with the curves the caller has *)
(* taken out before or after the rest; the PCS is adjusted on its own side   *)
(* only; and every output is written (IccCmm.cpp:5266-7009).                 *)
Order(x) ==
  CASE x.class = "mono"                -> IF x.input THEN <<"A", "white">> ELSE <<"white", "A">>
    [] x.class = "matrix"              -> IF x.input THEN <<"A", "matrix">> ELSE <<"matrix", "A">>
    [] x.class \in {"3d", "4d", "nd"} /\ x.inputMatrix
                                       -> <<"B", "matrix", "M", "table", "A">>
    [] x.class \in {"3d", "4d", "nd"} /\ ~x.inputMatrix
                                       -> <<"A", "table", "M", "matrix", "B">>

Stages == {"A", "B", "M", "matrix", "table", "white"}
InForce(x, p) ==
  CASE p = "white" \/ (x.class = "matrix" /\ p = "matrix") -> TRUE
    [] p = "table" -> HasTable(x)
    [] OTHER       -> x[p] = "real"

CallersCurves == Kept(<<"A", "B">>, Real(xform, taken))
WithTaken(by) == IF xform.input THEN CallersCurves \o by ELSE by \o CallersCurves
Unadjusted(by) == Kept(by, {by[i] : i \in DOMAIN by} \ {"adjust"})

StagesInOrder ==
  phase = "done" /\ xform.class # "mpe" /\ ~Dropped(xform) /\ ~Unwritten(xform) =>
    LET p == cells[Destination] IN
    /\ WithTaken(Unadjusted(p.by)) = Kept(Order(xform), {q \in Stages : InForce(xform, q)})
    /\ xform.adjust => p.by[IF xform.input THEN Len(p.by) ELSE 1] = "adjust"
    /\ p.n >= xform.nOut

(* A pixel of a chain has gone through every element that changes pixels,    *)
(* each once and in order, in whatever buffers, in place or not, as often as *)
(* the apply object is used (IccTagMPE.cpp:1489-1565); elements see a PCS in *)
(* its real encoding.                                                        *)
Elements == Kept(Positions(xform), {i \in DOMAIN xform.elems : ~xform.elems[i].acs})

ChainCarried ==
  phase = "done" /\ xform.class = "mpe" /\ ~Incomplete =>
    cells[Destination] =
      Pixel(CheckSrcAbs(xform) \o BeforeChain(xform) \o Elements
              \o AfterChain(xform) \o CheckDstAbs(xform), xform.nOut)
=============================================================================
