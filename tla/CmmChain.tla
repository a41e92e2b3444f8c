------------------------------ MODULE CmmChain ------------------------------
(***************************************************************************)
(* CIccCmm (IccProfLib/IccCmm.cpp): the list of transforms a client builds   *)
(* from profiles, the conversions Begin puts between them, and the apply     *)
(* object made from the list.  AddXform takes profile objects over from the  *)
(* client, or copies them, and deletes those it refuses; a transform owns    *)
(* its profile or borrows that of a neighbour.                               *)
(*                                                                           *)
(* A profile file is given by its header and by the transform tags it holds, *)
(* one for each family of tags (AToB0, AToB1 and AToB3 are "AToB"): the      *)
(* rendering intent picks within a family and is left out, as are late binding *)
(* and the hints; the adjustment of the PCS that an intent calls for is part    *)
(* of the header.  PcsSteps has the steps of the conversions.  The other        *)
(* overloads of AddXform open a profile and call the one modelled;           *)
(* AddXform(pXform), which checks nothing, has no caller.  CIccCmm is     *)
(* used in the order its callers use it: transforms are added, Begin is      *)
(* called once, without transforms that convert their own PCS, and a client  *)
(* whose Begin failed deletes the CMM.                                       *)
(***************************************************************************)
EXTENDS PcsSteps, FiniteSets

CONSTANTS
  File,        \* profile files
  Header,      \* Header[f]: class, space, pcs, spec, mcs, ext, legacy, tags, base,
               \*   pcc, scale, offset, range, biRange, channels, subset
  Samples,     \* samples per pixel of each colour space
  Offers,      \* <<file, lut type>> pairs the client asks for
  Cmm,         \* constructor arguments: [src, dst, firstInput]
  MaxObjects,  \* bound on profile objects made in a behaviour
  CanFail      \* whether allocations, factories and arithmetic checks may fail

NoSpace == "Unknown"
PCS == Colorimetric \cup Spectral
IsCompatSpaceBySamples(x, y) == Samples[x] = Samples[y]
MCS == {Header[f].mcs : f \in File} \ {"None"}
IsCompatSpace(x, y) == x = y \/ {x, y} \subseteq PCS \/ {x, y} \subseteq MCS

Classes == {"Input", "Output", "Link", "Abstract", "Space", "Enc", "MID", "MVIS", "MLNK"}
McsClasses == {"MID", "MVIS", "MLNK"}
LutTypes == {"Color", "Preview", "Gamut", "BRDFParam", "BRDFDirect", "BRDFMcs", "MCS",
             "Tag", "Other"}

(* Device spaces are not PCS spaces: GetSrcSpace and GetDstSpace rename a      *)
(* device Lab or XYZ so that it is none.                                      *)
ASSUME HeaderAssumption ==
  \A f \in File :
    /\ Header[f].class \in Classes /\ Header[f].base \in File
    /\ Header[f].space \in PCS => Header[f].class = "Abstract"
    /\ Header[f].mcs \notin PCS
    /\ Header[Header[f].base].class # "Enc"
    /\ Header[f].pcc \in DOMAIN Pcc
    /\ Header[f].scale \in Level \ {0} /\ Header[f].offset \in Level
    /\ "Chan" \in Header[f].tags => Len(Header[f].channels) = Samples[Header[f].mcs]
    /\ {Header[f].range, Header[f].biRange} \subseteq DOMAIN SpectralRange
    /\ \A s \in {Header[f].space, Header[f].pcs, Header[f].spec} \cap Spectral :
         Samples[s] = SpectralRange[Header[f].range].steps *
                        (IF SpectralType[s] = "BiRef"
                         THEN SpectralRange[Header[f].biRange].steps ELSE 1)

(* Lab and XYZ have three samples. *)
ASSUME SamplesAssumption == Samples["Lab"] = 3 /\ Samples["XYZ"] = 3
ASSUME OffersAssumption == Offers \subseteq File \X LutTypes
ASSUME BoundAssumption == MaxObjects \in Nat /\ CanFail \in BOOLEAN

VARIABLES
  objs,       \* profile objects made so far: [file, io, loaded, freed]
  client,     \* those the client owns
  xforms,     \* m_Xforms
  srcSpace, destSpace, lastSpace, lastInput,
  apply,      \* the list m_pApply or another apply object was made from, or NotMade
  phase,      \* "adding", "begun", "failed", "deleted"
  ret,        \* what the latest call returned
  fault       \* whether a call used a deleted object

vars == <<objs, client, xforms, srcSpace, destSpace, lastSpace, lastInput,
          apply, phase, ret, fault>>
spaces == <<srcSpace, destSpace, lastSpace, lastInput>>

Failing(results) == IF CanFail THEN results ELSE {}

---------------------------------------------------------------------------
(* Profile objects. *)

HeaderOf(os, o) == Header[os[o].file]

Has(os, o, tag) ==
  tag \in os[o].loaded \/ (os[o].io # "none" /\ tag \in HeaderOf(os, o).tags)

Load(os, o, tag) == [os EXCEPT ![o].loaded = @ \cup {tag}]

Delete(os, o) == [os EXCEPT ![o].freed = @ + 1, ![o].io = "none", ![o].loaded = {}]

---------------------------------------------------------------------------
(* Transforms. *)

Profile(x) == x.prof # 0
Abstract(os, x) == x.adjust \/ (Profile(x) /\ HeaderOf(os, x.prof).class = "Abstract")
Extended(os, x) == Profile(x) /\ HeaderOf(os, x.prof).ext
Legacy(os, x) == Profile(x) /\ x.kind = "Lut" /\ HeaderOf(os, x.prof).legacy

PcsOf(os, x) ==
  LET h == HeaderOf(os, x.prof)
  IN IF x.spectral /\ h.spec # "None" THEN h.spec ELSE h.pcs

GetSrcSpace(os, x) ==
  IF ~Profile(x) THEN x.src
  ELSE IF ~x.input THEN PcsOf(os, x)
  ELSE IF x.adjust THEN HeaderOf(os, x.prof).pcs ELSE HeaderOf(os, x.prof).space

GetDstSpace(os, x) ==
  IF ~Profile(x) THEN x.dst
  ELSE IF x.mcs = "To" THEN HeaderOf(os, x.prof).mcs
  ELSE IF x.input THEN PcsOf(os, x) ELSE HeaderOf(os, x.prof).space

GetNumSrcSamples(os, x) ==
  IF ~Profile(x) THEN x.nSrc
  ELSE IF x.mcs = "From" THEN Samples[HeaderOf(os, x.prof).mcs]
  ELSE Samples[IF x.input THEN HeaderOf(os, x.prof).space ELSE PcsOf(os, x)]

GetNumDstSamples(os, x) ==
  IF ~Profile(x) THEN x.nDst
  ELSE IF x.mcs = "To" THEN Samples[HeaderOf(os, x.prof).mcs]
  ELSE Samples[IF x.input THEN PcsOf(os, x) ELSE HeaderOf(os, x.prof).space]

(* Tags whose transforms take the spectral PCS; not those of another intent  *)
(* that are taken on the way to the PCS when the intent has none.            *)
SpectralTags == {"DToB", "BToD", "BrdfParam", "BrdfDirect", "BrdfMToS", "MToS"}

(* The tags Create looks for, in order. *)
SideTags(h, spectral, colorimetric) ==
  (IF h.spec = "None" THEN <<>> ELSE <<spectral>>) \o
  (IF h.pcs = "None" THEN <<>> ELSE <<colorimetric>>)

Wanted(h, lut, input) ==
  CASE lut = "Color" -> IF input THEN <<"DToB", "DToBOther", "AToB">> ELSE <<"BToD", "BToA">>
    [] lut = "Preview" -> <<"Preview">>
    [] lut = "Gamut" -> <<"Gamut">>
    [] lut = "BRDFParam" /\ h.spec # "None" -> <<"BrdfParam">>
    [] lut = "BRDFDirect" -> <<"BrdfDirect", "BrdfDirectOther">>
    [] lut = "BRDFMcs" /\ h.class = "MVIS" -> SideTags(h, "BrdfMToS", "BrdfMToB")
    [] lut = "MCS" /\ h.class \in {"MID", "Input"} -> <<"AToM">>
    [] lut = "MCS" /\ h.class \in {"MVIS", "Output"} -> SideTags(h, "MToS", "MToB")
    [] lut = "MCS" /\ h.class = "MLNK" -> <<"MToA">>
    [] OTHER -> <<>>

CreatedInput(h, lut, input) ==
  CASE lut \in {"Preview", "Gamut"} -> FALSE
    [] lut = "MCS" -> h.class # "MLNK"
    [] OTHER -> input

McsSide(h, lut) ==
  IF lut \notin {"MCS", "BRDFMcs"} THEN "No"
  ELSE IF h.class \in {"MID", "Input"} THEN "To" ELSE "From"

Xform(o, kind, input, mcs, spectral) ==
  [kind |-> kind, prof |-> o, input |-> input, mcs |-> mcs, spectral |-> spectral,
   owns |-> TRUE, adjust |-> FALSE, src |-> NoSpace, dst |-> NoSpace, nSrc |-> 0, nDst |-> 0,
   steps |-> <<>>]

NoXform == Xform(0, "none", FALSE, "No", FALSE)
NotMade == <<NoXform>>

(* A CIccPcsXform has no profile and knows its spaces, of a spectral one the   *)
(* type alone, its sample counts and its steps.                               *)
Conversion(src, dst, nSrc, nDst, steps) ==
  [Xform(0, "Pcs", TRUE, "No", FALSE) EXCEPT !.src = SpaceType(src), !.dst = SpaceType(dst),
                                             !.nSrc = nSrc, !.nDst = nDst, !.steps = steps]

(* Create refuses profile o: it deletes the object when it owns it. *)
NotCreatedAndFreed(os, o, owns) == [x |-> NoXform, objs |-> Delete(os, o)]
NotCreated(os, o, owns) ==
  [x |-> NoXform, objs |-> IF owns THEN Delete(os, o) ELSE os]

(* What Create makes of an object that is not an encoding profile. *)
CreateFrom(os, o, lut, input, owns) ==
  LET h == HeaderOf(os, o)
      found == SelectSeq(Wanted(h, lut, input), LAMBDA tag : Has(os, o, tag))
      Made(kind, os1, spectral) ==
        [x |-> Xform(o, kind, CreatedInput(h, lut, input), McsSide(h, lut), spectral),
         objs |-> os1]
  IN Failing({NotCreated(os, o, owns)}) \cup
     {IF lut = "Tag" THEN Made("Lut", os, FALSE)
      ELSE IF /\ found # <<>>
             /\ (lut \in {"MCS", "BRDFMcs"} => h.mcs # "None")
             /\ (lut \in {"Preview", "Gamut"} => h.pcs \in Colorimetric)
        THEN Made("Lut", Load(os, o, found[1]),
                  h.spec # "None" /\ found[1] \in SpectralTags)
      ELSE IF lut = "Color" /\ h.space = "RGB" THEN Made("Matrix", os, FALSE)
      ELSE NotCreated(os, o, owns)}

(* CIccXform::Create: an encoding profile is first replaced by the profile    *)
(* made from it, all of whose tags are in memory.                             *)
Create(os, o, lut, input, owns) ==
  LET h == HeaderOf(os, o)
      rest == IF owns THEN Delete(os, o) ELSE os
      made == Append(rest, [file |-> h.base, io |-> "none",
                            loaded |-> Header[h.base].tags, freed |-> 0])
  IN IF h.class # "Enc" THEN CreateFrom(os, o, lut, input, owns)
     ELSE IF lut = "Tag" THEN {NotCreated(os, o, owns)}
     ELSE Failing({NotCreated(os, o, owns)}) \cup
          CreateFrom(made, Len(made), lut, input, owns)

---------------------------------------------------------------------------
(* Adding transforms. *)

Step(stat, src, dst, input) == [stat |-> stat, src |-> src, dst |-> dst, input |-> input]

PcsSide(h, lut) == IF h.spec # "None" /\ lut # "Tag" THEN h.spec ELSE h.pcs

(* The spaces between which AddXform takes profile h to convert. *)
LinkOf(h, lut, input) ==
  LET bad == Step("BadSpaceLink", NoSpace, NoSpace, FALSE)
  IN CASE lut \in {"Color", "Tag"} ->
            IF input THEN Step("Ok", h.space, PcsSide(h, lut), TRUE)
            ELSE IF h.class = "Link" THEN bad
            ELSE Step("Ok", PcsSide(h, lut), h.space, h.class = "Abstract")
       [] lut = "Preview" -> Step("Ok", h.pcs, h.pcs, FALSE)
       [] lut = "Gamut" -> Step("Ok", h.pcs, "Gamut", TRUE)
       [] lut \in {"BRDFParam", "BRDFDirect", "BRDFMcs"} ->
            IF ~input THEN bad
            ELSE Step("Ok", [BRDFParam |-> h.space, BRDFDirect |-> "BRDFDirect",
                             BRDFMcs |-> h.mcs][lut],
                      IF lut = "BRDFDirect" THEN h.pcs ELSE "BRDF", TRUE)
       [] lut = "MCS" ->
            IF input THEN Step("Ok", h.space, h.mcs, TRUE)
            ELSE IF h.class \in {"MVIS", "Output"} THEN Step("Ok", h.mcs, PcsSide(h, lut), FALSE)
            ELSE IF h.class = "MLNK" THEN Step("Ok", h.mcs, h.space, FALSE)
            ELSE bad
       [] OTHER -> Step("BadLutType", NoSpace, NoSpace, FALSE)

(* A link that comes in through an MCS makes the previous transform anew as   *)
(* one that ends in the MCS; the new one takes its profile.  The test for a   *)
(* transform that is one already compares a transform type with a lut type    *)
(* and never finds one.                                                       *)
ReplacePreviousAnyway(old, new) == new
ReplacePrevious(old, new) == IF new = NoXform THEN old ELSE new

ConnectPrevious(os) ==
  LET old == xforms[Len(xforms)]
      Replaced(c) == [xforms EXCEPT ![Len(xforms)] = ReplacePrevious(old, c.x)]
  IN IF xforms = <<>> \/ Header[os[old.prof].file].mcs = "None"
     THEN {[ok |-> FALSE, objs |-> os, xforms |-> xforms]}
     ELSE {[ok |-> c.x # NoXform, objs |-> c.objs, xforms |-> Replaced(c)] :
             c \in Create(os, old.prof, "MCS", old.input, FALSE)}

Refusal(stat, os, o, xs, src, last) ==
  [stat |-> stat, objs |-> Delete(os, o), xforms |-> xs,
   src |-> src, last |-> last, input |-> lastInput]

(* AddXform from the check of the spaces on, with the chain xs. *)
Linked(os, o, xs, lut, link) ==
  LET h == HeaderOf(os, o)
      takes == xs = <<>> /\ srcSpace = NoSpace
      src == IF takes THEN link.src ELSE srcSpace
      last == IF takes THEN link.src ELSE lastSpace
      input == link.input \/ h.class = "MVIS"
      Added(c) ==
        [stat |-> "Ok", objs |-> c.objs, xforms |-> Append(xs, c.x), src |-> src,
         last |-> link.dst, input |-> input \/ (c.x.mcs # "No" /\ c.x.input)]
  IN IF ~IsCompatSpace(IF xs = <<>> THEN src ELSE last, link.src)
     THEN {Refusal("BadSpaceLink", os, o, xs, srcSpace, lastSpace)}
     ELSE IF link.src = "Named" THEN {Refusal("BadSpaceLink", os, o, xs, src, last)}
     ELSE {IF c.x = NoXform
           THEN [stat |-> "BadXform", objs |-> c.objs, xforms |-> xs,
                 src |-> src, last |-> last, input |-> lastInput]
           ELSE Added(c) : c \in Create(os, o, lut, input, TRUE)}

(* AddXform of an object that belongs to the CMM from here on. *)
AddOwned(os, o, asked) ==
  LET h == HeaderOf(os, o)
      lut == IF h.class \in McsClasses /\ asked # "Tag" THEN "MCS" ELSE asked
      link == LinkOf(h, lut, ~lastInput)
      After(os1, xs) ==
        IF link.stat # "Ok" THEN {Refusal(link.stat, os1, o, xs, srcSpace, lastSpace)}
        ELSE Linked(os1, o, xs, lut, link)
  IN IF h.class \in McsClasses /\ lut = "Tag"
     THEN {Refusal("BadLutType", os, o, xforms, srcSpace, lastSpace)}
     ELSE IF lut = "MCS" /\ lastInput
     THEN UNION {IF p.ok THEN After(p.objs, p.xforms)
                 ELSE {Refusal("BadMCSLink", p.objs, o, p.xforms, srcSpace, lastSpace)} :
                   p \in ConnectPrevious(os)}
     ELSE After(os, xforms)

NewObject(f, io, loaded) == [file |-> f, io |-> io, loaded |-> loaded, freed |-> 0]

Took(out) ==
  /\ xforms' = out.xforms
  /\ srcSpace' = out.src /\ lastSpace' = out.last /\ lastInput' = out.input
  /\ ret' = out.stat

(* OpenIccProfile: the directory is read, the tags stay in the file. *)
OpenProfile(f) ==
  /\ phase = "adding" /\ Len(objs) < MaxObjects
  /\ objs' = Append(objs, NewObject(f, "own", {}))
  /\ client' = client \cup {Len(objs) + 1}
  /\ ret' = "Ok"
  /\ UNCHANGED <<xforms, spaces, apply, phase, fault>>

(* AddXform(pProfile), and AddXform(pProfile, pXformTag) for "Tag". *)
AddXform(o, lut) ==
  /\ phase = "adding" /\ o \in client /\ <<objs[o].file, lut>> \in Offers
  /\ HeaderOf(objs, o).class = "Enc" => Len(objs) < MaxObjects
  /\ \E out \in AddOwned(objs, o, lut) : Took(out) /\ objs' = out.objs
  /\ client' = client \ {o}
  /\ UNCHANGED <<destSpace, apply, phase, fault>>

(* Whether the copy, still there, gives the client's IO object back.           *)
GivesBackAny(stat, class) == stat = "Ok"
GivesBackNever(stat, class) == FALSE
GivesBack(stat, class) == stat = "Ok" /\ class # "Enc"

(* AddXform(Profile): adds a copy that has the client's IO object until   *)
(* the transform is made.                                                     *)
AddXformByReference(o, lut) ==
  /\ phase = "adding" /\ o \in client /\ <<objs[o].file, lut>> \in Offers
  /\ Len(objs) + (IF HeaderOf(objs, o).class = "Enc" THEN 1 ELSE 0) < MaxObjects
  /\ LET h == HeaderOf(objs, o)
         new == Len(objs) + 1
         lent == NewObject(objs[o].file, IF objs[o].io = "none" THEN "none" ELSE "lent",
                           objs[o].loaded)
     IN IF h.pcs = "None" /\ h.spec = "None"
        THEN /\ objs' = Delete(Append(objs, lent), new)
             /\ ret' = "InvalidProfile"
             /\ UNCHANGED <<xforms, spaces, fault>>
        ELSE /\ \E out \in AddOwned(Append(objs, lent), new, lut) :
                  LET gives == GivesBack(out.stat, h.class)
                  IN /\ Took(out)
                     /\ objs' = IF gives THEN [out.objs EXCEPT ![new].io = "none"]
                                ELSE out.objs
                     /\ fault' = (fault \/ (gives /\ out.objs[new].freed > 0))
             /\ UNCHANGED destSpace
  /\ UNCHANGED <<client, apply, phase>>

---------------------------------------------------------------------------
(* Begin.  What it loads is not recorded: nothing looks for a tag after it. *)

(* Chain xs with new[k] put in behind its first k transforms.                 *)
Interposed(xs, new) ==
  LET Before(k) == Cardinality({j \in DOMAIN new : j < k})
      Place(i) == i + Before(i)
      NewPlace(k) == k + Before(k) + 1
  IN [p \in 1 .. Len(xs) + Cardinality(DOMAIN new) |->
        IF \E k \in DOMAIN new : NewPlace(k) = p
        THEN new[CHOOSE k \in DOMAIN new : NewPlace(k) = p]
        ELSE xs[CHOOSE i \in DOMAIN xs : Place(i) = p]]

RangeXform(x) ==
  [Xform(x.prof, "Lut", TRUE, "No", FALSE) EXCEPT !.owns = FALSE, !.adjust = TRUE]

(* CheckPCSRangeConversions: after an input transform of extended range whose *)
(* successor is not, comes a transform of the same profile's HToS tag.  A     *)
(* conversion that cannot be made is left out.                                *)
RangeConverted(os, xs) ==
  LET NeedsRange(i) ==
        /\ i < Len(xs) /\ xs[i].input /\ Extended(os, xs[i])
        /\ GetDstSpace(os, xs[i]) \in Colorimetric
        /\ ~Extended(os, xs[i + 1])
        /\ Has(os, xs[i].prof, "HToS")
      places == {i \in DOMAIN xs : NeedsRange(i)}
  IN {Interposed(xs, [i \in made |-> RangeXform(xs[i])]) :
        made \in IF CanFail THEN SUBSET places ELSE {places}}

XformBegin(os, x) ==
  Failing({"InvalidProfile"}) \cup
  {IF x.kind # "Matrix" THEN "Ok"
   ELSE IF ~Has(os, x.prof, "TRC") THEN "ProfileMissingTag"
   ELSE IF ~x.input /\ HeaderOf(os, x.prof).pcs # "XYZ" THEN "BadSpaceLink"
   ELSE "Ok"}

(* The transforms begin in order, up to the first that fails. *)
XformsBegin(os, xs) ==
  LET Reached(i) == \A j \in 1 .. i - 1 : "Ok" \in XformBegin(os, xs[j])
  IN UNION {XformBegin(os, xs[i]) \ {"Ok"} : i \in {k \in DOMAIN xs : Reached(k)}}
     \cup (IF Reached(Len(xs) + 1) THEN {"Ok"} ELSE {})

(* A transform as a side of a conversion.  CIccXform::Begin has set the factors  *)
(* by which it adjusts its PCS, those of an output transform the inverse ones.  *)
SideOf(os, x, space) ==
  LET h == HeaderOf(os, x.prof)
      out == Inv[h.scale]
  IN [space |-> space, legacy |-> Legacy(os, x), pcc |-> Pcc[h.pcc],
      scale |-> IF x.input THEN h.scale ELSE out,
      offset |-> IF x.input THEN h.offset ELSE Minus(Mult(h.offset, out)),
      range |-> h.range, biRange |-> h.biRange]
SrcSide(os, x) == SideOf(os, x, GetSrcSpace(os, x))
DstSide(os, x) == SideOf(os, x, GetDstSpace(os, x))

(* CIccPcsXform::Connect. *)
Connect(os, x, y) ==
  LET hx == HeaderOf(os, x.prof)
      hy == HeaderOf(os, y.prof)
  IN IF x.mcs # "No" /\ y.mcs # "No"
     THEN IF Has(os, x.prof, "Chan") /\ Has(os, y.prof, "Chan")
          THEN ConnectMcs(hx.channels, hy.channels, hx.subset \/ hy.subset)
          ELSE Failed("BadSpaceLink")
     ELSE IF ~x.input \/ (y.input /\ ~Abstract(os, y)) THEN Failed("BadSpaceLink")
     ELSE ConnectSides(DstSide(os, x), SrcSide(os, y))

(* Whether a conversion is wanted at place k of chain xs, between xs[k] and    *)
(* xs[k + 1], and what becomes of it.                                        *)
Wants(os, xs, dest, k) ==
  LET n == Len(xs)
      src == GetDstSpace(os, xs[k])
      dst == GetSrcSpace(os, xs[k + 1])
  IN CASE k = 0 -> /\ ~xs[1].input /\ dst \in Colorimetric
                   /\ srcSpace # dst \/ Legacy(os, xs[1])
       [] k = n -> /\ xs[n].input /\ src \in Colorimetric
                   /\ dest # src \/ Legacy(os, xs[n]) \/ Adjusts(DstSide(os, xs[n]))
       [] OTHER -> \/ xs[k].input /\ xs[k].mcs # "No" /\ xs[k + 1].mcs # "No"
                   \/ {src, dst} \cap PCS # {}

ConnectAt(os, xs, dest, k) ==
  Finished(IF ~Wants(os, xs, dest, k) THEN Pushed(<<>>)
           ELSE CASE k = 0 -> ConnectFirst(SrcSide(os, xs[1]), srcSpace)
                  [] k = Len(xs) -> ConnectLast(DstSide(os, xs[k]), dest)
                  [] OTHER -> Connect(os, xs[k], xs[k + 1]))

(* Connect tells the conversion the spaces and samples of both sides, or of    *)
(* two MCS sides the samples alone; ConnectFirst and ConnectLast leave them as *)
(* the constructor set them.                                                  *)
PcsXform(os, x, y, steps) ==
  LET mcs == x.mcs # "No" /\ y.mcs # "No"
  IN Conversion(IF mcs THEN NoSpace ELSE GetDstSpace(os, x),
                IF mcs THEN NoSpace ELSE GetSrcSpace(os, y),
                GetNumDstSamples(os, x), GetNumSrcSamples(os, y), steps)
EndXform(steps) == Conversion(NoSpace, NoSpace, 0, 0, steps)

(* CheckPCSConnections: the chain with its conversions, or the first failure, *)
(* which leaves the chain as it was.  at[k] is what ConnectAt says of place k. *)
ChainOf(os, xs, at) ==
  LET n == Len(xs)
  IN Interposed(xs, [k \in {j \in 0 .. n : at[j].stat = "Ok"} |->
                       IF k \in {0, n} THEN EndXform(at[k].steps)
                       ELSE PcsXform(os, xs[k], xs[k + 1], at[k].steps)])

Connections(os, xs, dest, at) ==
  LET n == Len(xs)
      Reached(k) == \A j \in 0 .. k - 1 : at[j].stat \in {"Ok", "Identity"}
      failures == {at[k].stat : k \in {j \in 0 .. n : Reached(j)}} \ {"Ok", "Identity"}
      mayFail == \E k \in 0 .. n : Reached(k) /\ Wants(os, xs, dest, k)
  IN {[stat |-> f, xforms |-> xs] :
        f \in failures \cup (IF mayFail THEN Failing({"AllocErr", "BadConnection"}) ELSE {})}
     \cup (IF Reached(n + 1) THEN {[stat |-> "Ok", xforms |-> ChainOf(os, xs, at)]} ELSE {})

Connected(os, xs, dest) ==
  IF xs = <<>> THEN {[stat |-> "Ok", xforms |-> xs]}
  ELSE Connections(os, xs, dest, [k \in 0 .. Len(xs) |-> ConnectAt(os, xs, dest, k)])

GetNewApplyCmm == {"Ok"} \cup Failing({"AllocErr"})

(* How far Begin comes with destination dest, and the chain it leaves. *)
Begun(dest, alloc) ==
  LET Result(stat, xs, list) == [stat |-> stat, xforms |-> xs, apply |-> list]
      Applied(xs) == {Result(s, xs, IF s = "Ok" /\ alloc THEN xs ELSE NotMade) :
                        s \in IF alloc THEN GetNewApplyCmm ELSE {"Ok"}}
      Connecting(xs) == UNION {IF c.stat = "Ok" THEN Applied(c.xforms)
                               ELSE {Result(c.stat, xs, NotMade)} :
                                 c \in Connected(objs, xs, dest)}
      Beginning(xs) == UNION {IF s = "Ok" THEN Connecting(xs) ELSE {Result(s, xs, NotMade)} :
                                s \in XformsBegin(objs, xs)}
  IN IF ~IsCompatSpace(dest, lastSpace) \/ srcSpace = "Named" \/ dest = "Named"
     THEN {Result("BadSpaceLink", xforms, NotMade)}
     ELSE UNION {Beginning(xs) : xs \in RangeConverted(objs, xforms)}

Begin(alloc) ==
  LET dest == IF destSpace = NoSpace THEN lastSpace ELSE destSpace
  IN /\ phase = "adding"
     /\ \E out \in Begun(dest, alloc) :
          /\ xforms' = out.xforms /\ apply' = out.apply /\ ret' = out.stat
          /\ phase' = IF out.stat = "Ok" THEN "begun" ELSE "failed"
     /\ destSpace' = dest
     /\ UNCHANGED <<objs, client, srcSpace, lastSpace, lastInput, fault>>

---------------------------------------------------------------------------
(* After Begin. *)

(* A client that makes its own apply objects calls GetNewApplyCmm. *)
NewApply ==
  /\ phase = "begun" /\ apply = NotMade
  /\ \E s \in GetNewApplyCmm : ret' = s /\ apply' = IF s = "Ok" THEN xforms ELSE NotMade
  /\ UNCHANGED <<objs, client, xforms, spaces, phase, fault>>

RemoveAllIO ==
  /\ phase = "begun"
  /\ IF apply = NotMade THEN ret' = "BadXform" /\ UNCHANGED objs
     ELSE /\ ret' = "Ok"
          /\ objs' = [o \in DOMAIN objs |->
                        IF \E i \in DOMAIN xforms : xforms[i].prof = o
                        THEN [objs[o] EXCEPT !.io = "none"] ELSE objs[o]]
  /\ UNCHANGED <<client, xforms, spaces, apply, phase, fault>>

OwnersOf(o) == {i \in DOMAIN xforms : xforms[i].prof = o /\ xforms[i].owns}

(* ~CIccCmm deletes the transforms, each of which deletes the profile it owns. *)
DeleteCmm ==
  /\ phase # "deleted"
  /\ objs' = [o \in DOMAIN objs |->
                IF OwnersOf(o) = {} THEN objs[o]
                ELSE [Delete(objs, o)[o] EXCEPT !.freed = objs[o].freed + Cardinality(OwnersOf(o))]]
  /\ xforms' = <<>> /\ apply' = NotMade
  /\ phase' = "deleted" /\ ret' = "Ok"
  /\ UNCHANGED <<client, spaces, fault>>

Init ==
  /\ objs = <<>> /\ client = {} /\ xforms = <<>> /\ apply = NotMade
  /\ \E c \in Cmm :
       srcSpace = c.src /\ destSpace = c.dst /\ lastSpace = c.src /\ lastInput = ~c.firstInput
  /\ phase = "adding" /\ ret = "Ok" /\ fault = FALSE

Next ==
  \/ \E f \in File : OpenProfile(f)
  \/ \E o \in 1 .. MaxObjects, lut \in LutTypes : AddXform(o, lut)
  \/ \E o \in 1 .. MaxObjects, lut \in LutTypes : AddXformByReference(o, lut)
  \/ \E alloc \in BOOLEAN : Begin(alloc)
  \/ NewApply
  \/ RemoveAllIO
  \/ DeleteCmm

Spec == Init /\ [][Next]_vars

---------------------------------------------------------------------------
(* Properties. *)

Space == DOMAIN Samples \cup {SpaceType(s) : s \in DOMAIN Samples}
Steps == [kind : StepKinds, in : Nat, out : Nat, k : Level]
Xforms(kinds) == [kind : kinds, prof : 0 .. MaxObjects, input : BOOLEAN,
                  mcs : {"No", "To", "From"}, spectral : BOOLEAN, owns : BOOLEAN,
                  adjust : BOOLEAN, src : Space, dst : Space, nSrc : Nat, nDst : Nat,
                  steps : Seq(Steps)]

(* The variables keep their types: the chain holds transforms of the CMM's     *)
(* profiles and, once Begin came that far, conversions between them.          *)
TypeOK ==
  /\ Len(objs) <= MaxObjects
  /\ \A o \in DOMAIN objs :
       /\ objs[o].file \in File /\ objs[o].io \in {"none", "own", "lent"}
       /\ objs[o].freed \in 0 .. 1
  /\ client \subseteq DOMAIN objs
  /\ \A i \in DOMAIN xforms :
       /\ xforms[i] \in Xforms(IF phase = "adding" THEN {"Lut", "Matrix"}
                               ELSE {"Lut", "Matrix", "Pcs"})
       /\ xforms[i].prof = 0 <=> xforms[i].kind = "Pcs"
       /\ xforms[i].prof \in 0 .. Len(objs)
  /\ apply \in {NotMade, xforms} /\ fault \in BOOLEAN
  /\ phase \in {"adding", "begun", "failed", "deleted"}

(* Every profile object has exactly one owner, the client or a transform of    *)
(* the chain, until it is deleted once: AddXform takes an object over or        *)
(* deletes it on every error path, and an object lent to Create survives it.    *)
OneOwner ==
  \A o \in DOMAIN objs :
    Cardinality(OwnersOf(o)) + Cardinality({o} \cap client) + objs[o].freed = 1

(* No transform refers to a deleted profile, and no call used one: a range      *)
(* conversion's profile, which it borrows, lives as long as it does.           *)
NoDangling ==
  ~fault /\ \A i \in DOMAIN xforms : Profile(xforms[i]) => objs[xforms[i].prof].freed = 0

(* Between two calls no profile of the CMM still reads through the IO object     *)
(* of a client's profile, which the client may close when it likes.            *)
LentReturned == \A o \in DOMAIN objs : objs[o].io # "lent"

(* In a chain that can be applied, what one transform puts out is in the space   *)
(* the next takes in, whatever order of profiles and lut types AddXform let      *)
(* through.  Transforms to or from an MCS are left out: their channels are       *)
(* matched instead, and AddXform takes an MLNK profile in the direction the      *)
(* chain needs while Create makes it convert from the MCS always.              *)
ChainConnects ==
  apply # NotMade =>
    \A i \in 1 .. Len(apply) - 1 :
      LET x == apply[i]
          y == apply[i + 1]
      IN \/ NoSpace \in {GetDstSpace(objs, x), GetSrcSpace(objs, y)}
         \/ x.mcs # "No" \/ y.mcs # "No"
         \/ SpaceType(GetDstSpace(objs, x)) = SpaceType(GetSrcSpace(objs, y))

(* In a chain that can be applied, every level one transform puts out reaches    *)
(* the next as the level that means the same colour there, whichever conversion   *)
(* is between them and however Optimize made it shorter; a place without a       *)
(* conversion needs none.  The same holds between the client's encodings and the  *)
(* ends, which adjust their own PCS.  Each step reads what the one before writes,  *)
(* in a buffer that has room.  Left out are transforms that meet in an MCS,       *)
(* spectra without viewing conditions, from which nothing is pushed, a            *)
(* bi-directional reflectance whose viewing conditions lack a spectrum, as its    *)
(* way to Lab ends without steps and succeeds, a client's spectrum, the Lab of a  *)
(* client whose first transform takes XYZ, which ConnectFirst does not encode,    *)
(* and the PCS of a client at whose end is an abstract profile that is taken for  *)
(* a device, which is not converted.                                          *)
StepsAt(i) == IF i \in DOMAIN apply /\ ~Profile(apply[i]) THEN apply[i].steps ELSE <<>>
After(i) == IF i < Len(apply) /\ ~Profile(apply[i + 1]) THEN i + 2 ELSE i + 1

TakenFromClient(i) ==
  LET y == SrcSide(objs, apply[i])
      exempt == (srcSpace = "Lab" /\ y.space = "XYZ") \/ Abstract(objs, apply[i])
  IN {srcSpace, y.space} \subseteq Colorimetric /\ ~exempt =>
       Carries(Client(y, srcSpace), Unadjusted(y), StepsAt(i - 1))

GivenToClient(i) ==
  LET x == DstSide(objs, apply[i])
      exempt == Abstract(objs, apply[i]) /\ ~apply[i].input
  IN {x.space, destSpace} \subseteq Colorimetric /\ ~exempt =>
       Carries(Unadjusted(x), Client(x, destSpace), StepsAt(i + 1))

Seen(side) ==
  /\ side.pcc.view
  /\ SpaceType(side.space) = "BiRef" => 0 \notin {side.pcc.illum, side.pcc.obs}

HandedOn(i) ==
  LET x == DstSide(objs, apply[i])
      y == SrcSide(objs, apply[After(i)])
      steps == StepsAt(i + 1)
  IN {x.space, y.space} \subseteq PCS /\ (x.space \in Spectral => Seen(x)) =>
       /\ Carries(x, y, steps)
       /\ Chained(steps, Samples[x.space], Samples[y.space])

ColourCarried ==
  apply # NotMade =>
    \A i \in {j \in DOMAIN apply : Profile(apply[j])} :
      /\ (\A j \in 1 .. i - 1 : ~Profile(apply[j])) => TakenFromClient(i)
      /\ After(i) > Len(apply) => GivenToClient(i)
      /\ After(i) <= Len(apply) =>
           ("No" \in {apply[i].mcs, apply[After(i)].mcs} => HandedOn(i))

(* An AddXform that is refused leaves the chain with the same profiles in the    *)
(* same order, though it may have made the last transform anew.                *)
RefusalKeepsProfiles ==
  [][phase' = "adding" /\ ret' # "Ok" =>
       /\ Len(xforms') = Len(xforms)
       /\ \A i \in DOMAIN xforms : xforms'[i].prof = xforms[i].prof]_vars

(* Neighbours in a chain agree on the samples of a pixel, and its ends on those  *)
(* of the CMM's source and destination: the strides by which ApplyN, the default *)
(* that "applies single-pixel Apply for each pixel", walks through the buffers   *)
(* of a multi-pixel Apply.                                                     *)
StridesAgree ==
  apply \notin {NotMade, <<>>} =>
    /\ GetNumSrcSamples(objs, apply[1]) = Samples[srcSpace]
    /\ GetNumDstSamples(objs, apply[Len(apply)]) = Samples[destSpace]
    /\ \A i \in 1 .. Len(apply) - 1 :
         GetNumDstSamples(objs, apply[i]) = GetNumSrcSamples(objs, apply[i + 1])
=============================================================================
