------------------------------ MODULE PcsSteps ------------------------------
(***************************************************************************)
(* CIccPcsXform (IccProfLib/IccCmm.cpp): the list of small steps that        *)
(* takes a pixel from the profile connection space one transform puts out to   *)
(* the one the next takes in, how Connect, ConnectFirst and ConnectLast build   *)
(* it, and how Optimize makes it shorter.                                     *)
(*                                                                           *)
(* All channels of a pixel have the same level, and levels are calculated with  *)
(* modulo a prime, where, as with real numbers, what is not zero divides and    *)
(* every level has one cube root: a white is its own level, the encodings of    *)
(* XYZ and of legacy Lab are factors, and a matrix, a spectrum or a custom        *)
(* element multiplies.  A map from one spectral range to another keeps a level   *)
(* and changes the number of channels.  Hints, and with them luminance          *)
(* matching, are left out, and so are spectra that cannot be mapped.            *)
(***************************************************************************)
EXTENDS Naturals, SequencesExt

CONSTANTS
  Modulus,       \* levels are 0 .. Modulus - 1
  XyzIn,         \* the factor by which XYZ is encoded
  Lab2,          \* the factor by which legacy Lab is encoded
  SpectralType,  \* of each spectral space: "Ref", "Rad" or "BiRef"
  SpectralRange, \* spectral ranges: [steps, size]
  Pcc            \* connection conditions: [view, illuminant, observer, white, illum,
                 \*   obs, illumRange, obsRange, custom, factor]

Level == 0 .. Modulus - 1

Cube(a) == (a * a * a) % Modulus

(* A spectral space holds reflectances, radiances or bi-directional              *)
(* reflectances, is none of the other spaces, and a range has a number of steps. *)
ASSUME SpacesAssumption ==
  /\ \A s \in DOMAIN SpectralType : SpectralType[s] \in {"Ref", "Rad", "BiRef"}
  /\ DOMAIN SpectralType \cap {"Lab", "XYZ"} = {}
  /\ \A r \in DOMAIN SpectralRange : SpectralRange[r].steps \in Nat

(* The levels are a field in which each has a cube root, and encodings do not   *)
(* take every level to nought.                                                  *)
ASSUME LevelsAssumption ==
  /\ Modulus \in Nat \ {0, 1}
  /\ \A a \in Level \ {0} : \E b \in Level : (a * b) % Modulus = 1
  /\ \A a \in Level : \E b \in Level : Cube(b) = a
  /\ {XyzIn, Lab2} \subseteq Level \ {0}

(* A profile without viewing conditions is taken for one of daylight D50 and  *)
(* the observer of 1931 with no spectra.  Data that is there is not zero.      *)
ASSUME PccAssumption ==
  \A p \in DOMAIN Pcc :
    /\ Pcc[p].white \in Level \ {0} /\ Pcc[p].factor \in Level \ {0}
    /\ {Pcc[p].illum, Pcc[p].obs} \subseteq Level
    /\ {Pcc[p].illumRange, Pcc[p].obsRange} \subseteq DOMAIN SpectralRange
    /\ Pcc[p].custom \in {"none", "Matrix", "Element"}
    /\ ~Pcc[p].view => /\ Pcc[p].illuminant = "D50" /\ Pcc[p].observer = "1931"
                       /\ Pcc[p].illum = 0 /\ Pcc[p].obs = 0

Colorimetric == {"Lab", "XYZ"}
Spectral == DOMAIN SpectralType
SpaceType(space) == IF space \in Spectral THEN SpectralType[space] ELSE space

Mult(a, b) == (a * b) % Modulus
Inv == [a \in Level \ {0} |-> CHOOSE b \in Level : Mult(a, b) = 1]
Root == [a \in Level |-> CHOOSE b \in Level : Cube(b) = a]
Minus(a) == (Modulus - a) % Modulus

---------------------------------------------------------------------------
(* Steps: how many channels they read and write, and what they calculate with. *)

StepKinds == {"Identity", "RouteMcs", "LabToXYZ", "Lab2ToXYZ", "XYZToLab", "XYZToLab2",
              "LabToLab2", "Lab2ToLab", "Scale", "Offset", "Matrix", "SparseMatrix", "Mpe",
              "SrcMatrix"}

PcsStep(kind, in, out, k) == [kind |-> kind, in |-> in, out |-> out, k |-> k]
LabStep(kind, k) == PcsStep(kind, 3, 3, k)
Scale(n, k) == PcsStep("Scale", n, n, k)
Offset(n, k) == PcsStep("Offset", n, n, k)
Matrix(rows, cols, k) == PcsStep("Matrix", cols, rows, k)
NoStep == PcsStep("none", 0, 0, 0)

Apply(step, v) ==
  CASE step.kind = "LabToXYZ" -> Mult(step.k, Cube(v))
    [] step.kind = "Lab2ToXYZ" -> Mult(step.k, Cube(Mult(v, Inv[Lab2])))
    [] step.kind = "XYZToLab" -> Root[Mult(v, Inv[step.k])]
    [] step.kind = "XYZToLab2" -> Mult(Root[Mult(v, Inv[step.k])], Lab2)
    [] step.kind = "LabToLab2" -> Mult(v, Lab2)
    [] step.kind = "Lab2ToLab" -> Mult(v, Inv[Lab2])
    [] step.kind = "Offset" -> (v + step.k) % Modulus
    [] step.kind \in {"Identity", "RouteMcs"} -> v
    [] OTHER -> Mult(v, step.k)

(* CIccPcsXform::Apply: no steps copy the pixel. *)
Run(steps, v) == FoldLeft(LAMBDA w, step : Apply(step, w), v, steps)

(* A pixel of a bi-directional reflectance is a matrix; GetSrcChannels returns  *)
(* its columns alone.                                                         *)
Reads(step) == IF step.kind = "SrcMatrix" THEN step.in * step.out ELSE step.in

(* The size of the two buffers between the steps. *)
MaxChannels(steps) ==
  IF steps = <<>> THEN 0
  ELSE Max({steps[1].out} \cup {steps[i].in : i \in 2 .. Len(steps)})

---------------------------------------------------------------------------
(* Optimize. *)

(* What becomes of a conversion of Lab and the one after it. *)
LabJoins ==
  {<<"LabToXYZ", "XYZToLab", "Identity">>, <<"XYZToLab", "LabToXYZ", "Identity">>,
   <<"Lab2ToXYZ", "XYZToLab2", "Identity">>, <<"XYZToLab2", "Lab2ToXYZ", "Identity">>,
   <<"LabToLab2", "Lab2ToLab", "Identity">>, <<"Lab2ToLab", "LabToLab2", "Identity">>,
   <<"LabToXYZ", "XYZToLab2", "LabToLab2">>, <<"Lab2ToXYZ", "XYZToLab", "Lab2ToLab">>}

SameWhite(s, t) == s.k = t.k

Concat(s, t) ==
  LET pair == <<s.kind, t.kind>>
      lab == {join \in LabJoins : <<join[1], join[2]>> = pair}
  IN IF lab # {}
     THEN IF SameWhite(s, t) THEN LabStep((CHOOSE join \in lab : TRUE)[3], 0) ELSE NoStep
     ELSE IF s.out # t.in THEN NoStep
     ELSE CASE pair = <<"Offset", "Offset">> -> Offset(s.in, (s.k + t.k) % Modulus)
            [] pair = <<"Scale", "Scale">> -> Scale(s.in, Mult(s.k, t.k))
            [] pair \in {<<"Scale", "Matrix">>, <<"Matrix", "Scale">>, <<"Matrix", "Matrix">>} ->
                 Matrix(t.out, s.in, Mult(s.k, t.k))
            [] OTHER -> NoStep

(* A matrix between spectra mixes their channels. *)
IsIdentity(step) ==
  \/ step.kind = "Identity"
  \/ step.kind = "Offset" /\ step.k = 0
  \/ step.kind = "Scale" /\ step.k = 1
  \/ step.kind = "Matrix" /\ step.in = 3 /\ step.out = 3 /\ step.k = 1

(* A map between ranges is mostly zeros and becomes a sparse matrix. *)
Reduce(step) ==
  IF step.kind = "Matrix" /\ step.in > 3 /\ step.out > 3
  THEN [step EXCEPT !.kind = "SparseMatrix"] ELSE step

Kept(list, step) == IF IsIdentity(step) THEN list ELSE Append(list, step)

(* A pass joins each step with the next while it can. *)
Pass(steps) ==
  LET Next(acc, step) ==
        LET joined == Concat(acc.step, step)
        IN IF joined # NoStep THEN [acc EXCEPT !.step = joined, !.joined = TRUE]
           ELSE [acc EXCEPT !.list = Kept(@, acc.step), !.step = step]
      end == FoldLeft(Next, [list |-> <<>>, step |-> steps[1], joined |-> FALSE], Tail(steps))
  IN [list |-> Kept(end.list, end.step), joined |-> end.joined]

(* Passes follow one another up to the first that joins nothing. *)
Optimize(steps) ==
  LET after[n \in 0 .. Len(steps)] ==
        IF n = 0 THEN [list |-> steps, joined |-> TRUE]
        ELSE LET before == after[n - 1]
             IN IF before.joined /\ before.list # <<>> THEN Pass(before.list) ELSE before
      list == after[Len(steps)].list
  IN [i \in DOMAIN list |-> Reduce(list[i])]

---------------------------------------------------------------------------
(* Pushing steps.  A push that fails ends Connect with its status. *)

Pushed(steps) == [stat |-> "Ok", steps |-> steps]
Failed(stat) == [stat |-> stat, steps |-> <<>>]
Then(a, b) == IF a.stat # "Ok" THEN a ELSE [b EXCEPT !.steps = a.steps \o @]

(* A side of the conversion is a transform: [space, legacy, scale, offset, pcc,   *)
(* range, biRange], where scale and offset adjust encoded XYZ.                 *)
Adjusts(side) == side.scale # 1 \/ side.offset # 0
OffsetOf(side) == Mult(side.offset, Inv[XyzIn])

LabToXyz(side) == LabStep(IF side.legacy THEN "Lab2ToXYZ" ELSE "LabToXYZ", side.pcc.white)
XyzToLab(side) == LabStep(IF side.legacy THEN "XYZToLab2" ELSE "XYZToLab", side.pcc.white)
XyzToXyzIn == Scale(3, XyzIn)
XyzInToXyz == Scale(3, Inv[XyzIn])

(* The source is scaled and then offset.  At the destination the offset comes   *)
(* first, divided by the scale that follows it.                               *)
AdjustDst(x) ==
  IF Adjusts(x) THEN <<Scale(3, x.scale), Offset(3, OffsetOf(x))>> ELSE <<>>
AdjustSrcUndivided(y) ==
  IF Adjusts(y) THEN <<Offset(3, OffsetOf(y)), Scale(3, y.scale)>> ELSE <<>>
AdjustSrc(y) ==
  IF Adjusts(y) THEN <<Offset(3, Mult(OffsetOf(y), Inv[y.scale])), Scale(3, y.scale)>>
  ELSE <<>>

FromColour(x) ==
  <<IF x.space = "Lab" THEN LabToXyz(x) ELSE XyzInToXyz>> \o AdjustDst(x)
IntoColour(y) ==
  AdjustSrc(y) \o <<IF y.space = "Lab" THEN XyzToLab(y) ELSE XyzToXyzIn>>

IsEquivalentPcc(p, q) ==
  /\ p.illuminant = q.illuminant /\ p.observer = q.observer
  /\ p.illuminant # "Unknown"
  /\ p.observer = "Custom" => p.illum = 0 /\ q.illum = 0 /\ p.white = q.white
IsStandardPcc(p) == p.illuminant = "D50" /\ p.observer = "1931"

(* The element of a custom PCC, which takes XYZ to the standard PCC or back.    *)
PushCustom(p, factor) ==
  IF IsStandardPcc(p) THEN Pushed(<<>>)
  ELSE IF p.custom = "none" THEN Failed("BadSpaceLink")
  ELSE Pushed(<<IF p.custom = "Matrix" THEN Matrix(3, 3, factor)
                ELSE PcsStep("Mpe", 3, 3, factor)>>)

PushXYZConvert(p, q) ==
  IF IsEquivalentPcc(p, q) THEN Pushed(<<>>)
  ELSE Then(PushCustom(p, p.factor), PushCustom(q, Inv[q.factor]))

SpecToRange(a, b) ==
  IF a = b THEN <<>> ELSE <<Matrix(SpectralRange[b].steps, SpectralRange[a].steps, 1)>>

Observe(p) == <<Matrix(3, SpectralRange[p.obsRange].steps, p.obs)>>

(* The illuminant, taken through the ranges a pixel goes through, is white.     *)
PushXYZNormalize(p, src, dst) ==
  LET ranges == IF src = p.illumRange /\ dst = p.illumRange
                THEN SpecToRange(p.illumRange, p.obsRange)
                ELSE SpecToRange(p.illumRange, src) \o SpecToRange(src, dst)
                     \o SpecToRange(dst, p.obsRange)
      xyz == Run(ranges \o Observe(p), p.illum)
  IN IF ~p.view THEN Failed("ProfileMissingTag")
     ELSE IF p.illum = 0 \/ p.obs = 0 THEN Failed("InvalidProfile")
     ELSE Pushed(<<Scale(3, Mult(p.white, Inv[xyz]))>>)

(* Without viewing conditions some of these push nothing and succeed. *)
PushRef2Xyz(x) ==
  LET p == x.pcc
  IN IF ~p.view THEN Pushed(<<>>)
     ELSE IF p.illum = 0 \/ p.obs = 0 THEN Failed("InvalidProfile")
     ELSE Then(Pushed(SpecToRange(x.range, p.illumRange)
                      \o <<Scale(SpectralRange[p.illumRange].steps, p.illum)>>
                      \o SpecToRange(p.illumRange, p.obsRange) \o Observe(p)),
               PushXYZNormalize(p, p.illumRange, p.illumRange))

PushApplyIllum(x) ==
  LET p == x.pcc
  IN IF ~p.view THEN Pushed(<<>>)
     ELSE IF p.illum = 0 THEN Failed("InvalidProfile")
     ELSE Pushed(SpecToRange(x.range, p.illumRange)
                 \o <<Scale(SpectralRange[p.illumRange].steps, p.illum)>>
                 \o SpecToRange(p.illumRange, x.range))

(* The finer of the profile's range and the observer's is kept. *)
PushRad2Xyz(x) ==
  LET p == x.pcc
  IN IF ~p.view THEN Pushed(<<>>)
     ELSE IF p.illum = 0 \/ p.obs = 0 THEN Failed("InvalidProfile")
     ELSE Pushed((IF SpectralRange[x.range].size < SpectralRange[p.obsRange].size
                  THEN <<Matrix(3, SpectralRange[x.range].steps, p.obs)>>
                  ELSE SpecToRange(x.range, p.obsRange) \o Observe(p))
                 \o <<Scale(3, Inv[Mult(p.obs, p.illum)])>>)

PushBiRef2Rad(x) ==
  IF ~x.pcc.view THEN Pushed(<<>>)
  ELSE IF x.pcc.illum = 0 THEN Failed("ProfileMissingTag")
  ELSE Pushed(<<PcsStep("SrcMatrix", SpectralRange[x.biRange].steps, SpectralRange[x.range].steps,
                        x.pcc.illum)>>)

PushBiRef2Xyz(x) ==
  LET p == x.pcc
  IN Then(PushBiRef2Rad(x),
          IF ~p.view THEN Failed("BadConnection")
          ELSE IF p.obs = 0 THEN Failed("InvalidProfile")
          ELSE Then(Pushed(SpecToRange(x.range, p.obsRange) \o Observe(p)),
                    PushXYZNormalize(p, x.biRange, x.range)))

PushBiRef2Ref(x) ==
  Then(PushBiRef2Rad(x),
       IF ~x.pcc.view THEN Failed("BadConnection")
       ELSE Pushed(<<Scale(SpectralRange[x.range].steps, Inv[x.pcc.illum])>>))

---------------------------------------------------------------------------
(* Connecting: the steps that are pushed.  Finished is how each Connect ends. *)

(* The status of a bi-directional reflectance on its way to Lab is not looked at. *)
PushToXyz(x, y) ==
  CASE SpaceType(x.space) \in Colorimetric -> Pushed(FromColour(x))
    [] SpaceType(x.space) = "Ref" -> PushRef2Xyz(x)
    [] SpaceType(x.space) = "Rad" -> PushRad2Xyz(x)
    [] OTHER -> IF y.space = "Lab" THEN [PushBiRef2Xyz(x) EXCEPT !.stat = "Ok"]
                ELSE PushBiRef2Xyz(x)

PushSpectral(x, y) ==
  LET pair == <<SpaceType(x.space), SpaceType(y.space)>>
      toRange == Pushed(SpecToRange(x.range, y.range))
  IN CASE pair \in {<<"Ref", "Ref">>, <<"Rad", "Rad">>} -> toRange
       [] pair = <<"Ref", "Rad">> -> Then(PushApplyIllum(x), toRange)
       [] pair = <<"BiRef", "Ref">> -> Then(PushBiRef2Ref(x), toRange)
       [] pair = <<"BiRef", "Rad">> -> Then(PushBiRef2Rad(x), toRange)
       [] pair = <<"BiRef", "BiRef">> /\ x.range = y.range /\ x.biRange = y.biRange -> Pushed(<<>>)
       [] OTHER -> Failed("UnsupportedPcsLink")

(* CIccPcsXform::Connect, for transforms that do not meet in an MCS. *)
ConnectSides(x, y) ==
  IF {x.space, y.space} \ (Colorimetric \cup Spectral) # {} THEN Failed("UnsupportedPcsLink")
  ELSE IF y.space \in Colorimetric
  THEN Then(PushToXyz(x, y), Then(PushXYZConvert(x.pcc, y.pcc), Pushed(IntoColour(y))))
  ELSE PushSpectral(x, y)

(* Between the client's own encoding and an end of the chain.  The transform    *)
(* there adjusts its PCS itself.                                             *)
ConnectFirst(y, source) ==
  Pushed(
    CASE source = "XYZ" ->
           <<XyzInToXyz, IF y.space = "Lab" THEN XyzToLab(y) ELSE XyzToXyzIn>>
      [] source = "Lab" /\ y.space = "XYZ" -> <<LabStep("LabToXYZ", y.pcc.white)>>
      [] source = "Lab" /\ y.space # "XYZ" /\ y.legacy -> <<LabStep("LabToLab2", 0)>>
      [] OTHER -> <<>>)

ConnectLast(x, dest) ==
  Pushed(
    CASE x.space = "XYZ" /\ dest = "Lab" -> <<XyzInToXyz, LabStep("XYZToLab", x.pcc.white)>>
      [] x.space = "Lab" /\ dest = "XYZ" -> <<LabToXyz(x), XyzToXyzIn>>
      [] x.space = "Lab" /\ dest = "Lab" /\ x.legacy -> <<LabStep("Lab2ToLab", 0)>>
      [] OTHER -> <<>>)

(* Two transforms that meet in an MCS match their channels by name.  A check    *)
(* for channels that have to be there compares those of the same index.        *)
RouteMcs(from, to) ==
  IF from = to THEN <<>> ELSE <<PcsStep("RouteMcs", Len(from), Len(to), 0)>>

ConnectMcs(from, to, needsAll) ==
  IF needsAll /\ from # to THEN Failed("BadMCSLink") ELSE Pushed(RouteMcs(from, to))

Finished(pushed) ==
  IF pushed.stat # "Ok" THEN pushed
  ELSE LET steps == Optimize(pushed.steps)
       IN [stat |-> IF steps = <<>> THEN "Identity" ELSE "Ok", steps |-> steps]

---------------------------------------------------------------------------
(* What the steps are to do. *)

(* A transform that adjusts its own PCS, and its client, who has the same        *)
(* connection conditions and no legacy Lab.                                   *)
Unadjusted(side) == [side EXCEPT !.scale = 1, !.offset = 0]
Client(side, space) == [Unadjusted(side) EXCEPT !.space = space, !.legacy = FALSE]

Adjusted(side, xyz) == (Mult(side.scale, xyz) + OffsetOf(side)) % Modulus

Decoded(side, v) ==
  CASE side.space = "XYZ" -> Mult(v, Inv[XyzIn])
    [] side.space = "Lab" /\ side.legacy -> Mult(side.pcc.white, Cube(Mult(v, Inv[Lab2])))
    [] side.space = "Lab" /\ ~side.legacy -> Mult(side.pcc.white, Cube(v))

(* The XYZ of what side x puts out: the perfect reflector is white, and a        *)
(* radiance is measured against that of the illuminant.                       *)
Xyz(x, v) ==
  CASE x.space \in Colorimetric -> Adjusted(x, Decoded(x, v))
    [] SpaceType(x.space) = "Rad" -> Mult(v, Inv[x.pcc.illum])
    [] OTHER -> Mult(v, x.pcc.white)

InPcc(p, q, xyz) ==
  IF IsEquivalentPcc(p, q) THEN xyz
  ELSE LET standard == IF IsStandardPcc(p) THEN xyz ELSE Mult(p.factor, xyz)
       IN IF IsStandardPcc(q) THEN standard ELSE Mult(standard, Inv[q.factor])

(* Reflectances stay what they are; light is what the illuminant makes of them. *)
Spectrum(x, y, v) ==
  IF SpaceType(y.space) = "Rad" /\ SpaceType(x.space) # "Rad" THEN Mult(v, x.pcc.illum) ELSE v

Carries(x, y, steps) ==
  \A v \in Level :
    IF y.space \in Colorimetric
    THEN Decoded(y, Run(steps, v)) = Adjusted(y, InPcc(x.pcc, y.pcc, Xyz(x, v)))
    ELSE Run(steps, v) = Spectrum(x, y, v)

Chained(steps, in, out) ==
  IF steps = <<>> THEN in = out
  ELSE /\ Reads(steps[1]) = in /\ Last(steps).out = out
       /\ \A i \in 1 .. Len(steps) - 1 :
            /\ steps[i].out = Reads(steps[i + 1])
            /\ steps[i].out <= MaxChannels(steps)
=============================================================================
