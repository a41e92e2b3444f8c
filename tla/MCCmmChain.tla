----------------------------- MODULE MCCmmChain -----------------------------
(* Instances of CmmChain: one profile of each kind that AddXform tells apart,  *)
(* and the pairs of profile and lut type that the library's callers use.       *)
EXTENDS CmmChain

Plain(class, space, pcs, tags) ==
  [class |-> class, space |-> space, pcs |-> pcs, spec |-> "None", mcs |-> "None",
   ext |-> FALSE, legacy |-> FALSE, tags |-> tags, base |-> "disp", pcc |-> "D50",
   scale |-> 1, offset |-> 0, range |-> "none", biRange |-> "none",
   channels |-> <<"Orange", "Green">>, subset |-> FALSE]
Spectrum4(space, range, tags, pcc) ==
  [Plain("Space", "RGB", "None", tags) EXCEPT !.spec = space, !.range = range, !.pcc = pcc]

MCFile == {"cam", "disp", "prn", "abs", "link", "ref", "rad", "bi", "mid", "mvis", "mlnk", "enc",
           "other"}
MCFileEnds == {"cam", "disp", "prn"}

MCHeader ==
  [f \in MCFile |->
     CASE f = "cam"  -> [Plain("Input", "RGB", "Lab", {"AToB", "AToM", "HToS", "Chan"})
                           EXCEPT !.mcs = "mc2", !.ext = TRUE, !.legacy = TRUE]
       [] f = "disp" -> [Plain("Space", "RGB", "XYZ", {"TRC"})
                           EXCEPT !.pcc = "A", !.scale = 17, !.offset = 20]
       [] f = "prn"  -> [Plain("Output", "CMYK", "Lab", {"AToB", "BToA", "Preview", "Gamut"})
                           EXCEPT !.pcc = "F11", !.scale = 22, !.offset = 23]
       [] f = "abs"  -> Plain("Abstract", "Lab", "Lab", {"AToB"})
       [] f = "link" -> Plain("Link", "RGB", "CMYK", {"AToB"})
       [] f = "ref"  -> Spectrum4("rs4", "visible", {"DToB", "BToD"}, "A")
       [] f = "rad"  -> Spectrum4("es5", "wide", {"DToB", "BToD"}, "F11")
       [] f = "bi"   -> [Spectrum4("bs16", "visible", {"DToB"}, "A") EXCEPT !.biRange = "visible"]
       [] f = "other" -> [Plain("Input", "RGB", "Lab", {"DToBOther"})
                            EXCEPT !.spec = "rs4", !.range = "visible"]
       [] f = "mid"  -> [Plain("MID", "RGB", "None", {"AToM", "Chan"})
                           EXCEPT !.mcs = "mc2", !.subset = TRUE]
       [] f = "mvis" -> [Plain("MVIS", "None", "Lab", {"MToB", "BrdfMToB", "Chan"})
                           EXCEPT !.mcs = "mc2", !.pcc = "D50h"]
       [] f = "mlnk" -> [Plain("MLNK", "CMYK", "None", {"MToA", "Chan"})
                           EXCEPT !.mcs = "mc1", !.channels = <<"Green">>]
       [] f = "enc"  -> Plain("Enc", "RGB", "XYZ", {})]

(* Four PCCs: daylight without viewing conditions, twice, as the header of a      *)
(* version 5 profile may have a white of its own; two with viewing conditions,   *)
(* one of which goes to the standard PCC by a matrix.  No two factors given     *)
(* here and in the headers are equal or inverse to each other.                *)
MCPcc ==
  LET standard == [view |-> FALSE, illuminant |-> "D50", observer |-> "1931", white |-> 4,
                   illum |-> 0, obs |-> 0, illumRange |-> "none", obsRange |-> "none",
                   custom |-> "none", factor |-> 1]
      custom == [standard EXCEPT !.view = TRUE, !.illumRange = "wide", !.obsRange = "visible"]
  IN [p \in {"D50", "D50h", "A", "F11"} |->
        CASE p = "D50" -> standard
          [] p = "D50h" -> [standard EXCEPT !.white = 5]
          [] p = "A" -> [custom EXCEPT !.illuminant = "A", !.white = 6, !.illum = 8, !.obs = 9,
                                       !.custom = "Matrix", !.factor = 10]
          [] p = "F11" -> [custom EXCEPT !.illuminant = "F11", !.observer = "1964", !.white = 11,
                                         !.illum = 12, !.obs = 13, !.custom = "Element",
                                         !.factor = 16]]

MCSpectralType == [s \in {"rs4", "es5", "bs16"} |->
                     CASE s = "rs4" -> "Ref" [] s = "es5" -> "Rad" [] s = "bs16" -> "BiRef"]
MCSpectralRange == [r \in {"none", "visible", "wide"} |->
                      CASE r = "none" -> [steps |-> 0, size |-> 0]
                        [] r = "visible" -> [steps |-> 4, size |-> 2]
                        [] r = "wide" -> [steps |-> 5, size |-> 3]]

MCSamples ==
  [s \in {"Unknown", "None", "RGB", "CMYK", "Lab", "XYZ", "rs4", "es5", "bs16", "mc1", "mc2", "Gamut",
          "BRDF", "BRDFDirect"} |->
     CASE s \in {"Unknown", "None"} -> 0 [] s \in {"Gamut", "mc1"} -> 1 [] s = "mc2" -> 2
       [] s \in {"CMYK", "rs4"} -> 4 [] s = "es5" -> 5 [] s = "BRDF" -> 6 [] s = "bs16" -> 16
       [] OTHER -> 3]

MCOffers == (MCFile \X {"Color"}) \cup
            {<<"prn", "Preview">>, <<"prn", "Gamut">>, <<"prn", "Other">>, <<"cam", "MCS">>,
             <<"cam", "Tag">>, <<"mid", "Tag">>, <<"enc", "Tag">>, <<"ref", "BRDFParam">>}
MCOffersEnds == MCFileEnds \X {"Color"}

Args(src, dst, first) == [src |-> src, dst |-> dst, firstInput |-> first]
MCCmm == {Args("Unknown", "Unknown", TRUE), Args("Lab", "Lab", FALSE),
          Args("XYZ", "XYZ", FALSE)}
MCCmmEnds == {Args("Unknown", "Lab", TRUE)}
=============================================================================
