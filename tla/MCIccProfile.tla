---------------------------- MODULE MCIccProfile ----------------------------
(* Small instances of IccProfile: a source profile whose first two entries     *)
(* share their data, and a second file that starts empty.                      *)
EXTENDS IccProfile, TLC

CONSTANTS p1, p2, f1, f2, o1, o2, o3, o4, A, B, C, d1, d2

MCProfile == {p1, p2}
MCProfile1 == {p1}
MCNone    == {}
MCIO      == {f1, f2}
MCTarget  == {f2}
MCObj2    == {o1, o2}
MCObj3    == {o1, o2, o3}
MCObj4    == {o1, o2, o3, o4}
MCSig     == {A, B}
MCSig3    == {A, B, C}
MCData    == {d1, d2}

(* A two-entry file: both tags at their tight offsets. *)
TwoTags ==
  [icc |-> TRUE,
   dir |-> [n \in NodeId |-> CASE n = 1 -> [sig |-> A, off |-> TagDirEnd(2)]
                               [] n = 2 -> [sig |-> B, off |-> TagDirEnd(2) + TagBytes]
                               [] OTHER -> NoEntry],
   at  |-> [x \in Slot |-> CASE x = TagDirEnd(2) -> d1
                             [] x = TagDirEnd(2) + TagBytes -> d2
                             [] OTHER -> NoData]]

MCInitFile == [f \in IO |-> IF f = f1 THEN TwoTags ELSE EmptyFile]

MCSymmetry == Permutations(Obj) \cup Permutations(Profile)

(* When the only file starts empty, signatures and payloads are alike too. *)
MCFileOne       == {f2}
MCBuildSymmetry == MCSymmetry \cup Permutations(Sig) \cup Permutations(Data)

(* A client that saves has one profile: two profiles are copied and assigned    *)
(* before anything is written.                                                  *)
AloneWhenSaved == file = MCInitFile \/ Cardinality(alive) <= 1
=============================================================================
