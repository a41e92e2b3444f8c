----------------------------- MODULE MCMruCache -----------------------------
(* Instances of MruCache: pixels p1 and p2 have the same transform, so a     *)
(* correct answer can come from the wrong cell only where the run would tell. *)
EXTENDS MruCache

CONSTANTS p1, p2, p3, p4, r1, r2, r3

FourPixels == {p1, p2, p3, p4}
Results == {r1, r2, r3}
FourTransform ==
  [p \in FourPixels |-> IF p \in {p1, p2} THEN r1 ELSE IF p = p3 THEN r2 ELSE r3]
=============================================================================
