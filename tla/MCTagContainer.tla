--------------------------- MODULE MCTagContainer ---------------------------
(***************************************************************************)
(* An instance of TagContainer: files whose positions are right, shared with *)
(* another size, out of the tag, empty, in the table, and where nothing can  *)
(* be read, in tables of up to two entries that fit and that do not.         *)
(***************************************************************************)
EXTENDS TagContainer, TLC

Sizes == {14}
Position(o, s) == [offset |-> o, size |-> s]
Positions ==
  {Position(0, 0), Position(0, 12), Position(8, 12), Position(48, 12), Position(48, 8), Position(48, 0),
   Position(60, 14), Position(60, 15), Position(60, 80), Position(70, 12)}
Stored == 48 :> 12 @@ 60 :> 14

(* One tone map states an input channel more than it should.                 *)
Tables == UNION {[1 .. n -> Positions] : n \in 0 .. 2}
File(k, size, pos, stated) ==
  [kind |-> k, img |-> [size |-> size, at |-> Stored, pos |-> pos, inputs |-> stated]]

Files ==
  {File(k, size, pos, IF k = "toneMap" THEN Len(pos) ELSE 0) :
     k \in Kinds, size \in {12, 19, 28, 36, 73, 74, 76}, pos \in Tables}
  \cup {File("toneMap", 76, <<Position(48, 12), Position(60, 14)>>, 3)}

Interchangeable == Permutations(Container)
=============================================================================
