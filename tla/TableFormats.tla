---------------------------- MODULE TableFormats ----------------------------
(***************************************************************************)
(* Tags and elements that hold other tags or elements behind a table of      *)
(* positions, one element often standing in several slots: Read and Write of *)
(* CIccTagMultiProcessElement (IccTagMPE.cpp), CIccTagStruct and CIccTagArray*)
(* (IccTagComposite.cpp), CIccMpeCurveSet and CIccMpeToneMap                 *)
(* (IccMpeBasic.cpp).  The first slot of a tone map is its luminance curve.  *)
(*                                                                           *)
(* The content of a container is a sequence with one record for each slot:   *)
(* lead is the first slot with the same element, or 0 for an empty slot, and *)
(* data the element, which stands for the bytes it is written with.  An      *)
(* image is what a file holds: its size, the positions of the table, the     *)
(* elements by offset, and the input channels a tone map states beside them. *)
(***************************************************************************)
EXTENDS Integers, Sequences

CONSTANT Unread   \* an element whose own Read failed

Kinds == {"mpe", "struct", "array", "curveSet", "toneMap"}

Hole == [lead |-> 0, data |-> 0]
FirstLike(s, i) == CHOOSE j \in 1 .. i : s[j] = s[i] /\ \A k \in 1 .. j - 1 : s[k] # s[i]

HeadBytes(t) == IF t \in {"curveSet", "toneMap"} THEN 12 ELSE 16
EntryBytes(t) == IF t = "struct" THEN 12 ELSE 8
AlignedTo4(x) == x + ((-x) % 4)

(* A tone map aligns its end only.                                           *)
WrittenBytes(t, x) == IF t = "toneMap" THEN x ELSE AlignedTo4(x)

(* Where the next element goes once slot i is done: an element is written     *)
(* once, for the first slot it stands in.                                    *)
Ends(t, content) ==
  LET n == Len(content)
      end[i \in 0 .. n] ==
        IF i = 0 THEN HeadBytes(t) + n * EntryBytes(t)
        ELSE end[i - 1] + IF content[i].lead = i THEN WrittenBytes(t, content[i].data) ELSE 0
  IN end

(* Every other slot with the element gets the same position.                 *)
Written(t, content, inputs) ==
  LET n == Len(content)
      end == Ends(t, content)
      Start(i) == end[content[i].lead - 1]
  IN [size |-> AlignedTo4(end[n]),
      inputs |-> inputs,
      pos  |-> [i \in 1 .. n |-> IF content[i].lead = 0 THEN [offset |-> 0, size |-> 0]
                                 ELSE [offset |-> Start(i), size |-> content[i].data]],
      at   |-> [o \in {Start(i) : i \in {j \in 1 .. n : content[j].lead # 0}} |->
                  content[CHOOSE i \in 1 .. n : content[i].lead = i /\ Start(i) = o].data]]

(* A struct has no empty entries; a tone map is written only when complete,  *)
(* and with more functions than Write has room for the positions of it       *)
(* writes behind them; a curve set with an empty slot writes whatever        *)
(* position it had before.                                                   *)
FuncPositions == 16

Writable(t, content) ==
  \/ t \in {"mpe", "struct", "array"}
  \/ /\ \A i \in DOMAIN content : content[i].lead # 0
     /\ t = "toneMap" => Len(content) > 1 /\ Len(content) - 1 <= FuncPositions
-----------------------------------------------------------------------------
Offsets(img) == [i \in DOMAIN img.pos |-> img.pos[i].offset]

(* The first slot that has what this one has: by offset, whatever the sizes. *)
(* An array takes a zero for an empty slot; a tone map keeps its curve apart. *)
LeadOf(t, img, i) ==
  LET first == FirstLike(Offsets(img), i)
  IN CASE t = "array" -> IF img.pos[i].offset = 0 \/ img.pos[i].size = 0 \/ img.pos[first].size = 0
                            THEN 0 ELSE first
       [] t = "toneMap" /\ i > 1 /\ first = 1 ->
            CHOOSE j \in 2 .. i : /\ img.pos[j].offset = img.pos[i].offset
                                  /\ \A k \in 2 .. j - 1 : img.pos[k].offset # img.pos[i].offset
       [] OTHER -> first

Inside(p, size) == p.size <= size /\ p.offset <= size - p.size

(* icValidTagPos and icValidOverlap (IccUtil.cpp).                           *)
ValidTagPos(p, head, size) ==
  p.offset = 0 \/ (head <= p.offset /\ p.offset + p.size <= size /\ p.size > 0)

ValidOverlap(p, q, same) ==
  \/ p.offset + p.size <= q.offset \/ q.offset + q.size <= p.offset
  \/ same /\ p.offset = q.offset
  \/ p.size = q.size

(* What is asked of the position in a slot before its element is read; the   *)
(* mutant takes every one.                                                   *)
PositionTaken(t, img, i) == TRUE

PositionOk(t, img, i) ==
  LET p == img.pos[i]
      leads == LeadOf(t, img, i) = i
  IN CASE t = "mpe"      -> Inside(p, img.size)
       [] t = "struct"   -> leads => p.offset >= 12 /\ p.size > 0 /\ Inside(p, img.size)
       [] t = "array"    -> leads => Inside(p, img.size)
       [] t = "curveSet" -> leads => p.offset > 0 /\ p.size > 0
       [] t = "toneMap"  -> \A j \in 1 .. Len(img.pos) :
            /\ 16 + 8 * Len(img.pos) <= img.size
            /\ ValidTagPos(img.pos[j], 12 + 8 * Len(img.pos), img.size)
            /\ \A k \in 1 .. j - 1 : ValidOverlap(img.pos[k], img.pos[j], k > 1)

Readable(img, p) == p.offset \in DOMAIN img.at /\ img.at[p.offset] <= p.size

(* The first slot at which Read stops: none is one past the last.  The curve *)
(* of a tone map is read before any position is looked at.                   *)
StopsAt(t, img, i) ==
  \/ ~PositionOk(t, img, i) /\ ~(t = "toneMap" /\ i = 1)
  \/ LeadOf(t, img, i) = i /\ ~Readable(img, img.pos[i])

Stop(t, img) ==
  LET n == Len(img.pos)
  IN CHOOSE i \in 1 .. n + 1 :
       /\ i <= n => StopsAt(t, img, i)
       /\ \A j \in 1 .. i - 1 : ~StopsAt(t, img, j)

(* The table must be there; an array wants four bytes more than it writes, a *)
(* tone map the position of its curve and a signature, and one more input    *)
(* channel than functions.  The mutant wants the four bytes of all.          *)
HeadAndSignature(t, img) ==
  HeadBytes(t) + Len(img.pos) * EntryBytes(t) + 4 <= img.size

HeadOk(t, img) ==
  LET entries == IF t = "toneMap" THEN 1 ELSE Len(img.pos)
      spare == IF t \in {"array", "toneMap"} THEN 4 ELSE 0
  IN /\ HeadBytes(t) + entries * EntryBytes(t) + spare <= img.size
     /\ t = "toneMap" =>
          Len(img.pos) > 1 /\ img.inputs = Len(img.pos) /\ img.pos[1].size >= 4

(* When even the head is missing, Read returns before it clears the object;  *)
(* a curve set also when its table is.                                       *)
Untouched(t, img) ==
  CASE t = "array"    -> img.size < 20
    [] t = "curveSet" -> ~HeadOk(t, img)
    [] t = "toneMap"  -> FALSE
    [] OTHER             -> img.size < HeadBytes(t)

(* An object is in its slot before it is read: a curve if its type is known, *)
(* a function always.                                                        *)
Made(t, img, i) ==
  \/ t = "curveSet" /\ img.pos[i].offset \in DOMAIN img.at
  \/ t = "toneMap" /\ i > 1

(* What slot i holds after a Read that stopped at k: loaded slots keep their *)
(* element, and in a curve set or tone map the object that was to be read.   *)
SlotRead(t, img, i, k) ==
  LET lead == LeadOf(t, img, i)
  IN IF lead = 0 \/ i > k THEN Hole
     ELSE IF i < k THEN [lead |-> lead, data |-> img.at[img.pos[lead].offset]]
     ELSE IF PositionOk(t, img, i) /\ Made(t, img, i) THEN [lead |-> i, data |-> Unread]
     ELSE Hole

(* Slots left after a Read that stopped: a chain has the elements before, a  *)
(* struct is cleaned up, the others have all their slots.                    *)
SlotsLeft(t, img, k) ==
  CASE t = "mpe"    -> k - 1
    [] t = "struct" -> IF k <= Len(img.pos) THEN 0 ELSE k - 1
    [] OTHER           -> Len(img.pos)

Cut(t, img) == IF t = "toneMap" THEN [i \in DOMAIN img.pos |-> Hole] ELSE <<>>

Parsed(t, img) ==
  LET k == Stop(t, img)
  IN IF ~HeadOk(t, img) THEN [ok |-> FALSE, content |-> Cut(t, img)]
     ELSE [ok |-> k > Len(img.pos),
           content |-> [i \in 1 .. SlotsLeft(t, img, k) |-> SlotRead(t, img, i, k)]]

(* Some element was read from bytes behind the end of the tag.               *)
ReadsOutside(t, img) ==
  \E i \in DOMAIN img.pos :
    /\ LeadOf(t, img, i) = i
    /\ img.pos[i].offset + img.at[img.pos[i].offset] > img.size
=============================================================================
