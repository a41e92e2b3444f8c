---------------------------- MODULE RecentPixels ----------------------------
(***************************************************************************)
(* What a cache of the most recently used pixels promises, without saying   *)
(* how the cells are linked: a request is answered with the transform of    *)
(* its pixel, a remembered pixel is answered at once and becomes the most   *)
(* recent one, and a new pixel pushes out the least recent one only when    *)
(* the cache is full.  MruCache implements it.                              *)
(***************************************************************************)
EXTENDS Naturals, Sequences

CONSTANTS
  Pixel,       \* source pixels
  Transform,   \* the destination pixel of each of them
  Capacity,    \* pixels the cache remembers
  NoPixel,     \* nothing asked yet
  NoResult     \* nothing answered yet

VARIABLES
  recent,   \* remembered pixels, the most recent first
  phase,    \* "idle", "asked", or "missed": the transform has to be computed
  asked,    \* pixel of the current or latest request
  answer    \* content of the caller's destination pixel

recentVars == <<recent, phase, asked, answer>>

Remembered == {recent[k] : k \in 1 .. Len(recent)}

Init ==
  /\ recent = <<>>
  /\ phase = "idle"
  /\ asked = NoPixel
  /\ answer = NoResult

Ask(x) ==
  /\ phase = "idle"
  /\ phase' = "asked"
  /\ asked' = x
  /\ UNCHANGED <<recent, answer>>

(* The pixel is remembered: everything more recent moves back one place. *)
Recall ==
  /\ phase = "asked"
  /\ phase' = "idle"
  /\ answer' = Transform[asked]
  /\ \E k \in 1 .. Len(recent) :
       /\ recent[k] = asked
       /\ recent' = [j \in 1 .. Len(recent) |->
                       IF j = 1 THEN asked
                       ELSE IF j <= k THEN recent[j - 1] ELSE recent[j]]
  /\ UNCHANGED asked

(* The pixel is new: it goes first, and only a full cache forgets one. *)
Miss ==
  /\ phase = "asked"
  /\ asked \notin Remembered
  /\ phase' = "missed"
  /\ LET kept == IF Len(recent) < Capacity THEN Len(recent) + 1 ELSE Capacity
     IN recent' = [j \in 1 .. kept |-> IF j = 1 THEN asked ELSE recent[j - 1]]
  /\ UNCHANGED <<asked, answer>>

Finish ==
  /\ phase = "missed"
  /\ phase' = "idle"
  /\ answer' = Transform[asked]
  /\ UNCHANGED <<recent, asked>>

Next == (\E x \in Pixel : Ask(x)) \/ Recall \/ Miss \/ Finish

(* Every request is answered. *)
Spec == Init /\ [][Next]_recentVars /\ WF_recentVars(Recall \/ Miss \/ Finish)
=============================================================================
