---------------------------- MODULE TagContainer ----------------------------
(***************************************************************************)
(* Containers of one kind and the elements they own by raw pointers: the     *)
(* client fills, shares, removes, copies, assigns, saves, reads and deletes  *)
(* them in any order.  Every operation is the function of that name of the   *)
(* class (IccTagMPE.cpp, IccTagComposite.cpp, IccMpeBasic.cpp).              *)
(*                                                                           *)
(* Habits of the callers in this repository, which the guards keep: an       *)
(* element is handed over once, new or from another slot of the same         *)
(* container; DetachTag takes an element that stands in one slot only; curve *)
(* sets and tone maps are copied and never assigned (their operator= loses   *)
(* the old curves, or clears with the new count); AttachTag and SetCurve are *)
(* asked for slots there are (they also take the index behind the last); a   *)
(* container whose Read failed is read again or deleted.                     *)
(***************************************************************************)
EXTENDS TableFormats

CONSTANTS
  Container,     \* the objects a client has
  Elem,          \* addresses of elements
  Null,          \* no element
  Data,          \* elements, as the bytes they are written with
  Foreign,       \* files from elsewhere: a kind and an image
  MaxSlots       \* bound on the slots of a container

(* An element begins with its signature.                                     *)
ElementBytes == Nat \ (0 .. 3)

ASSUME ElemAssumption == Elem \subseteq Nat /\ Null \notin Elem
ASSUME DataAssumption == Data \subseteq ElementBytes
ASSUME MaxSlotsAssumption == MaxSlots \in Nat

(* Where a tone map itself begins there is neither a curve nor a function.   *)
ASSUME ForeignAssumption ==
  \A f \in Foreign :
    /\ f.img.pos \in Seq([offset : Nat, size : Nat]) /\ f.img.size \in Nat
    /\ f.img.at \in [DOMAIN f.img.at -> ElementBytes] /\ f.img.inputs \in Nat
    /\ f.kind = "toneMap" => 0 \notin DOMAIN f.img.at

VARIABLES
  kind,
  state,    \* of each container: "none", "good", or "broken" by a failed Read
  slots,    \* the element in each slot
  vals,     \* m_ElemVals of a struct: what its Cleanup deletes
  inputs,   \* m_nInputChannels of a tone map
  heap      \* the living elements: a function on their addresses

vars == <<kind, state, slots, vals, inputs, heap>>

Held(c) == {slots[c][i] : i \in DOMAIN slots[c]} \ {Null}
Live == DOMAIN heap

(* What the destructor deletes, each once: a struct goes by m_ElemVals.      *)
Owned(c) == IF kind = "struct" THEN vals[c] ELSE Held(c)

Without(S) == [e \in Live \ S |-> heap[e]]
With(h, e, x) == [f \in DOMAIN h \cup {e} |-> IF f = e THEN x ELSE h[f]]

(* Addresses are taken in order from those free in h: for the slots of made. *)
FreeIn(h) == Elem \ DOMAIN h
InOrder(new, made, h) ==
  \A i \in made : {e \in FreeIn(h) : e < new[i]} = {new[j] : j \in {k \in made : k < i}}

(* Container c gets this content in new objects, after heap became h.        *)
Filled(c, h, content) ==
  LET made == {i \in DOMAIN content : content[i].lead = i}
  IN \E new \in [made -> FreeIn(h)] :
       /\ InOrder(new, made, h)
       /\ slots' = [slots EXCEPT ![c] =
            [i \in DOMAIN content |->
               IF content[i].lead \in made THEN new[content[i].lead] ELSE Null]]
       /\ vals' = [vals EXCEPT ![c] = IF kind = "struct" THEN {new[i] : i \in made} ELSE {}]
       /\ heap' = [e \in DOMAIN h \cup {new[i] : i \in made} |->
                    IF \E i \in made : new[i] = e
                    THEN content[CHOOSE i \in made : new[i] = e].data ELSE h[e]]

ContentOf(c) ==
  [i \in DOMAIN slots[c] |->
     IF slots[c][i] = Null THEN Hole
     ELSE [lead |-> FirstLike(slots[c], i), data |-> heap[slots[c][i]]]]

(* Copying keeps sharing but in chains and arrays.                           *)
Copied(c) ==
  IF kind \in {"mpe", "array"}
  THEN [i \in DOMAIN slots[c] |->
          IF slots[c][i] = Null THEN Hole ELSE [lead |-> i, data |-> heap[slots[c][i]]]]
  ELSE ContentOf(c)

(* What Read may meet: a file from elsewhere, by what it makes of it.        *)
Reading ==
  {[kind |-> f.kind, ok |-> Parsed(f.kind, f.img).ok, content |-> Parsed(f.kind, f.img).content,
    untouched |-> Untouched(f.kind, f.img), inputs |-> f.img.inputs,
    outside |-> Parsed(f.kind, f.img).ok /\ ReadsOutside(f.kind, f.img)] : f \in Foreign}
-----------------------------------------------------------------------------
Init ==
  /\ kind \in Kinds
  /\ state = [c \in Container |-> "none"]
  /\ slots = [c \in Container |-> <<>>]
  /\ vals = [c \in Container |-> {}]
  /\ inputs = [c \in Container |-> 0]
  /\ heap = [e \in {} |-> 0]

(* A tone map is made for a number of output channels, and takes one more    *)
(* input, counted in 16 bits.                                                *)
Narrow16(n) == n % 65536

NewToneMap(c, n) ==
  /\ kind = "toneMap"
  /\ slots' = [slots EXCEPT ![c] = [i \in 1 .. n |-> Null]]
  /\ inputs' = [inputs EXCEPT ![c] = Narrow16(n)]

New(c) ==
  /\ state[c] = "none"
  /\ state' = [state EXCEPT ![c] = "good"]
  /\ \/ kind # "toneMap" /\ UNCHANGED <<slots, inputs>>
     \/ \E n \in 1 .. MaxSlots : NewToneMap(c, n)
  /\ UNCHANGED <<kind, vals, heap>>

(* SetSize of an array, which only grows.                                    *)
GrowArray(c, n) ==
  /\ kind = "array" /\ n > Len(slots[c])
  /\ slots' = [slots EXCEPT ![c] =
       [i \in 1 .. n |-> IF i <= Len(slots[c]) THEN slots[c][i] ELSE Null]]
  /\ UNCHANGED heap

(* SetSize of a curve set, which empties it.                                 *)
ResetCurves(c, n) ==
  /\ kind = "curveSet"
  /\ slots' = [slots EXCEPT ![c] = [i \in 1 .. n |-> Null]]
  /\ heap' = Without(Held(c))

(* SetNumOutputChannels of a tone map, which spares its curve and its number *)
(* of input channels.                                                        *)
ResetFuncs(c, n) ==
  /\ kind = "toneMap" /\ n > 0 /\ slots[c] # <<>>
  /\ slots' = [slots EXCEPT ![c] = [i \in 1 .. n |-> IF i = 1 THEN slots[c][1] ELSE Null]]
  /\ heap' = Without(Held(c) \ {slots[c][1]})

SetSize(c) ==
  /\ state[c] = "good"
  /\ \E n \in 0 .. MaxSlots : GrowArray(c, n) \/ ResetCurves(c, n) \/ ResetFuncs(c, n)
  /\ UNCHANGED <<kind, state, vals, inputs>>

(* The element a client hands over: new, or one of another slot of c.        *)
HandedOver(c, e, x) ==
  \/ e \in FreeIn(heap) /\ \A f \in FreeIn(heap) : e <= f
  \/ e \in Held(c) /\ x = heap[e]

(* Attach and Insert of a chain.                                             *)
AddToChain(c, e, x) ==
  /\ kind = "mpe"
  /\ \/ slots' = [slots EXCEPT ![c] = Append(@, e)]
     \/ slots' = [slots EXCEPT ![c] = <<e>> \o @]
  /\ heap' = With(heap, e, x)
  /\ UNCHANGED vals

(* AttachElem of a struct, under a signature it does not have yet.           *)
AttachElem(c, e, x) ==
  /\ kind = "struct"
  /\ slots' = [slots EXCEPT ![c] = Append(@, e)]
  /\ vals' = [vals EXCEPT ![c] = @ \cup {e}]
  /\ heap' = With(heap, e, x)

AttachTag(c, i, e, x) ==
  /\ kind = "array" /\ slots[c][i] = Null
  /\ slots' = [slots EXCEPT ![c][i] = e]
  /\ heap' = With(heap, e, x)
  /\ UNCHANGED vals

(* Another slot has the element of this one; the first mutant looks at no    *)
(* other slot, the second also at this one.                                  *)
NeverShared(c, i) == FALSE
SharedWithItself(c, i) == \E j \in DOMAIN slots[c] : slots[c][j] = slots[c][i]
SharedSlot(c, i) == \E j \in DOMAIN slots[c] \ {i} : slots[c][j] = slots[c][i]

(* SetCurve deletes the curve it replaces unless another slot has it.        *)
SetCurve(c, i, e, x) ==
  /\ kind = "curveSet"
  /\ e \in Held(c) => \E j \in DOMAIN slots[c] \ {i} : slots[c][j] = e
  /\ slots' = [slots EXCEPT ![c][i] = e]
  /\ heap' = With(IF SharedSlot(c, i) THEN heap ELSE Without({slots[c][i]}), e, x)
  /\ UNCHANGED vals

(* SetLumCurve deletes the curve it replaces.                                *)
SetLumCurve(c, e, x) ==
  /\ kind = "toneMap" /\ e \notin Held(c)
  /\ slots' = [slots EXCEPT ![c][1] = e]
  /\ heap' = With(Without({slots[c][1]}), e, x)
  /\ UNCHANGED vals

(* Insert of a tone map fills the next slot.                                 *)
InsertFunc(c, i, e, x) ==
  /\ kind = "toneMap" /\ i > 1 /\ slots[c][i] = Null
  /\ \A j \in 2 .. i - 1 : slots[c][j] # Null
  /\ e # slots[c][1]
  /\ slots' = [slots EXCEPT ![c][i] = e]
  /\ heap' = With(heap, e, x)
  /\ UNCHANGED vals

Add(c) ==
  /\ state[c] = "good"
  /\ \E e \in Elem : \E x \in Data :
       /\ HandedOver(c, e, x)
       /\ \/ Len(slots[c]) < MaxSlots /\ (AddToChain(c, e, x) \/ AttachElem(c, e, x))
          \/ slots[c] # <<>> /\ SetLumCurve(c, e, x)
          \/ \E i \in DOMAIN slots[c] :
               AttachTag(c, i, e, x) \/ SetCurve(c, i, e, x) \/ InsertFunc(c, i, e, x)
  /\ UNCHANGED <<kind, state, inputs>>

(* DeleteElem erases the entry and, with its last one, the element.          *)
DeleteElem(c, i) ==
  LET e == slots[c][i]
      left == [k \in 1 .. Len(slots[c]) - 1 |-> slots[c][IF k < i THEN k ELSE k + 1]]
  IN /\ kind = "struct"
     /\ slots' = [slots EXCEPT ![c] = left]
     /\ IF SharedSlot(c, i) THEN UNCHANGED <<vals, heap>>
        ELSE vals' = [vals EXCEPT ![c] = @ \ {e}] /\ heap' = Without({e})

(* DetachTag that deletes, of an element in one slot; SetCurve with none.    *)
EmptySlot(c, i) ==
  /\ kind \in {"array", "curveSet"} /\ slots[c][i] # Null
  /\ kind = "array" => ~SharedSlot(c, i)
  /\ slots' = [slots EXCEPT ![c][i] = Null]
  /\ heap' = IF SharedSlot(c, i) THEN heap ELSE Without({slots[c][i]})
  /\ UNCHANGED vals

Remove(c) ==
  /\ state[c] = "good"
  /\ \E i \in DOMAIN slots[c] : DeleteElem(c, i) \/ EmptySlot(c, i)
  /\ UNCHANGED <<kind, state, inputs>>

(* The copy constructor.                                                     *)
Copy(c, d) ==
  /\ state[c] = "good" /\ state[d] = "none"
  /\ Filled(d, heap, Copied(c))
  /\ state' = [state EXCEPT ![d] = "good"]
  /\ inputs' = [inputs EXCEPT ![d] = inputs[c]]
  /\ UNCHANGED kind

Assign(c, d) ==
  /\ kind \in {"mpe", "struct", "array"}
  /\ state[c] = "good" /\ state[d] = "good" /\ c # d
  /\ Filled(d, Without(Owned(d)), Copied(c))
  /\ UNCHANGED <<kind, state, inputs>>

Destroy(c) ==
  /\ state[c] # "none"
  /\ state' = [state EXCEPT ![c] = "none"]
  /\ slots' = [slots EXCEPT ![c] = <<>>]
  /\ vals' = [vals EXCEPT ![c] = {}]
  /\ inputs' = [inputs EXCEPT ![c] = 0]
  /\ heap' = Without(Owned(c))
  /\ UNCHANGED kind

(* The input channels a Read leaves that failed are not asked for before the *)
(* next.                                                                     *)
ReadAs(c, r) ==
  /\ state[c] # "none"
  /\ IF r.untouched THEN UNCHANGED <<slots, vals, heap>>
     ELSE Filled(c, Without(Owned(c)), r.content)
  /\ state' = [state EXCEPT ![c] = IF r.ok THEN "good" ELSE "broken"]
  /\ inputs' = [inputs EXCEPT ![c] = IF r.ok THEN r.inputs ELSE @]
  /\ UNCHANGED kind

ReadForeign(c) == \E r \in Reading :
  r.kind = kind /\ Len(r.content) <= MaxSlots /\ ReadAs(c, r)

(* What d's Write makes is read into c.                                      *)
SaveAndRead(c, d) ==
  LET img == Written(kind, ContentOf(d), inputs[d])
      r == Parsed(kind, img)
  IN /\ state[d] = "good" /\ Writable(kind, ContentOf(d))
     /\ ReadAs(c, [ok |-> r.ok, content |-> r.content, untouched |-> Untouched(kind, img),
                   inputs |-> img.inputs])

Next ==
  \E c \in Container :
    \/ New(c) \/ SetSize(c) \/ Add(c) \/ Remove(c) \/ Destroy(c) \/ ReadForeign(c)
    \/ \E d \in Container : Copy(c, d) \/ Assign(c, d) \/ SaveAndRead(c, d)

Spec == Init /\ [][Next]_vars
-----------------------------------------------------------------------------
(* Every pointer in a container is to a living element of no other container *)
(* (the destructors delete by these pointers), and what a struct deletes is  *)
(* what its entries name (m_ElemVals and m_ElemEntries).                     *)
ElementsOwned ==
  \A c \in Container :
    /\ Held(c) \subseteq Live
    /\ Owned(c) = Held(c)
    /\ \A d \in Container \ {c} : Held(c) \cap Held(d) = {}

(* No element outlives the containers that name it, however it was shared,   *)
(* copied, replaced or left behind by a Read that failed half way.           *)
NoLeak == \A e \in Live : \E c \in Container : e \in Held(c)

(* An array with no element at all is written and then refused: its Read     *)
(* wants four bytes more than its Write's head has.  So is a tone map with   *)
(* another number of functions than it was made or read with, as resizing it *)
(* leaves the number of input channels.                                      *)
WriteOnly(c) ==
  \/ kind = "array" /\ \A i \in DOMAIN slots[c] : slots[c][i] = Null
  \/ kind = "toneMap" /\ inputs[c] # Len(slots[c])

(* What Write makes of a container, Read makes the container of: the same    *)
(* elements in the same slots, shared where they were shared.                *)
Reloads ==
  \A c \in Container : state[c] = "good" =>
    LET content == ContentOf(c)
    IN Writable(kind, content) /\ ~WriteOnly(c) =>
         Parsed(kind, Written(kind, content, inputs[c])) = [ok |-> TRUE, content |-> content]

(* A Read that succeeds used no byte behind the end of its tag, but for the  *)
(* curve set, which compares no position with its size.                      *)
Contained == kind # "curveSet" => \A r \in Reading : r.kind = kind => ~r.outside
=============================================================================
