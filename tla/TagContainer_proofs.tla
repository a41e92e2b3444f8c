------------------------ MODULE TagContainer_proofs ------------------------
(***************************************************************************)
(* Ownership of shared elements, what a saved container is read back as, and *)
(* how far a Read of a damaged table goes: for any number of containers,     *)
(* addresses, slots, elements and files of any kind.                         *)
(***************************************************************************)
EXTENDS TagContainer, WellFoundedInduction, TLAPS

Types ==
  /\ kind \in Kinds
  /\ state \in [Container -> {"none", "good", "broken"}]
  /\ slots \in [Container -> Seq(Elem \cup {Null})]
  /\ vals \in [Container -> SUBSET Elem]
  /\ Live \subseteq Elem

Empty == \A c \in Container : state[c] = "none" => slots[c] = <<>>

(* The curve of a tone map stands in no other slot: SetLumCurve deletes it   *)
(* without a look at the others.                                             *)
Apart(s) == \A i \in DOMAIN s \ {1} : s[i] = Null \/ s[i] # s[1]
CurveApart == kind = "toneMap" => \A c \in Container : Apart(slots[c])

IInv == Types /\ ElementsOwned /\ NoLeak /\ Empty /\ CurveApart

HeldIn(s) == {s[i] : i \in DOMAIN s} \ {Null}
-----------------------------------------------------------------------------
(* What slots hold after one more, one less or one changed. *)
LEMMA HeldAppend ==
  ASSUME NEW T, NEW s \in Seq(T), NEW e \in T, e # Null
  PROVE  HeldIn(Append(s, e)) = HeldIn(s) \cup {e}
<1>1. DOMAIN Append(s, e) = DOMAIN s \cup {Len(s) + 1} OBVIOUS
<1>2. \A i \in DOMAIN s : Append(s, e)[i] = s[i] OBVIOUS
<1>3. Append(s, e)[Len(s) + 1] = e OBVIOUS
<1> QED BY <1>1, <1>2, <1>3 DEF HeldIn

LEMMA HeldPrepend ==
  ASSUME NEW T, NEW s \in Seq(T), NEW e \in T, e # Null
  PROVE  HeldIn(<<e>> \o s) = HeldIn(s) \cup {e}
<1> DEFINE t == <<e>> \o s
<1>1. DOMAIN t = 1 .. Len(s) + 1 OBVIOUS
<1>2. t[1] = e OBVIOUS
<1>3. \A i \in DOMAIN s : i + 1 \in DOMAIN t /\ t[i + 1] = s[i] OBVIOUS
<1>4. \A i \in DOMAIN t : i = 1 \/ (i - 1 \in DOMAIN s /\ t[i] = s[i - 1]) OBVIOUS
<1>5. 1 \in DOMAIN t OBVIOUS
<1> HIDE DEF t
<1>6. HeldIn(t) \subseteq HeldIn(s) \cup {e} BY <1>2, <1>4 DEF HeldIn
<1>7. HeldIn(s) \cup {e} \subseteq HeldIn(t) BY <1>2, <1>3, <1>5 DEF HeldIn
<1> QED BY <1>6, <1>7 DEF t

LEMMA HeldChanged ==
  ASSUME NEW T, NEW s \in Seq(T), NEW i \in DOMAIN s, NEW e \in T
  PROVE  HeldIn([s EXCEPT ![i] = e]) =
           ({s[j] : j \in DOMAIN s \ {i}} \cup {e}) \ {Null}
<1> DEFINE t == [s EXCEPT ![i] = e]
<1>1. DOMAIN t = DOMAIN s /\ t[i] = e /\ \A j \in DOMAIN s \ {i} : t[j] = s[j] OBVIOUS
<1> HIDE DEF t
<1>2. HeldIn(t) = ({s[j] : j \in DOMAIN s \ {i}} \cup {e}) \ {Null} BY <1>1 DEF HeldIn
<1> QED BY <1>2 DEF t

LEMMA HeldDropped ==
  ASSUME NEW T, NEW s \in Seq(T), NEW i \in DOMAIN s,
         NEW t, t = [k \in 1 .. Len(s) - 1 |-> s[IF k < i THEN k ELSE k + 1]]
  PROVE  /\ t \in Seq(T)
         /\ HeldIn(t) = {s[j] : j \in DOMAIN s \ {i}} \ {Null}
<1>1. Len(s) - 1 \in Nat /\ DOMAIN s = 1 .. Len(s) OBVIOUS
<1>2. \A k \in 1 .. Len(s) - 1 : (IF k < i THEN k ELSE k + 1) \in DOMAIN s \ {i}
  BY <1>1
<1>3. t \in Seq(T)
  <2>1. \A k \in 1 .. Len(s) - 1 : t[k] \in T BY <1>1, <1>2
  <2>2. t \in [1 .. Len(s) - 1 -> T] BY <2>1
  <2> QED BY <1>1, <2>2
<1>4. \A j \in DOMAIN s \ {i} :
        \E k \in 1 .. Len(s) - 1 : j = IF k < i THEN k ELSE k + 1
  <2> TAKE j \in DOMAIN s \ {i}
  <2>1. CASE j < i
    <3>1. j \in 1 .. Len(s) - 1 BY <1>1, <2>1
    <3> QED BY <2>1, <3>1
  <2>2. CASE j > i
    <3>1. j - 1 \in 1 .. Len(s) - 1 /\ ~(j - 1 < i) /\ j = (j - 1) + 1 BY <1>1, <2>2
    <3> QED BY <3>1
  <2> QED BY <1>1, <2>1, <2>2
<1>5. DOMAIN t = 1 .. Len(s) - 1 OBVIOUS
<1>6. \A k \in DOMAIN t : \E j \in DOMAIN s \ {i} : t[k] = s[j] BY <1>2, <1>5
<1>7. \A j \in DOMAIN s \ {i} : \E k \in DOMAIN t : t[k] = s[j] BY <1>4, <1>5
<1>8. HeldIn(t) \subseteq {s[j] : j \in DOMAIN s \ {i}} \ {Null} BY <1>6 DEF HeldIn
<1>9. {s[j] : j \in DOMAIN s \ {i}} \ {Null} \subseteq HeldIn(t) BY <1>7 DEF HeldIn
<1> QED BY <1>3, <1>8, <1>9

LEMMA HeldByType ==
  ASSUME NEW s \in Seq(Elem \cup {Null})
  PROVE  HeldIn(s) \subseteq Elem /\ \A i \in DOMAIN s : s[i] = Null \/ s[i] \in HeldIn(s)
BY DEF HeldIn
-----------------------------------------------------------------------------
(* One container's elements are exchanged: those it no longer names are      *)
(* deleted, those it names anew were free.                                   *)
LEMMA OwnershipChange ==
  ASSUME ElementsOwned, NoLeak,
         NEW c \in Container, NEW new,
         \A d \in Container \ {c} : Held(d)' = Held(d) /\ Owned(d)' = Owned(d),
         Held(c)' = new, Owned(c)' = new,
         Live' = (Live \ Held(c)) \cup new,
         new \cap (Live \ Held(c)) = {}
  PROVE  ElementsOwned' /\ NoLeak'
<1>1. ASSUME NEW d \in Container
      PROVE  /\ Held(d)' \subseteq Live' /\ Owned(d)' = Held(d)'
             /\ \A b \in Container \ {d} : Held(d)' \cap Held(b)' = {}
  <2>1. CASE d = c
    <3>1. \A b \in Container \ {c} : Held(b)' = Held(b) /\ Held(b) \subseteq Live \ Held(c)
      BY DEF ElementsOwned
    <3> QED BY <2>1, <3>1
  <2>2. CASE d # c
    <3>1. Held(d)' = Held(d) /\ Owned(d)' = Held(d) /\ Held(d) \subseteq Live \ Held(c)
      BY <2>2 DEF ElementsOwned
    <3>2. \A b \in Container \ {d, c} : Held(b)' = Held(b) /\ Held(d) \cap Held(b) = {}
      BY <2>2 DEF ElementsOwned
    <3> QED BY <3>1, <3>2
  <2> QED BY <2>1, <2>2
<1>2. ASSUME NEW e \in Live' PROVE \E d \in Container : e \in Held(d)'
  <2>1. CASE e \in new BY <2>1
  <2>2. CASE e \in Live \ Held(c)
    <3>1. PICK d \in Container : e \in Held(d) BY <2>2 DEF NoLeak
    <3>2. d # c BY <2>2, <3>1
    <3> QED BY <3>1, <3>2
  <2> QED BY <1>2, <2>1, <2>2
<1> QED BY <1>1, <1>2 DEF ElementsOwned, NoLeak

LEMMA HeldIsHeldIn == \A c \in Container : Held(c) = HeldIn(slots[c])
BY DEF Held, HeldIn

(* One container's slots, m_ElemVals and state are exchanged. *)
Exchange(c, s, own, st) ==
  /\ kind' = kind
  /\ slots' = [slots EXCEPT ![c] = s]
  /\ vals' = [vals EXCEPT ![c] = own]
  /\ state' = [state EXCEPT ![c] = st]

LEMMA SlotsChange ==
  ASSUME IInv, NEW c \in Container, NEW s \in Seq(Elem \cup {Null}),
         NEW own \in SUBSET Elem, NEW st \in {"none", "good", "broken"},
         Exchange(c, s, own, st),
         kind = "struct" => own = HeldIn(s),
         st = "none" => s = <<>>,
         Live' = (Live \ Held(c)) \cup HeldIn(s),
         HeldIn(s) \cap (Live \ Held(c)) = {},
         kind = "toneMap" => Apart(s)
  PROVE  IInv'
<1>1. slots'[c] = s /\ \A d \in Container \ {c} : slots'[d] = slots[d]
  BY DEF IInv, Types, Exchange
<1>2. vals'[c] = own /\ \A d \in Container \ {c} : vals'[d] = vals[d]
  BY DEF IInv, Types, Exchange
<1>3. Types'
  <2>1. slots' \in [Container -> Seq(Elem \cup {Null})] BY DEF IInv, Types, Exchange
  <2>2. vals' \in [Container -> SUBSET Elem] BY DEF IInv, Types, Exchange
  <2>3. Live' \subseteq Elem BY HeldByType DEF IInv, Types
  <2>4. kind' \in Kinds /\ state' \in [Container -> {"none", "good", "broken"}]
    BY DEF IInv, Types, Exchange
  <2> QED BY <2>1, <2>2, <2>3, <2>4 DEF Types
<1>4. Held(c)' = HeldIn(s) BY <1>1 DEF Held, HeldIn
<1>5. Owned(c)' = HeldIn(s) BY <1>2, <1>4 DEF Owned, Exchange
<1>6. \A d \in Container \ {c} : Held(d)' = Held(d) /\ Owned(d)' = Owned(d)
  BY <1>1, <1>2 DEF Held, Owned, Exchange
<1>7. ElementsOwned' /\ NoLeak' BY <1>4, <1>5, <1>6, OwnershipChange DEF IInv
<1>8. Empty' BY <1>1 DEF IInv, Empty, Types, Exchange
<1>9. CurveApart' BY <1>1 DEF IInv, CurveApart, Exchange
<1> QED BY <1>3, <1>7, <1>8, <1>9 DEF IInv

LEMMA HeldFacts ==
  ASSUME IInv, NEW c \in Container
  PROVE  /\ slots[c] \in Seq(Elem \cup {Null})
         /\ Held(c) = HeldIn(slots[c])
         /\ Held(c) \subseteq Live /\ Live \subseteq Elem /\ Owned(c) = Held(c)
         /\ vals[c] \subseteq Elem /\ (kind = "struct" => vals[c] = Held(c))
         /\ vals = [vals EXCEPT ![c] = vals[c]]
         /\ state = [state EXCEPT ![c] = state[c]]
         /\ state[c] \in {"none", "good", "broken"}
BY HeldIsHeldIn DEF IInv, Types, ElementsOwned, Owned
-----------------------------------------------------------------------------
(* One step for each operation. *)
LEMMA InitOwned == Init => IInv
<1> SUFFICES ASSUME Init PROVE IInv OBVIOUS
<1>1. \A c \in Container : Held(c) = {} /\ Owned(c) = {} BY DEF Init, Held, Owned
<1>2. Live = {} BY DEF Init, Live
<1>3. Types
  <2>1. <<>> \in Seq(Elem \cup {Null}) OBVIOUS
  <2> QED BY <1>2, <2>1 DEF Init, Types
<1>4. ElementsOwned /\ NoLeak BY <1>1, <1>2 DEF ElementsOwned, NoLeak
<1>5. CurveApart BY DEF Init, CurveApart, Apart
<1> QED BY <1>3, <1>4, <1>5 DEF Init, IInv, Empty

(* A new container has no slot, or as a tone map some empty ones. *)
NewSlots(c, s) ==
  /\ s \in Seq(Elem \cup {Null}) /\ \A i \in DOMAIN s : s[i] = Null
  /\ kind \in {"mpe", "struct"} => s = <<>>
  /\ slots' = [slots EXCEPT ![c] = s]

LEMMA NewSlotsThere ==
  ASSUME IInv, NEW c \in Container, New(c)
  PROVE  \E s : NewSlots(c, s)
<1>1. CASE kind # "toneMap" /\ UNCHANGED <<slots, inputs>>
  <2>1. slots[c] = <<>> /\ slots' = [slots EXCEPT ![c] = slots[c]]
    BY <1>1 DEF IInv, Empty, Types, New
  <2> DEFINE s == <<>>
  <2>2. s \in Seq(Elem \cup {Null}) /\ \A i \in DOMAIN s : s[i] = Null OBVIOUS
  <2>3. NewSlots(c, s) BY <2>1, <2>2 DEF NewSlots
  <2> QED BY <2>3
<1>2. ASSUME NEW n \in 1 .. MaxSlots, NewToneMap(c, n) PROVE \E s : NewSlots(c, s)
  <2> DEFINE s == [i \in 1 .. n |-> Null]
  <2>1. n \in Nat BY MaxSlotsAssumption
  <2>2. s \in Seq(Elem \cup {Null}) /\ \A i \in DOMAIN s : s[i] = Null BY <2>1
  <2>3. kind = "toneMap" /\ slots' = [slots EXCEPT ![c] = s] BY <1>2 DEF NewToneMap
  <2> HIDE DEF s
  <2>4. NewSlots(c, s) BY <2>2, <2>3 DEF NewSlots
  <2> QED BY <2>4
<1> QED BY <1>1, <1>2 DEF New

LEMMA NewOwned == ASSUME IInv, NEW c \in Container, New(c) PROVE IInv'
<1>1. PICK s : NewSlots(c, s) BY NewSlotsThere
<1>2. s \in Seq(Elem \cup {Null}) /\ HeldIn(s) = {} /\ Apart(s)
  BY <1>1 DEF NewSlots, HeldIn, Apart
<1>3. slots[c] = <<>> BY DEF IInv, Empty, New
<1>4. Held(c) = {} BY <1>3 DEF Held
<1>5. Exchange(c, s, vals[c], "good") BY <1>1, HeldFacts DEF New, Exchange, NewSlots
<1>6. Live' = Live BY DEF New, Live
<1>7. vals[c] \in SUBSET Elem /\ (kind = "struct" => vals[c] = {}) BY <1>4, HeldFacts
<1> QED BY <1>2, <1>4, <1>5, <1>6, <1>7, SlotsChange

LEMMA DestroyOwned == ASSUME IInv, NEW c \in Container, Destroy(c) PROVE IInv'
<1>1. <<>> \in Seq(Elem \cup {Null}) /\ HeldIn(<<>>) = {} BY DEF HeldIn
<1>2. Live' = Live \ Held(c) BY HeldFacts DEF Destroy, Without, Live
<1>3. Exchange(c, <<>>, {}, "none") BY DEF Destroy, Exchange
<1>4. Apart(<<>>) BY DEF Apart
<1> QED BY <1>1, <1>2, <1>3, <1>4, SlotsChange

LEMMA SetSizeOwned == ASSUME IInv, NEW c \in Container, SetSize(c) PROVE IInv'
<1>0. PICK n \in 0 .. MaxSlots : GrowArray(c, n) \/ ResetCurves(c, n) \/ ResetFuncs(c, n)
  BY DEF SetSize
<1>1. n \in Nat BY MaxSlotsAssumption
<1>2. ASSUME NEW s, slots' = [slots EXCEPT ![c] = s] PROVE Exchange(c, s, vals[c], state[c])
  BY <1>2, HeldFacts DEF SetSize, Exchange
<1>3. /\ vals[c] \in SUBSET Elem /\ state[c] = "good"
      /\ (kind = "struct" => vals[c] = Held(c))
  BY HeldFacts DEF SetSize
<1>4. CASE GrowArray(c, n)
  <2> DEFINE s == [i \in 1 .. n |-> IF i <= Len(slots[c]) THEN slots[c][i] ELSE Null]
  <2>1. slots' = [slots EXCEPT ![c] = s] /\ heap' = heap /\ n > Len(slots[c]) /\ kind = "array"
    BY <1>4 DEF GrowArray
  <2>2. s \in Seq(Elem \cup {Null})
    <3>1. \A i \in 1 .. n : s[i] \in Elem \cup {Null} BY HeldFacts
    <3>2. s \in [1 .. n -> Elem \cup {Null}] BY <3>1
    <3> QED BY <1>1, <3>2
  <2>3. HeldIn(s) = HeldIn(slots[c])
    <3>1. DOMAIN slots[c] = 1 .. Len(slots[c]) /\ Len(slots[c]) \in Nat BY HeldFacts
    <3>2. \A i \in DOMAIN slots[c] : i \in DOMAIN s /\ s[i] = slots[c][i] BY <1>1, <2>1, <3>1
    <3>3. \A i \in DOMAIN s : s[i] = Null \/ (i \in DOMAIN slots[c] /\ s[i] = slots[c][i])
      BY <1>1, <3>1
    <3> HIDE DEF s
    <3>4. HeldIn(s) \subseteq HeldIn(slots[c]) BY <3>3 DEF HeldIn
    <3>5. HeldIn(slots[c]) \subseteq HeldIn(s) BY <3>2 DEF HeldIn
    <3> QED BY <3>4, <3>5
  <2>4. Live' = Live /\ Held(c) = HeldIn(slots[c]) /\ Held(c) \subseteq Live
    BY <2>1, HeldFacts DEF Live
  <2> HIDE DEF s
  <2> QED BY <1>2, <1>3, <2>1, <2>2, <2>3, <2>4, SlotsChange
<1>5. CASE ResetCurves(c, n)
  <2> DEFINE s == [i \in 1 .. n |-> Null]
  <2>1. slots' = [slots EXCEPT ![c] = s] /\ Live' = Live \ Held(c) /\ kind = "curveSet"
    BY <1>5 DEF ResetCurves, Without, Live
  <2>2. s \in Seq(Elem \cup {Null}) BY <1>1
  <2>3. HeldIn(s) = {} BY DEF HeldIn
  <2> HIDE DEF s
  <2> QED BY <1>2, <1>3, <2>1, <2>2, <2>3, SlotsChange
<1>6. CASE ResetFuncs(c, n)
  <2> DEFINE s == [i \in 1 .. n |-> IF i = 1 THEN slots[c][1] ELSE Null]
  <2>1. /\ slots' = [slots EXCEPT ![c] = s] /\ n > 0 /\ kind = "toneMap"
        /\ Live' = Live \ (Held(c) \ {slots[c][1]}) /\ slots[c] # <<>>
    BY <1>6 DEF ResetFuncs, Without, Live
  <2>2. 1 \in DOMAIN slots[c] /\ slots[c][1] \in Elem \cup {Null} BY <2>1, HeldFacts
  <2>3. s \in Seq(Elem \cup {Null})
    <3>1. s \in [1 .. n -> Elem \cup {Null}] BY <2>2
    <3> QED BY <1>1, <3>1
  <2>4. HeldIn(s) = {slots[c][1]} \ {Null}
    <3>1. 1 \in DOMAIN s /\ s[1] = slots[c][1] BY <1>1, <2>1
    <3>2. \A i \in DOMAIN s : s[i] \in {slots[c][1], Null} OBVIOUS
    <3> HIDE DEF s
    <3> QED BY <3>1, <3>2 DEF HeldIn
  <2>5. {slots[c][1]} \ {Null} \subseteq Held(c) /\ Held(c) \subseteq Live /\ Null \notin Held(c)
    BY <2>2, HeldFacts DEF Held
  <2>6. Live' = (Live \ Held(c)) \cup HeldIn(s) BY <2>1, <2>4, <2>5, ElemAssumption, HeldFacts
  <2>7. HeldIn(s) \cap (Live \ Held(c)) = {} BY <2>4, <2>5
  <2>8. Apart(s) BY DEF Apart
  <2> HIDE DEF s
  <2>9. Exchange(c, s, vals[c], state[c]) BY <1>2, <2>1
  <2>10. kind # "struct" BY <2>1
  <2> QED BY <1>3, <2>3, <2>6, <2>7, <2>8, <2>9, <2>10, SlotsChange
<1> QED BY <1>0, <1>4, <1>5, <1>6

(* What a client hands over can be named by c. *)
LEMMA HandedOverFacts ==
  ASSUME IInv, NEW c \in Container, NEW e \in Elem, NEW x, HandedOver(c, e, x)
  PROVE  e # Null /\ e \notin Live \ Held(c)
BY ElemAssumption DEF HandedOver, FreeIn, Live

(* A slot that gets e, of a container of which m_ElemVals is not asked. *)
LEMMA SlotSet ==
  ASSUME IInv, NEW c \in Container, NEW i \in DOMAIN slots[c], NEW e \in Elem \cup {Null},
         e \notin Live \ Held(c), kind # "struct", state[c] = "good",
         slots' = [slots EXCEPT ![c][i] = e], UNCHANGED <<kind, state, vals>>,
         Live' = (IF SharedSlot(c, i) THEN Live ELSE Live \ {slots[c][i]}) \cup ({e} \ {Null}),
         kind = "toneMap" => Apart([slots[c] EXCEPT ![i] = e])
  PROVE  IInv'
<1> DEFINE s == [slots[c] EXCEPT ![i] = e]
           others == {slots[c][j] : j \in DOMAIN slots[c] \ {i}}
<1>1. s \in Seq(Elem \cup {Null}) BY HeldFacts
<1>2. HeldIn(s) = (others \cup {e}) \ {Null}
  <2>1. slots[c] \in Seq(Elem \cup {Null}) BY HeldFacts
  <2> QED BY <2>1, HeldChanged
<1>3. Held(c) = (others \cup {slots[c][i]}) \ {Null} BY DEF Held
<1>4. Exchange(c, s, vals[c], state[c])
  <2>1. slots' = [slots EXCEPT ![c] = s] OBVIOUS
  <2> QED BY <2>1, HeldFacts DEF Exchange
<1>5. SharedSlot(c, i) <=> slots[c][i] \in others BY DEF SharedSlot
<1>6. Held(c) \subseteq Live /\ Null \notin Live /\ vals[c] \in SUBSET Elem
  BY HeldFacts, ElemAssumption
<1> HIDE DEF others
<1>7. Live' = (Live \ Held(c)) \cup HeldIn(s) BY <1>2, <1>3, <1>5, <1>6
<1>8. HeldIn(s) \cap (Live \ Held(c)) = {} BY <1>2, <1>3
<1>9. kind = "toneMap" => Apart(s) OBVIOUS
<1> HIDE DEF s
<1> QED BY <1>1, <1>4, <1>6, <1>7, <1>8, <1>9, SlotsChange

LEMMA AddOwned == ASSUME IInv, NEW c \in Container, Add(c) PROVE IInv'
<1>1. PICK e \in Elem : \E x \in Data :
        /\ HandedOver(c, e, x)
        /\ \/ AddToChain(c, e, x) \/ AttachElem(c, e, x)
           \/ slots[c] # <<>> /\ SetLumCurve(c, e, x)
           \/ \E i \in DOMAIN slots[c] :
                AttachTag(c, i, e, x) \/ SetCurve(c, i, e, x) \/ InsertFunc(c, i, e, x)
  BY DEF Add
<1>2. PICK x \in Data :
        /\ HandedOver(c, e, x)
        /\ \/ AddToChain(c, e, x) \/ AttachElem(c, e, x)
           \/ slots[c] # <<>> /\ SetLumCurve(c, e, x)
           \/ \E i \in DOMAIN slots[c] :
                AttachTag(c, i, e, x) \/ SetCurve(c, i, e, x) \/ InsertFunc(c, i, e, x)
  BY <1>1
<1>3. e # Null /\ e \notin Live \ Held(c) BY <1>2, HandedOverFacts
<1>4. state[c] = "good" /\ kind' = kind /\ state' = state BY DEF Add
<1>5. /\ slots[c] \in Seq(Elem \cup {Null}) /\ vals[c] \in SUBSET Elem
      /\ Held(c) = HeldIn(slots[c]) /\ Held(c) \subseteq Live
      /\ (kind = "struct" => vals[c] = Held(c))
  BY HeldFacts
<1>6. CASE AddToChain(c, e, x)
  <2>1. PICK s \in {Append(slots[c], e), <<e>> \o slots[c]} : slots' = [slots EXCEPT ![c] = s]
    BY <1>6 DEF AddToChain
  <2>2. s \in Seq(Elem \cup {Null})
    <3>1. Append(slots[c], e) \in Seq(Elem \cup {Null}) BY <1>5
    <3>2. <<e>> \o slots[c] \in Seq(Elem \cup {Null}) BY <1>5
    <3> QED BY <3>1, <3>2
  <2>3. HeldIn(s) = Held(c) \cup {e}
    <3> DEFINE T == Elem \cup {Null}
    <3>1. slots[c] \in Seq(T) /\ e \in T BY <1>5
    <3> HIDE DEF T
    <3>2. HeldIn(Append(slots[c], e)) = HeldIn(slots[c]) \cup {e} BY <1>3, <3>1, HeldAppend
    <3>3. HeldIn(<<e>> \o slots[c]) = HeldIn(slots[c]) \cup {e} BY <1>3, <3>1, HeldPrepend
    <3> QED BY <1>5, <2>1, <3>2, <3>3
  <2>4. kind = "mpe" /\ Live' = Live \cup {e} /\ vals' = vals
    BY <1>6 DEF AddToChain, With, Live
  <2>5. Exchange(c, s, vals[c], state[c]) BY <1>4, <2>1, <2>4, HeldFacts DEF Exchange
  <2>6. Live' = (Live \ Held(c)) \cup HeldIn(s) BY <1>5, <2>3, <2>4
  <2>7. HeldIn(s) \cap (Live \ Held(c)) = {} BY <1>3, <2>3
  <2>8. kind # "struct" /\ kind # "toneMap" BY <2>4
  <2> QED BY <1>4, <1>5, <2>2, <2>5, <2>6, <2>7, <2>8, SlotsChange
<1>7. CASE AttachElem(c, e, x)
  <2> DEFINE s == Append(slots[c], e)
             own == vals[c] \cup {e}
  <2>1. s \in Seq(Elem \cup {Null}) /\ own \in SUBSET Elem BY <1>5
  <2>2. HeldIn(s) = Held(c) \cup {e} BY <1>3, <1>5, HeldAppend
  <2>3. kind = "struct" /\ Live' = Live \cup {e} BY <1>7 DEF AttachElem, With, Live
  <2>4. Exchange(c, s, own, state[c]) BY <1>4, <1>7, HeldFacts DEF Exchange, AttachElem
  <2>5. Live' = (Live \ Held(c)) \cup HeldIn(s) BY <1>5, <2>2, <2>3
  <2>6. HeldIn(s) \cap (Live \ Held(c)) = {} BY <1>3, <2>2
  <2>7. own = HeldIn(s) BY <1>5, <2>2, <2>3
  <2>8. kind # "toneMap" BY <2>3
  <2> HIDE DEF s, own
  <2> QED BY <1>4, <2>1, <2>4, <2>5, <2>6, <2>7, <2>8, SlotsChange
<1>8. CASE slots[c] # <<>> /\ SetLumCurve(c, e, x)
  <2>1. 1 \in DOMAIN slots[c] BY <1>5, <1>8
  <2>2. /\ kind = "toneMap" /\ e \notin Held(c) /\ slots' = [slots EXCEPT ![c][1] = e]
        /\ Live' = (Live \ {slots[c][1]}) \cup {e} /\ vals' = vals
    BY <1>8 DEF SetLumCurve, With, Without, Live
  <2>3. Apart(slots[c]) BY <2>2 DEF IInv, CurveApart
  <2>4. SharedSlot(c, 1) => slots[c][1] = Null BY <2>3 DEF SharedSlot, Apart
  <2>5. Live' = (IF SharedSlot(c, 1) THEN Live ELSE Live \ {slots[c][1]}) \cup ({e} \ {Null})
    <3>1. Null \notin Live BY HeldFacts, ElemAssumption
    <3> QED BY <1>3, <2>2, <2>4, <3>1
  <2>6. Apart([slots[c] EXCEPT ![1] = e])
    <3>1. \A i \in DOMAIN slots[c] : slots[c][i] = Null \/ slots[c][i] # e
      BY <2>2 DEF Held
    <3> QED BY <2>1, <3>1 DEF Apart
  <2>7. kind # "struct" BY <2>2
  <2> QED BY <1>3, <1>4, <2>1, <2>2, <2>5, <2>6, <2>7, SlotSet
<1>9. CASE \E i \in DOMAIN slots[c] :
             AttachTag(c, i, e, x) \/ SetCurve(c, i, e, x) \/ InsertFunc(c, i, e, x)
  <2>1. PICK i \in DOMAIN slots[c] :
          AttachTag(c, i, e, x) \/ SetCurve(c, i, e, x) \/ InsertFunc(c, i, e, x)
    BY <1>9
  <2>2. /\ slots' = [slots EXCEPT ![c][i] = e] /\ vals' = vals
        /\ kind \in {"array", "curveSet", "toneMap"}
    BY <2>1 DEF AttachTag, SetCurve, InsertFunc
  <2>3. Live' = (IF SharedSlot(c, i) THEN Live ELSE Live \ {slots[c][i]}) \cup ({e} \ {Null})
    <3>1. Null \notin Live BY HeldFacts, ElemAssumption
    <3>2. CASE AttachTag(c, i, e, x) \/ InsertFunc(c, i, e, x)
      <4>1. slots[c][i] = Null /\ Live' = Live \cup {e}
        BY <3>2 DEF AttachTag, InsertFunc, With, Live
      <4> QED BY <1>3, <3>1, <4>1
    <3>3. CASE SetCurve(c, i, e, x)
      <4>1. Live' = (IF SharedSlot(c, i) THEN Live ELSE Live \ {slots[c][i]}) \cup {e}
        BY <3>3 DEF SetCurve, With, Without, Live
      <4> QED BY <1>3, <4>1
    <3> QED BY <2>1, <3>2, <3>3
  <2>4. kind = "toneMap" => Apart([slots[c] EXCEPT ![i] = e])
    <3> SUFFICES ASSUME kind = "toneMap" PROVE Apart([slots[c] EXCEPT ![i] = e]) OBVIOUS
    <3>1. i > 1 /\ e # slots[c][1] BY <2>1 DEF AttachTag, SetCurve, InsertFunc
    <3>2. Apart(slots[c]) BY DEF IInv, CurveApart
    <3> QED BY <3>1, <3>2 DEF Apart
  <2>5. kind # "struct" BY <2>2
  <2> QED BY <1>3, <1>4, <2>2, <2>3, <2>4, <2>5, SlotSet
<1> QED BY <1>2, <1>6, <1>7, <1>8, <1>9

LEMMA RemoveOwned == ASSUME IInv, NEW c \in Container, Remove(c) PROVE IInv'
<1>1. PICK i \in DOMAIN slots[c] : DeleteElem(c, i) \/ EmptySlot(c, i) BY DEF Remove
<1>2. state[c] = "good" /\ kind' = kind /\ state' = state BY DEF Remove
<1>3. /\ slots[c] \in Seq(Elem \cup {Null}) /\ vals[c] \in SUBSET Elem
      /\ Held(c) \subseteq Live /\ Null \notin Live
      /\ (kind = "struct" => vals[c] = Held(c))
  BY HeldFacts, ElemAssumption
<1>4. CASE DeleteElem(c, i)
  <2> DEFINE e == slots[c][i]
             others == {slots[c][j] : j \in DOMAIN slots[c] \ {i}}
             s == [k \in 1 .. Len(slots[c]) - 1 |-> slots[c][IF k < i THEN k ELSE k + 1]]
             own == IF SharedSlot(c, i) THEN vals[c] ELSE vals[c] \ {e}
  <2>1. s \in Seq(Elem \cup {Null}) /\ HeldIn(s) = others \ {Null} BY <1>3, HeldDropped
  <2>2. SharedSlot(c, i) <=> e \in others BY DEF SharedSlot
  <2>3. Held(c) = (others \cup {e}) \ {Null} BY DEF Held
  <2>4. kind = "struct" /\ slots' = [slots EXCEPT ![c] = s] BY <1>4 DEF DeleteElem
  <2>5. vals' = [vals EXCEPT ![c] = own] BY <1>4, HeldFacts DEF DeleteElem
  <2>6. Live' = IF SharedSlot(c, i) THEN Live ELSE Live \ {e}
    BY <1>4 DEF DeleteElem, Without, Live
  <2>7. own \in SUBSET Elem BY <1>3
  <2>8. own = HeldIn(s)
    <3> HIDE DEF others, s, e
    <3> QED BY <1>3, <2>1, <2>2, <2>3, <2>4 DEF own
  <2>9. Exchange(c, s, own, state[c]) BY <1>2, <2>4, <2>5, HeldFacts DEF Exchange
  <2> HIDE DEF others, s, own, e
  <2>10. Live' = (Live \ Held(c)) \cup HeldIn(s) BY <1>3, <2>1, <2>2, <2>3, <2>6
  <2>11. HeldIn(s) \cap (Live \ Held(c)) = {} BY <2>1, <2>3
  <2>12. kind # "toneMap" BY <2>4
  <2> QED BY <1>2, <2>1, <2>7, <2>8, <2>9, <2>10, <2>11, <2>12, SlotsChange
<1>5. CASE EmptySlot(c, i)
  <2>1. slots' = [slots EXCEPT ![c][i] = Null] /\ vals' = vals /\ kind \in {"array", "curveSet"}
    BY <1>5 DEF EmptySlot
  <2>2. Live' = (IF SharedSlot(c, i) THEN Live ELSE Live \ {slots[c][i]}) \cup ({Null} \ {Null})
    BY <1>5 DEF EmptySlot, Without, Live
  <2>3. kind # "struct" /\ kind # "toneMap" BY <2>1
  <2> QED BY <1>2, <1>3, <2>1, <2>2, <2>3, SlotSet
<1> QED BY <1>1, <1>4, <1>5
-----------------------------------------------------------------------------
(* What CHOOSE finds: the least of the candidates is one. *)
LEMMA LeastOf == ASSUME NEW S, S \subseteq Nat, S # {} PROVE \E m \in S : \A k \in S : m <= k
<1>1. PICK m \in S : \A k \in S : <<k, m>> \notin OpToRel(<, Nat)
  BY NatLessThanWellFounded, WFMin, Zenon
<1>2. \A k \in S : ~(k < m) BY <1>1, Zenon DEF OpToRel
<1> QED BY <1>2

LEMMA FirstLikeIs ==
  ASSUME NEW s, NEW i \in Nat \ {0}
  PROVE  /\ FirstLike(s, i) \in 1 .. i /\ s[FirstLike(s, i)] = s[i]
         /\ \A k \in 1 .. FirstLike(s, i) - 1 : s[k] # s[i]
<1> DEFINE S == {j \in 1 .. i : s[j] = s[i]}
<1>1. S \subseteq Nat /\ S # {} OBVIOUS
<1>2. PICK m \in S : \A k \in S : m <= k BY <1>1, LeastOf
<1>3. m \in 1 .. i /\ s[m] = s[i] /\ \A k \in 1 .. m - 1 : s[k] # s[m] BY <1>2
<1> QED BY <1>3 DEF FirstLike

LEMMA FirstLikeOnly ==
  ASSUME NEW s, NEW i \in Nat \ {0}, NEW j \in 1 .. i, s[j] = s[i],
         \A k \in 1 .. j - 1 : s[k] # s[i]
  PROVE  FirstLike(s, i) = j
<1> DEFINE m == FirstLike(s, i)
<1>1. m \in 1 .. i /\ s[m] = s[i] /\ \A k \in 1 .. m - 1 : s[k] # s[i] BY FirstLikeIs
<1> HIDE DEF m
<1>2. ~(m < j) /\ ~(j < m) BY <1>1
<1>3. m = j BY <1>1, <1>2
<1> QED BY <1>3 DEF m

(* Content whose first slot shares with none. *)
LeadsApart(q) ==
  \A i \in DOMAIN q : IF i = 1 THEN q[i].lead \in {0, 1} ELSE q[i].lead # 1

LEMMA ContentOfIs ==
  ASSUME IInv, NEW c \in Container
  PROVE  /\ DOMAIN ContentOf(c) = DOMAIN slots[c]
         /\ kind = "toneMap" => LeadsApart(ContentOf(c))
<1>1. DOMAIN ContentOf(c) = DOMAIN slots[c] BY DEF ContentOf
<1>2. ASSUME kind = "toneMap", NEW i \in DOMAIN slots[c]
      PROVE  IF i = 1 THEN ContentOf(c)[i].lead \in {0, 1} ELSE ContentOf(c)[i].lead # 1
  <2>1. i \in Nat \ {0} BY HeldFacts
  <2>2. FirstLike(slots[c], i) \in 1 .. i /\ slots[c][FirstLike(slots[c], i)] = slots[c][i]
    BY <2>1, FirstLikeIs
  <2>3. Apart(slots[c]) BY <1>2 DEF IInv, CurveApart
  <2>4. slots[c][i] # Null /\ i # 1 => FirstLike(slots[c], i) # 1 BY <2>2, <2>3 DEF Apart
  <2>5. ContentOf(c)[i].lead = IF slots[c][i] = Null THEN 0 ELSE FirstLike(slots[c], i)
    BY DEF ContentOf, Hole
  <2>6. i = 1 => FirstLike(slots[c], i) = 1 BY <2>2
  <2> QED BY <2>4, <2>5, <2>6
<1> QED BY <1>1, <1>2 DEF LeadsApart

LEMMA CopiedIs ==
  ASSUME IInv, NEW c \in Container
  PROVE  /\ DOMAIN Copied(c) = DOMAIN slots[c]
         /\ kind = "toneMap" => LeadsApart(Copied(c))
BY ContentOfIs DEF Copied

LEMMA LeadOfIs ==
  ASSUME NEW img, NEW i \in Nat \ {0}
  PROVE  IF i = 1 THEN LeadOf("toneMap", img, i) = 1 ELSE LeadOf("toneMap", img, i) # 1
<1> DEFINE first == FirstLike(Offsets(img), i)
<1>1. first \in 1 .. i BY FirstLikeIs
<1>2. CASE i = 1 \/ first # 1
  <2>1. LeadOf("toneMap", img, i) = first BY <1>2 DEF LeadOf
  <2> QED BY <1>1, <1>2, <2>1
<1>3. CASE i > 1 /\ first = 1
  <2> DEFINE S == {j \in 2 .. i : img.pos[j].offset = img.pos[i].offset}
  <2>1. S \subseteq Nat /\ S # {} BY <1>3
  <2>2. PICK m \in S : \A k \in S : m <= k BY <2>1, LeastOf
  <2>3. m \in 2 .. i /\ \A k \in 2 .. m - 1 : img.pos[k].offset # img.pos[i].offset BY <2>2
  <2>4. (CHOOSE j \in 2 .. i : /\ img.pos[j].offset = img.pos[i].offset
                               /\ \A k \in 2 .. j - 1 : img.pos[k].offset # img.pos[i].offset)
          \in 2 .. i
    BY <2>2, <2>3
  <2>5. LeadOf("toneMap", img, i) \in 2 .. i BY <1>3, <2>4 DEF LeadOf
  <2> QED BY <1>3, <2>5
<1> QED BY <1>1, <1>2, <1>3

LEMMA StopIs ==
  ASSUME NEW t, NEW img, NEW n \in Nat, Len(img.pos) = n
  PROVE  /\ Stop(t, img) \in 1 .. n + 1
         /\ Stop(t, img) <= n => StopsAt(t, img, Stop(t, img))
         /\ \A j \in 1 .. Stop(t, img) - 1 : ~StopsAt(t, img, j)
<1> DEFINE S == {i \in 1 .. n + 1 : i <= n => StopsAt(t, img, i)}
<1>1. S \subseteq Nat /\ n + 1 \in S OBVIOUS
<1>2. PICK m \in S : \A k \in S : m <= k BY <1>1, LeastOf
<1>3. m \in 1 .. n + 1 /\ (m <= n => StopsAt(t, img, m)) BY <1>2
<1>4. \A j \in 1 .. m - 1 : ~StopsAt(t, img, j) BY <1>2, <1>3
<1> QED BY <1>3, <1>4 DEF Stop

LEMMA ParsedIs ==
  ASSUME NEW t, NEW img, NEW n \in Nat, Len(img.pos) = n, DOMAIN img.pos = 1 .. n
  PROVE  /\ \E k \in Nat : DOMAIN Parsed(t, img).content = 1 .. k
         /\ t = "toneMap" => LeadsApart(Parsed(t, img).content)
<1>1. CASE ~HeadOk(t, img)
  <2>1. Parsed(t, img).content = Cut(t, img) BY <1>1 DEF Parsed
  <2>2. DOMAIN Cut(t, img) \in {1 .. n, 1 .. 0} BY DEF Cut
  <2>3. \A i \in DOMAIN Cut(t, img) : Cut(t, img)[i].lead = 0 BY DEF Cut, Hole
  <2> QED BY <2>1, <2>2, <2>3 DEF LeadsApart
<1>2. CASE HeadOk(t, img)
  <2> DEFINE k == Stop(t, img)
             q == [i \in 1 .. SlotsLeft(t, img, k) |-> SlotRead(t, img, i, k)]
  <2>1. k \in 1 .. n + 1 BY StopIs
  <2>2. SlotsLeft(t, img, k) \in Nat BY <2>1 DEF SlotsLeft
  <2>3. Parsed(t, img).content = q BY <1>2 DEF Parsed
  <2>4. ASSUME t = "toneMap", NEW i \in 1 .. SlotsLeft(t, img, k)
        PROVE  IF i = 1 THEN q[i].lead \in {0, 1} ELSE q[i].lead # 1
    <3>1. i \in Nat \ {0} BY <2>2
    <3>2. q[i].lead \in {0, i, LeadOf(t, img, i)} BY DEF SlotRead, Hole
    <3> QED BY <2>4, <3>1, <3>2, LeadOfIs
  <2> HIDE DEF q
  <2>5. DOMAIN q = 1 .. SlotsLeft(t, img, k) BY DEF q
  <2> QED BY <2>2, <2>3, <2>4, <2>5 DEF LeadsApart
<1> QED BY <1>1, <1>2

LEMMA WrittenIs ==
  ASSUME NEW t, NEW T, NEW q \in Seq(T), NEW m
  PROVE  Len(Written(t, q, m).pos) = Len(q) /\ DOMAIN Written(t, q, m).pos = 1 .. Len(q)
<1> DEFINE p == Written(t, q, m).pos
<1>1. DOMAIN p = 1 .. Len(q) /\ p = [i \in 1 .. Len(q) |-> p[i]] BY DEF Written
<1>2. Len(q) \in Nat OBVIOUS
<1> HIDE DEF p
<1>3. p \in Seq({p[i] : i \in 1 .. Len(q)})
  <2>1. p \in [1 .. Len(q) -> {p[i] : i \in 1 .. Len(q)}] BY <1>1
  <2> QED BY <1>2, <2>1
<1>4. Len(p) = Len(q) BY <1>1, <1>2, <1>3
<1> QED BY <1>1, <1>4 DEF p

LEMMA ContentOfSeq ==
  ASSUME IInv, NEW c \in Container
  PROVE  \E T : ContentOf(c) \in Seq(T)
<1> DEFINE q == ContentOf(c)
           T == {q[i] : i \in DOMAIN slots[c]}
<1>1. q = [i \in DOMAIN slots[c] |-> q[i]] BY DEF ContentOf
<1>2. DOMAIN slots[c] = 1 .. Len(slots[c]) /\ Len(slots[c]) \in Nat BY HeldFacts
<1> HIDE DEF q
<1>3. q \in [1 .. Len(slots[c]) -> T] BY <1>1, <1>2
<1>4. q \in Seq(T) BY <1>2, <1>3
<1> QED BY <1>4 DEF q
-----------------------------------------------------------------------------
(* Containers that get their content from elsewhere. *)
LEMMA FilledOwned ==
  ASSUME IInv, NEW c \in Container, NEW h, NEW q, NEW n \in Nat, NEW st \in {"good", "broken"},
         DOMAIN q = 1 .. n, kind = "toneMap" => LeadsApart(q),
         DOMAIN h = Live \ Held(c), Filled(c, h, q),
         kind' = kind, state' = [state EXCEPT ![c] = st]
  PROVE  IInv'
<1> DEFINE made == {i \in DOMAIN q : q[i].lead = i}
<1>1. PICK new \in [made -> FreeIn(h)] :
        /\ InOrder(new, made, h)
        /\ slots' = [slots EXCEPT ![c] =
             [i \in DOMAIN q |-> IF q[i].lead \in made THEN new[q[i].lead] ELSE Null]]
        /\ vals' = [vals EXCEPT ![c] = IF kind = "struct" THEN {new[i] : i \in made} ELSE {}]
        /\ heap' = [e \in DOMAIN h \cup {new[i] : i \in made} |->
                     IF \E i \in made : new[i] = e
                     THEN q[CHOOSE i \in made : new[i] = e].data ELSE h[e]]
  BY DEF Filled
<1> DEFINE s == [i \in 1 .. n |-> IF q[i].lead \in made THEN new[q[i].lead] ELSE Null]
           fresh == {new[i] : i \in made}
           own == IF kind = "struct" THEN fresh ELSE {}
<1>2. FreeIn(h) \subseteq Elem /\ FreeIn(h) \cap (Live \ Held(c)) = {} /\ Null \notin FreeIn(h)
  BY ElemAssumption DEF FreeIn
<1>3. \A i \in made : new[i] \in FreeIn(h) OBVIOUS
<1>4. made \subseteq 1 .. n /\ \A i \in made : q[i].lead = i OBVIOUS
<1>5. slots' = [slots EXCEPT ![c] = s] BY <1>1
<1>6. vals' = [vals EXCEPT ![c] = own] BY <1>1
<1>7. Live' = (Live \ Held(c)) \cup fresh BY <1>1 DEF Live
<1>8. ASSUME kind = "toneMap" PROVE Apart(s)
  <2>1. ASSUME NEW i \in 2 .. n, q[i].lead \in made, s[1] # Null PROVE new[q[i].lead] # s[1]
    <3>1. 1 \in 1 .. n /\ i \in 1 .. n OBVIOUS
    <3>2. q[1].lead \in {0, 1} /\ q[i].lead # 1 BY <1>8, <3>1 DEF LeadsApart
    <3>3. q[1].lead = 1 /\ 1 \in made /\ s[1] = new[1] BY <1>4, <2>1, <3>1, <3>2
    <3>4. q[i].lead > 1 /\ q[i].lead \in Nat BY <1>4, <2>1, <3>2
    <3>5. new[1] \in {e \in FreeIn(h) : e < new[q[i].lead]}
      BY <1>1, <2>1, <3>3, <3>4 DEF InOrder
    <3>6. new[1] \in Nat /\ new[q[i].lead] \in Nat BY <1>2, <1>3, <2>1, <3>3, ElemAssumption
    <3> QED BY <3>3, <3>5, <3>6
  <2>2. ASSUME NEW i \in 2 .. n PROVE s[i] = Null \/ s[i] # s[1]
    <3>1. CASE q[i].lead \notin made BY <2>2, <3>1
    <3>2. CASE q[i].lead \in made
      <4>1. s[i] = new[q[i].lead] BY <2>2, <3>2
      <4>2. s[i] # Null BY <1>2, <1>3, <3>2, <4>1
      <4> HIDE DEF s, made
      <4> QED BY <2>1, <3>2, <4>1, <4>2
    <3> QED BY <3>1, <3>2
  <2>3. DOMAIN s = 1 .. n OBVIOUS
  <2> HIDE DEF s
  <2>4. \A i \in DOMAIN s \ {1} : i \in 2 .. n BY <2>3
  <2> QED BY <2>2, <2>4 DEF Apart
<1>9. \A i \in 1 .. n : s[i] = Null \/ s[i] \in fresh OBVIOUS
<1>10. \A i \in made : i \in DOMAIN s /\ s[i] = new[i] BY <1>4
<1>11. fresh \subseteq FreeIn(h) BY <1>3
<1>12. s \in Seq(Elem \cup {Null})
  <2>1. \A i \in 1 .. n : s[i] \in Elem \cup {Null}
    <3> HIDE DEF s, fresh
    <3> QED BY <1>2, <1>9, <1>11
  <2>2. s \in [1 .. n -> Elem \cup {Null}] BY <2>1
  <2> QED BY <2>2
<1>13. HeldIn(s) = fresh
  <2>1. DOMAIN s = 1 .. n OBVIOUS
  <2>2. HeldIn(s) \subseteq fresh
    <3> HIDE DEF s, fresh
    <3> QED BY <1>9, <2>1 DEF HeldIn
  <2>3. fresh \subseteq HeldIn(s)
    <3> HIDE DEF s
    <3> QED BY <1>2, <1>3, <1>10 DEF HeldIn
  <2> QED BY <2>2, <2>3
<1>14. own \in SUBSET Elem /\ (kind = "struct" => own = HeldIn(s)) BY <1>2, <1>11, <1>13
<1>15. Exchange(c, s, own, st) BY <1>5, <1>6 DEF Exchange
<1>16. HeldIn(s) \cap (Live \ Held(c)) = {} BY <1>2, <1>11, <1>13
<1>17. Live' = (Live \ Held(c)) \cup HeldIn(s) BY <1>7, <1>13
<1>18. st \in {"none", "good", "broken"} /\ (st = "none" => s = <<>>) OBVIOUS
<1> HIDE DEF s, own, fresh, made
<1> QED BY <1>8, <1>12, <1>14, <1>15, <1>16, <1>17, <1>18, SlotsChange, SMTT(30)

LEMMA CopyOwned ==
  ASSUME IInv, NEW c \in Container, NEW d \in Container, Copy(c, d) PROVE IInv'
<1>1. PICK n \in Nat : DOMAIN Copied(c) = 1 .. n BY HeldFacts, CopiedIs
<1>2. slots[d] = <<>> BY DEF IInv, Empty, Copy
<1>3. DOMAIN heap = Live \ Held(d)
  <2>1. Held(d) = {} BY <1>2 DEF Held
  <2> QED BY <2>1 DEF Live
<1>4. Filled(d, heap, Copied(c)) /\ kind' = kind /\ state' = [state EXCEPT ![d] = "good"]
  BY DEF Copy
<1> QED BY <1>1, <1>3, <1>4, CopiedIs, FilledOwned

LEMMA AssignOwned ==
  ASSUME IInv, NEW c \in Container, NEW d \in Container, Assign(c, d) PROVE IInv'
<1>1. PICK n \in Nat : DOMAIN Copied(c) = 1 .. n BY HeldFacts, CopiedIs
<1>2. DOMAIN Without(Owned(d)) = Live \ Held(d) BY HeldFacts DEF Without
<1>3. /\ Filled(d, Without(Owned(d)), Copied(c)) /\ kind' = kind
      /\ state' = [state EXCEPT ![d] = "good"]
  BY HeldFacts DEF Assign
<1> QED BY <1>1, <1>2, <1>3, CopiedIs, FilledOwned

LEMMA ReadOwned ==
  ASSUME IInv, NEW c \in Container, NEW r, ReadAs(c, r), NEW n \in Nat,
         DOMAIN r.content = 1 .. n, kind = "toneMap" => LeadsApart(r.content)
  PROVE  IInv'
<1> DEFINE st == IF r.ok THEN "good" ELSE "broken"
<1>1. kind' = kind /\ state' = [state EXCEPT ![c] = st] /\ state[c] # "none" BY DEF ReadAs
<1>2. st \in {"good", "broken"} OBVIOUS
<1> HIDE DEF st
<1>3. CASE r.untouched
  <2>1. /\ Exchange(c, slots[c], vals[c], st) /\ Live' = Live
        /\ slots[c] \in Seq(Elem \cup {Null}) /\ vals[c] \in SUBSET Elem
        /\ (kind = "struct" => vals[c] = HeldIn(slots[c]))
        /\ Held(c) = HeldIn(slots[c]) /\ Held(c) \subseteq Live
    <3>1. slots' = slots /\ vals' = vals /\ heap' = heap BY <1>3 DEF ReadAs
    <3>2. slots = [slots EXCEPT ![c] = slots[c]] BY DEF IInv, Types
    <3>3. Live' = Live BY <3>1 DEF Live
    <3> QED BY <1>1, <3>1, <3>2, <3>3, HeldFacts DEF Exchange
  <2>2. kind = "toneMap" => Apart(slots[c]) BY DEF IInv, CurveApart
  <2>3. Live' = (Live \ Held(c)) \cup HeldIn(slots[c]) BY <2>1
  <2>4. HeldIn(slots[c]) \cap (Live \ Held(c)) = {} BY <2>1
  <2>5. st # "none" BY <1>2
  <2> QED BY <1>2, <2>1, <2>2, <2>3, <2>4, <2>5, SlotsChange
<1>4. CASE ~r.untouched
  <2>1. Filled(c, Without(Owned(c)), r.content) BY <1>4 DEF ReadAs
  <2>2. DOMAIN Without(Owned(c)) = Live \ Held(c) BY HeldFacts DEF Without
  <2> QED BY <1>1, <1>2, <2>1, <2>2, FilledOwned
<1> QED BY <1>3, <1>4

LEMMA ReadForeignOwned == ASSUME IInv, NEW c \in Container, ReadForeign(c) PROVE IInv'
<1>1. PICK r \in Reading : r.kind = kind /\ ReadAs(c, r) BY DEF ReadForeign
<1>2. PICK f \in Foreign : r.kind = f.kind /\ r.content = Parsed(f.kind, f.img).content
  BY <1>1 DEF Reading
<1>3. f.img.pos \in Seq([offset : Nat, size : Nat]) BY ForeignAssumption
<1>4. /\ \E k \in Nat : DOMAIN Parsed(f.kind, f.img).content = 1 .. k
      /\ f.kind = "toneMap" => LeadsApart(Parsed(f.kind, f.img).content)
  <2>1. Len(f.img.pos) \in Nat /\ DOMAIN f.img.pos = 1 .. Len(f.img.pos) BY <1>3
  <2> QED BY <2>1, ParsedIs
<1> QED BY <1>1, <1>2, <1>4, ReadOwned

LEMMA SaveAndReadOwned ==
  ASSUME IInv, NEW c \in Container, NEW d \in Container, SaveAndRead(c, d) PROVE IInv'
<1> DEFINE img == Written(kind, ContentOf(d), inputs[d])
           r == [ok |-> Parsed(kind, img).ok, content |-> Parsed(kind, img).content,
                 untouched |-> Untouched(kind, img), inputs |-> img.inputs]
<1>1. ReadAs(c, r) BY DEF SaveAndRead
<1>2. PICK T : ContentOf(d) \in Seq(T) BY ContentOfSeq
<1>3. Len(ContentOf(d)) \in Nat BY <1>2
<1>4. Len(img.pos) = Len(ContentOf(d)) /\ DOMAIN img.pos = 1 .. Len(ContentOf(d))
  BY <1>2, WrittenIs
<1>5. r.content = Parsed(kind, img).content OBVIOUS
<1> HIDE DEF r, img
<1>6. /\ \E k \in Nat : DOMAIN r.content = 1 .. k
      /\ kind = "toneMap" => LeadsApart(r.content)
  BY <1>3, <1>4, <1>5, ParsedIs
<1> QED BY <1>1, <1>6, ReadOwned
-----------------------------------------------------------------------------
LEMMA NextOwned == IInv /\ [Next]_vars => IInv'
<1> SUFFICES ASSUME IInv, [Next]_vars PROVE IInv' OBVIOUS
<1>1. CASE UNCHANGED vars
  <2>1. kind' = kind /\ state' = state /\ slots' = slots /\ vals' = vals /\ heap' = heap
    BY <1>1 DEF vars
  <2>2. Types' BY <2>1 DEF IInv, Types, Live
  <2>3. Live' = Live /\ \A c \in Container : Held(c)' = Held(c) /\ Owned(c)' = Owned(c)
    BY <2>1 DEF Held, Live, Owned
  <2>4. ElementsOwned' /\ NoLeak' BY <2>3 DEF IInv, ElementsOwned, NoLeak
  <2>5. Empty' /\ CurveApart' BY <2>1 DEF IInv, Empty, CurveApart
  <2> QED BY <2>2, <2>4, <2>5 DEF IInv
<1>2. CASE Next
  BY <1>2, NewOwned, SetSizeOwned, AddOwned, RemoveOwned, DestroyOwned, ReadForeignOwned,
     CopyOwned, AssignOwned, SaveAndReadOwned DEF Next
<1> QED BY <1>1, <1>2

(* However containers are filled, shared inside, resized, copied, assigned,  *)
(* saved, read from damaged files and deleted, every pointer in one is to a  *)
(* living element that no other container names, and a struct deletes what   *)
(* its entries name (Clean, Cleanup and the destructors; m_ElemVals).        *)
THEOREM ContainerElementsOwned == Spec => []ElementsOwned
<1>1. IInv => ElementsOwned BY DEF IInv
<1> QED BY <1>1, InitOwned, NextOwned, PTL DEF Spec

(* ... and no element outlives the containers that name it, whatever slot it *)
(* stood in and wherever a Read failed.                                      *)
THEOREM NothingLeaks == Spec => []NoLeak
<1>1. IInv => NoLeak BY DEF IInv
<1> QED BY <1>1, InitOwned, NextOwned, PTL DEF Spec
-----------------------------------------------------------------------------
(* Where Write puts things. *)

(* The partial sums of a sequence, as Ends defines them, exist. *)
LEMMA PartialSums ==
  ASSUME NEW n \in Nat, NEW base \in Nat, NEW g \in [1 .. n -> Nat]
  PROVE  \E f \in [0 .. n -> Nat] :
           f = [i \in 0 .. n |-> IF i = 0 THEN base ELSE f[i - 1] + g[i]]
<1> DEFINE P(k) == \E f \in [0 .. k -> Nat] :
                     f = [i \in 0 .. k |-> IF i = 0 THEN base ELSE f[i - 1] + g[i]]
           S == {k \in 0 .. n : ~P(k)}
<1>1. S = {} => P(n)
  <2>1. n \in 0 .. n OBVIOUS
  <2> HIDE DEF P
  <2> QED BY <2>1
<1>2. ASSUME S # {} PROVE FALSE
  <2>1. S \subseteq Nat OBVIOUS
  <2>2. PICK m \in S : \A k \in S : m <= k
    <3> HIDE DEF S
    <3> QED BY <1>2, <2>1, LeastOf
  <2>3. CASE m = 0
    <3> DEFINE h == [i \in 0 .. 0 |-> base]
    <3>1. h \in [0 .. 0 -> Nat] OBVIOUS
    <3>2. h = [i \in 0 .. 0 |-> IF i = 0 THEN base ELSE h[i - 1] + g[i]] OBVIOUS
    <3>3. P(0) BY <3>1, <3>2
    <3> QED BY <2>3, <3>3
  <2>4. CASE m > 0
    <3>1. m \in 1 .. n /\ m - 1 \in 0 .. n /\ m - 1 \notin S
      <4> HIDE DEF P
      <4> QED BY <2>2, <2>4
    <3>2. P(m - 1) BY <3>1
    <3>3. PICK f \in [0 .. m - 1 -> Nat] :
            f = [i \in 0 .. m - 1 |-> IF i = 0 THEN base ELSE f[i - 1] + g[i]]
      BY <3>2
    <3> DEFINE h == [i \in 0 .. m |-> IF i = m THEN f[m - 1] + g[m] ELSE f[i]]
    <3>4. \A i \in 0 .. m : h[i] \in Nat
      <4> TAKE i \in 0 .. m
      <4>1. CASE i = m
        <5>1. f[m - 1] \in Nat /\ g[m] \in Nat BY <3>1
        <5> QED BY <4>1, <5>1
      <4>2. CASE i # m
        <5>1. i \in 0 .. m - 1 BY <3>1, <4>2
        <5> QED BY <4>2, <5>1
      <4> QED BY <4>1, <4>2
    <3>5. \A i \in 0 .. m : h[i] = IF i = 0 THEN base ELSE h[i - 1] + g[i]
      <4> TAKE i \in 0 .. m
      <4>1. CASE i = 0
        <5>1. h[0] = f[0] /\ f[0] = base BY <3>1, <3>3
        <5> QED BY <4>1, <5>1
      <4>2. CASE i = m
        <5>1. m # 0 /\ m - 1 # m /\ m - 1 \in 0 .. m BY <3>1
        <5>2. h[m - 1] = f[m - 1] /\ h[m] = f[m - 1] + g[m] BY <5>1
        <5> QED BY <4>2, <5>1, <5>2
      <4>3. CASE i # 0 /\ i # m
        <5>1. i \in 0 .. m - 1 /\ i - 1 \in 0 .. m /\ i - 1 # m BY <3>1, <4>3
        <5>2. f[i] = f[i - 1] + g[i] BY <3>3, <4>3, <5>1
        <5> QED BY <4>3, <5>1, <5>2
      <4> QED BY <4>1, <4>2, <4>3
    <3>6. h = [i \in 0 .. m |-> h[i]] OBVIOUS
    <3> HIDE DEF h
    <3>7. h \in [0 .. m -> Nat] BY <3>4, <3>6, Zenon
    <3>8. h = [i \in 0 .. m |-> IF i = 0 THEN base ELSE h[i - 1] + g[i]] BY <3>5, <3>6, Zenon
    <3>9. P(m) BY <3>7, <3>8
    <3> QED BY <3>9
  <2> QED BY <2>1, <2>2, <2>3, <2>4
<1> QED BY <1>1, <1>2

(* A content as containers and Read make it: holes, and slots with an        *)
(* element that stands first in the slot named by lead.                      *)
WellFormed(q) ==
  /\ Len(q) \in Nat /\ DOMAIN q = 1 .. Len(q)
  /\ \A i \in DOMAIN q : q[i] # Hole =>
       /\ q[i] = [lead |-> q[i].lead, data |-> q[i].data]
       /\ q[i].lead \in 1 .. i /\ q[i].data \in ElementBytes
       /\ q[q[i].lead] = q[i]

Grown(t, q, i) == IF q[i].lead = i THEN WrittenBytes(t, q[i].data) ELSE 0
TableEnd(t, q) == HeadBytes(t) + Len(q) * EntryBytes(t)

LEMMA AlignedIs == ASSUME NEW x \in Nat PROVE AlignedTo4(x) \in Nat /\ AlignedTo4(x) >= x
<1>1. (-x) % 4 \in 0 .. 3 BY SMT
<1> QED BY <1>1 DEF AlignedTo4

LEMMA GrownIs ==
  ASSUME NEW t, NEW q, WellFormed(q), NEW i \in 1 .. Len(q)
  PROVE  /\ Grown(t, q, i) \in Nat
         /\ q[i].lead = i => Grown(t, q, i) >= q[i].data /\ q[i].data \in ElementBytes
<1>1. CASE q[i].lead = i
  <2>1. q[i] # Hole BY <1>1 DEF Hole
  <2>2. q[i].data \in ElementBytes BY <2>1 DEF WellFormed
  <2>3. q[i].data \in Nat BY <2>2 DEF ElementBytes
  <2>4. AlignedTo4(q[i].data) \in Nat /\ AlignedTo4(q[i].data) >= q[i].data
    BY <2>3, AlignedIs
  <2>5. WrittenBytes(t, q[i].data) \in Nat /\ WrittenBytes(t, q[i].data) >= q[i].data
    BY <2>3, <2>4 DEF WrittenBytes
  <2> QED BY <1>1, <2>2, <2>5 DEF Grown
<1>2. CASE q[i].lead # i BY <1>2 DEF Grown
<1> QED BY <1>1, <1>2

LEMMA TableEndIs ==
  ASSUME NEW t, NEW q, WellFormed(q)
  PROVE  TableEnd(t, q) \in Nat /\ TableEnd(t, q) >= 12
<1>1. HeadBytes(t) \in {12, 16} /\ EntryBytes(t) \in {8, 12}
  BY Zenon DEF HeadBytes, EntryBytes
<1>2. Len(q) \in Nat BY DEF WellFormed
<1> QED BY <1>1, <1>2 DEF TableEnd

LEMMA EndsAre ==
  ASSUME NEW t, NEW q, WellFormed(q)
  PROVE  /\ Ends(t, q) \in [0 .. Len(q) -> Nat]
         /\ Ends(t, q)[0] = TableEnd(t, q)
         /\ \A i \in 1 .. Len(q) : Ends(t, q)[i] = Ends(t, q)[i - 1] + Grown(t, q, i)
<1> DEFINE n == Len(q)
           base == TableEnd(t, q)
           g == [i \in 1 .. n |-> Grown(t, q, i)]
           Is(f) == f = [i \in 0 .. n |-> IF i = 0 THEN HeadBytes(t) + n * EntryBytes(t)
                           ELSE f[i - 1] + IF q[i].lead = i THEN WrittenBytes(t, q[i].data) ELSE 0]
           end[i \in 0 .. n] ==
             IF i = 0 THEN HeadBytes(t) + n * EntryBytes(t)
             ELSE end[i - 1] + IF q[i].lead = i THEN WrittenBytes(t, q[i].data) ELSE 0
<1>1. n \in Nat /\ base \in Nat BY TableEndIs DEF WellFormed
<1>2. g \in [1 .. n -> Nat] BY GrownIs
<1>3. \E f \in [0 .. n -> Nat] : f = [i \in 0 .. n |-> IF i = 0 THEN base ELSE f[i - 1] + g[i]]
  <2> HIDE DEF n, base, g
  <2> QED BY <1>1, <1>2, PartialSums
<1>4. PICK f \in [0 .. n -> Nat] : f = [i \in 0 .. n |-> IF i = 0 THEN base ELSE f[i - 1] + g[i]]
  BY <1>3
<1>5. Is(f)
  <2>1. \A i \in 0 .. n : f[i] = IF i = 0 THEN HeadBytes(t) + n * EntryBytes(t)
                           ELSE f[i - 1] + IF q[i].lead = i THEN WrittenBytes(t, q[i].data) ELSE 0
    <3> TAKE i \in 0 .. n
    <3>1. CASE i = 0 BY <1>1, <1>4, <3>1 DEF TableEnd
    <3>2. CASE i # 0
      <4>1. i \in 1 .. n BY <1>1, <3>2
      <4>2. f[i] = f[i - 1] + g[i] BY <1>4, <3>2
      <4>3. g[i] = Grown(t, q, i) BY <4>1
      <4> QED BY <3>2, <4>2, <4>3 DEF Grown
    <3> QED BY <3>1, <3>2
  <2>2. f = [i \in 0 .. n |-> f[i]] OBVIOUS
  <2> HIDE DEF n
  <2> QED BY <2>1, <2>2, Zenon
<1>6. Is(end) BY <1>5, Zenon
<1>7. Ends(t, q) = end BY Zenon DEF Ends
<1> DEFINE E == Ends(t, q)
<1>8. Is(E) BY <1>6, <1>7, Zenon
<1> HIDE DEF E, end
<1>9. DOMAIN E = 0 .. n BY <1>8
<1>10. E[0] = base BY <1>1, <1>8 DEF TableEnd
<1>11. \A i \in 1 .. n : E[i] = E[i - 1] + Grown(t, q, i)
  <2> TAKE i \in 1 .. n
  <2>1. i \in 0 .. n /\ i # 0 BY <1>1
  <2> QED BY <1>8, <2>1 DEF Grown
<1>12. \A i \in 0 .. n : E[i] \in Nat
  <2> DEFINE S == {i \in 0 .. n : E[i] \notin Nat}
  <2>1. ASSUME S # {} PROVE FALSE
    <3>1. PICK m \in S : \A k \in S : m <= k
      <4>1. S \subseteq Nat BY <1>1
      <4> HIDE DEF S
      <4> QED BY <2>1, <4>1, LeastOf
    <3>2. m \in 1 .. n /\ m - 1 \in 0 .. n /\ m - 1 \notin S BY <1>1, <1>10, <3>1
    <3>3. E[m - 1] \in Nat BY <3>2
    <3>4. Grown(t, q, m) \in Nat BY <3>2, GrownIs
    <3>5. E[m] \in Nat BY <1>11, <3>2, <3>3, <3>4
    <3> QED BY <3>1, <3>5
  <2> QED BY <2>1
<1>13. E = [i \in 0 .. n |-> E[i]] BY <1>8
<1>14. E \in [0 .. n -> Nat] BY <1>12, <1>13, Zenon
<1> QED BY <1>10, <1>11, <1>14 DEF E

LEMMA EndsRise ==
  ASSUME NEW t, NEW q, WellFormed(q), NEW i \in 0 .. Len(q), NEW j \in i .. Len(q)
  PROVE  Ends(t, q)[i] <= Ends(t, q)[j]
<1> DEFINE E == Ends(t, q)
           n == Len(q)
           S == {k \in i .. n : ~(E[i] <= E[k])}
<1>1. n \in Nat /\ E \in [0 .. n -> Nat] /\ \A k \in 1 .. n : E[k] = E[k - 1] + Grown(t, q, k)
  BY EndsAre DEF WellFormed
<1>2. \A k \in 1 .. n : Grown(t, q, k) \in Nat BY GrownIs
<1> HIDE DEF E, n
<1>3. ASSUME S # {} PROVE FALSE
  <2>1. PICK m \in S : \A k \in S : m <= k
    <3>1. S \subseteq Nat BY <1>1 DEF n
    <3> HIDE DEF S
    <3> QED BY <1>3, <3>1, LeastOf
  <2>2. i \in Nat /\ m \in Nat /\ m >= i /\ m <= n BY <1>1, <2>1 DEF n
  <2>3. m # i BY <1>1, <2>1, <2>2
  <2>4. m \in 1 .. n /\ m - 1 \in i .. n /\ m - 1 \notin S BY <1>1, <2>1, <2>2, <2>3
  <2>5. E[i] <= E[m - 1] BY <2>4
  <2>6. E[m] = E[m - 1] + Grown(t, q, m) /\ Grown(t, q, m) \in Nat BY <1>1, <1>2, <2>4
  <2>7. E[i] \in Nat /\ E[m - 1] \in Nat BY <1>1, <2>2, <2>4
  <2> QED BY <2>1, <2>5, <2>6, <2>7
<1>4. j \in i .. n BY DEF n
<1> QED BY <1>3, <1>4 DEF E

(* Elements lie behind the table, one after another, before the end.         *)
LEMMA Places ==
  ASSUME NEW t, NEW q, WellFormed(q), NEW a \in DOMAIN q, q[a].lead = a
  PROVE  LET E == Ends(t, q)
         IN /\ E[a - 1] \in Nat /\ E[a - 1] >= TableEnd(t, q)
            /\ E[a - 1] + q[a].data <= E[Len(q)]
            /\ \A b \in DOMAIN q : a < b => E[a - 1] + q[a].data <= E[b - 1]
<1> DEFINE E == Ends(t, q)
           n == Len(q)
<1>1. n \in Nat /\ a \in 1 .. n /\ DOMAIN q = 1 .. n BY DEF WellFormed
<1>2. E \in [0 .. n -> Nat] /\ E[0] = TableEnd(t, q) /\ E[a] = E[a - 1] + Grown(t, q, a)
  BY <1>1, EndsAre
<1>3. Grown(t, q, a) >= q[a].data /\ Grown(t, q, a) \in Nat /\ q[a].data \in Nat
  BY <1>1, GrownIs DEF ElementBytes
<1>4. \A i \in 0 .. n : \A j \in i .. n : E[i] <= E[j] BY EndsRise
<1> HIDE DEF E, n
<1>5. a - 1 \in 0 .. n /\ a \in 0 .. n /\ 0 \in 0 .. n BY <1>1
<1>6. E[a - 1] \in Nat /\ E[a] \in Nat BY <1>2, <1>5
<1>7. E[0] <= E[a - 1]
  <2>1. a - 1 \in 0 .. n BY <1>5
  <2> QED BY <1>4, <1>5, <2>1
<1>8. E[a] <= E[n]
  <2>1. n \in a .. n BY <1>1
  <2> QED BY <1>4, <1>5, <2>1
<1>9. ASSUME NEW b \in DOMAIN q, a < b PROVE E[a] <= E[b - 1]
  <2>1. b - 1 \in a .. n BY <1>1, <1>9
  <2> QED BY <1>4, <1>5, <2>1
<1>10. E[n] \in Nat /\ \A b \in DOMAIN q : E[b - 1] \in Nat
  <2>1. n \in 0 .. n /\ \A b \in DOMAIN q : b - 1 \in 0 .. n BY <1>1
  <2> QED BY <1>2, <2>1
<1>11. E[a - 1] >= TableEnd(t, q) BY <1>2, <1>6, <1>7, <1>10, TableEndIs
<1>12. E[a - 1] + q[a].data <= E[a] BY <1>2, <1>3, <1>6
<1>13. E[a - 1] + q[a].data <= E[n] BY <1>3, <1>6, <1>8, <1>10, <1>12
<1>14. \A b \in DOMAIN q : a < b => E[a - 1] + q[a].data <= E[b - 1]
  BY <1>3, <1>6, <1>9, <1>10, <1>12
<1> QED BY <1>6, <1>11, <1>13, <1>14 DEF E, n
(* The image in a form that no longer speaks of sums: what is not a hole lies *)
(* behind the table and inside the tag, other elements elsewhere.            *)
Placed(t, q, img) ==
  /\ img.size \in Nat /\ TableEnd(t, q) <= img.size
  /\ Len(img.pos) = Len(q) /\ DOMAIN img.pos = DOMAIN q
  /\ \A i \in DOMAIN q :
       IF q[i] = Hole THEN img.pos[i] = [offset |-> 0, size |-> 0]
       ELSE /\ img.pos[i].offset \in Nat /\ img.pos[i].offset >= TableEnd(t, q)
            /\ img.pos[i].size = q[i].data
            /\ img.pos[i].offset + q[i].data <= img.size
            /\ img.pos[i].offset \in DOMAIN img.at
            /\ img.at[img.pos[i].offset] = q[i].data
  /\ \A i, j \in DOMAIN q : q[i] # Hole /\ q[j] # Hole =>
       /\ q[i].lead = q[j].lead => img.pos[i].offset = img.pos[j].offset
       /\ q[i].lead < q[j].lead => img.pos[i].offset + q[i].data <= img.pos[j].offset

LEMMA LeadFacts ==
  ASSUME NEW q, WellFormed(q), NEW i \in DOMAIN q, q[i] # Hole
  PROVE  /\ q[i].lead \in DOMAIN q /\ q[q[i].lead].lead = q[i].lead /\ q[q[i].lead].data = q[i].data
         /\ q[i].lead \in Nat /\ q[i].lead >= 1 /\ q[i].lead <= i /\ i \in Nat
         /\ q[i].data \in Nat /\ q[i].data >= 4
<1>1. q[i].lead \in 1 .. i /\ q[i].data \in ElementBytes /\ q[q[i].lead] = q[i] /\ i \in 1 .. Len(q)
  BY DEF WellFormed
<1>2. Len(q) \in Nat /\ DOMAIN q = 1 .. Len(q) BY DEF WellFormed
<1>3. q[i].data \in Nat /\ q[i].data >= 4 BY <1>1 DEF ElementBytes
<1> QED BY <1>1, <1>2, <1>3

LEMMA WrittenPlaced ==
  ASSUME NEW t, NEW q, WellFormed(q), NEW m
  PROVE  Placed(t, q, Written(t, q, m))
<1> DEFINE E == Ends(t, q)
           n == Len(q)
           img == Written(t, q, m)
           Start(i) == E[q[i].lead - 1]
<1>1. n \in Nat /\ DOMAIN q = 1 .. n /\ E \in [0 .. n -> Nat] /\ E[0] = TableEnd(t, q)
  BY EndsAre DEF WellFormed
<1>2. img.size = AlignedTo4(E[n]) /\ E[n] \in Nat BY <1>1 DEF Written
<1>3. img.size \in Nat /\ E[n] <= img.size BY <1>2, AlignedIs
<1>4. TableEnd(t, q) <= img.size
  <2>1. 0 \in 0 .. n /\ n \in 0 .. n BY <1>1
  <2>2. E[0] <= E[n] BY <2>1, EndsRise
  <2> QED BY <1>1, <1>2, <1>3, <2>2, TableEndIs
<1>5. DOMAIN img.pos = 1 .. n
      /\ \A i \in 1 .. n : img.pos[i] = IF q[i].lead = 0 THEN [offset |-> 0, size |-> 0]
                                        ELSE [offset |-> Start(i), size |-> q[i].data]
  BY DEF Written
<1>6. Len(img.pos) = n
  <2> DEFINE p == img.pos
  <2>1. p = [i \in 1 .. n |-> p[i]] BY DEF Written
  <2>2. DOMAIN p = 1 .. n BY <1>5
  <2> HIDE DEF p
  <2>3. p \in [1 .. n -> {p[i] : i \in 1 .. n}] BY <2>1
  <2>4. p \in Seq({p[i] : i \in 1 .. n}) BY <1>1, <2>3
  <2>5. Len(p) = n BY <1>1, <2>2, <2>4
  <2> QED BY <2>5 DEF p
<1>7. ASSUME NEW i \in DOMAIN q, q[i] # Hole
      PROVE  /\ Start(i) \in Nat /\ Start(i) >= TableEnd(t, q) /\ Start(i) + q[i].data <= E[n]
             /\ \A b \in DOMAIN q : q[i].lead < b => Start(i) + q[i].data <= E[b - 1]
  <2> DEFINE a == q[i].lead
  <2>1. a \in DOMAIN q /\ q[a].lead = a /\ q[a].data = q[i].data BY <1>7, LeadFacts
  <2> HIDE DEF a
  <2>2. /\ E[a - 1] \in Nat /\ E[a - 1] >= TableEnd(t, q) /\ E[a - 1] + q[a].data <= E[n]
        /\ \A b \in DOMAIN q : a < b => E[a - 1] + q[a].data <= E[b - 1]
    BY <2>1, Places
  <2> QED BY <2>1, <2>2 DEF a
<1>8. ASSUME NEW i \in DOMAIN q, q[i] # Hole
      PROVE  Start(i) \in DOMAIN img.at /\ img.at[Start(i)] = q[i].data
  <2> DEFINE o == Start(i)
             c == CHOOSE k \in 1 .. n : q[k].lead = k /\ Start(k) = o
  <2>1. /\ q[i].lead \in 1 .. n /\ q[i].lead # 0 /\ q[q[i].lead].lead = q[i].lead
        /\ q[q[i].lead].data = q[i].data /\ i \in 1 .. n /\ q[i].lead \in Nat
    BY <1>1, <1>8, LeadFacts
  <2>2. o \in {Start(k) : k \in {j \in 1 .. n : q[j].lead # 0}} BY <2>1
  <2>3. o \in DOMAIN img.at /\ img.at[o] = q[c].data BY <2>2 DEF Written
  <2>4. Start(q[i].lead) = o BY <2>1
  <2>5. c \in 1 .. n /\ q[c].lead = c /\ Start(c) = o BY <2>1, <2>4
  <2> HIDE DEF c
  <2>6. c # 0 /\ c \in Nat BY <1>1, <2>5
  <2>7. q[c] # Hole /\ c \in DOMAIN q BY <1>1, <2>5, <2>6 DEF Hole
  <2>8. c = q[i].lead
    <3>1. ASSUME c < q[i].lead PROVE FALSE
      <4>1. Start(c) + q[c].data <= E[q[i].lead - 1] BY <1>1, <1>7, <2>1, <2>5, <2>7, <3>1
      <4>2. q[c].data \in Nat /\ q[c].data >= 4 BY <2>7, LeadFacts
      <4>3. Start(i) \in Nat BY <1>7, <1>8
      <4> QED BY <2>5, <4>1, <4>2, <4>3
    <3>2. ASSUME q[i].lead < c PROVE FALSE
      <4>1. Start(i) + q[i].data <= E[c - 1] BY <1>1, <1>7, <1>8, <2>5, <3>2
      <4>2. q[i].data \in Nat /\ q[i].data >= 4 BY <1>8, LeadFacts
      <4>3. Start(i) \in Nat BY <1>7, <1>8
      <4>4. E[c - 1] = Start(c) BY <2>5
      <4> QED BY <2>5, <4>1, <4>2, <4>3, <4>4
    <3> QED BY <2>1, <2>6, <3>1, <3>2
  <2> QED BY <2>1, <2>3, <2>8
<1> HIDE DEF img, E, n
<1>9. ASSUME NEW i \in DOMAIN q
      PROVE  IF q[i] = Hole THEN img.pos[i] = [offset |-> 0, size |-> 0]
             ELSE img.pos[i].offset = Start(i) /\ img.pos[i].size = q[i].data
  <2>1. CASE q[i] = Hole
    <3>1. q[i].lead = 0 BY <2>1 DEF Hole
    <3> QED BY <1>1, <1>5, <1>9, <2>1, <3>1
  <2>2. CASE q[i] # Hole
    <3>1. q[i].lead # 0 BY <1>9, <2>2, LeadFacts
    <3>2. img.pos[i] = [offset |-> Start(i), size |-> q[i].data] BY <1>1, <1>5, <1>9, <3>1
    <3> QED BY <2>2, <3>2
  <2> QED BY <2>1, <2>2
<1>10. ASSUME NEW i \in DOMAIN q
       PROVE  IF q[i] = Hole THEN img.pos[i] = [offset |-> 0, size |-> 0]
              ELSE /\ img.pos[i].offset \in Nat /\ img.pos[i].offset >= TableEnd(t, q)
                   /\ img.pos[i].size = q[i].data
                   /\ img.pos[i].offset + q[i].data <= img.size
                   /\ img.pos[i].offset \in DOMAIN img.at
                   /\ img.at[img.pos[i].offset] = q[i].data
  <2>1. CASE q[i] = Hole BY <1>9, <2>1
  <2>2. CASE q[i] # Hole
    <3>1. img.pos[i].offset = Start(i) /\ img.pos[i].size = q[i].data BY <1>9, <2>2
    <3>2. Start(i) \in Nat /\ Start(i) >= TableEnd(t, q) /\ Start(i) + q[i].data <= E[n]
      BY <1>7, <2>2
    <3>3. Start(i) \in DOMAIN img.at /\ img.at[Start(i)] = q[i].data BY <1>8, <2>2
    <3>4. q[i].data \in Nat BY <2>2, LeadFacts
    <3>5. Start(i) + q[i].data <= img.size BY <1>2, <1>3, <3>2, <3>4
    <3> QED BY <2>2, <3>1, <3>2, <3>3, <3>5
  <2> QED BY <2>1, <2>2
<1>11. ASSUME NEW i \in DOMAIN q, NEW j \in DOMAIN q, q[i] # Hole, q[j] # Hole
       PROVE  /\ q[i].lead = q[j].lead => img.pos[i].offset = img.pos[j].offset
              /\ q[i].lead < q[j].lead => img.pos[i].offset + q[i].data <= img.pos[j].offset
  <2>1. img.pos[i].offset = Start(i) /\ img.pos[j].offset = Start(j) BY <1>9, <1>11
  <2>2. q[j].lead \in DOMAIN q BY <1>11, LeadFacts
  <2>3. q[i].lead < q[j].lead => Start(i) + q[i].data <= Start(j) BY <1>7, <1>11, <2>2
  <2> QED BY <2>1, <2>3
<1> QED BY <1>1, <1>3, <1>4, <1>5, <1>6, <1>10, <1>11 DEF Placed, img, n
-----------------------------------------------------------------------------
(* A Read that succeeds stayed inside its tag. *)
LEMMA ReadInside ==
  ASSUME NEW f \in Foreign, f.kind \in Kinds, f.kind # "curveSet", Parsed(f.kind, f.img).ok
  PROVE  ~ReadsOutside(f.kind, f.img)
<1> DEFINE t == f.kind
           img == f.img
           n == Len(img.pos)
<1>1. /\ n \in Nat /\ DOMAIN img.pos = 1 .. n /\ img.size \in Nat
      /\ \A i \in 1 .. n : img.pos[i].offset \in Nat /\ img.pos[i].size \in Nat
      /\ \A o \in DOMAIN img.at : img.at[o] \in Nat
      /\ t = "toneMap" => 0 \notin DOMAIN img.at
  <2>1. img.pos \in Seq([offset : Nat, size : Nat]) /\ img.size \in Nat
    BY ForeignAssumption
  <2>2. img.at \in [DOMAIN img.at -> ElementBytes] BY ForeignAssumption
  <2>3. \A o \in DOMAIN img.at : img.at[o] \in Nat BY <2>2 DEF ElementBytes
  <2>4. t = "toneMap" => 0 \notin DOMAIN img.at BY ForeignAssumption
  <2> HIDE DEF img, t
  <2>5. n \in Nat /\ DOMAIN img.pos = 1 .. n BY <2>1
  <2>6. \A i \in 1 .. n : img.pos[i] \in [offset : Nat, size : Nat]
    <3> DEFINE T == [offset : Nat, size : Nat]
               p == img.pos
    <3>1. p \in Seq(T) /\ n = Len(p) BY <2>1
    <3> HIDE DEF T, p, n
    <3>2. \A i \in 1 .. n : p[i] \in T BY <3>1
    <3> QED BY <3>2 DEF T, p
  <2> QED BY <2>1, <2>3, <2>4, <2>5, <2>6
<1>2. HeadOk(t, img) /\ Stop(t, img) > n BY DEF Parsed
<1>3. t \in Kinds /\ t # "curveSet" OBVIOUS
<1> HIDE DEF t, img, n
<1>4. Stop(t, img) = n + 1 /\ \A j \in 1 .. n : ~StopsAt(t, img, j)
  <2>1. /\ Stop(t, img) \in 1 .. n + 1
        /\ \A j \in 1 .. Stop(t, img) - 1 : ~StopsAt(t, img, j)
    BY <1>1, StopIs DEF n
  <2> QED BY <1>1, <1>2, <2>1
<1>5. ASSUME NEW i \in 1 .. n, LeadOf(t, img, i) = i
      PROVE  img.pos[i].offset + img.at[img.pos[i].offset] <= img.size
  <2>1. Readable(img, img.pos[i]) BY <1>4, <1>5 DEF StopsAt
  <2>2. img.pos[i].offset \in DOMAIN img.at /\ img.at[img.pos[i].offset] <= img.pos[i].size
    BY <2>1 DEF Readable
  <2>3. /\ img.pos[i].offset \in Nat /\ img.pos[i].size \in Nat
        /\ img.at[img.pos[i].offset] \in Nat /\ img.size \in Nat
    BY <1>1, <2>2
  <2>4. img.pos[i].offset + img.pos[i].size <= img.size
    <3>1. CASE t # "toneMap"
      <4>1. PositionOk(t, img, i) BY <1>4, <3>1 DEF StopsAt
      <4>2. Inside(img.pos[i], img.size)
        BY <1>3, <1>5, <3>1, <4>1 DEF PositionOk, Kinds
      <4> QED BY <2>3, <4>2 DEF Inside
    <3>2. CASE t = "toneMap"
      <4>1. n > 1 BY <1>2, <3>2 DEF HeadOk, n
      <4>2. PositionOk(t, img, 2) BY <1>1, <1>4, <4>1 DEF StopsAt
      <4>3. ValidTagPos(img.pos[i], 12 + 8 * Len(img.pos), img.size)
        BY <3>2, <4>2 DEF PositionOk, n
      <4>4. img.pos[i].offset # 0 BY <1>1, <2>2, <3>2
      <4> QED BY <4>3, <4>4 DEF ValidTagPos
    <3> QED BY <3>1, <3>2
  <2> QED BY <2>2, <2>3, <2>4
<1>6. ~ReadsOutside(t, img)
  <2>1. \A i \in DOMAIN img.pos : LeadOf(t, img, i) = i =>
          ~(img.pos[i].offset + img.at[img.pos[i].offset] > img.size)
    <3> TAKE i \in DOMAIN img.pos
    <3>1. HAVE LeadOf(t, img, i) = i
    <3>2. i \in 1 .. n BY <1>1
    <3>3. img.pos[i].offset + img.at[img.pos[i].offset] <= img.size BY <1>5, <3>1, <3>2
    <3>4. Readable(img, img.pos[i]) BY <1>4, <3>1, <3>2 DEF StopsAt
    <3>5. /\ img.pos[i].offset \in Nat /\ img.at[img.pos[i].offset] \in Nat /\ img.size \in Nat
      BY <1>1, <3>2, <3>4 DEF Readable
    <3> QED BY <3>3, <3>5
  <2> QED BY <2>1, Zenon DEF ReadsOutside
<1> QED BY <1>6 DEF t, img
-----------------------------------------------------------------------------
(* What Write makes of a content, Read makes the content of. *)
Fit(t, q) ==
  /\ t \in Kinds /\ WellFormed(q)
  /\ t # "array" => \A i \in DOMAIN q : q[i] # Hole
  /\ t = "array" => \E i \in DOMAIN q : q[i] # Hole
  /\ t = "toneMap" => Len(q) > 1 /\ LeadsApart(q)

LEMMA LeadsAre ==
  ASSUME NEW t, NEW q, Fit(t, q), NEW img, Placed(t, q, img), NEW i \in DOMAIN q
  PROVE  LeadOf(t, img, i) = q[i].lead
<1>1. i \in Nat \ {0} /\ TableEnd(t, q) \in Nat /\ TableEnd(t, q) > 0 /\ WellFormed(q)
  BY TableEndIs DEF Fit, WellFormed
<1> DEFINE a == q[i].lead
           first == FirstLike(Offsets(img), i)
<1>2. CASE q[i] # Hole
  <2>1. /\ a \in 1 .. i /\ a \in DOMAIN q /\ q[a].lead = a /\ q[a].data = q[i].data
        /\ q[i].data \in Nat /\ q[i].data >= 4 /\ q[a] # Hole
    <3>1. a \in DOMAIN q /\ q[a].lead = a /\ q[a].data = q[i].data /\ a >= 1 /\ a <= i
          /\ a \in Nat /\ q[i].data \in Nat /\ q[i].data >= 4
      BY <1>1, <1>2, LeadFacts
    <3> QED BY <1>1, <3>1 DEF Hole
  <2>2. \A k \in DOMAIN q : Offsets(img)[k] = img.pos[k].offset BY DEF Offsets, Placed
  <2>3. img.pos[a].offset = img.pos[i].offset BY <1>2, <2>1 DEF Placed
  <2>4. /\ img.pos[i].offset \in Nat /\ img.pos[i].offset >= TableEnd(t, q)
        /\ img.pos[i].size = q[i].data /\ img.pos[a].size = q[a].data
    BY <1>2, <2>1 DEF Placed
  <2>5. ASSUME NEW k \in 1 .. a - 1 PROVE img.pos[k].offset # img.pos[i].offset
    <3>1. k \in DOMAIN q /\ k \in Nat BY <1>1, <2>1 DEF WellFormed
    <3>2. CASE q[k] = Hole
      <4>1. img.pos[k].offset = 0 BY <3>1, <3>2 DEF Placed
      <4> QED BY <1>1, <2>4, <4>1
    <3>3. CASE q[k] # Hole
      <4>1. q[k].lead <= k /\ q[k].lead \in Nat /\ q[k].data \in Nat /\ q[k].data >= 4
        BY <1>1, <3>1, <3>3, LeadFacts
      <4>2. q[k].lead < a BY <2>1, <3>1, <4>1
      <4>3. img.pos[k].offset + q[k].data <= img.pos[i].offset /\ img.pos[k].offset \in Nat
        BY <1>2, <3>1, <3>3, <4>2 DEF Placed
      <4> QED BY <2>4, <4>1, <4>3
    <3> QED BY <3>2, <3>3
  <2>6. first = a
    <3> DEFINE s == Offsets(img)
    <3>1. s[a] = s[i] BY <2>1, <2>2, <2>3
    <3>2. \A k \in 1 .. a - 1 : s[k] # s[i] /\ k \in DOMAIN q
      BY <1>1, <2>1, <2>2, <2>5 DEF WellFormed
    <3> HIDE DEF s, a
    <3>3. FirstLike(s, i) = a BY <1>1, <2>1, <3>1, <3>2, FirstLikeOnly
    <3> QED BY <3>3 DEF s
  <2> HIDE DEF first
  <2>7. CASE t = "array"
    <3>1. img.pos[i].offset # 0 /\ img.pos[i].size # 0 /\ img.pos[first].size # 0
      BY <1>1, <2>1, <2>4, <2>6
    <3> QED BY <2>6, <2>7, <3>1 DEF LeadOf, first
  <2>8. CASE t = "toneMap"
    <3>1. ~(i > 1 /\ first = 1) BY <1>1, <2>6, <2>8 DEF Fit, LeadsApart
    <3> QED BY <2>6, <2>8, <3>1 DEF LeadOf, first
  <2>9. CASE t \notin {"array", "toneMap"} BY <2>6, <2>9 DEF LeadOf, first
  <2> QED BY <2>7, <2>8, <2>9
<1>3. CASE q[i] = Hole
  <2>1. t = "array" BY <1>3 DEF Fit
  <2>2. img.pos[i].offset = 0 BY <1>3 DEF Placed
  <2>3. LeadOf(t, img, i) = 0 BY <2>1, <2>2 DEF LeadOf
  <2> QED BY <1>3, <2>3 DEF Hole
<1> QED BY <1>2, <1>3

LEMMA PositionsAreOk ==
  ASSUME NEW t, NEW q, Fit(t, q), NEW img, Placed(t, q, img), NEW i \in DOMAIN q
  PROVE  PositionOk(t, img, i) /\ ~StopsAt(t, img, i)
<1>1. /\ WellFormed(q) /\ t \in Kinds /\ Len(q) \in Nat /\ DOMAIN q = 1 .. Len(q)
      /\ Len(img.pos) = Len(q) /\ img.size \in Nat
  BY DEF Fit, WellFormed, Placed
<1>2. TableEnd(t, q) = HeadBytes(t) + Len(q) * EntryBytes(t) /\ TableEnd(t, q) \in Nat
  BY <1>1, TableEndIs DEF TableEnd
<1>3. ASSUME NEW j \in DOMAIN q, q[j] # Hole
      PROVE  /\ img.pos[j].offset \in Nat /\ img.pos[j].offset >= TableEnd(t, q)
             /\ img.pos[j].size \in Nat /\ img.pos[j].size >= 4
             /\ img.pos[j].offset + img.pos[j].size <= img.size
             /\ q[j].lead \in Nat /\ q[j].lead >= 1
             /\ img.pos[j].size = q[j].data
             /\ img.pos[j].offset \in DOMAIN img.at /\ img.at[img.pos[j].offset] = q[j].data
  <2>1. q[j].data \in Nat /\ q[j].data >= 4 /\ q[j].lead \in Nat /\ q[j].lead >= 1
    BY <1>1, <1>3, LeadFacts
  <2> QED BY <1>3, <2>1 DEF Placed
<1>4. LeadOf(t, img, i) = i => q[i] # Hole
  <2>1. LeadOf(t, img, i) = q[i].lead BY LeadsAre
  <2>2. i # 0 BY <1>1
  <2>3. Hole.lead = 0 BY DEF Hole
  <2> QED BY <2>1, <2>2, <2>3
<1>5. q[i] # Hole => Inside(img.pos[i], img.size) BY <1>1, <1>3 DEF Inside
<1>6. PositionOk(t, img, i)
  <2>1. CASE t = "mpe"
    <3>1. q[i] # Hole BY <2>1 DEF Fit
    <3> QED BY <1>5, <2>1, <3>1 DEF PositionOk
  <2>2. CASE t = "struct"
    <3>1. HeadBytes(t) = 16 /\ EntryBytes(t) = 12 BY <2>2 DEF HeadBytes, EntryBytes
    <3>2. TableEnd(t, q) >= 12 BY <1>1, <1>2, <3>1
    <3>3. q[i] # Hole => img.pos[i].offset >= 12 /\ img.pos[i].size > 0 BY <1>2, <1>3, <3>2
    <3> QED BY <1>4, <1>5, <2>2, <3>3 DEF PositionOk
  <2>3. CASE t = "array" BY <1>4, <1>5, <2>3 DEF PositionOk
  <2>4. CASE t = "curveSet"
    <3>1. TableEnd(t, q) > 0 BY <1>1, TableEndIs
    <3>2. q[i] # Hole => img.pos[i].offset > 0 /\ img.pos[i].size > 0 BY <1>2, <1>3, <3>1
    <3> QED BY <1>4, <2>4, <3>2 DEF PositionOk
  <2>5. CASE t = "toneMap"
    <3>1. \A j \in DOMAIN q : q[j] # Hole BY <2>5 DEF Fit
    <3>2. TableEnd(t, q) = 12 + 8 * Len(q)
      <4>1. HeadBytes(t) = 12 /\ EntryBytes(t) = 8 BY <2>5 DEF HeadBytes, EntryBytes
      <4> QED BY <1>1, <1>2, <4>1
    <3>3. 16 + 8 * Len(q) <= img.size BY <1>1, <1>3, <3>1, <3>2
    <3>4. \A j \in 1 .. Len(q) : ValidTagPos(img.pos[j], 12 + 8 * Len(q), img.size)
      BY <1>1, <1>3, <3>1, <3>2 DEF ValidTagPos
    <3>5. ASSUME NEW j \in 1 .. Len(q), NEW k \in 1 .. j - 1
          PROVE  ValidOverlap(img.pos[k], img.pos[j], k > 1)
      <4>1. j \in DOMAIN q /\ k \in DOMAIN q /\ q[j] # Hole /\ q[k] # Hole /\ j # 1
        BY <1>1, <3>1
      <4>2. q[j].lead \in Nat /\ q[k].lead \in Nat BY <1>3, <4>1
      <4>3. CASE q[k].lead < q[j].lead
        <5>1. img.pos[k].offset + img.pos[k].size <= img.pos[j].offset
          BY <1>3, <4>1, <4>3 DEF Placed
        <5> QED BY <5>1 DEF ValidOverlap
      <4>4. CASE q[j].lead < q[k].lead
        <5>1. img.pos[j].offset + img.pos[j].size <= img.pos[k].offset
          BY <1>3, <4>1, <4>4 DEF Placed
        <5> QED BY <5>1 DEF ValidOverlap
      <4>5. CASE q[j].lead = q[k].lead
        <5>1. img.pos[k].offset = img.pos[j].offset BY <4>1, <4>5 DEF Placed
        <5>2. k > 1
          <6>1. LeadsApart(q) /\ q[j].lead # 1 BY <2>5, <4>1 DEF Fit, LeadsApart
          <6>2. k = 1 => q[k].lead \in {0, 1} BY <4>1, <6>1 DEF LeadsApart
          <6>3. q[k].lead >= 1 BY <1>3, <4>1
          <6> QED BY <4>1, <4>5, <6>1, <6>2, <6>3
        <5> QED BY <5>1, <5>2 DEF ValidOverlap
      <4> QED BY <4>2, <4>3, <4>4, <4>5
    <3> QED BY <1>1, <2>5, <3>3, <3>4, <3>5 DEF PositionOk
  <2> QED BY <1>1, <2>1, <2>2, <2>3, <2>4, <2>5 DEF Kinds
<1>7. q[i] # Hole => Readable(img, img.pos[i])
  <2>1. q[i] # Hole => q[i].data <= q[i].data BY <1>1, LeadFacts
  <2> QED BY <1>3, <2>1 DEF Readable
<1> QED BY <1>4, <1>6, <1>7 DEF StopsAt

LEMMA HeadIsOk ==
  ASSUME NEW t, NEW q, Fit(t, q), NEW img, Placed(t, q, img), t = "toneMap" => img.inputs = Len(q)
  PROVE  HeadOk(t, img)
<1>1. /\ WellFormed(q) /\ t \in Kinds /\ Len(q) \in Nat /\ DOMAIN q = 1 .. Len(q)
      /\ Len(img.pos) = Len(q) /\ img.size \in Nat /\ TableEnd(t, q) <= img.size
  BY DEF Fit, WellFormed, Placed
<1>2. TableEnd(t, q) = HeadBytes(t) + Len(q) * EntryBytes(t) /\ TableEnd(t, q) \in Nat
  BY <1>1, TableEndIs DEF TableEnd
<1>3. CASE t = "array"
  <2>1. PICK i \in DOMAIN q : q[i] # Hole BY <1>3 DEF Fit
  <2>2. q[i].data \in Nat /\ q[i].data >= 4 BY <1>1, <2>1, LeadFacts
  <2>3. /\ img.pos[i].offset \in Nat /\ img.pos[i].offset >= TableEnd(t, q)
        /\ img.pos[i].offset + q[i].data <= img.size
    BY <2>1 DEF Placed
  <2>4. TableEnd(t, q) + 4 <= img.size BY <1>1, <1>2, <2>2, <2>3
  <2> QED BY <1>1, <1>2, <1>3, <2>4 DEF HeadOk
<1>4. CASE t = "toneMap"
  <2>1. Len(q) > 1 /\ q[1] # Hole /\ 1 \in DOMAIN q BY <1>1, <1>4 DEF Fit
  <2>2. q[1].data \in Nat /\ q[1].data >= 4 /\ img.pos[1].size = q[1].data
    BY <1>1, <2>1, LeadFacts DEF Placed
  <2>3. HeadBytes(t) = 12 /\ EntryBytes(t) = 8 BY <1>4 DEF HeadBytes, EntryBytes
  <2>4. 12 + 8 + 4 <= img.size BY <1>1, <1>2, <2>1, <2>3
  <2> QED BY <1>1, <1>4, <2>1, <2>2, <2>3, <2>4 DEF HeadOk
<1>5. CASE t \notin {"array", "toneMap"}
  <2>1. HeadBytes(t) + Len(q) * EntryBytes(t) + 0 <= img.size BY <1>1, <1>2
  <2> QED BY <1>1, <1>5, <2>1 DEF HeadOk
<1> QED BY <1>3, <1>4, <1>5

LEMMA ReadsBack ==
  ASSUME NEW t, NEW q, Fit(t, q), q = [i \in DOMAIN q |-> q[i]],
         NEW m, t = "toneMap" => m = Len(q)
  PROVE  Parsed(t, Written(t, q, m)) = [ok |-> TRUE, content |-> q]
<1> DEFINE img == Written(t, q, m)
           n == Len(q)
           k == Stop(t, img)
<1>1. WellFormed(q) /\ n \in Nat /\ DOMAIN q = 1 .. n BY DEF Fit, WellFormed
<1>2. Placed(t, q, img) /\ img.inputs = m BY <1>1, WrittenPlaced DEF Written
<1> HIDE DEF img
<1>3. Len(img.pos) = n BY <1>2 DEF Placed
<1>4. k = n + 1
  <2>1. k \in 1 .. n + 1 /\ (k <= n => StopsAt(t, img, k)) BY <1>1, <1>3, StopIs
  <2>2. \A j \in 1 .. n : ~StopsAt(t, img, j) BY <1>1, <1>2, PositionsAreOk
  <2> QED BY <1>1, <2>1, <2>2
<1> HIDE DEF k
<1>5. SlotsLeft(t, img, k) = n BY <1>1, <1>3, <1>4 DEF SlotsLeft
<1>6. ASSUME NEW i \in 1 .. n PROVE SlotRead(t, img, i, k) = q[i]
  <2>1. i \in DOMAIN q /\ LeadOf(t, img, i) = q[i].lead BY <1>1, <1>2, LeadsAre
  <2>2. i < k /\ ~(i > k) BY <1>1, <1>4
  <2>3. CASE q[i] = Hole
    <3>1. q[i].lead = 0 BY <2>3 DEF Hole
    <3> QED BY <2>1, <2>3, <3>1 DEF SlotRead
  <2>4. CASE q[i] # Hole
    <3>1. /\ q[i].lead # 0 /\ q[i].lead \in DOMAIN q /\ q[q[i].lead].lead = q[i].lead
          /\ q[q[i].lead].data = q[i].data
      BY <1>1, <2>1, <2>4, LeadFacts
    <3>2. q[q[i].lead] # Hole BY <3>1 DEF Hole
    <3>3. img.at[img.pos[q[i].lead].offset] = q[i].data BY <1>2, <3>1, <3>2 DEF Placed
    <3>4. SlotRead(t, img, i, k) = [lead |-> q[i].lead, data |-> q[i].data]
      BY <2>1, <2>2, <3>1, <3>3 DEF SlotRead
    <3>5. q[i] = [lead |-> q[i].lead, data |-> q[i].data] BY <1>1, <2>1, <2>4 DEF WellFormed
    <3> QED BY <3>4, <3>5
  <2> QED BY <2>3, <2>4
<1>7. HeadOk(t, img) BY <1>2, HeadIsOk
<1>8. Parsed(t, img) =
        [ok |-> k > n, content |-> [i \in 1 .. SlotsLeft(t, img, k) |-> SlotRead(t, img, i, k)]]
  BY <1>3, <1>7 DEF Parsed, k
<1>9. k > n BY <1>1, <1>4
<1>10. [i \in 1 .. n |-> SlotRead(t, img, i, k)] = q
  <2>1. q = [i \in 1 .. n |-> q[i]] BY <1>1
  <2> QED BY <1>6, <2>1
<1>11. Parsed(t, img) = [ok |-> TRUE, content |-> q] BY <1>5, <1>8, <1>9, <1>10
<1> QED BY <1>11 DEF img
-----------------------------------------------------------------------------
(* What good containers hold can be written: elements with their bytes, and  *)
(* no empty slot where the container has none.                               *)
Filling(t, s, h) ==
  \A i \in DOMAIN s : IF s[i] = Null THEN t \notin {"mpe", "struct"} ELSE h[s[i]] \in ElementBytes

Whole == \A c \in Container : state[c] = "good" => Filling(kind, slots[c], heap)

LEMMA WholeChange ==
  ASSUME IInv, Whole, NEW c \in Container, NEW s, kind' = kind,
         slots' = [slots EXCEPT ![c] = s],
         \A d \in Container \ {c} : state'[d] = state[d],
         \A e \in Live \ Held(c) : heap'[e] = heap[e],
         state'[c] = "good" => Filling(kind, s, heap')
  PROVE  Whole'
<1> SUFFICES ASSUME NEW d \in Container, state'[d] = "good"
             PROVE  Filling(kind', slots'[d], heap')
  BY DEF Whole
<1>1. slots \in [Container -> Seq(Elem \cup {Null})] BY DEF IInv, Types
<1>2. CASE d = c
  <2>1. slots'[c] = s BY <1>1
  <2> QED BY <1>2, <2>1
<1>3. CASE d # c
  <2>1. slots'[d] = slots[d] /\ state[d] = "good" BY <1>1, <1>3
  <2>2. Filling(kind, slots[d], heap) BY <2>1 DEF Whole
  <2>3. \A i \in DOMAIN slots[d] : slots[d][i] # Null => heap'[slots[d][i]] = heap[slots[d][i]]
    <3> TAKE i \in DOMAIN slots[d]
    <3>1. HAVE slots[d][i] # Null
    <3>2. slots[d][i] \in Held(d) BY <3>1 DEF Held
    <3>3. Held(d) \subseteq Live /\ Held(d) \cap Held(c) = {}
      BY <1>3 DEF IInv, ElementsOwned
    <3> QED BY <3>2, <3>3
  <2> QED BY <2>1, <2>2, <2>3 DEF Filling
<1> QED BY <1>2, <1>3

LEMMA FillingKept ==
  ASSUME NEW t, NEW s, NEW h, NEW r, NEW g, Filling(t, s, h),
         \A i \in DOMAIN r :
           \/ r[i] = Null /\ t \notin {"mpe", "struct"}
           \/ r[i] # Null /\ g[r[i]] \in ElementBytes
           \/ \E j \in DOMAIN s : r[i] = s[j] /\ (s[j] # Null => g[s[j]] = h[s[j]])
  PROVE  Filling(t, r, g)
<1> SUFFICES ASSUME NEW i \in DOMAIN r
             PROVE  IF r[i] = Null THEN t \notin {"mpe", "struct"} ELSE g[r[i]] \in ElementBytes
  BY DEF Filling
<1>1. CASE r[i] = Null /\ t \notin {"mpe", "struct"} BY <1>1
<1>2. CASE r[i] # Null /\ g[r[i]] \in ElementBytes BY <1>2
<1>3. CASE \E j \in DOMAIN s : r[i] = s[j] /\ (s[j] # Null => g[s[j]] = h[s[j]])
  <2>1. PICK j \in DOMAIN s : r[i] = s[j] /\ (s[j] # Null => g[s[j]] = h[s[j]]) BY <1>3
  <2>2. IF s[j] = Null THEN t \notin {"mpe", "struct"} ELSE h[s[j]] \in ElementBytes
    BY DEF Filling
  <2> QED BY <2>1, <2>2
<1> QED BY <1>1, <1>2, <1>3

LEMMA SlotHeld ==
  ASSUME IInv, NEW c \in Container, NEW i \in DOMAIN slots[c]
  PROVE  slots[c][i] = Null \/ (slots[c][i] \in Held(c) /\ slots[c][i] \in Live)
BY HeldFacts DEF Held

LEMMA WithIs ==
  ASSUME NEW h, NEW e, NEW x
  PROVE  /\ With(h, e, x)[e] = x
         /\ \A f \in DOMAIN h \ {e} : With(h, e, x)[f] = h[f]
BY DEF With

LEMMA NewWhole == ASSUME IInv, Whole, NEW c \in Container, New(c) PROVE Whole'
<1>1. PICK s : NewSlots(c, s) BY NewSlotsThere
<1>2. Filling(kind, s, heap') BY <1>1 DEF Filling, NewSlots
<1>3. /\ kind' = kind /\ slots' = [slots EXCEPT ![c] = s] /\ heap' = heap
      /\ state' = [state EXCEPT ![c] = "good"]
  BY <1>1 DEF New, NewSlots
<1>4. \A d \in Container \ {c} : state'[d] = state[d] BY <1>3 DEF IInv, Types
<1> QED BY <1>2, <1>3, <1>4, WholeChange

LEMMA DestroyWhole == ASSUME IInv, Whole, NEW c \in Container, Destroy(c) PROVE Whole'
<1>1. kind' = kind /\ slots' = [slots EXCEPT ![c] = <<>>] /\ heap' = Without(Owned(c))
  BY DEF Destroy
<1>2. \A d \in Container \ {c} : state'[d] = state[d] BY DEF IInv, Types, Destroy
<1>3. \A e \in Live \ Held(c) : heap'[e] = heap[e] BY <1>1, HeldFacts DEF Without
<1>4. Filling(kind, <<>>, heap') BY DEF Filling
<1> QED BY <1>1, <1>2, <1>3, <1>4, WholeChange

LEMMA SetSizeWhole == ASSUME IInv, Whole, NEW c \in Container, SetSize(c) PROVE Whole'
<1>0. PICK n \in 0 .. MaxSlots : GrowArray(c, n) \/ ResetCurves(c, n) \/ ResetFuncs(c, n)
  BY DEF SetSize
<1>1. n \in Nat BY MaxSlotsAssumption
<1>2. kind' = kind /\ state' = state /\ state[c] = "good" /\ Filling(kind, slots[c], heap)
  BY DEF SetSize, Whole
<1>3. slots[c] \in Seq(Elem \cup {Null}) BY HeldFacts
<1>4. CASE GrowArray(c, n)
  <2> DEFINE s == [i \in 1 .. n |-> IF i <= Len(slots[c]) THEN slots[c][i] ELSE Null]
  <2>1. slots' = [slots EXCEPT ![c] = s] /\ heap' = heap /\ kind = "array" BY <1>4 DEF GrowArray
  <2>2. \A i \in DOMAIN s : s[i] = Null \/ \E j \in DOMAIN slots[c] : s[i] = slots[c][j]
    BY <1>1, <1>3
  <2> HIDE DEF s
  <2>3. Filling(kind, s, heap') BY <1>2, <2>1, <2>2, FillingKept
  <2> QED BY <1>2, <2>1, <2>3, WholeChange
<1>5. CASE ResetCurves(c, n)
  <2> DEFINE s == [i \in 1 .. n |-> Null]
  <2>1. slots' = [slots EXCEPT ![c] = s] /\ heap' = Without(Held(c)) /\ kind = "curveSet"
    BY <1>5 DEF ResetCurves
  <2>2. Filling(kind, s, heap') BY <2>1 DEF Filling
  <2>3. \A e \in Live \ Held(c) : heap'[e] = heap[e] BY <2>1 DEF Without
  <2> HIDE DEF s
  <2> QED BY <1>2, <2>1, <2>2, <2>3, WholeChange
<1>6. CASE ResetFuncs(c, n)
  <2> DEFINE s == [i \in 1 .. n |-> IF i = 1 THEN slots[c][1] ELSE Null]
  <2>1. /\ slots' = [slots EXCEPT ![c] = s] /\ kind = "toneMap"
        /\ heap' = Without(Held(c) \ {slots[c][1]}) /\ slots[c] # <<>>
    BY <1>6 DEF ResetFuncs
  <2>2. 1 \in DOMAIN slots[c] BY <1>3, <2>1
  <2>3. slots[c][1] # Null => heap'[slots[c][1]] = heap[slots[c][1]]
    BY <2>1, <2>2, SlotHeld DEF Without
  <2>4. \A i \in DOMAIN s : s[i] = Null \/ s[i] = slots[c][1] OBVIOUS
  <2>5. \A e \in Live \ Held(c) : heap'[e] = heap[e] BY <2>1 DEF Without
  <2> HIDE DEF s
  <2>6. kind \notin {"mpe", "struct"} BY <2>1
  <2>7. \A i \in DOMAIN s :
          \/ s[i] = Null /\ kind \notin {"mpe", "struct"}
          \/ s[i] # Null /\ heap'[s[i]] \in ElementBytes
          \/ \E j \in DOMAIN slots[c] :
               s[i] = slots[c][j] /\ (slots[c][j] # Null => heap'[slots[c][j]] = heap[slots[c][j]])
    BY <2>2, <2>3, <2>4, <2>6, Zenon
  <2>8. Filling(kind, s, heap') BY <1>2, <2>7, FillingKept, Zenon
  <2> QED BY <1>2, <2>1, <2>5, <2>8, WholeChange
<1> QED BY <1>0, <1>4, <1>5, <1>6

(* A slot is changed, to no element or to one with its bytes. *)
LEMMA SlotWhole ==
  ASSUME IInv, Whole, NEW c \in Container, NEW i \in DOMAIN slots[c], NEW e,
         state[c] = "good", kind' = kind, state' = state,
         slots' = [slots EXCEPT ![c][i] = e],
         IF e = Null THEN kind \notin {"mpe", "struct"} ELSE heap'[e] \in ElementBytes,
         \A j \in DOMAIN slots[c] \ {i} :
           \/ slots[c][j] \in {e, Null}
           \/ heap'[slots[c][j]] = heap[slots[c][j]],
         \A f \in Live \ Held(c) : heap'[f] = heap[f]
  PROVE  Whole'
<1> DEFINE s == [slots[c] EXCEPT ![i] = e]
<1>1. slots' = [slots EXCEPT ![c] = s] OBVIOUS
<1>2. DOMAIN s = DOMAIN slots[c] /\ s[i] = e /\ \A j \in DOMAIN slots[c] \ {i} : s[j] = slots[c][j]
  OBVIOUS
<1>3. Filling(kind, slots[c], heap) BY DEF Whole
<1> HIDE DEF s
<1>4. \A j \in DOMAIN s :
        \/ s[j] = Null /\ kind \notin {"mpe", "struct"}
        \/ s[j] # Null /\ heap'[s[j]] \in ElementBytes
        \/ \E k \in DOMAIN slots[c] :
             s[j] = slots[c][k] /\ (slots[c][k] # Null => heap'[slots[c][k]] = heap[slots[c][k]])
  <2> TAKE j \in DOMAIN s
  <2>1. CASE j = i \/ slots[c][j] = e BY <1>2, <2>1
  <2>2. CASE j # i /\ slots[c][j] # e
    <3>1. j \in DOMAIN slots[c] \ {i} /\ s[j] = slots[c][j] BY <1>2, <2>2
    <3> QED BY <2>2, <3>1
  <2> QED BY <2>1, <2>2
<1>5. Filling(kind, s, heap') BY <1>3, <1>4, FillingKept, ZenonT(60)
<1> QED BY <1>1, <1>5, WholeChange

LEMMA AddWhole == ASSUME IInv, Whole, NEW c \in Container, Add(c) PROVE Whole'
<1>1. PICK e \in Elem : \E x \in Data :
        /\ HandedOver(c, e, x)
        /\ \/ AddToChain(c, e, x) \/ AttachElem(c, e, x)
           \/ slots[c] # <<>> /\ SetLumCurve(c, e, x)
           \/ \E i \in DOMAIN slots[c] :
                AttachTag(c, i, e, x) \/ SetCurve(c, i, e, x) \/ InsertFunc(c, i, e, x)
  BY DEF Add
<1>2. PICK x \in Data :
        /\ HandedOver(c, e, x)
        /\ \/ AddToChain(c, e, x) \/ AttachElem(c, e, x)
           \/ slots[c] # <<>> /\ SetLumCurve(c, e, x)
           \/ \E i \in DOMAIN slots[c] :
                AttachTag(c, i, e, x) \/ SetCurve(c, i, e, x) \/ InsertFunc(c, i, e, x)
  BY <1>1
<1>3. e # Null /\ e \notin Live \ Held(c) BY <1>2, HandedOverFacts
<1>4. /\ state[c] = "good" /\ kind' = kind /\ state' = state
      /\ x \in ElementBytes /\ slots[c] \in Seq(Elem \cup {Null})
      /\ Filling(kind, slots[c], heap)
  BY HeldFacts, DataAssumption DEF Add, Whole
<1>5. CASE AddToChain(c, e, x) \/ AttachElem(c, e, x)
  <2>1. PICK s \in {Append(slots[c], e), <<e>> \o slots[c]} : slots' = [slots EXCEPT ![c] = s]
    BY <1>5 DEF AddToChain, AttachElem
  <2>2. heap' = With(heap, e, x) BY <1>5 DEF AddToChain, AttachElem
  <2>3. heap'[e] = x /\ \A f \in Live \ {e} : heap'[f] = heap[f] BY <2>2, WithIs DEF Live
  <2>4. \A i \in DOMAIN s : s[i] = e \/ \E j \in DOMAIN slots[c] : s[i] = slots[c][j]
    <3>1. CASE s = Append(slots[c], e)
      <4>1. DOMAIN s = 1 .. Len(slots[c]) + 1 /\ DOMAIN slots[c] = 1 .. Len(slots[c])
            /\ Len(slots[c]) \in Nat
        BY <1>4, <3>1
      <4>2. s[Len(slots[c]) + 1] = e /\ \A i \in DOMAIN slots[c] : s[i] = slots[c][i]
        BY <1>4, <3>1
      <4>3. \A i \in DOMAIN s : i = Len(slots[c]) + 1 \/ i \in DOMAIN slots[c] BY <4>1
      <4> QED BY <4>2, <4>3
    <3>2. CASE s = <<e>> \o slots[c]
      <4>1. s[1] = e /\ \A i \in DOMAIN s :
              i = 1 \/ (i - 1 \in DOMAIN slots[c] /\ s[i] = slots[c][i - 1])
        BY <1>4, <3>2
      <4> QED BY <4>1
    <3> QED BY <2>1, <3>1, <3>2
  <2>5. \A i \in DOMAIN s :
          \/ s[i] = Null /\ kind \notin {"mpe", "struct"}
          \/ s[i] # Null /\ heap'[s[i]] \in ElementBytes
          \/ \E j \in DOMAIN slots[c] :
               s[i] = slots[c][j] /\ (slots[c][j] # Null => heap'[slots[c][j]] = heap[slots[c][j]])
    <3> TAKE i \in DOMAIN s
    <3>1. CASE s[i] = e BY <1>3, <1>4, <2>3, <3>1
    <3>2. CASE s[i] # e
      <4>1. PICK j \in DOMAIN slots[c] : s[i] = slots[c][j] BY <2>4, <3>2
      <4>2. slots[c][j] # Null => heap'[slots[c][j]] = heap[slots[c][j]]
        BY <2>3, <3>2, <4>1, SlotHeld
      <4> QED BY <4>1, <4>2
    <3> QED BY <3>1, <3>2
  <2>6. Filling(kind, s, heap') BY <1>4, <2>5, FillingKept, Zenon
  <2>7. \A f \in Live \ Held(c) : heap'[f] = heap[f] BY <1>3, <2>3
  <2> QED BY <1>4, <2>1, <2>6, <2>7, WholeChange
<1>6. CASE slots[c] # <<>> /\ SetLumCurve(c, e, x)
  <2>1. 1 \in DOMAIN slots[c] BY <1>4, <1>6
  <2>2. /\ kind = "toneMap" /\ slots' = [slots EXCEPT ![c][1] = e]
        /\ heap' = With(Without({slots[c][1]}), e, x)
    BY <1>6 DEF SetLumCurve
  <2>3. heap'[e] = x /\ \A f \in Live \ {e, slots[c][1]} : heap'[f] = heap[f]
    BY <2>2, WithIs DEF Without
  <2>4. \A j \in DOMAIN slots[c] \ {1} : slots[c][j] = Null \/ slots[c][j] # slots[c][1]
    BY <2>2 DEF IInv, CurveApart, Apart
  <2>5. \A j \in DOMAIN slots[c] \ {1} :
          slots[c][j] \in {e, Null} \/ heap'[slots[c][j]] = heap[slots[c][j]]
    BY <2>3, <2>4, SlotHeld
  <2>6. \A f \in Live \ Held(c) : heap'[f] = heap[f]
    <3>1. slots[c][1] = Null \/ slots[c][1] \in Held(c) BY <2>1, SlotHeld
    <3>2. Null \notin Live BY HeldFacts, ElemAssumption
    <3> QED BY <1>3, <2>3, <3>1, <3>2
  <2>7. heap'[e] \in ElementBytes BY <1>4, <2>3
  <2>8. slots' = [slots EXCEPT ![c][1] = e] BY <2>2
  <2> QED BY <1>3, <1>4, <2>1, <2>5, <2>6, <2>7, <2>8, SlotWhole
<1>7. CASE \E i \in DOMAIN slots[c] :
             AttachTag(c, i, e, x) \/ SetCurve(c, i, e, x) \/ InsertFunc(c, i, e, x)
  <2>1. PICK i \in DOMAIN slots[c] :
          AttachTag(c, i, e, x) \/ SetCurve(c, i, e, x) \/ InsertFunc(c, i, e, x)
    BY <1>7
  <2>2. slots' = [slots EXCEPT ![c][i] = e] BY <2>1 DEF AttachTag, SetCurve, InsertFunc
  <2>3. Null \notin Live BY HeldFacts, ElemAssumption
  <2>4. /\ heap'[e] = x
        /\ \A f \in Live \ {e} : (SharedSlot(c, i) \/ f # slots[c][i]) => heap'[f] = heap[f]
    <3>1. CASE AttachTag(c, i, e, x) \/ InsertFunc(c, i, e, x)
      <4>1. heap' = With(heap, e, x) BY <3>1 DEF AttachTag, InsertFunc
      <4> QED BY <4>1, WithIs DEF Live
    <3>2. CASE SetCurve(c, i, e, x)
      <4> DEFINE h == IF SharedSlot(c, i) THEN heap ELSE Without({slots[c][i]})
      <4>1. heap' = With(h, e, x) BY <3>2 DEF SetCurve
      <4>2. \A f \in Live : (SharedSlot(c, i) \/ f # slots[c][i]) =>
            f \in DOMAIN h /\ h[f] = heap[f]
        BY DEF Without, Live
      <4> HIDE DEF h
      <4>3. With(h, e, x)[e] = x /\ \A f \in DOMAIN h \ {e} : With(h, e, x)[f] = h[f] BY WithIs
      <4> QED BY <4>1, <4>2, <4>3
    <3> QED BY <2>1, <3>1, <3>2
  <2>5. ASSUME NEW j \in DOMAIN slots[c] \ {i}
        PROVE  slots[c][j] \in {e, Null} \/ heap'[slots[c][j]] = heap[slots[c][j]]
    <3>1. slots[c][j] = slots[c][i] => SharedSlot(c, i) BY DEF SharedSlot
    <3> QED BY <2>4, <3>1, SlotHeld
  <2>6. \A f \in Live \ Held(c) : heap'[f] = heap[f]
    <3>1. slots[c][i] = Null \/ slots[c][i] \in Held(c) BY SlotHeld
    <3> QED BY <1>3, <2>3, <2>4, <3>1
  <2> QED BY <1>3, <1>4, <2>2, <2>4, <2>5, <2>6, SlotWhole
<1> QED BY <1>2, <1>5, <1>6, <1>7

LEMMA RemoveWhole == ASSUME IInv, Whole, NEW c \in Container, Remove(c) PROVE Whole'
<1>1. PICK i \in DOMAIN slots[c] : DeleteElem(c, i) \/ EmptySlot(c, i) BY DEF Remove
<1>2. /\ state[c] = "good" /\ kind' = kind /\ state' = state
      /\ slots[c] \in Seq(Elem \cup {Null}) /\ Filling(kind, slots[c], heap) /\ Null \notin Live
  BY HeldFacts, ElemAssumption DEF Remove, Whole
<1>3. \A f \in Live : (SharedSlot(c, i) \/ f # slots[c][i]) => heap'[f] = heap[f]
  BY <1>1 DEF DeleteElem, EmptySlot, Without
<1>4. \A f \in Live \ Held(c) : heap'[f] = heap[f]
  <2>1. slots[c][i] = Null \/ slots[c][i] \in Held(c) BY SlotHeld
  <2> QED BY <1>2, <1>3, <2>1
<1>5. ASSUME NEW j \in DOMAIN slots[c] \ {i}
      PROVE  slots[c][j] = Null \/ heap'[slots[c][j]] = heap[slots[c][j]]
  <2>1. slots[c][j] = slots[c][i] => SharedSlot(c, i) BY DEF SharedSlot
  <2> QED BY <1>3, <2>1, SlotHeld
<1>6. CASE DeleteElem(c, i)
  <2> DEFINE s == [k \in 1 .. Len(slots[c]) - 1 |-> slots[c][IF k < i THEN k ELSE k + 1]]
  <2>1. slots' = [slots EXCEPT ![c] = s] BY <1>6 DEF DeleteElem
  <2>2. \A k \in DOMAIN s : \E j \in DOMAIN slots[c] \ {i} : s[k] = slots[c][j]
    <3>1. DOMAIN slots[c] = 1 .. Len(slots[c]) /\ Len(slots[c]) \in Nat BY <1>2
    <3>2. \A k \in 1 .. Len(slots[c]) - 1 : (IF k < i THEN k ELSE k + 1) \in DOMAIN slots[c] \ {i}
      BY <3>1
    <3> QED BY <3>2
  <2> HIDE DEF s
  <2>3. \A k \in DOMAIN s :
          \/ s[k] = Null /\ kind \notin {"mpe", "struct"}
          \/ s[k] # Null /\ heap'[s[k]] \in ElementBytes
          \/ \E j \in DOMAIN slots[c] :
               s[k] = slots[c][j] /\ (slots[c][j] # Null => heap'[slots[c][j]] = heap[slots[c][j]])
    BY <1>5, <2>2
  <2>4. Filling(kind, s, heap') BY <1>2, <2>3, FillingKept, Zenon
  <2> QED BY <1>2, <1>4, <2>1, <2>4, WholeChange
<1>7. CASE EmptySlot(c, i)
  <2>1. slots' = [slots EXCEPT ![c][i] = Null] /\ kind \in {"array", "curveSet"}
    BY <1>7 DEF EmptySlot
  <2>2. kind \notin {"mpe", "struct"} BY <2>1
  <2>3. \A j \in DOMAIN slots[c] \ {i} :
          slots[c][j] \in {Null, Null} \/ heap'[slots[c][j]] = heap[slots[c][j]]
    BY <1>5
  <2> QED BY <1>2, <1>4, <2>1, <2>2, <2>3, SlotWhole
<1> QED BY <1>1, <1>6, <1>7
-----------------------------------------------------------------------------
(* What a good container is written from. *)
LEMMA ContentWhole ==
  ASSUME IInv, Whole, NEW c \in Container, state[c] = "good"
  PROVE  /\ WellFormed(ContentOf(c))
         /\ ContentOf(c) = [i \in DOMAIN ContentOf(c) |-> ContentOf(c)[i]]
         /\ \A i \in DOMAIN ContentOf(c) :
              /\ ContentOf(c)[i] # Hole => ContentOf(c)[i].lead # 0
              /\ kind \in {"mpe", "struct"} => ContentOf(c)[i] # Hole
<1> DEFINE q == ContentOf(c)
           s == slots[c]
<1>1. DOMAIN q = DOMAIN s /\ q = [i \in DOMAIN s |-> q[i]] BY DEF ContentOf
<1>2. s \in Seq(Elem \cup {Null}) /\ Filling(kind, s, heap) BY HeldFacts DEF Whole
<1>3. Len(s) \in Nat /\ DOMAIN s = 1 .. Len(s) BY <1>2
<1>4. Len(q) = Len(s)
  <2> DEFINE n == Len(s)
             p == q
  <2>1. p = [i \in 1 .. n |-> p[i]] BY <1>1, <1>3
  <2> HIDE DEF p
  <2>2. p \in [1 .. n -> {p[i] : i \in 1 .. n}] BY <2>1
  <2>3. DOMAIN p = 1 .. n /\ n \in Nat BY <1>3, <2>1
  <2>4. p \in Seq({p[i] : i \in 1 .. n}) BY <2>2, <2>3
  <2>5. Len(p) = n BY <2>3, <2>4
  <2> QED BY <2>5 DEF p
<1>5. \A i \in DOMAIN s :
        q[i] = IF s[i] = Null THEN Hole ELSE [lead |-> FirstLike(s, i), data |-> heap[s[i]]]
  BY DEF ContentOf
<1> HIDE DEF q, s
<1>6. ASSUME NEW i \in DOMAIN s, s[i] # Null
      PROVE  /\ q[i].lead \in 1 .. i /\ q[i].data \in ElementBytes /\ q[q[i].lead] = q[i]
             /\ q[i] = [lead |-> q[i].lead, data |-> q[i].data] /\ q[i].lead # 0
  <2>1. i \in Nat \ {0} BY <1>3
  <2> DEFINE a == FirstLike(s, i)
  <2>2. a \in 1 .. i /\ s[a] = s[i] /\ \A k \in 1 .. a - 1 : s[k] # s[i] BY <2>1, FirstLikeIs
  <2>3. q[i] = [lead |-> a, data |-> heap[s[i]]] BY <1>5, <1>6
  <2> HIDE DEF a
  <2>4. a \in DOMAIN s /\ a \in Nat \ {0} BY <1>3, <2>1, <2>2
  <2>5. FirstLike(s, a) = a
    <3>1. a \in 1 .. a /\ s[a] = s[a] /\ \A k \in 1 .. a - 1 : s[k] # s[a] BY <2>2, <2>4
    <3> QED BY <2>4, <3>1, FirstLikeOnly
  <2>6. q[a] = [lead |-> a, data |-> heap[s[a]]] BY <1>5, <1>6, <2>2, <2>4, <2>5
  <2>7. heap[s[i]] \in ElementBytes BY <1>2, <1>6 DEF Filling
  <2>8. q[i].lead = a /\ q[i].data = heap[s[i]] BY <2>3
  <2> QED BY <2>2, <2>3, <2>4, <2>6, <2>7, <2>8
<1>7. \A i \in DOMAIN q : q[i] # Hole => s[i] # Null BY <1>1, <1>5
<1>8. WellFormed(q) BY <1>1, <1>3, <1>4, <1>6, <1>7 DEF WellFormed
<1>9. \A i \in DOMAIN q : q[i] # Hole => q[i].lead # 0 BY <1>1, <1>6, <1>7
<1>10. ASSUME NEW i \in DOMAIN q, kind \in {"mpe", "struct"} PROVE q[i] # Hole
  <2>1. s[i] # Null BY <1>1, <1>2, <1>10 DEF Filling
  <2>2. q[i].lead # 0 BY <1>1, <1>6, <2>1
  <2> QED BY <2>2 DEF Hole
<1> QED BY <1>1, <1>8, <1>9, <1>10 DEF q

(* Content that fills a container with nothing but elements. *)
Supply(t, q) ==
  /\ \A i \in DOMAIN q : q[i].lead = i => q[i].data \in ElementBytes
  /\ t \in {"mpe", "struct"} =>
       \A i \in DOMAIN q : q[i].lead \in DOMAIN q /\ q[q[i].lead].lead = q[i].lead

LEMMA CopiedWhole ==
  ASSUME IInv, Whole, NEW c \in Container, state[c] = "good"
  PROVE  Supply(kind, Copied(c))
<1> DEFINE q == ContentOf(c)
<1>1. WellFormed(q) /\ \A i \in DOMAIN q : kind \in {"mpe", "struct"} => q[i] # Hole
  BY ContentWhole
<1>2. CASE kind \in {"mpe", "array"}
  <2>1. \A i \in DOMAIN slots[c] :
          /\ slots[c][i] = Null => Copied(c)[i] = Hole
          /\ slots[c][i] # Null => Copied(c)[i] = [lead |-> i, data |-> heap[slots[c][i]]]
    BY <1>2 DEF Copied
  <2>2. DOMAIN Copied(c) = DOMAIN slots[c] /\ \A i \in DOMAIN slots[c] : i # 0
    BY HeldFacts, CopiedIs
  <2>3. \A i \in DOMAIN slots[c] :
          IF slots[c][i] = Null THEN kind \notin {"mpe", "struct"}
          ELSE heap[slots[c][i]] \in ElementBytes
    BY DEF Whole, Filling
  <2>4. ASSUME NEW i \in DOMAIN slots[c]
        PROVE  /\ Copied(c)[i].lead = i => Copied(c)[i].data \in ElementBytes
               /\ kind = "mpe" => Copied(c)[i].lead = i
    <3>1. CASE slots[c][i] = Null
      <4>1. Copied(c)[i] = Hole /\ i # 0 BY <2>1, <2>2, <3>1
      <4>2. Hole.lead = 0 BY DEF Hole
      <4> QED BY <2>3, <3>1, <4>1, <4>2
    <3>2. CASE slots[c][i] # Null
      <4>1. Copied(c)[i] = [lead |-> i, data |-> heap[slots[c][i]]] BY <2>1, <3>2
      <4>2. Copied(c)[i].lead = i /\ Copied(c)[i].data = heap[slots[c][i]] BY <4>1
      <4> QED BY <2>3, <3>2, <4>2
    <3> QED BY <3>1, <3>2
  <2>5. kind # "struct" BY <1>2
  <2> QED BY <2>2, <2>4, <2>5 DEF Supply
<1>3. CASE kind \notin {"mpe", "array"}
  <2>1. Copied(c) = q BY <1>3 DEF Copied
  <2>2. ASSUME NEW i \in DOMAIN q, q[i] # Hole
        PROVE  q[i].lead \in DOMAIN q /\ q[q[i].lead].lead = q[i].lead /\ q[i].data \in ElementBytes
    BY <1>1, <2>2, LeadFacts DEF WellFormed
  <2>3. \A i \in DOMAIN q : q[i].lead = i => q[i] # Hole BY <1>1 DEF Hole, WellFormed
  <2> HIDE DEF q
  <2> QED BY <1>1, <2>1, <2>2, <2>3 DEF Supply
<1> QED BY <1>2, <1>3

LEMMA ParsedWhole ==
  ASSUME NEW t \in Kinds, NEW img, NEW n \in Nat, Len(img.pos) = n, DOMAIN img.pos = 1 .. n,
         \A o \in DOMAIN img.at : img.at[o] \in ElementBytes, Parsed(t, img).ok
  PROVE  Supply(t, Parsed(t, img).content)
<1> DEFINE k == Stop(t, img)
           q == Parsed(t, img).content
<1>1. HeadOk(t, img) /\ k > n BY DEF Parsed
<1>2. k = n + 1 /\ \A j \in 1 .. n : ~StopsAt(t, img, j)
  <2>1. k \in 1 .. n + 1 /\ \A j \in 1 .. k - 1 : ~StopsAt(t, img, j) BY StopIs
  <2> QED BY <1>1, <2>1
<1> HIDE DEF k
<1>3. SlotsLeft(t, img, k) = n BY <1>2 DEF SlotsLeft
<1>4. q = [i \in 1 .. n |-> SlotRead(t, img, i, k)] BY <1>1, <1>3 DEF Parsed, k
<1>5. \A i \in 1 .. n : q[i].lead = LeadOf(t, img, i)
                        /\ (q[i].lead # 0 => q[i].data = img.at[img.pos[LeadOf(t, img, i)].offset])
  <2> TAKE i \in 1 .. n
  <2>1. i < k /\ ~(i > k) BY <1>2
  <2>2. q[i] = IF LeadOf(t, img, i) = 0 THEN Hole
               ELSE [lead |-> LeadOf(t, img, i), data |-> img.at[img.pos[LeadOf(t, img, i)].offset]]
    BY <1>4, <2>1 DEF SlotRead
  <2> HIDE DEF q
  <2> QED BY <2>2 DEF Hole
<1>6. DOMAIN q = 1 .. n BY <1>4
<1> HIDE DEF q
<1>7. ASSUME NEW i \in 1 .. n, q[i].lead = i PROVE q[i].data \in ElementBytes
  <2>1. LeadOf(t, img, i) = i /\ i # 0 BY <1>5, <1>7
  <2>2. Readable(img, img.pos[i]) BY <1>2, <2>1 DEF StopsAt
  <2> QED BY <1>5, <1>7, <2>1, <2>2 DEF Readable
<1>8. ASSUME t \in {"mpe", "struct"}, NEW i \in 1 .. n
      PROVE  q[i].lead \in 1 .. n /\ q[q[i].lead].lead = q[i].lead
  <2> DEFINE s == Offsets(img)
             a == FirstLike(s, i)
  <2>1. \A j \in 1 .. n : LeadOf(t, img, j) = FirstLike(s, j) BY <1>8 DEF LeadOf
  <2>2. a \in 1 .. i /\ s[a] = s[i] /\ \A j \in 1 .. a - 1 : s[j] # s[i] BY FirstLikeIs
  <2> HIDE DEF s, a
  <2>3. a \in 1 .. n /\ a \in Nat \ {0} BY <2>2
  <2>4. FirstLike(s, a) = a
    <3>1. a \in 1 .. a /\ s[a] = s[a] /\ \A j \in 1 .. a - 1 : s[j] # s[a] BY <2>2, <2>3
    <3> QED BY <2>3, <3>1, FirstLikeOnly
  <2>5. q[i].lead = a BY <1>5, <2>1 DEF a
  <2>6. q[a].lead = a BY <1>5, <2>1, <2>3, <2>4
  <2> QED BY <2>3, <2>5, <2>6
<1>9. Supply(t, q) BY <1>6, <1>7, <1>8 DEF Supply
<1> QED BY <1>9 DEF q

LEMMA UntouchedFails ==
  ASSUME NEW t \in Kinds, NEW img, Len(img.pos) \in Nat, img.size \in Nat, Untouched(t, img)
  PROVE  ~Parsed(t, img).ok
<1>1. ~HeadOk(t, img)
  <2>1. HeadBytes(t) \in {12, 16} /\ EntryBytes(t) \in {8, 12} BY DEF HeadBytes, EntryBytes
  <2>2. CASE t = "array"
    <3>1. HeadBytes(t) = 16 /\ EntryBytes(t) = 8 BY <2>2 DEF HeadBytes, EntryBytes
    <3> QED BY <2>2, <3>1 DEF HeadOk, Untouched
  <2>3. CASE t = "curveSet" BY <2>3 DEF Untouched
  <2>4. CASE t = "mpe"
    <3>1. HeadBytes(t) = 16 /\ EntryBytes(t) = 8 BY <2>4 DEF HeadBytes, EntryBytes
    <3> QED BY <2>4, <3>1 DEF HeadOk, Untouched
  <2>5. CASE t = "struct"
    <3>1. HeadBytes(t) = 16 /\ EntryBytes(t) = 12 BY <2>5 DEF HeadBytes, EntryBytes
    <3> QED BY <2>5, <3>1 DEF HeadOk, Untouched
  <2>6. CASE t = "toneMap" BY <2>6 DEF Untouched
  <2> QED BY <2>2, <2>3, <2>4, <2>5, <2>6 DEF Kinds
<1> QED BY <1>1 DEF Parsed

LEMMA WrittenElements ==
  ASSUME NEW t, NEW q, WellFormed(q), NEW m
  PROVE  \A o \in DOMAIN Written(t, q, m).at : Written(t, q, m).at[o] \in ElementBytes
<1> DEFINE img == Written(t, q, m)
           n == Len(q)
           Start(i) == Ends(t, q)[q[i].lead - 1]
<1>1. DOMAIN img.at = {Start(i) : i \in {j \in 1 .. n : q[j].lead # 0}} BY DEF Written
<1>2. \A i \in 1 .. n : q[i].lead # 0 => img.pos[i] = [offset |-> Start(i), size |-> q[i].data]
  BY DEF Written
<1>3. Placed(t, q, img) BY WrittenPlaced
<1> HIDE DEF img
<1>4. ASSUME NEW o \in DOMAIN img.at PROVE img.at[o] \in ElementBytes
  <2>1. PICK i \in 1 .. n : q[i].lead # 0 /\ o = Start(i) BY <1>1
  <2>2. i \in DOMAIN q /\ q[i] # Hole BY <2>1 DEF WellFormed, Hole
  <2>3. img.pos[i].offset = o
    <3>1. img.pos[i] = [offset |-> Start(i), size |-> q[i].data] BY <1>2, <2>1
    <3> QED BY <2>1, <3>1
  <2>4. img.at[o] = q[i].data BY <1>3, <2>2, <2>3 DEF Placed
  <2>5. q[i].data \in ElementBytes BY <2>2 DEF WellFormed
  <2> QED BY <2>4, <2>5
<1> QED BY <1>4 DEF img

LEMMA FilledWhole ==
  ASSUME IInv, Whole, NEW c \in Container, NEW h, NEW q, NEW n \in Nat, DOMAIN q = 1 .. n,
         DOMAIN h = Live \ Held(c), \A e \in DOMAIN h : h[e] = heap[e],
         Filled(c, h, q), kind' = kind, \A d \in Container \ {c} : state'[d] = state[d],
         state'[c] = "good" => Supply(kind, q)
  PROVE  Whole'
<1> DEFINE made == {i \in DOMAIN q : q[i].lead = i}
<1>1. PICK new \in [made -> FreeIn(h)] :
        /\ slots' = [slots EXCEPT ![c] =
             [i \in DOMAIN q |-> IF q[i].lead \in made THEN new[q[i].lead] ELSE Null]]
        /\ heap' = [e \in DOMAIN h \cup {new[i] : i \in made} |->
                     IF \E i \in made : new[i] = e
                     THEN q[CHOOSE i \in made : new[i] = e].data ELSE h[e]]
  BY DEF Filled
<1> DEFINE s == [i \in DOMAIN q |-> IF q[i].lead \in made THEN new[q[i].lead] ELSE Null]
           fresh == {new[i] : i \in made}
<1>2. slots' = [slots EXCEPT ![c] = s] BY <1>1
<1>3. \A i \in made : new[i] \in FreeIn(h) /\ new[i] \notin DOMAIN h /\ new[i] # Null
  BY ElemAssumption DEF FreeIn
<1>4. \A e \in Live \ Held(c) : heap'[e] = heap[e]
  <2> TAKE e \in Live \ Held(c)
  <2>1. e \in DOMAIN h /\ ~(\E i \in made : new[i] = e) BY <1>3
  <2>2. heap'[e] = h[e] BY <1>1, <2>1
  <2> QED BY <2>1, <2>2
<1>5. ASSUME Supply(kind, q) PROVE Filling(kind, s, heap')
  <2>1. \A i \in made : q[i].data \in ElementBytes BY <1>5 DEF Supply
  <2>2. ASSUME NEW j \in made PROVE heap'[new[j]] \in ElementBytes
    <3> DEFINE m == CHOOSE i \in made : new[i] = new[j]
    <3>1. m \in made OBVIOUS
    <3>2. heap'[new[j]] = q[m].data BY <1>1
    <3> HIDE DEF m, made
    <3> QED BY <2>1, <3>1, <3>2
  <2>3. kind \in {"mpe", "struct"} => \A i \in DOMAIN q : q[i].lead \in made
    BY <1>5 DEF Supply
  <2>4. \A i \in DOMAIN s : s[i] = IF q[i].lead \in made THEN new[q[i].lead] ELSE Null OBVIOUS
  <2>5. DOMAIN s = DOMAIN q OBVIOUS
  <2> HIDE DEF s, made
  <2>6. ASSUME NEW i \in DOMAIN s
        PROVE  IF s[i] = Null THEN kind \notin {"mpe", "struct"} ELSE heap'[s[i]] \in ElementBytes
    <3>1. CASE q[i].lead \in made
      <4>1. s[i] = new[q[i].lead] BY <2>4, <2>6, <3>1
      <4> QED BY <1>3, <2>2, <3>1, <4>1
    <3>2. CASE q[i].lead \notin made BY <2>3, <2>4, <2>5, <2>6, <3>2
    <3> QED BY <3>1, <3>2
  <2> QED BY <2>6 DEF Filling
<1> HIDE DEF s, made
<1> QED BY <1>2, <1>4, <1>5, WholeChange

LEMMA WithoutIs ==
  ASSUME IInv, NEW c \in Container
  PROVE  /\ DOMAIN Without(Owned(c)) = Live \ Held(c)
         /\ \A e \in DOMAIN Without(Owned(c)) : Without(Owned(c))[e] = heap[e]
BY HeldFacts DEF Without

LEMMA CopyWhole ==
  ASSUME IInv, Whole, NEW c \in Container, NEW d \in Container, Copy(c, d) PROVE Whole'
<1>1. PICK n \in Nat : DOMAIN Copied(c) = 1 .. n BY HeldFacts, CopiedIs
<1>2. slots[d] = <<>> BY DEF IInv, Empty, Copy
<1>3. DOMAIN heap = Live \ Held(d)
  <2>1. Held(d) = {} BY <1>2 DEF Held
  <2> QED BY <2>1 DEF Live
<1>4. Filled(d, heap, Copied(c)) /\ kind' = kind /\ state[c] = "good" BY DEF Copy
<1>5. \A b \in Container \ {d} : state'[b] = state[b] BY DEF Copy, IInv, Types
<1>6. Supply(kind, Copied(c)) BY <1>4, CopiedWhole
<1> QED BY <1>1, <1>3, <1>4, <1>5, <1>6, FilledWhole

LEMMA AssignWhole ==
  ASSUME IInv, Whole, NEW c \in Container, NEW d \in Container, Assign(c, d) PROVE Whole'
<1>1. PICK n \in Nat : DOMAIN Copied(c) = 1 .. n BY HeldFacts, CopiedIs
<1>2. /\ Filled(d, Without(Owned(d)), Copied(c)) /\ kind' = kind /\ state' = state
      /\ state[c] = "good"
  BY DEF Assign
<1>3. Supply(kind, Copied(c)) BY <1>2, CopiedWhole
<1> QED BY <1>1, <1>2, <1>3, WithoutIs, FilledWhole

LEMMA ReadWhole ==
  ASSUME IInv, Whole, NEW c \in Container, NEW r, ReadAs(c, r), NEW n \in Nat,
         DOMAIN r.content = 1 .. n, r.ok => ~r.untouched /\ Supply(kind, r.content)
  PROVE  Whole'
<1>1. /\ kind' = kind /\ state' = [state EXCEPT ![c] = IF r.ok THEN "good" ELSE "broken"]
  BY DEF ReadAs
<1>2. /\ \A d \in Container \ {c} : state'[d] = state[d]
      /\ state'[c] = "good" => r.ok
  BY <1>1 DEF IInv, Types
<1>3. CASE r.untouched
  <2>1. slots' = slots /\ heap' = heap BY <1>3 DEF ReadAs
  <2>2. slots' = [slots EXCEPT ![c] = slots[c]] BY <2>1 DEF IInv, Types
  <2>3. state'[c] # "good" BY <1>2, <1>3
  <2> QED BY <1>1, <1>2, <2>1, <2>2, <2>3, WholeChange
<1>4. CASE ~r.untouched
  <2> DEFINE h == Without(Owned(c))
             q == r.content
  <2>1. Filled(c, h, q) BY <1>4 DEF ReadAs
  <2>2. DOMAIN h = Live \ Held(c) /\ \A e \in DOMAIN h : h[e] = heap[e] BY WithoutIs
  <2>3. DOMAIN q = 1 .. n /\ (state'[c] = "good" => Supply(kind, q)) BY <1>2
  <2> HIDE DEF h, q
  <2> QED BY <1>1, <1>2, <2>1, <2>2, <2>3, FilledWhole
<1> QED BY <1>3, <1>4

LEMMA ReadForeignWhole == ASSUME IInv, Whole, NEW c \in Container, ReadForeign(c) PROVE Whole'
<1>1. PICK r \in Reading : r.kind = kind /\ ReadAs(c, r) BY DEF ReadForeign
<1>2. PICK f \in Foreign :
        /\ r.kind = f.kind /\ r.content = Parsed(f.kind, f.img).content
        /\ r.ok = Parsed(f.kind, f.img).ok /\ r.untouched = Untouched(f.kind, f.img)
  BY <1>1 DEF Reading
<1>3. /\ f.img.pos \in Seq([offset : Nat, size : Nat]) /\ f.img.size \in Nat
      /\ f.img.at \in [DOMAIN f.img.at -> ElementBytes]
  BY ForeignAssumption
<1>4. Len(f.img.pos) \in Nat /\ DOMAIN f.img.pos = 1 .. Len(f.img.pos) BY <1>3
<1>5. \A o \in DOMAIN f.img.at : f.img.at[o] \in ElementBytes BY <1>3
<1>6. f.kind = kind /\ kind \in Kinds BY <1>1, <1>2 DEF IInv, Types
<1>7. r.ok => ~r.untouched /\ Supply(kind, r.content)
  BY <1>2, <1>3, <1>4, <1>5, <1>6, ParsedWhole, UntouchedFails
<1>8. \E k \in Nat : DOMAIN Parsed(f.kind, f.img).content = 1 .. k BY <1>4, ParsedIs
<1> QED BY <1>1, <1>2, <1>7, <1>8, ReadWhole

LEMMA SaveAndReadWhole ==
  ASSUME IInv, Whole, NEW c \in Container, NEW d \in Container, SaveAndRead(c, d) PROVE Whole'
<1> DEFINE q == ContentOf(d)
           img == Written(kind, q, inputs[d])
           r == [ok |-> Parsed(kind, img).ok, content |-> Parsed(kind, img).content,
                 untouched |-> Untouched(kind, img), inputs |-> img.inputs]
<1>1. ReadAs(c, r) /\ state[d] = "good" BY DEF SaveAndRead
<1>2. WellFormed(q) BY <1>1, ContentWhole
<1>3. Placed(kind, q, img) BY <1>2, WrittenPlaced
<1>4. \A o \in DOMAIN img.at : img.at[o] \in ElementBytes BY <1>2, WrittenElements
<1>5. /\ r.content = Parsed(kind, img).content /\ r.ok = Parsed(kind, img).ok
      /\ r.untouched = Untouched(kind, img)
  OBVIOUS
<1> HIDE DEF r, img
<1>6. /\ Len(img.pos) \in Nat /\ DOMAIN img.pos = 1 .. Len(img.pos) /\ img.size \in Nat
  BY <1>2, <1>3 DEF Placed, WellFormed
<1>7. kind \in Kinds BY DEF IInv, Types
<1>8. r.ok => ~r.untouched /\ Supply(kind, r.content)
  BY <1>4, <1>5, <1>6, <1>7, ParsedWhole, UntouchedFails
<1>9. \E k \in Nat : DOMAIN r.content = 1 .. k BY <1>5, <1>6, ParsedIs
<1> QED BY <1>1, <1>8, <1>9, ReadWhole
-----------------------------------------------------------------------------
LEMMA InitWhole == Init => Whole
BY DEF Init, Whole

LEMMA NextWhole == IInv /\ Whole /\ [Next]_vars => Whole'
<1> SUFFICES ASSUME IInv, Whole, [Next]_vars PROVE Whole' OBVIOUS
<1>1. CASE UNCHANGED vars BY <1>1 DEF vars, Whole, Filling
<1>2. CASE Next
  BY <1>2, NewWhole, SetSizeWhole, AddWhole, RemoveWhole, DestroyWhole, ReadForeignWhole,
     CopyWhole, AssignWhole, SaveAndReadWhole DEF Next
<1> QED BY <1>1, <1>2

LEMMA WholeReloads == IInv /\ Whole => Reloads
<1> SUFFICES ASSUME IInv, Whole, NEW c \in Container, state[c] = "good",
                    Writable(kind, ContentOf(c)), ~WriteOnly(c)
             PROVE  Parsed(kind, Written(kind, ContentOf(c), inputs[c])) =
                      [ok |-> TRUE, content |-> ContentOf(c)]
  BY DEF Reloads
<1> DEFINE q == ContentOf(c)
<1>1. /\ WellFormed(q) /\ q = [i \in DOMAIN q |-> q[i]]
      /\ \A i \in DOMAIN q : kind \in {"mpe", "struct"} => q[i] # Hole
  BY ContentWhole
<1>2. kind \in Kinds /\ (kind = "toneMap" => LeadsApart(q)) BY ContentOfIs DEF IInv, Types
<1>3. Writable(kind, q) OBVIOUS
<1>4. kind = "array" => \E i \in DOMAIN q : q[i] # Hole
  <2> SUFFICES ASSUME kind = "array" PROVE \E i \in DOMAIN q : q[i] # Hole OBVIOUS
  <2>1. PICK i \in DOMAIN slots[c] : slots[c][i] # Null BY DEF WriteOnly
  <2>2. DOMAIN q = DOMAIN slots[c] BY DEF ContentOf
  <2>3. q[i].lead = FirstLike(slots[c], i) BY <2>1 DEF ContentOf
  <2>4. FirstLike(slots[c], i) # 0
    <3>1. slots[c] \in Seq(Elem \cup {Null}) BY HeldFacts
    <3> QED BY <2>1, <3>1, FirstLikeIs
  <2> HIDE DEF q
  <2> QED BY <2>1, <2>2, <2>3, <2>4 DEF Hole
<1>5. Len(q) = Len(slots[c])
  <2>1. DOMAIN q = DOMAIN slots[c] BY DEF ContentOf
  <2>2. slots[c] \in Seq(Elem \cup {Null}) BY HeldFacts
  <2> HIDE DEF q
  <2>3. DOMAIN q = 1 .. Len(q) /\ Len(q) \in Nat BY <1>1 DEF WellFormed
  <2>4. DOMAIN slots[c] = 1 .. Len(slots[c]) /\ Len(slots[c]) \in Nat BY <2>2
  <2>5. ASSUME NEW a \in Nat, NEW b \in Nat, 1 .. a = 1 .. b PROVE a = b
    <3>1. a > 0 => a \in 1 .. a /\ a \in 1 .. b BY <2>5
    <3>2. b > 0 => b \in 1 .. b /\ b \in 1 .. a BY <2>5
    <3> QED BY <3>1, <3>2
  <2>6. 1 .. Len(q) = 1 .. Len(slots[c]) BY <2>1, <2>3, <2>4
  <2> QED BY <2>3, <2>4, <2>5, <2>6
<1>6. kind = "toneMap" => inputs[c] = Len(q)
  <2> HIDE DEF q
  <2> QED BY <1>5 DEF WriteOnly
<1> HIDE DEF q
<1>7. Hole.lead = 0 BY DEF Hole
<1>8. kind # "array" => \A i \in DOMAIN q : q[i] # Hole
  BY <1>1, <1>2, <1>3, <1>7 DEF Writable, Kinds
<1>9. kind = "toneMap" => Len(q) > 1 BY <1>3 DEF Writable
<1>10. Fit(kind, q) BY <1>1, <1>2, <1>8, <1>4, <1>9 DEF Fit
<1>11. Parsed(kind, Written(kind, q, inputs[c])) = [ok |-> TRUE, content |-> q]
  BY <1>1, <1>10, <1>6, ReadsBack
<1> QED BY <1>11 DEF q

(* Whatever has been done with them, containers that are written and can be  *)
(* read at all are read back as they were, the same elements in the same     *)
(* slots, shared where they were shared (Write and Read of all five kinds).  *)
THEOREM ContainersReload == Spec => []Reloads
<1>1. Init => IInv /\ Whole BY InitOwned, InitWhole
<1>2. IInv /\ Whole /\ [Next]_vars => (IInv /\ Whole)' BY NextOwned, NextWhole
<1> QED BY <1>1, <1>2, WholeReloads, PTL DEF Spec

(* Whatever the table of a file says, a Read that succeeds took no element   *)
(* from behind the end of its tag, but for that of a curve set.              *)
THEOREM ReadsStayContained == Spec => []Contained
<1>1. IInv => Contained
  <2> SUFFICES ASSUME IInv, kind # "curveSet", NEW r \in Reading, r.kind = kind PROVE ~r.outside
    BY DEF Contained
  <2>1. PICK f \in Foreign :
          r.kind = f.kind /\ r.outside = (Parsed(f.kind, f.img).ok /\ ReadsOutside(f.kind, f.img))
    BY DEF Reading
  <2>2. f.kind \in Kinds /\ f.kind # "curveSet" BY <2>1 DEF IInv, Types
  <2>3. Parsed(f.kind, f.img).ok => ~ReadsOutside(f.kind, f.img) BY <2>2, ReadInside
  <2> QED BY <2>1, <2>3
<1> QED BY <1>1, InitOwned, NextOwned, PTL DEF Spec
=============================================================================
