--------------------------- MODULE CmmChain_proofs ---------------------------
(***************************************************************************)
(* Who owns the profiles of a CIccCmm, for any number of profiles, whatever  *)
(* their headers and tags, and whichever call, allocation or check fails; and *)
(* that the conversions Begin puts between transforms, made short by Optimize, *)
(* hand on the colour one transform puts out to the next.                    *)
(***************************************************************************)
EXTENDS CmmChain, TLAPS, FiniteSetTheorems, WellFoundedInduction, FunctionTheorems

-----------------------------------------------------------------------------
(* Lists, of whatever elements. *)

List(s) == Len(s) \in Nat /\ s = [k \in 1 .. Len(s) |-> s[k]]

LEMMA FunctionIsList ==
  ASSUME NEW n \in Nat, NEW s, s = [k \in 1 .. n |-> s[k]]
  PROVE  List(s) /\ Len(s) = n
<1> DEFINE S == {s[k] : k \in 1 .. n}
<1>1. s \in [1 .. n -> S] OBVIOUS
<1>2. s \in Seq(S) BY <1>1
<1>3. Len(s) = n BY <1>1, <1>2
<1> QED BY <1>3 DEF List

LEMMA ListDomain ==
  ASSUME NEW s, List(s) PROVE DOMAIN s = 1 .. Len(s)
BY DEF List

LEMMA Appended ==
  ASSUME NEW s, List(s), NEW x
  PROVE  /\ List(Append(s, x)) /\ Len(Append(s, x)) = Len(s) + 1
         /\ \A k \in 1 .. Len(s) : Append(s, x)[k] = s[k]
         /\ Append(s, x)[Len(s) + 1] = x
<1> DEFINE S == {s[k] : k \in 1 .. Len(s)} \cup {x}
<1>1. s \in [1 .. Len(s) -> S] BY DEF List
<1>2. s \in Seq(S) /\ x \in S /\ Len(s) \in Nat BY <1>1 DEF List
<1>3. /\ Append(s, x) \in Seq(S) /\ Len(Append(s, x)) = Len(s) + 1
      /\ \A k \in 1 .. Len(s) : Append(s, x)[k] = s[k]
      /\ Append(s, x)[Len(s) + 1] = x
  BY <1>2
<1>4. List(Append(s, x))
  <2> DEFINE r == Append(s, x)
  <2>1. r \in Seq(S) BY <1>3
  <2> HIDE DEF r, S
  <2>2. r \in [1 .. Len(r) -> S] /\ Len(r) \in Nat BY <2>1
  <2> QED BY <2>2 DEF List, r
<1> QED BY <1>3, <1>4

-----------------------------------------------------------------------------
(* Profile objects, and who owns them: outside is the set of those that no   *)
(* transform owns and nobody deleted.                                        *)

Obj(r) == r = [file |-> r.file, io |-> r.io, loaded |-> r.loaded, freed |-> r.freed]

Objects(os) ==
  /\ List(os)
  /\ \A o \in 1 .. Len(os) : Obj(os[o]) /\ os[o].file \in File /\ os[o].freed \in {0, 1}

OwnsIt(x, o) == x.prof = o /\ x.owns = TRUE

Owned(os, outside, xs) ==
  /\ outside \subseteq 1 .. Len(os)
  /\ \A o \in outside : os[o].freed = 0 /\ \A i \in 1 .. Len(xs) : ~OwnsIt(xs[i], o)
  /\ \A o \in 1 .. Len(os) :
       /\ os[o].freed = 1 => \A i \in 1 .. Len(xs) : ~OwnsIt(xs[i], o)
       /\ os[o].freed = 0 /\ o \notin outside => \E i \in 1 .. Len(xs) : OwnsIt(xs[i], o)
       /\ \A i, j \in 1 .. Len(xs) : OwnsIt(xs[i], o) /\ OwnsIt(xs[j], o) => i = j

(* Before Begin every transform has a profile of its own, which an encoding  *)
(* profile cannot be.                                                        *)
AllOwn(os, xs) ==
  \A i \in 1 .. Len(xs) :
    /\ xs[i].prof \in 1 .. Len(os) /\ xs[i].owns = TRUE
    /\ HeaderOf(os, xs[i].prof).class # "Enc"

Growing(os, outside, xs) ==
  Objects(os) /\ List(xs) /\ Owned(os, outside, xs) /\ AllOwn(os, xs)

LEMMA Changed ==
  ASSUME NEW os, Objects(os), NEW o \in 1 .. Len(os), NEW r,
         Obj(r), r.file \in File, r.freed \in {0, 1}
  PROVE  /\ Objects([os EXCEPT ![o] = r]) /\ Len([os EXCEPT ![o] = r]) = Len(os)
         /\ [os EXCEPT ![o] = r][o] = r
         /\ \A k \in 1 .. Len(os) : k # o => [os EXCEPT ![o] = r][k] = os[k]
<1>1. List(os) BY DEF Objects
<1> DEFINE new == [os EXCEPT ![o] = r]
<1>5. new = [os EXCEPT ![o] = r] OBVIOUS
<1> HIDE DEF new
<1>2. /\ List(new) /\ Len(new) = Len(os) /\ new[o] = r
      /\ \A k \in 1 .. Len(os) : k # o => new[k] = os[k]
  <2>1. os = [m \in 1 .. Len(os) |-> os[m]] /\ Len(os) \in Nat BY <1>1 DEF List
  <2>2. /\ new = [m \in 1 .. Len(os) |-> new[m]] /\ new[o] = r
        /\ \A k \in 1 .. Len(os) : k # o => new[k] = os[k]
    BY <1>5, <2>1, Zenon
  <2> QED BY <2>1, <2>2, FunctionIsList
<1>3. ASSUME NEW k \in 1 .. Len(new)
      PROVE  Obj(new[k]) /\ new[k].file \in File /\ new[k].freed \in {0, 1}
  <2>1. CASE k = o BY <1>2, <2>1 DEF new
  <2>2. CASE k # o BY <1>2, <1>3, <2>2 DEF Objects, new
  <2> QED BY <2>1, <2>2
<1>4. Objects(new) BY <1>2, <1>3 DEF Objects, new
<1> QED BY <1>2, <1>4 DEF new

LEMMA RecordChanged ==
  ASSUME NEW r, Obj(r), NEW e, NEW n
  PROVE  /\ [r EXCEPT !.freed = n, !.io = "none", !.loaded = e] =
              [file |-> r.file, io |-> "none", loaded |-> e, freed |-> n]
         /\ [r EXCEPT !.loaded = e] =
              [file |-> r.file, io |-> r.io, loaded |-> e, freed |-> r.freed]
<1> DEFINE F == {"file", "io", "loaded", "freed"}
<1>1. r = [f \in F |-> r[f]]
  <2>1. r = [file |-> r.file, io |-> r.io, loaded |-> r.loaded, freed |-> r.freed] BY DEF Obj
  <2>2. [file |-> r.file, io |-> r.io, loaded |-> r.loaded, freed |-> r.freed]
          = [f \in F |-> r[f]] OBVIOUS
  <2> QED BY <2>1, <2>2, Zenon
<1>2. DOMAIN r = F BY <1>1, Zenon
<1>3. [r EXCEPT !.loaded = e] = [f \in F |-> IF f = "loaded" THEN e ELSE r[f]]
  BY <1>1, <1>2, Zenon
<1>4. [r EXCEPT !.freed = n, !.io = "none", !.loaded = e] =
        [f \in F |-> IF f = "loaded" THEN e ELSE IF f = "io" THEN "none"
                     ELSE IF f = "freed" THEN n ELSE r[f]]
  <2> DEFINE a == [r EXCEPT !.freed = n]
             b == [a EXCEPT !.io = "none"]
  <2>1. a = [f \in F |-> IF f = "freed" THEN n ELSE r[f]] BY <1>1, <1>2, Zenon
  <2>2. DOMAIN a = F BY <2>1, Zenon
  <2>3. b = [f \in F |-> IF f = "io" THEN "none" ELSE a[f]] BY <2>1, <2>2, Zenon
  <2>4. DOMAIN b = F BY <2>3, Zenon
  <2>5. [b EXCEPT !.loaded = e] = [f \in F |-> IF f = "loaded" THEN e ELSE b[f]]
    BY <2>3, <2>4, Zenon
  <2>6. \A f \in F : b[f] = IF f = "io" THEN "none" ELSE IF f = "freed" THEN n ELSE r[f]
    BY <2>1, <2>3, Zenon
  <2>7. [r EXCEPT !.freed = n, !.io = "none", !.loaded = e] = [b EXCEPT !.loaded = e]
    OBVIOUS
  <2> HIDE DEF b
  <2> QED BY <2>5, <2>6, <2>7, Zenon
<1>5. [r EXCEPT !.loaded = e] =
        [file |-> r.file, io |-> r.io, loaded |-> e, freed |-> r.freed] BY <1>3
<1>6. [r EXCEPT !.freed = n, !.io = "none", !.loaded = e] =
        [file |-> r.file, io |-> "none", loaded |-> e, freed |-> n] BY <1>4
<1> QED BY <1>5, <1>6

LEMMA DeletedIs ==
  ASSUME NEW os, Objects(os), NEW o \in 1 .. Len(os)
  PROVE  Delete(os, o) =
           [os EXCEPT ![o] = [file |-> os[o].file, io |-> "none", loaded |-> {},
                              freed |-> os[o].freed + 1]]
<1>1. Obj(os[o]) /\ DOMAIN os = 1 .. Len(os) BY ListDomain DEF Objects
<1> DEFINE old == os[o]
<1>2. Delete(os, o) =
        [os EXCEPT ![o] = [old EXCEPT !.freed = old.freed + 1, !.io = "none", !.loaded = {}]]
  BY <1>1, Zenon DEF Delete
<1>3. [old EXCEPT !.freed = old.freed + 1, !.io = "none", !.loaded = {}] =
        [file |-> old.file, io |-> "none", loaded |-> {}, freed |-> old.freed + 1]
  BY <1>1, RecordChanged
<1> QED BY <1>2, <1>3

LEMMA LoadedIs ==
  ASSUME NEW os, Objects(os), NEW o \in 1 .. Len(os), NEW tag
  PROVE  Load(os, o, tag) =
           [os EXCEPT ![o] = [file |-> os[o].file, io |-> os[o].io,
                              loaded |-> os[o].loaded \cup {tag}, freed |-> os[o].freed]]
<1>1. Obj(os[o]) /\ DOMAIN os = 1 .. Len(os) BY ListDomain DEF Objects
<1> DEFINE old == os[o]
<1>2. Load(os, o, tag) =
        [os EXCEPT ![o] = [old EXCEPT !.loaded = old.loaded \cup {tag}]]
  BY <1>1, Zenon DEF Load
<1>3. [old EXCEPT !.loaded = old.loaded \cup {tag}] =
        [file |-> old.file, io |-> old.io, loaded |-> old.loaded \cup {tag},
         freed |-> old.freed]
  BY <1>1, RecordChanged
<1> QED BY <1>2, <1>3

(* Deleting an object that nobody owns any longer.                           *)
LEMMA DeletedFacts ==
  ASSUME NEW os, Objects(os), NEW o \in 1 .. Len(os), os[o].freed = 0
  PROVE  /\ Objects(Delete(os, o)) /\ Len(Delete(os, o)) = Len(os)
         /\ Delete(os, o)[o].freed = 1 /\ Delete(os, o)[o].io = "none"
         /\ Delete(os, o)[o].file = os[o].file
         /\ \A k \in 1 .. Len(os) : k # o => Delete(os, o)[k] = os[k]
<1> DEFINE r == [file |-> os[o].file, io |-> "none", loaded |-> {}, freed |-> os[o].freed + 1]
<1>1. Obj(r) /\ r.file \in File /\ r.freed = 1 /\ r.io = "none" /\ r.file = os[o].file
  <2>1. os[o].file \in File BY DEF Objects
  <2> QED BY <2>1 DEF Obj
<1>2. Delete(os, o) = [os EXCEPT ![o] = r] BY DeletedIs
<1> HIDE DEF r
<1>3. /\ Objects([os EXCEPT ![o] = r]) /\ Len([os EXCEPT ![o] = r]) = Len(os)
      /\ [os EXCEPT ![o] = r][o] = r
      /\ \A k \in 1 .. Len(os) : k # o => [os EXCEPT ![o] = r][k] = os[k]
  BY <1>1, Changed
<1> QED BY <1>1, <1>2, <1>3

LEMMA DeletedOutside ==
  ASSUME NEW os, NEW U, NEW xs, Growing(os, U, xs), NEW o \in U
  PROVE  /\ Growing(Delete(os, o), U \ {o}, xs)
         /\ Len(Delete(os, o)) = Len(os)
         /\ Delete(os, o)[o].io = "none"
         /\ \A k \in 1 .. Len(os) : k # o => Delete(os, o)[k] = os[k]
<1>1. Objects(os) /\ o \in 1 .. Len(os) /\ os[o].freed = 0 BY DEF Growing, Owned
<1> DEFINE new == Delete(os, o)
<1>2. /\ Objects(new) /\ Len(new) = Len(os) /\ new[o].freed = 1 /\ new[o].io = "none"
      /\ new[o].file = os[o].file /\ \A k \in 1 .. Len(os) : k # o => new[k] = os[k]
  BY <1>1, DeletedFacts
<1> HIDE DEF new
<1>3. Owned(new, U \ {o}, xs)
  BY <1>1, <1>2 DEF Growing, Owned
<1>4. AllOwn(new, xs)
  BY <1>1, <1>2 DEF Growing, AllOwn, HeaderOf
<1> QED BY <1>2, <1>3, <1>4 DEF Growing, new

LEMMA LoadedFacts ==
  ASSUME NEW os, NEW U, NEW xs, Growing(os, U, xs), NEW o \in 1 .. Len(os), NEW tag
  PROVE  /\ Growing(Load(os, o, tag), U, xs)
         /\ Len(Load(os, o, tag)) = Len(os)
         /\ \A k \in 1 .. Len(os) : /\ Load(os, o, tag)[k].io = os[k].io
                                    /\ Load(os, o, tag)[k].file = os[k].file
                                    /\ Load(os, o, tag)[k].freed = os[k].freed
<1> DEFINE r == [file |-> os[o].file, io |-> os[o].io,
                 loaded |-> os[o].loaded \cup {tag}, freed |-> os[o].freed]
           new == Load(os, o, tag)
<1>1. Objects(os) BY DEF Growing
<1>2. /\ Obj(r) /\ r.file \in File /\ r.freed \in {0, 1}
      /\ r.io = os[o].io /\ r.file = os[o].file /\ r.freed = os[o].freed
  BY <1>1 DEF Objects, Obj
<1>3. new = [os EXCEPT ![o] = r] BY <1>1, LoadedIs
<1> HIDE DEF r, new
<1>4. /\ Objects(new) /\ Len(new) = Len(os) /\ new[o] = r
      /\ \A k \in 1 .. Len(os) : k # o => new[k] = os[k]
  <2>1. /\ Objects([os EXCEPT ![o] = r]) /\ Len([os EXCEPT ![o] = r]) = Len(os)
        /\ [os EXCEPT ![o] = r][o] = r
        /\ \A k \in 1 .. Len(os) : k # o => [os EXCEPT ![o] = r][k] = os[k]
    BY <1>1, <1>2, Changed
  <2> QED BY <1>3, <2>1
<1>5. \A k \in 1 .. Len(os) : /\ new[k].io = os[k].io /\ new[k].file = os[k].file
                              /\ new[k].freed = os[k].freed
  BY <1>2, <1>4
<1>6. Owned(new, U, xs) BY <1>4, <1>5 DEF Growing, Owned
<1>7. AllOwn(new, xs) BY <1>4, <1>5 DEF Growing, AllOwn, HeaderOf
<1> QED BY <1>4, <1>5, <1>6, <1>7 DEF Growing, new

LEMMA ObjectMade ==
  ASSUME NEW os, NEW U, NEW xs, Growing(os, U, xs),
         NEW f \in File, NEW io, NEW loaded
  PROVE  LET new == Append(os, NewObject(f, io, loaded))
         IN /\ Growing(new, U \cup {Len(os) + 1}, xs)
            /\ Len(new) = Len(os) + 1 /\ Len(os) + 1 \in 1 .. Len(new)
            /\ new[Len(os) + 1] = NewObject(f, io, loaded)
            /\ \A k \in 1 .. Len(os) : new[k] = os[k]
<1> DEFINE r == NewObject(f, io, loaded)
           new == Append(os, r)
<1>1. Obj(r) /\ r.file \in File /\ r.freed = 0 BY DEF NewObject, Obj
<1>2. Objects(os) /\ List(os) BY DEF Growing, Objects
<1> HIDE DEF r
<1>3. /\ List(new) /\ Len(new) = Len(os) + 1 /\ new[Len(os) + 1] = r
      /\ \A k \in 1 .. Len(os) : new[k] = os[k]
  BY <1>2, Appended
<1>4. Len(os) \in Nat BY <1>2 DEF List
<1> HIDE DEF new
<1>5. Objects(new) BY <1>1, <1>2, <1>3, <1>4 DEF Objects
<1>6. Owned(new, U \cup {Len(os) + 1}, xs)
  <2>1. \A i \in 1 .. Len(xs) : ~OwnsIt(xs[i], Len(os) + 1)
    BY <1>4 DEF Growing, AllOwn, OwnsIt
  <2>2. Owned(os, U, xs) BY DEF Growing
  <2>3. \A k \in 1 .. Len(new) : k \in 1 .. Len(os) \/ k = Len(os) + 1 BY <1>3, <1>4
  <2>4. new[Len(os) + 1].freed = 0 BY <1>1, <1>3
  <2>5. U \cup {Len(os) + 1} \subseteq 1 .. Len(new)
    <3>1. U \subseteq 1 .. Len(os) BY <2>2 DEF Owned
    <3>2. \A k \in 1 .. Len(os) : k \in 1 .. Len(new) BY <1>3, <1>4
    <3>3. Len(os) + 1 \in 1 .. Len(new) BY <1>3, <1>4
    <3> QED BY <3>1, <3>2, <3>3
  <2>6. ASSUME NEW k \in U \cup {Len(os) + 1}
        PROVE  new[k].freed = 0 /\ \A i \in 1 .. Len(xs) : ~OwnsIt(xs[i], k)
    BY <1>3, <2>1, <2>2, <2>4 DEF Owned
  <2>7. ASSUME NEW k \in 1 .. Len(new)
        PROVE  /\ new[k].freed = 1 => \A i \in 1 .. Len(xs) : ~OwnsIt(xs[i], k)
               /\ new[k].freed = 0 /\ k \notin U \cup {Len(os) + 1} =>
                    \E i \in 1 .. Len(xs) : OwnsIt(xs[i], k)
               /\ \A i, j \in 1 .. Len(xs) :
                    OwnsIt(xs[i], k) /\ OwnsIt(xs[j], k) => i = j
    <3>1. CASE k \in 1 .. Len(os) BY <1>3, <2>2, <3>1 DEF Owned
    <3>2. CASE k = Len(os) + 1 BY <2>1, <2>4, <3>2
    <3> QED BY <2>3, <3>1, <3>2
  <2> QED BY <2>5, <2>6, <2>7 DEF Owned
<1>7. AllOwn(new, xs) BY <1>3, <1>4 DEF Growing, AllOwn, HeaderOf
<1>8. Len(os) + 1 \in 1 .. Len(new) BY <1>3, <1>4
<1> QED BY <1>3, <1>5, <1>6, <1>7, <1>8 DEF Growing, new, r

SameProfiles(xs, ys) ==
  Len(xs) = Len(ys) /\ \A i \in 1 .. Len(ys) : xs[i].prof = ys[i].prof

(* A transform that takes an object over, and one that takes the place of    *)
(* another with its profile.                                                 *)
LEMMA ObjectTaken ==
  ASSUME NEW os, NEW U, NEW xs, Growing(os, U, xs), NEW o \in U,
         NEW x, x.prof = o, x.owns = TRUE, HeaderOf(os, o).class # "Enc"
  PROVE  Growing(os, U \ {o}, Append(xs, x))
<1> DEFINE new == Append(xs, x)
<1>1. List(xs) /\ Len(xs) \in Nat BY DEF Growing, List
<1>2. /\ List(new) /\ Len(new) = Len(xs) + 1 /\ new[Len(xs) + 1] = x
      /\ \A k \in 1 .. Len(xs) : new[k] = xs[k]
  BY <1>1, Appended
<1> HIDE DEF new
<1>3. o \in 1 .. Len(os) /\ os[o].freed = 0 /\ \A i \in 1 .. Len(xs) : ~OwnsIt(xs[i], o)
  BY DEF Growing, Owned
<1>4. AllOwn(os, new) BY <1>1, <1>2, <1>3 DEF Growing, AllOwn
<1>5. \A i \in 1 .. Len(new) : i \in 1 .. Len(xs) \/ i = Len(xs) + 1 BY <1>1, <1>2
<1>6. OwnsIt(x, o) /\ \A k : k # o => ~OwnsIt(x, k) BY DEF OwnsIt
<1>7. Owned(os, U \ {o}, new)
  <2>1. Owned(os, U, xs) BY DEF Growing
  <2>2. \A k \in 1 .. Len(os), i \in 1 .. Len(new) :
          OwnsIt(new[i], k) <=> \/ i \in 1 .. Len(xs) /\ OwnsIt(xs[i], k)
                                \/ i = Len(xs) + 1 /\ k = o
    BY <1>2, <1>5, <1>6, <1>1
  <2>3. \A i \in 1 .. Len(xs) : i \in 1 .. Len(new) BY <1>1, <1>2
  <2>4. Len(xs) + 1 \in 1 .. Len(new) /\ Len(xs) + 1 \notin 1 .. Len(xs) BY <1>1, <1>2
  <2> HIDE DEF OwnsIt
  <2>5. U \ {o} \subseteq 1 .. Len(os) BY <2>1 DEF Owned
  <2>6. \A k \in U \ {o} : os[k].freed = 0 /\ \A i \in 1 .. Len(new) : ~OwnsIt(new[i], k)
    BY <2>1, <2>2 DEF Owned
  <2>7. ASSUME NEW k \in 1 .. Len(os)
        PROVE  /\ os[k].freed = 1 => \A i \in 1 .. Len(new) : ~OwnsIt(new[i], k)
               /\ os[k].freed = 0 /\ k \notin U \ {o} =>
                    \E i \in 1 .. Len(new) : OwnsIt(new[i], k)
               /\ \A i, j \in 1 .. Len(new) :
                    OwnsIt(new[i], k) /\ OwnsIt(new[j], k) => i = j
    <3>1. os[k].freed = 1 => k # o BY <1>3
    <3>2. CASE k = o BY <1>3, <2>2, <2>4, <3>1, <3>2
    <3>3. CASE k # o BY <2>1, <2>2, <2>3, <3>3 DEF Owned
    <3> QED BY <3>2, <3>3
  <2> QED BY <2>5, <2>6, <2>7 DEF Owned
<1> QED BY <1>2, <1>4, <1>7 DEF Growing, new

LEMMA TransformReplaced ==
  ASSUME NEW os, NEW U, NEW xs, Growing(os, U, xs), NEW k \in 1 .. Len(xs),
         NEW x, x.prof = xs[k].prof, x.owns = TRUE,
         NEW new, new = [xs EXCEPT ![k] = x]
  PROVE  Growing(os, U, new) /\ SameProfiles(new, xs)
<1>1. List(xs) BY DEF Growing
<1>2. /\ List(new) /\ Len(new) = Len(xs) /\ new[k] = x
      /\ \A i \in 1 .. Len(xs) : i # k => new[i] = xs[i]
  <2>1. xs = [m \in 1 .. Len(xs) |-> xs[m]] /\ Len(xs) \in Nat BY <1>1 DEF List
  <2>2. /\ new = [m \in 1 .. Len(xs) |-> new[m]] /\ new[k] = x
        /\ \A i \in 1 .. Len(xs) : i # k => new[i] = xs[i]
    BY <2>1, Zenon
  <2>3. List(new) /\ Len(new) = Len(xs) BY <2>1, <2>2, FunctionIsList, Zenon
  <2> QED BY <2>2, <2>3, Zenon
<1>3. \A i \in 1 .. Len(xs) : new[i].prof = xs[i].prof /\ new[i].owns = xs[i].owns
  BY <1>2 DEF Growing, AllOwn
<1>4. \A i \in 1 .. Len(xs) : \A o : OwnsIt(new[i], o) <=> OwnsIt(xs[i], o) BY <1>3 DEF OwnsIt
<1>5. Owned(os, U, new) BY <1>2, <1>4 DEF Growing, Owned
<1>6. AllOwn(os, new) BY <1>2, <1>3 DEF Growing, AllOwn
<1> QED BY <1>2, <1>3, <1>5, <1>6 DEF Growing, SameProfiles

-----------------------------------------------------------------------------
(* Create. *)

(* What CreateFrom(os, o, lut, input, owns) may come to.                      *)
CreatedOrNot(os, o, owns, c) ==
  \/ c = NotCreated(os, o, owns) /\ c.x = NoXform
  \/ /\ c.x # NoXform /\ c.x.prof = o /\ c.x.owns = TRUE
     /\ c.objs = os \/ \E tag : c.objs = Load(os, o, tag)

LEMMA CreateFromGives ==
  ASSUME NEW os, NEW o, o # 0, NEW lut, NEW input, NEW owns,
         NEW c \in CreateFrom(os, o, lut, input, owns)
  PROVE  CreatedOrNot(os, o, owns, c)
<1> DEFINE h == HeaderOf(os, o)
           found == SelectSeq(Wanted(h, lut, input), LAMBDA tag : Has(os, o, tag))
           Made(kind, os1, spectral) ==
             [x |-> Xform(o, kind, CreatedInput(h, lut, input), McsSide(h, lut), spectral),
              objs |-> os1]
           OneOf(r) == CreatedOrNot(os, o, owns, r)
<1>1. ASSUME NEW kind, NEW spectral, NEW os1, os1 = os \/ \E tag : os1 = Load(os, o, tag)
      PROVE  OneOf(Made(kind, os1, spectral))
  <2>1. Made(kind, os1, spectral).x.prof # NoXform.prof BY DEF Xform, NoXform
  <2> QED BY <1>1, <2>1 DEF Xform, CreatedOrNot
<1>2. OneOf(NotCreated(os, o, owns)) BY DEF NotCreated, CreatedOrNot
<1> DEFINE spectralFound == h.spec # "None" /\ found[1] \in SpectralTags
<1>3. OneOf(Made("Lut", Load(os, o, found[1]), spectralFound))
  <2>1. \E tag : Load(os, o, found[1]) = Load(os, o, tag)
    <3> HIDE DEF found
    <3> QED OBVIOUS
  <2> HIDE DEF found, OneOf, Made, spectralFound
  <2> QED BY <1>1, <2>1
<1>4. OneOf(Made("Lut", os, FALSE)) /\ OneOf(Made("Matrix", os, FALSE)) BY <1>1
<1>5. \/ c = NotCreated(os, o, owns) \/ c = Made("Lut", os, FALSE)
      \/ c = Made("Matrix", os, FALSE)
      \/ c = Made("Lut", Load(os, o, found[1]), spectralFound)
  BY DEF CreateFrom, Failing
<1> HIDE DEF OneOf, Made
<1>6. OneOf(c) BY <1>2, <1>3, <1>4, <1>5
<1> QED BY <1>6 DEF OneOf

(* The IO objects that are lent: to objects of W only, if to any.            *)
LentTo(os, W) == \A k \in 1 .. Len(os) : os[k].io = "lent" => k \in W

(* Create of object o, which becomes the transform's or is deleted.  Of an   *)
(* encoding profile it is another object that the transform owns.            *)
Encoding(os, o) == HeaderOf(os, o).class = "Enc"

LEMMA CreateFromOwned ==
  ASSUME NEW os, NEW U, NEW xs, Growing(os, U, xs), NEW o \in U, ~Encoding(os, o),
         NEW lut, NEW input, NEW c \in CreateFrom(os, o, lut, input, TRUE),
         NEW W, LentTo(os, W)
  PROVE  /\ Len(c.objs) = Len(os)
         /\ c.x = NoXform => /\ Growing(c.objs, U \ {o}, xs)
                             /\ LentTo(c.objs, W \ {o})
         /\ c.x # NoXform => /\ Growing(c.objs, U \ {o}, Append(xs, c.x))
                             /\ LentTo(c.objs, W)
                             /\ c.objs[o].freed = 0
<1>0. o \in 1 .. Len(os) /\ os[o].freed = 0 BY DEF Growing, Owned
<1>1. o # 0 BY <1>0
<1>2. CASE c = NotCreated(os, o, TRUE) /\ c.x = NoXform
  <2>1. c.objs = Delete(os, o) BY <1>2 DEF NotCreated
  <2>4. /\ Growing(Delete(os, o), U \ {o}, xs) /\ Len(Delete(os, o)) = Len(os)
        /\ Delete(os, o)[o].io = "none"
        /\ \A k \in 1 .. Len(os) : k # o => Delete(os, o)[k] = os[k]
    BY DeletedOutside
  <2>2. /\ Growing(c.objs, U \ {o}, xs) /\ Len(c.objs) = Len(os)
        /\ c.objs[o].io = "none" /\ \A k \in 1 .. Len(os) : k # o => c.objs[k] = os[k]
    BY <2>1, <2>4, Zenon
  <2>3. LentTo(c.objs, W \ {o}) BY <1>0, <2>2 DEF LentTo
  <2> QED BY <1>2, <2>2, <2>3
<1>3. CASE /\ c.x # NoXform /\ c.x.prof = o /\ c.x.owns = TRUE
           /\ c.objs = os \/ \E tag : c.objs = Load(os, o, tag)
  <2>1. /\ Growing(c.objs, U, xs) /\ Len(c.objs) = Len(os)
        /\ \A k \in 1 .. Len(os) : /\ c.objs[k].io = os[k].io
                                   /\ c.objs[k].file = os[k].file
                                   /\ c.objs[k].freed = os[k].freed
    <3>1. CASE c.objs = os BY <3>1
    <3>2. CASE \E tag : c.objs = Load(os, o, tag)
      <4>1. PICK tag : c.objs = Load(os, o, tag) BY <3>2
      <4>2. /\ Growing(Load(os, o, tag), U, xs) /\ Len(Load(os, o, tag)) = Len(os)
            /\ \A k \in 1 .. Len(os) : /\ Load(os, o, tag)[k].io = os[k].io
                                       /\ Load(os, o, tag)[k].file = os[k].file
                                       /\ Load(os, o, tag)[k].freed = os[k].freed
        BY <1>0, LoadedFacts
      <4> QED BY <4>1, <4>2, Zenon
    <3> QED BY <1>3, <3>1, <3>2
  <2>2. HeaderOf(c.objs, o).class # "Enc" BY <1>0, <2>1 DEF Encoding, HeaderOf
  <2>3. Growing(c.objs, U \ {o}, Append(xs, c.x)) BY <1>3, <2>1, <2>2, ObjectTaken
  <2>4. LentTo(c.objs, W) BY <2>1 DEF LentTo
  <2> QED BY <1>0, <1>3, <2>1, <2>3, <2>4
<1>4. CreatedOrNot(os, o, TRUE, c) BY <1>1, CreateFromGives
<1> QED BY <1>2, <1>3, <1>4 DEF CreatedOrNot

LEMMA CreateOwned ==
  ASSUME NEW os, NEW U, NEW xs, Growing(os, U, xs), NEW o \in U,
         NEW lut, NEW input, NEW c \in Create(os, o, lut, input, TRUE),
         NEW W, W \subseteq {o}, LentTo(os, W)
  PROVE  /\ Len(os) <= Len(c.objs)
         /\ Len(c.objs) <= Len(os) + (IF Encoding(os, o) THEN 1 ELSE 0)
         /\ c.x = NoXform => /\ Growing(c.objs, U \ {o}, xs)
                             /\ LentTo(c.objs, {})
         /\ c.x # NoXform => /\ Growing(c.objs, U \ {o}, Append(xs, c.x))
                             /\ LentTo(c.objs, IF Encoding(os, o) THEN {} ELSE W)
                             /\ ~Encoding(os, o) => c.objs[o].freed = 0
<1>0. o \in 1 .. Len(os) /\ os[o].freed = 0 /\ Len(os) \in Nat
  BY DEF Growing, Owned, Objects, List
<1>1. CASE ~Encoding(os, o)
  <2>1. c \in CreateFrom(os, o, lut, input, TRUE) BY <1>1 DEF Create, Encoding
  <2>2. W \ {o} = {} OBVIOUS
  <2>3. /\ Len(c.objs) = Len(os)
        /\ c.x = NoXform => /\ Growing(c.objs, U \ {o}, xs)
                            /\ LentTo(c.objs, W \ {o})
        /\ c.x # NoXform => /\ Growing(c.objs, U \ {o}, Append(xs, c.x))
                            /\ LentTo(c.objs, W)
                            /\ c.objs[o].freed = 0
    BY <1>1, <2>1, CreateFromOwned
  <2>4. c.x = NoXform => Growing(c.objs, U \ {o}, xs) /\ LentTo(c.objs, {})
    BY <2>2, <2>3, Zenon
  <2>5. c.x # NoXform => LentTo(c.objs, IF Encoding(os, o) THEN {} ELSE W)
    BY <1>1, <2>3, Zenon
  <2>6. /\ Len(os) <= Len(c.objs)
        /\ Len(c.objs) <= Len(os) + (IF Encoding(os, o) THEN 1 ELSE 0)
    BY <1>0, <2>3
  <2> QED BY <2>3, <2>4, <2>5, <2>6, Zenon
<1>2. CASE Encoding(os, o)
  <2> DEFINE rest == Delete(os, o)
             f == HeaderOf(os, o).base
             made == Append(rest, NewObject(f, "none", Header[f].tags))
             new == Len(os) + 1
  <2>1. /\ Growing(rest, U \ {o}, xs) /\ Len(rest) = Len(os) /\ rest[o].io = "none"
        /\ \A k \in 1 .. Len(os) : k # o => rest[k] = os[k]
    BY DeletedOutside
  <2>2. LentTo(rest, {}) BY <2>1 DEF LentTo
  <2>3. os[o].file \in File BY <1>0 DEF Growing, Objects
  <2>4. f \in File /\ Header[f].class # "Enc" BY <2>3, HeaderAssumption DEF HeaderOf
  <2>5. c = NotCreated(os, o, TRUE) \/ c \in CreateFrom(made, Len(made), lut, input, TRUE)
    BY <1>2 DEF Create, Encoding, Failing, NewObject
  <2> HIDE DEF rest, f
  <2>6. /\ Growing(made, (U \ {o}) \cup {new}, xs) /\ Len(made) = new
        /\ made[new] = NewObject(f, "none", Header[f].tags)
        /\ \A k \in 1 .. Len(os) : made[k] = rest[k]
    BY <2>1, <2>4, ObjectMade
  <2> HIDE DEF made
  <2>7. LentTo(made, {})
    <3>1. made[new].io = "none" BY <2>6 DEF NewObject
    <3>2. \A k \in 1 .. Len(made) : k \in 1 .. Len(os) \/ k = new BY <1>0, <2>6
    <3> QED BY <2>1, <2>2, <2>6, <3>1, <3>2 DEF LentTo
  <2>8. ~Encoding(made, new) BY <2>4, <2>6 DEF Encoding, HeaderOf, NewObject
  <2>9. CASE c = NotCreated(os, o, TRUE)
    <3>1. c.x = NoXform /\ c.objs = rest BY <2>9 DEF NotCreated, rest
    <3> QED BY <1>0, <1>2, <2>1, <2>2, <3>1
  <2>10. CASE c \in CreateFrom(made, new, lut, input, TRUE)
    <3>1. new \in (U \ {o}) \cup {new} OBVIOUS
    <3>2. ((U \ {o}) \cup {new}) \ {new} = U \ {o}
      <4>1. new \notin U BY <1>0 DEF Growing, Owned
      <4> QED BY <4>1
    <3>3. /\ Len(c.objs) = Len(made)
          /\ c.x = NoXform => /\ Growing(c.objs, U \ {o}, xs)
                              /\ LentTo(c.objs, {} \ {new})
          /\ c.x # NoXform => /\ Growing(c.objs, U \ {o}, Append(xs, c.x))
                              /\ LentTo(c.objs, {})
      <4> DEFINE U1 == (U \ {o}) \cup {new}
      <4>1. /\ Growing(made, U1, xs) /\ new \in U1 /\ ~Encoding(made, new)
            /\ LentTo(made, {})
        BY <2>6, <2>7, <2>8
      <4> HIDE DEF new, U1
      <4>2. /\ Len(c.objs) = Len(made)
            /\ c.x = NoXform => /\ Growing(c.objs, U1 \ {new}, xs)
                                /\ LentTo(c.objs, {} \ {new})
            /\ c.x # NoXform => /\ Growing(c.objs, U1 \ {new}, Append(xs, c.x))
                                /\ LentTo(c.objs, {})
        BY <2>10, <4>1, CreateFromOwned
      <4>3. U1 \ {new} = U \ {o} BY <3>2 DEF U1
      <4> QED BY <4>2, <4>3
    <3>4. {} \ {new} = {} OBVIOUS
    <3> QED BY <1>0, <1>2, <2>6, <3>3, <3>4
  <2> QED BY <2>5, <2>6, <2>9, <2>10
<1> QED BY <1>1, <1>2

(* Create for the profile of a transform that stays, which it may not delete. *)
LEMMA CreateLent ==
  ASSUME NEW os, NEW U, NEW xs, Growing(os, U, xs), NEW k \in 1 .. Len(xs),
         NEW lut, NEW input, NEW c \in Create(os, xs[k].prof, lut, input, FALSE),
         NEW W, LentTo(os, W)
  PROVE  /\ Len(c.objs) = Len(os) /\ LentTo(c.objs, W)
         /\ \A o \in 1 .. Len(os) : c.objs[o].file = os[o].file
         /\ Growing(c.objs, U, xs)
         /\ c.x # NoXform => c.x.prof = xs[k].prof /\ c.x.owns = TRUE
<1>1. xs[k].prof \in 1 .. Len(os) /\ HeaderOf(os, xs[k].prof).class # "Enc"
  BY DEF Growing, AllOwn
<1>2. c \in CreateFrom(os, xs[k].prof, lut, input, FALSE) BY <1>1 DEF Create
<1>3. xs[k].prof # 0 BY <1>1
<1>4. CASE c = NotCreated(os, xs[k].prof, FALSE) /\ c.x = NoXform
  <2>1. c.objs = os BY <1>4 DEF NotCreated
  <2> QED BY <1>4, <2>1
<1>5. ASSUME NEW tag, c.objs = Load(os, xs[k].prof, tag)
      PROVE  /\ Len(c.objs) = Len(os) /\ LentTo(c.objs, W)
             /\ \A o \in 1 .. Len(os) : c.objs[o].file = os[o].file
             /\ Growing(c.objs, U, xs)
  <2>1. /\ Growing(c.objs, U, xs) /\ Len(c.objs) = Len(os)
        /\ \A o \in 1 .. Len(os) : c.objs[o].io = os[o].io /\ c.objs[o].file = os[o].file
    BY <1>1, <1>5, LoadedFacts
  <2> QED BY <2>1 DEF LentTo
<1>6. \/ c = NotCreated(os, xs[k].prof, FALSE) /\ c.x = NoXform
      \/ /\ c.x # NoXform /\ c.x.prof = xs[k].prof /\ c.x.owns = TRUE
         /\ c.objs = os \/ \E tag : c.objs = Load(os, xs[k].prof, tag)
  <2> DEFINE o == xs[k].prof
  <2>1. o # 0 /\ c \in CreateFrom(os, o, lut, input, FALSE) BY <1>2, <1>3
  <2> HIDE DEF o
  <2>2. CreatedOrNot(os, o, FALSE, c) BY <2>1, CreateFromGives
  <2> QED BY <2>2 DEF o, CreatedOrNot
<1>7. CASE c.objs = os BY <1>6, <1>7
<1> QED BY <1>4, <1>5, <1>6, <1>7

-----------------------------------------------------------------------------
(* AddXform. *)

(* What comes of an AddXform of object o, which was outside the chain: it is *)
(* in the chain or deleted, and if it had a lent IO object and was no        *)
(* encoding profile, then it is a transform that still has it.               *)
Settled(os, U, o, W, out) ==
  /\ Growing(out.objs, U \ {o}, out.xforms)
  /\ Len(out.objs) <= Len(os) + (IF Encoding(os, o) THEN 1 ELSE 0)
  /\ Len(os) <= Len(out.objs)
  /\ LentTo(out.objs, IF out.stat = "Ok" /\ ~Encoding(os, o) THEN W ELSE {})
  /\ out.stat = "Ok" /\ ~Encoding(os, o) => out.objs[o].freed = 0
  /\ out.stat # "Ok" => SameProfiles(out.xforms, xforms)

LEMMA Refused ==
  ASSUME NEW os, NEW U, NEW xs, Growing(os, U, xs), SameProfiles(xs, xforms), NEW o \in U,
         NEW W, W \subseteq {o}, LentTo(os, W),
         NEW stat, stat # "Ok", NEW src, NEW last
  PROVE  Settled(os, U, o, W, Refusal(stat, os, o, xs, src, last))
<1> DEFINE out == Refusal(stat, os, o, xs, src, last)
<1>1. out.stat = stat /\ out.objs = Delete(os, o) /\ out.xforms = xs BY DEF Refusal
<1>2. /\ Growing(Delete(os, o), U \ {o}, xs) /\ Len(Delete(os, o)) = Len(os)
      /\ Delete(os, o)[o].io = "none"
      /\ \A k \in 1 .. Len(os) : k # o => Delete(os, o)[k] = os[k]
  BY DeletedOutside
<1>3. LentTo(Delete(os, o), {}) BY <1>2 DEF LentTo
<1>4. Len(os) \in Nat BY DEF Growing, Objects, List
<1> HIDE DEF out
<1>5. LentTo(out.objs, IF out.stat = "Ok" /\ ~Encoding(os, o) THEN W ELSE {})
  BY <1>1, <1>3, Zenon
<1>6. Len(out.objs) <= Len(os) + (IF Encoding(os, o) THEN 1 ELSE 0) /\ Len(os) <= Len(out.objs)
  BY <1>1, <1>2, <1>4
<1>7. Growing(out.objs, U \ {o}, out.xforms) BY <1>1, <1>2, Zenon
<1> QED BY <1>1, <1>5, <1>6, <1>7, Zenon DEF Settled, out

LEMMA LinkedSettles ==
  ASSUME NEW os, NEW U, NEW xs, Growing(os, U, xs), SameProfiles(xs, xforms), NEW o \in U,
         NEW W, W \subseteq {o}, LentTo(os, W), NEW lut, NEW link,
         NEW out \in Linked(os, o, xs, lut, link)
  PROVE  Settled(os, U, o, W, out)
<1> DEFINE h == HeaderOf(os, o)
           takes == xs = <<>> /\ srcSpace = NoSpace
           src == IF takes THEN link.src ELSE srcSpace
           last == IF takes THEN link.src ELSE lastSpace
           input == link.input \/ h.class = "MVIS"
<1>1. \/ out = Refusal("BadSpaceLink", os, o, xs, srcSpace, lastSpace)
      \/ out = Refusal("BadSpaceLink", os, o, xs, src, last)
      \/ \E c \in Create(os, o, lut, input, TRUE) :
           out = IF c.x = NoXform
                 THEN [stat |-> "BadXform", objs |-> c.objs, xforms |-> xs,
                       src |-> src, last |-> last, input |-> lastInput]
                 ELSE [stat |-> "Ok", objs |-> c.objs, xforms |-> Append(xs, c.x),
                       src |-> src, last |-> link.dst,
                       input |-> input \/ (c.x.mcs # "No" /\ c.x.input)]
  BY Zenon DEF Linked
<1>2. CASE \/ out = Refusal("BadSpaceLink", os, o, xs, srcSpace, lastSpace)
           \/ out = Refusal("BadSpaceLink", os, o, xs, src, last)
  <2>1. "BadSpaceLink" # "Ok" OBVIOUS
  <2> HIDE DEF src, last
  <2> QED BY <1>2, <2>1, Refused, Zenon
<1> HIDE DEF input, src, last, takes
<1>3. ASSUME NEW c \in Create(os, o, lut, input, TRUE),
             out.objs = c.objs,
             c.x = NoXform => out.stat = "BadXform" /\ out.xforms = xs,
             c.x # NoXform => out.stat = "Ok" /\ out.xforms = Append(xs, c.x)
      PROVE  Settled(os, U, o, W, out)
  <2>1. /\ Len(os) <= Len(c.objs)
        /\ Len(c.objs) <= Len(os) + (IF Encoding(os, o) THEN 1 ELSE 0)
        /\ c.x = NoXform => /\ Growing(c.objs, U \ {o}, xs)
                            /\ LentTo(c.objs, {})
        /\ c.x # NoXform => /\ Growing(c.objs, U \ {o}, Append(xs, c.x))
                            /\ LentTo(c.objs, IF Encoding(os, o) THEN {} ELSE W)
                            /\ ~Encoding(os, o) => c.objs[o].freed = 0
    BY CreateOwned
  <2>2. CASE c.x = NoXform
    <3>1. out.stat # "Ok" BY <1>3, <2>2
    <3>2. LentTo(out.objs, IF out.stat = "Ok" /\ ~Encoding(os, o) THEN W ELSE {})
      BY <1>3, <2>1, <2>2, <3>1, Zenon
    <3> QED BY <1>3, <2>1, <2>2, <3>1, <3>2, Zenon DEF Settled
  <2>3. CASE c.x # NoXform
    <3>1. LentTo(out.objs, IF out.stat = "Ok" /\ ~Encoding(os, o) THEN W ELSE {})
      BY <1>3, <2>1, <2>3, Zenon
    <3> QED BY <1>3, <2>1, <2>3, <3>1, Zenon DEF Settled
  <2> QED BY <2>2, <2>3
<1>4. ASSUME NEW c \in Create(os, o, lut, input, TRUE),
             out = IF c.x = NoXform
                   THEN [stat |-> "BadXform", objs |-> c.objs, xforms |-> xs,
                         src |-> src, last |-> last, input |-> lastInput]
                   ELSE [stat |-> "Ok", objs |-> c.objs, xforms |-> Append(xs, c.x),
                         src |-> src, last |-> link.dst,
                         input |-> input \/ (c.x.mcs # "No" /\ c.x.input)]
      PROVE  Settled(os, U, o, W, out)
  <2>1. out.objs = c.objs BY <1>4
  <2>2. c.x = NoXform => out.stat = "BadXform" /\ out.xforms = xs BY <1>4
  <2>3. c.x # NoXform => out.stat = "Ok" /\ out.xforms = Append(xs, c.x) BY <1>4
  <2> QED BY <2>1, <2>2, <2>3, <1>3
<1> QED BY <1>1, <1>2, <1>4, Zenon

LEMMA PreviousConnected ==
  ASSUME NEW os, NEW U, Growing(os, U, xforms), NEW W, LentTo(os, W), NEW p \in ConnectPrevious(os)
  PROVE  /\ Growing(p.objs, U, p.xforms) /\ SameProfiles(p.xforms, xforms)
         /\ LentTo(p.objs, W) /\ Len(p.objs) = Len(os)
         /\ \A o \in 1 .. Len(os) : p.objs[o].file = os[o].file
         /\ p.ok \in BOOLEAN
<1> DEFINE k == Len(xforms)
           old == xforms[k]
<1>0. List(xforms) BY DEF Growing
<1>1. CASE p = [ok |-> FALSE, objs |-> os, xforms |-> xforms]
  <2>1. p.ok = FALSE /\ p.objs = os /\ p.xforms = xforms BY <1>1
  <2>2. SameProfiles(xforms, xforms) BY DEF SameProfiles
  <2> QED BY <2>1, <2>2, Zenon
<1>2. CASE /\ xforms # <<>>
           /\ \E c \in Create(os, old.prof, "MCS", old.input, FALSE) :
                p = [ok |-> c.x # NoXform, objs |-> c.objs,
                     xforms |-> [xforms EXCEPT ![k] = ReplacePrevious(old, c.x)]]
  <2>1. k \in 1 .. Len(xforms)
    <3>1. Len(xforms) \in Nat /\ xforms = [m \in 1 .. Len(xforms) |-> xforms[m]]
      BY <1>0 DEF List
    <3>2. Len(xforms) # 0
      <4>1. SUFFICES ASSUME Len(xforms) = 0 PROVE FALSE OBVIOUS
      <4>2. xforms = [m \in 1 .. 0 |-> xforms[m]] BY <3>1, <4>1
      <4>3. [m \in 1 .. 0 |-> xforms[m]] = <<>> OBVIOUS
      <4> QED BY <1>2, <4>2, <4>3
    <3> QED BY <3>1, <3>2
  <2>2. PICK c \in Create(os, old.prof, "MCS", old.input, FALSE) :
          p = [ok |-> c.x # NoXform, objs |-> c.objs,
               xforms |-> [xforms EXCEPT ![k] = ReplacePrevious(old, c.x)]]
    BY <1>2
  <2>3. /\ Len(c.objs) = Len(os) /\ LentTo(c.objs, W)
        /\ \A o \in 1 .. Len(os) : c.objs[o].file = os[o].file
        /\ Growing(c.objs, U, xforms)
        /\ c.x # NoXform => c.x.prof = xforms[k].prof /\ c.x.owns = TRUE
    <3> HIDE DEF k
    <3> QED BY <2>1, CreateLent
  <2> DEFINE x == ReplacePrevious(old, c.x)
  <2>4. x.prof = xforms[k].prof /\ x.owns = TRUE
    <3>1. xforms[k].owns = TRUE BY <2>1 DEF Growing, AllOwn
    <3> QED BY <2>3, <3>1 DEF ReplacePrevious
  <2>5. /\ p.ok \in BOOLEAN /\ p.objs = c.objs
        /\ p.xforms = [xforms EXCEPT ![k] = x]
    BY <2>2
  <2> DEFINE co == c.objs
  <2>8. Growing(co, U, xforms) /\ k \in 1 .. Len(xforms) BY <2>1, <2>3
  <2> HIDE DEF x, k, co
  <2>6. Growing(co, U, p.xforms) /\ SameProfiles(p.xforms, xforms)
    BY <2>4, <2>5, <2>8, TransformReplaced, Zenon
  <2> QED BY <2>3, <2>5, <2>6, Zenon DEF co
<1> QED BY <1>1, <1>2 DEF ConnectPrevious

LEMMA AddSettles ==
  ASSUME NEW os, NEW U, Growing(os, U, xforms), NEW o \in U,
         NEW W, W \subseteq {o}, LentTo(os, W), NEW asked, NEW out \in AddOwned(os, o, asked)
  PROVE  Settled(os, U, o, W, out)
<1> DEFINE h == HeaderOf(os, o)
           lut == IF h.class \in McsClasses /\ asked # "Tag" THEN "MCS" ELSE asked
           link == LinkOf(h, lut, ~lastInput)
<1>0. SameProfiles(xforms, xforms) BY DEF SameProfiles
<1>1. \/ out = Refusal("BadLutType", os, o, xforms, srcSpace, lastSpace)
      \/ link.stat # "Ok" /\ out = Refusal(link.stat, os, o, xforms, srcSpace, lastSpace)
      \/ out \in Linked(os, o, xforms, lut, link)
      \/ \E p \in ConnectPrevious(os) :
           \/ out = Refusal("BadMCSLink", p.objs, o, p.xforms, srcSpace, lastSpace)
           \/ link.stat # "Ok" /\ out = Refusal(link.stat, p.objs, o, p.xforms, srcSpace, lastSpace)
           \/ out \in Linked(p.objs, o, p.xforms, lut, link)
  BY Zenon DEF AddOwned
<1> HIDE DEF link, lut
<1>2. "BadLutType" # "Ok" /\ "BadMCSLink" # "Ok" OBVIOUS
<1>3. CASE out = Refusal("BadLutType", os, o, xforms, srcSpace, lastSpace)
  BY <1>0, <1>2, <1>3, Refused, Zenon
<1>4. CASE link.stat # "Ok" /\ out = Refusal(link.stat, os, o, xforms, srcSpace, lastSpace)
  BY <1>0, <1>4, Refused, Zenon
<1>5. CASE out \in Linked(os, o, xforms, lut, link) BY <1>0, <1>5, LinkedSettles
<1>6. CASE \E p \in ConnectPrevious(os) :
             \/ out = Refusal("BadMCSLink", p.objs, o, p.xforms, srcSpace, lastSpace)
             \/ link.stat # "Ok" /\ out = Refusal(link.stat, p.objs, o, p.xforms, srcSpace, lastSpace)
             \/ out \in Linked(p.objs, o, p.xforms, lut, link)
  <2>1. PICK p \in ConnectPrevious(os) :
             \/ out = Refusal("BadMCSLink", p.objs, o, p.xforms, srcSpace, lastSpace)
             \/ link.stat # "Ok" /\ out = Refusal(link.stat, p.objs, o, p.xforms, srcSpace, lastSpace)
             \/ out \in Linked(p.objs, o, p.xforms, lut, link)
    BY <1>6
  <2>2. /\ Growing(p.objs, U, p.xforms) /\ SameProfiles(p.xforms, xforms)
        /\ LentTo(p.objs, W) /\ Len(p.objs) = Len(os)
        /\ \A k \in 1 .. Len(os) : p.objs[k].file = os[k].file
    BY PreviousConnected
  <2> DEFINE ys == p.xforms
             ps == p.objs
  <2>3. /\ Growing(ps, U, ys) /\ SameProfiles(ys, xforms) /\ LentTo(ps, W)
        /\ \/ out = Refusal("BadMCSLink", ps, o, ys, srcSpace, lastSpace)
           \/ link.stat # "Ok" /\ out = Refusal(link.stat, ps, o, ys, srcSpace, lastSpace)
           \/ out \in Linked(ps, o, ys, lut, link)
    BY <2>1, <2>2
  <2> HIDE DEF ys, ps
  <2>4. Settled(ps, U, o, W, out)
    <3>1. CASE out = Refusal("BadMCSLink", ps, o, ys, srcSpace, lastSpace)
      BY <1>2, <2>3, <3>1, Refused, Zenon
    <3>2. CASE link.stat # "Ok" /\ out = Refusal(link.stat, ps, o, ys, srcSpace, lastSpace)
      BY <2>3, <3>2, Refused, Zenon
    <3>3. CASE out \in Linked(ps, o, ys, lut, link) BY <2>3, <3>3, LinkedSettles
    <3> QED BY <2>3, <3>1, <3>2, <3>3
  <2>5. o \in 1 .. Len(os) BY DEF Growing, Owned
  <2>6. Encoding(ps, o) <=> Encoding(os, o) BY <2>2, <2>5 DEF Encoding, HeaderOf, ps
  <2>7. Len(ps) = Len(os) BY <2>2 DEF ps
  <2> QED BY <2>4, <2>6, <2>7 DEF Settled
<1> QED BY <1>1, <1>3, <1>4, <1>5, <1>6

-----------------------------------------------------------------------------
(* Interposed: the old transforms keep their order and each has one place,   *)
(* and at every other place is a new one.                                    *)

Below(D, k) == Cardinality({j \in D : j < k})

LEMMA BelowFacts ==
  ASSUME NEW n \in Nat, NEW D \in SUBSET (0 .. n)
  PROVE  /\ IsFiniteSet(D) /\ Cardinality(D) \in Nat
         /\ \A k \in Nat : Below(D, k) \in Nat /\ Below(D, k) <= Cardinality(D)
         /\ \A k, m \in Nat : k <= m => Below(D, k) <= Below(D, m)
         /\ \A k \in D, m \in Nat : k < m => Below(D, k) + 1 <= Below(D, m)
         /\ \A k \in D : Below(D, k) + 1 <= Cardinality(D)
<1>0. \A d \in D : d \in Nat OBVIOUS
<1>1. IsFiniteSet(D)
  <2>1. IsFiniteSet(0 .. n) BY FS_Interval
  <2> QED BY <2>1, FS_Subset
<1> DEFINE L(k) == {j \in D : j < k}
<1>2. \A k : L(k) \in SUBSET D /\ IsFiniteSet(L(k)) BY <1>1, FS_Subset
<1>3. \A k : Cardinality(L(k)) \in Nat /\ Cardinality(L(k)) <= Cardinality(D)
  BY <1>1, <1>2, FS_Subset, FS_CardinalityType
<1>4. Cardinality(D) \in Nat BY <1>1, FS_CardinalityType
<1>5. ASSUME NEW k \in Nat, NEW m \in Nat, k <= m
      PROVE  Cardinality(L(k)) <= Cardinality(L(m))
  <2>1. L(k) \in SUBSET L(m)
    <3>1. ASSUME NEW j \in D, j < k PROVE j < m BY <1>0, <1>5, <3>1
    <3> QED BY <3>1
  <2> QED BY <1>2, <2>1, FS_Subset
<1>6. ASSUME NEW k \in D, NEW S, S \in SUBSET D, L(k) \subseteq S, k \in S
      PROVE  Cardinality(L(k)) + 1 <= Cardinality(S)
  <2>1. k \notin L(k) BY <1>6
  <2>2. IsFiniteSet(L(k)) BY <1>2
  <2> DEFINE A == L(k)
  <2> HIDE DEF A
  <2>3. A \cup {k} \in SUBSET S BY <1>6 DEF A
  <2>4. Cardinality(A \cup {k}) = Cardinality(A) + 1 BY <2>1, <2>2, FS_AddElement DEF A
  <2>5. IsFiniteSet(S) BY <1>1, <1>6, FS_Subset
  <2>6. Cardinality(A \cup {k}) <= Cardinality(S) BY <2>3, <2>5, FS_Subset
  <2> QED BY <2>4, <2>6 DEF A
<1>7. ASSUME NEW k \in D, NEW m \in Nat, k < m
      PROVE  Cardinality(L(k)) + 1 <= Cardinality(L(m))
  <2>2. L(k) \subseteq L(m)
    <3>1. ASSUME NEW j \in D, j < k PROVE j < m BY <1>0, <1>7, <3>1
    <3> QED BY <3>1
  <2>1. L(m) \in SUBSET D /\ L(k) \subseteq L(m) /\ k \in L(m) BY <1>7, <2>2
  <2> HIDE DEF L
  <2> QED BY <1>6, <2>1
<1>8. ASSUME NEW k \in D PROVE Cardinality(L(k)) + 1 <= Cardinality(D)
  <2>1. D \in SUBSET D /\ L(k) \subseteq D /\ k \in D BY <1>8
  <2> HIDE DEF L
  <2> QED BY <1>6, <2>1
<1> QED BY <1>1, <1>3, <1>4, <1>5, <1>7, <1>8 DEF Below

Place(D, i) == i + Below(D, i)
NewPlace(D, k) == k + Below(D, k) + 1

LEMMA PlacesDiffer ==
  ASSUME NEW n \in Nat, NEW D \in SUBSET (0 .. n)
  PROVE  LET N == n + Cardinality(D)
         IN /\ N \in Nat
            /\ \A i \in 1 .. n : Place(D, i) \in 1 .. N
            /\ \A k \in D : NewPlace(D, k) \in 1 .. N
            /\ \A i, j \in 1 .. n : Place(D, i) = Place(D, j) => i = j
            /\ \A k, m \in D : NewPlace(D, k) = NewPlace(D, m) => k = m
            /\ \A i \in 1 .. n, k \in D : Place(D, i) # NewPlace(D, k)
<1>1. /\ Cardinality(D) \in Nat
      /\ \A k \in Nat : Below(D, k) \in Nat /\ Below(D, k) <= Cardinality(D)
      /\ \A k, m \in Nat : k <= m => Below(D, k) <= Below(D, m)
      /\ \A k \in D, m \in Nat : k < m => Below(D, k) + 1 <= Below(D, m)
      /\ \A k \in D : Below(D, k) + 1 <= Cardinality(D)
  BY BelowFacts
<1>2. \A k \in D : k \in Nat /\ k <= n OBVIOUS
<1>3. \A i \in 1 .. n : Place(D, i) \in 1 .. n + Cardinality(D)
  BY <1>1 DEF Place
<1>4. \A k \in D : NewPlace(D, k) \in 1 .. n + Cardinality(D)
  BY <1>1, <1>2 DEF NewPlace
<1>5. ASSUME NEW i \in 1 .. n, NEW j \in 1 .. n, i < j PROVE Place(D, i) < Place(D, j)
  BY <1>1, <1>5 DEF Place
<1>6. ASSUME NEW k \in D, NEW m \in D, k < m PROVE NewPlace(D, k) < NewPlace(D, m)
  BY <1>1, <1>2, <1>6 DEF NewPlace
<1>7. ASSUME NEW i \in 1 .. n, NEW k \in D PROVE Place(D, i) # NewPlace(D, k)
  <2>1. i \in Nat /\ k \in Nat /\ Below(D, i) \in Nat /\ Below(D, k) \in Nat BY <1>1, <1>2
  <2>2. CASE i <= k
    <3>1. Below(D, i) <= Below(D, k) BY <1>1, <2>1, <2>2
    <3> QED BY <2>1, <2>2, <3>1 DEF Place, NewPlace
  <2>3. CASE k < i
    <3>1. Below(D, k) + 1 <= Below(D, i) BY <1>1, <2>1, <2>3
    <3> QED BY <2>1, <2>3, <3>1 DEF Place, NewPlace
  <2> QED BY <2>1, <2>2, <2>3
<1>8. \A i \in 1 .. n : Place(D, i) \in Nat BY <1>1 DEF Place
<1>9. \A k \in D : NewPlace(D, k) \in Nat BY <1>1, <1>2 DEF NewPlace
<1>10. ASSUME NEW i \in 1 .. n, NEW j \in 1 .. n, Place(D, i) = Place(D, j) PROVE i = j
  <2>1. ~(i < j) /\ ~(j < i) BY <1>5, <1>8, <1>10
  <2> QED BY <2>1
<1>11. ASSUME NEW k \in D, NEW m \in D, NewPlace(D, k) = NewPlace(D, m) PROVE k = m
  <2>1. ~(k < m) /\ ~(m < k) BY <1>6, <1>9, <1>11
  <2> QED BY <1>2, <2>1
<1> QED BY <1>1, <1>3, <1>4, <1>7, <1>10, <1>11

LEMMA ImageCounts ==
  ASSUME NEW S, IsFiniteSet(S), NEW f, f = [x \in S |-> f[x]],
         \A x, y \in S : f[x] = f[y] => x = y
  PROVE  LET T == {f[x] : x \in S} IN IsFiniteSet(T) /\ Cardinality(T) = Cardinality(S)
<1> DEFINE T == {f[x] : x \in S}
<1>1. f \in Bijection(S, T) BY DEF Bijection, Injection, Surjection, IsInjective
<1> HIDE DEF T
<1>2. ExistsBijection(S, T) BY <1>1 DEF ExistsBijection
<1> QED BY <1>2, FS_Bijection DEF T

LEMMA PlacesFill ==
  ASSUME NEW n \in Nat, NEW D \in SUBSET (0 .. n)
  PROVE  \A p \in 1 .. n + Cardinality(D) :
           \/ \E i \in 1 .. n : p = Place(D, i)
           \/ \E k \in D : p = NewPlace(D, k)
<1> DEFINE N == n + Cardinality(D)
           f == [i \in 1 .. n |-> Place(D, i)]
           g == [k \in D |-> NewPlace(D, k)]
           P == {f[i] : i \in 1 .. n}
           Q == {g[k] : k \in D}
<1>1. /\ N \in Nat
      /\ \A i \in 1 .. n : Place(D, i) \in 1 .. N
      /\ \A k \in D : NewPlace(D, k) \in 1 .. N
      /\ \A i, j \in 1 .. n : Place(D, i) = Place(D, j) => i = j
      /\ \A k, m \in D : NewPlace(D, k) = NewPlace(D, m) => k = m
      /\ \A i \in 1 .. n, k \in D : Place(D, i) # NewPlace(D, k)
  BY PlacesDiffer
<1>2. IsFiniteSet(D) /\ Cardinality(D) \in Nat BY BelowFacts
<1>3. IsFiniteSet(1 .. n) /\ Cardinality(1 .. n) = n BY FS_Interval
<1>4. IsFiniteSet(P) /\ Cardinality(P) = n
  <2>1. f = [x \in 1 .. n |-> f[x]] /\ \A x, y \in 1 .. n : f[x] = f[y] => x = y BY <1>1
  <2> HIDE DEF f
  <2> QED BY <1>3, <2>1, ImageCounts
<1>5. IsFiniteSet(Q) /\ Cardinality(Q) = Cardinality(D)
  <2>1. g = [x \in D |-> g[x]] /\ \A x, y \in D : g[x] = g[y] => x = y BY <1>1
  <2> HIDE DEF g
  <2> QED BY <1>2, <2>1, ImageCounts
<1>6. P \cap Q = {} /\ P \cup Q \in SUBSET (1 .. N) BY <1>1
<1>7. IsFiniteSet(1 .. N) /\ Cardinality(1 .. N) = N BY <1>1, FS_Interval
<1> HIDE DEF P, Q
<1>8. Cardinality(P \cup Q) = N
  <2>1. Cardinality(P \cap Q) = 0 BY <1>6, FS_EmptySet
  <2>2. Cardinality(P \cup Q) = Cardinality(P) + Cardinality(Q) - Cardinality(P \cap Q)
    BY <1>4, <1>5, FS_Union
  <2> QED BY <1>2, <1>4, <1>5, <2>1, <2>2
<1> HIDE DEF N
<1>9. P \cup Q = 1 .. N BY <1>6, <1>7, <1>8, FS_Subset
<1> QED BY <1>9 DEF P, Q, N

(* Every transform, and every new one, has its place in the chain.           *)
LEMMA InterposedIs ==
  ASSUME NEW xs, List(xs), NEW new, DOMAIN new \in SUBSET (0 .. Len(xs))
  PROVE  LET ys == Interposed(xs, new)
             D == DOMAIN new
         IN /\ List(ys) /\ Len(ys) = Len(xs) + Cardinality(D)
            /\ \A i \in 1 .. Len(xs) : ys[Place(D, i)] = xs[i]
            /\ \A k \in D : ys[NewPlace(D, k)] = new[k]
<1> DEFINE n == Len(xs)
           D == DOMAIN new
           N == n + Cardinality(D)
           F(p) == IF \E k \in D : NewPlace(D, k) = p
                   THEN new[CHOOSE k \in D : NewPlace(D, k) = p]
                   ELSE xs[CHOOSE i \in DOMAIN xs : Place(D, i) = p]
           ys == Interposed(xs, new)
<1>1. ys = [p \in 1 .. N |-> F(p)] BY DEF Interposed, Below, Place, NewPlace
<1>2. n \in Nat /\ D \in SUBSET (0 .. n) /\ DOMAIN xs = 1 .. n BY ListDomain DEF List
<1> HIDE DEF n, D
<1>3. /\ N \in Nat
      /\ \A i \in 1 .. n : Place(D, i) \in 1 .. N
      /\ \A k \in D : NewPlace(D, k) \in 1 .. N
      /\ \A i, j \in 1 .. n : Place(D, i) = Place(D, j) => i = j
      /\ \A k, m \in D : NewPlace(D, k) = NewPlace(D, m) => k = m
      /\ \A i \in 1 .. n, k \in D : Place(D, i) # NewPlace(D, k)
  BY <1>2, PlacesDiffer
<1> HIDE DEF N, ys
<1>4. List(ys) /\ Len(ys) = N
  <2> HIDE DEF F
  <2>1. ys = [p \in 1 .. N |-> ys[p]] BY <1>1
  <2> QED BY <1>3, <2>1, FunctionIsList
<1>5. ASSUME NEW i \in 1 .. n PROVE ys[Place(D, i)] = xs[i]
  <2>1. ~\E k \in D : NewPlace(D, k) = Place(D, i) BY <1>3
  <2>2. (CHOOSE j \in DOMAIN xs : Place(D, j) = Place(D, i)) = i BY <1>2, <1>3
  <2>3. ys[Place(D, i)] = F(Place(D, i)) BY <1>1, <1>3
  <2> QED BY <2>1, <2>2, <2>3
<1>6. ASSUME NEW k \in D PROVE ys[NewPlace(D, k)] = new[k]
  <2>1. (CHOOSE j \in D : NewPlace(D, j) = NewPlace(D, k)) = k BY <1>3
  <2>2. ys[NewPlace(D, k)] = F(NewPlace(D, k)) BY <1>1, <1>3
  <2> QED BY <2>1, <2>2
<1> QED BY <1>4, <1>5, <1>6 DEF n, D, N, ys

(* The chain with new transforms in it.                                      *)
Holds(ys, xs, new) ==
  /\ List(ys)
  /\ \E f \in [1 .. Len(xs) -> 1 .. Len(ys)] :
       /\ \A i, j \in 1 .. Len(xs) : f[i] = f[j] => i = j
       /\ \A i \in 1 .. Len(xs) : ys[f[i]] = xs[i]
       /\ \A p \in 1 .. Len(ys) : \/ \E i \in 1 .. Len(xs) : p = f[i]
                                  \/ \E k \in DOMAIN new : ys[p] = new[k]

LEMMA InterposedHolds ==
  ASSUME NEW xs, List(xs), NEW new, DOMAIN new \in SUBSET (0 .. Len(xs))
  PROVE  Holds(Interposed(xs, new), xs, new)
<1> DEFINE n == Len(xs)
           D == DOMAIN new
           N == n + Cardinality(D)
           ys == Interposed(xs, new)
           f == [i \in 1 .. n |-> Place(D, i)]
<1>1. /\ List(ys) /\ Len(ys) = N
      /\ \A i \in 1 .. n : ys[Place(D, i)] = xs[i]
      /\ \A k \in D : ys[NewPlace(D, k)] = new[k]
  BY InterposedIs
<1>2. n \in Nat /\ D \in SUBSET (0 .. n) BY DEF List
<1> HIDE DEF n, D, ys
<1>3. /\ \A i \in 1 .. n : Place(D, i) \in 1 .. N
      /\ \A i, j \in 1 .. n : Place(D, i) = Place(D, j) => i = j
  BY <1>2, PlacesDiffer
<1>4. \A p \in 1 .. N : \/ \E i \in 1 .. n : p = Place(D, i)
                        \/ \E k \in D : p = NewPlace(D, k)
  BY <1>2, PlacesFill
<1> HIDE DEF N
<1>5. /\ f \in [1 .. n -> 1 .. N]
      /\ \A i, j \in 1 .. n : f[i] = f[j] => i = j
      /\ \A i \in 1 .. n : ys[f[i]] = xs[i]
      /\ \A p \in 1 .. N : \/ \E i \in 1 .. n : p = f[i]
                           \/ \E k \in D : ys[p] = new[k]
  BY <1>1, <1>3, <1>4
<1> HIDE DEF f
<1> QED BY <1>1, <1>5 DEF Holds, n, D, ys

(* No transform that is put in owns a profile: the chain stays sound.        *)
Anchored(os, xs) ==
  \A i \in 1 .. Len(xs) :
    xs[i].prof # 0 => /\ xs[i].prof \in 1 .. Len(os)
                      /\ \E j \in 1 .. Len(xs) : OwnsIt(xs[j], xs[i].prof)

Sound(os, outside, xs) ==
  Objects(os) /\ List(xs) /\ Owned(os, outside, xs) /\ Anchored(os, xs)

LEMMA GrowingIsSound ==
  ASSUME NEW os, NEW U, NEW xs, Growing(os, U, xs) PROVE Sound(os, U, xs)
<1>1. Anchored(os, xs) BY DEF Growing, AllOwn, Anchored, OwnsIt
<1> QED BY <1>1 DEF Growing, Sound

LEMMA InterposedSound ==
  ASSUME NEW os, NEW U, NEW xs, Sound(os, U, xs),
         NEW new, DOMAIN new \in SUBSET (0 .. Len(xs)),
         \A k \in DOMAIN new :
           \/ new[k].prof = 0
           \/ new[k].owns = FALSE /\ \E i \in 1 .. Len(xs) : new[k].prof = xs[i].prof
  PROVE  Sound(os, U, Interposed(xs, new))
<1> DEFINE ys == Interposed(xs, new)
<1>1. Objects(os) /\ List(xs) /\ Owned(os, U, xs) /\ Anchored(os, xs) BY DEF Sound
<1>2. Holds(ys, xs, new) BY <1>1, InterposedHolds
<1> HIDE DEF ys
<1>3. PICK f \in [1 .. Len(xs) -> 1 .. Len(ys)] :
        /\ \A i, j \in 1 .. Len(xs) : f[i] = f[j] => i = j
        /\ \A i \in 1 .. Len(xs) : ys[f[i]] = xs[i]
        /\ \A p \in 1 .. Len(ys) : \/ \E i \in 1 .. Len(xs) : p = f[i]
                                   \/ \E k \in DOMAIN new : ys[p] = new[k]
  BY <1>2 DEF Holds
<1>4. ASSUME NEW p \in 1 .. Len(ys), NEW o \in 1 .. Len(os), OwnsIt(ys[p], o)
      PROVE  \E i \in 1 .. Len(xs) : p = f[i] /\ OwnsIt(xs[i], o)
  <2>1. CASE \E i \in 1 .. Len(xs) : p = f[i] BY <1>3, <1>4, <2>1
  <2>2. CASE \E k \in DOMAIN new : ys[p] = new[k] BY <1>4, <2>2 DEF OwnsIt
  <2> QED BY <1>3, <2>1, <2>2
<1>5. \A i \in 1 .. Len(xs) : f[i] \in 1 .. Len(ys) /\ ys[f[i]] = xs[i] BY <1>3
<1>6. Owned(os, U, ys)
  <2> HIDE DEF OwnsIt
  <2>1. \A o \in U : o \in 1 .. Len(os) BY <1>1 DEF Owned
  <2>2. \A o \in U : os[o].freed = 0 /\ \A i \in 1 .. Len(ys) : ~OwnsIt(ys[i], o)
    BY <1>1, <1>4, <2>1 DEF Owned
  <2>3. ASSUME NEW o \in 1 .. Len(os)
        PROVE  /\ os[o].freed = 1 => \A i \in 1 .. Len(ys) : ~OwnsIt(ys[i], o)
               /\ os[o].freed = 0 /\ o \notin U => \E i \in 1 .. Len(ys) : OwnsIt(ys[i], o)
               /\ \A i, j \in 1 .. Len(ys) : OwnsIt(ys[i], o) /\ OwnsIt(ys[j], o) => i = j
    <3>1. os[o].freed = 1 => \A i \in 1 .. Len(ys) : ~OwnsIt(ys[i], o)
      BY <1>1, <1>4 DEF Owned
    <3>2. os[o].freed = 0 /\ o \notin U => \E i \in 1 .. Len(ys) : OwnsIt(ys[i], o)
      <4>1. SUFFICES ASSUME os[o].freed = 0, o \notin U
                     PROVE  \E i \in 1 .. Len(ys) : OwnsIt(ys[i], o)
        OBVIOUS
      <4>2. PICK i \in 1 .. Len(xs) : OwnsIt(xs[i], o) BY <1>1, <4>1 DEF Owned
      <4>3. f[i] \in 1 .. Len(ys) /\ OwnsIt(ys[f[i]], o) BY <1>5, <4>2
      <4> QED BY <4>3
    <3>3. \A i, j \in 1 .. Len(ys) : OwnsIt(ys[i], o) /\ OwnsIt(ys[j], o) => i = j
      BY <1>1, <1>4 DEF Owned
    <3> QED BY <3>1, <3>2, <3>3
  <2> QED BY <2>1, <2>2, <2>3 DEF Owned
<1>7. Anchored(os, ys)
  <2>1. SUFFICES ASSUME NEW p \in 1 .. Len(ys), ys[p].prof # 0
                 PROVE  /\ ys[p].prof \in 1 .. Len(os)
                        /\ \E j \in 1 .. Len(ys) : OwnsIt(ys[j], ys[p].prof)
    BY DEF Anchored
  <2>2. \E i \in 1 .. Len(xs) : ys[p].prof = xs[i].prof
    <3>1. CASE \E i \in 1 .. Len(xs) : p = f[i] BY <1>5, <3>1
    <3>2. CASE \E k \in DOMAIN new : ys[p] = new[k] BY <2>1, <3>2
    <3> QED BY <1>3, <3>1, <3>2
  <2>3. PICK i \in 1 .. Len(xs) : ys[p].prof = xs[i].prof BY <2>2
  <2>4. /\ xs[i].prof \in 1 .. Len(os)
        /\ \E j \in 1 .. Len(xs) : OwnsIt(xs[j], xs[i].prof)
    BY <1>1, <2>1, <2>3 DEF Anchored
  <2>5. PICK j \in 1 .. Len(xs) : OwnsIt(xs[j], xs[i].prof) BY <2>4
  <2>6. f[j] \in 1 .. Len(ys) /\ OwnsIt(ys[f[j]], ys[p].prof) BY <1>5, <2>3, <2>5
  <2> QED BY <2>3, <2>4, <2>6
<1>8. List(ys) BY <1>2 DEF Holds
<1> QED BY <1>1, <1>6, <1>7, <1>8 DEF Sound, ys

LEMMA RangeSound ==
  ASSUME NEW os, NEW U, NEW xs, Growing(os, U, xs), NEW ys \in RangeConverted(os, xs)
  PROVE  Sound(os, U, ys)
<1>1. Sound(os, U, xs) BY GrowingIsSound
<1>2. DOMAIN xs = 1 .. Len(xs) BY <1>1, ListDomain DEF Sound
<1>3. PICK made \in SUBSET (1 .. Len(xs)) :
        ys = Interposed(xs, [i \in made |-> RangeXform(xs[i])])
  <2>1. \E made \in SUBSET (DOMAIN xs) :
          ys = Interposed(xs, [i \in made |-> RangeXform(xs[i])])
    BY DEF RangeConverted
  <2> QED BY <1>2, <2>1
<1> DEFINE new == [i \in made |-> RangeXform(xs[i])]
<1>4. DOMAIN new \in SUBSET (0 .. Len(xs)) OBVIOUS
<1>5. \A k \in DOMAIN new :
        new[k].owns = FALSE /\ \E i \in 1 .. Len(xs) : new[k].prof = xs[i].prof
  <2>1. \A x : RangeXform(x).owns = FALSE /\ RangeXform(x).prof = x.prof
    BY DEF RangeXform, Xform
  <2> QED BY <2>1
<1>6. ys = Interposed(xs, new) BY <1>3
<1> HIDE DEF new
<1>7. Sound(os, U, Interposed(xs, new)) BY <1>1, <1>4, <1>5, InterposedSound
<1> QED BY <1>6, <1>7

LEMMA ChainSound ==
  ASSUME NEW os, NEW U, NEW xs, Sound(os, U, xs), NEW at
  PROVE  Sound(os, U, ChainOf(os, xs, at))
<1> DEFINE n == Len(xs)
           D == {j \in 0 .. n : at[j].stat = "Ok"}
           new == [k \in D |-> IF k \in {0, n} THEN EndXform(at[k].steps)
                               ELSE PcsXform(os, xs[k], xs[k + 1], at[k].steps)]
<1>1. ChainOf(os, xs, at) = Interposed(xs, new) BY DEF ChainOf
<1>2. DOMAIN new \in SUBSET (0 .. Len(xs)) OBVIOUS
<1>3. \A k \in DOMAIN new : new[k].prof = 0
  <2>1. \A src, dst, nSrc, nDst, steps : Conversion(src, dst, nSrc, nDst, steps).prof = 0
    BY DEF Conversion, Xform
  <2>2. \A steps : EndXform(steps).prof = 0 BY <2>1 DEF EndXform
  <2>3. \A x, y, steps : PcsXform(os, x, y, steps).prof = 0 BY <2>1 DEF PcsXform
  <2> QED BY <2>2, <2>3
<1> HIDE DEF new
<1>4. Sound(os, U, Interposed(xs, new)) BY <1>2, <1>3, InterposedSound
<1> QED BY <1>1, <1>4

LEMMA BegunSound ==
  ASSUME NEW U, Growing(objs, U, xforms), NEW dest, NEW alloc \in BOOLEAN,
         NEW out \in Begun(dest, alloc)
  PROVE  Sound(objs, U, out.xforms)
<1> DEFINE Result(stat, xs, list) == [stat |-> stat, xforms |-> xs, apply |-> list]
           Applied(xs) == {Result(s, xs, IF s = "Ok" /\ alloc THEN xs ELSE NotMade) :
                             s \in IF alloc THEN GetNewApplyCmm ELSE {"Ok"}}
           Connecting(xs) == UNION {IF c.stat = "Ok" THEN Applied(c.xforms)
                                    ELSE {Result(c.stat, xs, NotMade)} :
                                      c \in Connected(objs, xs, dest)}
           Beginning(xs) == UNION {IF s = "Ok" THEN Connecting(xs) ELSE {Result(s, xs, NotMade)} :
                                     s \in XformsBegin(objs, xs)}
<1>1. Sound(objs, U, xforms) BY GrowingIsSound
<1>2. ASSUME NEW xs, Sound(objs, U, xs), NEW c \in Connected(objs, xs, dest)
      PROVE  Sound(objs, U, c.xforms)
  <2>1. CASE c = [stat |-> "Ok", xforms |-> xs] BY <1>2, <2>1
  <2>2. CASE \E at : c \in Connections(objs, xs, dest, at)
    <3>1. PICK at : c \in Connections(objs, xs, dest, at) BY <2>2
    <3>2. c.xforms = xs \/ c.xforms = ChainOf(objs, xs, at) BY <3>1 DEF Connections
    <3>3. Sound(objs, U, ChainOf(objs, xs, at)) BY <1>2, ChainSound
    <3> QED BY <1>2, <3>2, <3>3
  <2>3. c \in {[stat |-> "Ok", xforms |-> xs]} \/ \E at : c \in Connections(objs, xs, dest, at)
    BY DEF Connected
  <2> QED BY <2>1, <2>2, <2>3
<1>3. ASSUME NEW xs, Sound(objs, U, xs), NEW r \in Beginning(xs)
      PROVE  Sound(objs, U, r.xforms)
  <2>1. \/ r.xforms = xs
        \/ \E c \in Connected(objs, xs, dest) : r.xforms = xs \/ r.xforms = c.xforms
    <3>1. PICK s \in XformsBegin(objs, xs) :
            r \in IF s = "Ok" THEN Connecting(xs) ELSE {Result(s, xs, NotMade)}
      OBVIOUS
    <3>2. CASE s # "Ok" BY <3>1, <3>2
    <3>3. CASE s = "Ok"
      <4>1. PICK c \in Connected(objs, xs, dest) :
              r \in IF c.stat = "Ok" THEN Applied(c.xforms)
                    ELSE {Result(c.stat, xs, NotMade)}
        BY <3>1, <3>3
      <4>2. \A ys : \A q \in Applied(ys) : q.xforms = ys OBVIOUS
      <4> HIDE DEF Applied
      <4> QED BY <4>1, <4>2
    <3> QED BY <3>2, <3>3
  <2> QED BY <1>2, <1>3, <2>1
<1>4. \/ out.xforms = xforms
      \/ \E xs \in RangeConverted(objs, xforms) : out \in Beginning(xs)
  BY DEF Begun
<1> HIDE DEF Beginning
<1> QED BY <1>1, <1>3, <1>4, RangeSound

-----------------------------------------------------------------------------
(* The inductive invariant.                                                  *)

ChainInv ==
  /\ Sound(objs, client, xforms)
  /\ phase = "adding" => Growing(objs, client, xforms)
  /\ LentTo(objs, {})
  /\ fault = FALSE

(* What changes neither the files of the objects nor who owns them.          *)
SameOwners(os, new) ==
  /\ Objects(new) /\ Len(new) = Len(os)
  /\ \A k \in 1 .. Len(os) : new[k].file = os[k].file /\ new[k].freed = os[k].freed

LEMMA OwnersKept ==
  ASSUME NEW os, NEW new, SameOwners(os, new), NEW U, NEW xs
  PROVE  /\ Growing(os, U, xs) => Growing(new, U, xs)
         /\ Sound(os, U, xs) => Sound(new, U, xs)
<1>1. Owned(os, U, xs) => Owned(new, U, xs) BY DEF SameOwners, Owned
<1>2. AllOwn(os, xs) => AllOwn(new, xs) BY DEF SameOwners, AllOwn, HeaderOf
<1>3. Anchored(os, xs) => Anchored(new, xs) BY DEF SameOwners, Anchored
<1> QED BY <1>1, <1>2, <1>3 DEF SameOwners, Growing, Sound

LEMMA IORemoved ==
  ASSUME NEW r, Obj(r)
  PROVE  LET new == [r EXCEPT !.io = "none"]
         IN Obj(new) /\ new.io = "none" /\ new.file = r.file /\ new.freed = r.freed
<1>1. [r EXCEPT !.io = "none"] =
        [file |-> r.file, io |-> "none", loaded |-> r.loaded, freed |-> r.freed]
  <2> DEFINE F == {"file", "io", "loaded", "freed"}
  <2>1. r = [f \in F |-> r[f]]
    <3>1. r = [file |-> r.file, io |-> r.io, loaded |-> r.loaded, freed |-> r.freed] BY DEF Obj
    <3>2. [file |-> r.file, io |-> r.io, loaded |-> r.loaded, freed |-> r.freed]
            = [f \in F |-> r[f]] OBVIOUS
    <3> QED BY <3>1, <3>2, Zenon
  <2>2. [r EXCEPT !.io = "none"] = [f \in F |-> IF f = "io" THEN "none" ELSE r[f]]
    BY <2>1, Zenon
  <2> QED BY <2>2
<1> QED BY <1>1 DEF Obj

LEMMA ChainInit == Init => ChainInv
<1> SUFFICES ASSUME Init PROVE ChainInv OBVIOUS
<1>1. objs = <<>> /\ client = {} /\ xforms = <<>> /\ fault = FALSE /\ phase = "adding"
  BY DEF Init
<1>2. Len(<<>>) = 0 /\ List(<<>>) BY DEF List
<1> DEFINE none == <<>>
<1>3. Len(none) = 0 /\ List(none) BY <1>2
<1> HIDE DEF none
<1>4. Growing(none, {}, none) /\ LentTo(none, {})
  BY <1>3 DEF Growing, Objects, Owned, AllOwn, LentTo
<1>5. Growing(objs, client, xforms) /\ LentTo(objs, {}) BY <1>1, <1>4 DEF none
<1> QED BY <1>1, <1>5, GrowingIsSound DEF ChainInv

LEMMA ChainOpen ==
  ASSUME ChainInv, NEW f \in File, OpenProfile(f) PROVE ChainInv'
<1>1. /\ Growing(objs, client, xforms) /\ LentTo(objs, {}) /\ phase = "adding"
      /\ xforms' = xforms /\ phase' = phase /\ fault' = fault /\ fault = FALSE
      /\ objs' = Append(objs, NewObject(f, "own", {})) /\ client' = client \cup {Len(objs) + 1}
  BY DEF ChainInv, OpenProfile
<1> DEFINE os == objs'
<1>2. /\ Growing(os, client \cup {Len(objs) + 1}, xforms)
      /\ Len(os) = Len(objs) + 1
      /\ os[Len(objs) + 1] = NewObject(f, "own", {})
      /\ \A k \in 1 .. Len(objs) : os[k] = objs[k]
  BY <1>1, ObjectMade
<1>3. Len(objs) \in Nat BY <1>1 DEF Growing, Objects, List
<1>4. LentTo(os, {})
  <2>1. os[Len(objs) + 1].io = "own" BY <1>2 DEF NewObject
  <2>2. \A k \in 1 .. Len(os) : k \in 1 .. Len(objs) \/ k = Len(objs) + 1 BY <1>2, <1>3
  <2> HIDE DEF os
  <2> QED BY <1>1, <1>2, <2>1, <2>2 DEF LentTo
<1>5. Sound(os, client', xforms') /\ Growing(os, client', xforms')
  BY <1>1, <1>2, GrowingIsSound
<1> QED BY <1>1, <1>4, <1>5 DEF ChainInv

LEMMA ChainAdd ==
  ASSUME ChainInv, NEW o \in 1 .. MaxObjects, NEW lut \in LutTypes, AddXform(o, lut)
  PROVE  /\ ChainInv'
         /\ ret' # "Ok" => SameProfiles(xforms', xforms)
<1>1. /\ Growing(objs, client, xforms) /\ LentTo(objs, {}) /\ phase = "adding"
      /\ phase' = phase /\ fault' = fault /\ fault = FALSE
      /\ o \in client /\ client' = client \ {o}
  BY DEF ChainInv, AddXform
<1>2. PICK out \in AddOwned(objs, o, lut) : Took(out) /\ objs' = out.objs
  BY DEF AddXform
<1>3. xforms' = out.xforms /\ ret' = out.stat BY <1>2 DEF Took
<1>4. Settled(objs, client, o, {}, out)
  <2>1. {} \subseteq {o} OBVIOUS
  <2> QED BY <1>1, <2>1, AddSettles
<1>5. /\ Growing(out.objs, client \ {o}, out.xforms) /\ LentTo(out.objs, {})
      /\ out.stat # "Ok" => SameProfiles(out.xforms, xforms)
  <2>1. (IF out.stat = "Ok" /\ ~Encoding(objs, o) THEN {} ELSE {}) = {} OBVIOUS
  <2> QED BY <1>4, <2>1, Zenon DEF Settled
<1>6. /\ Growing(objs', client', xforms') /\ LentTo(objs', {})
      /\ ret' # "Ok" => SameProfiles(xforms', xforms)
  BY <1>1, <1>2, <1>3, <1>5, Zenon
<1> QED BY <1>1, <1>6, GrowingIsSound DEF ChainInv

LEMMA ChainAddByReference ==
  ASSUME ChainInv, NEW o \in 1 .. MaxObjects, NEW lut \in LutTypes, AddXformByReference(o, lut)
  PROVE  /\ ChainInv'
         /\ ret' # "Ok" => SameProfiles(xforms', xforms)
<1> DEFINE h == HeaderOf(objs, o)
           new == Len(objs) + 1
           f == objs[o].file
           io == IF objs[o].io = "none" THEN "none" ELSE "lent"
           loaded == objs[o].loaded
           os == Append(objs, NewObject(f, io, loaded))
           U == client \cup {new}
<1>1. /\ Growing(objs, client, xforms) /\ LentTo(objs, {}) /\ phase = "adding"
      /\ phase' = phase /\ fault = FALSE
      /\ o \in client /\ client' = client
  BY DEF ChainInv, AddXformByReference
<1>2. o \in 1 .. Len(objs) /\ f \in File BY <1>1 DEF Growing, Owned, Objects
<1>3. \/ /\ objs' = Delete(os, new) /\ ret' = "InvalidProfile"
         /\ xforms' = xforms /\ fault' = fault
      \/ \E out \in AddOwned(os, new, lut) :
           /\ Took(out)
           /\ objs' = IF GivesBack(out.stat, h.class) THEN [out.objs EXCEPT ![new].io = "none"]
                      ELSE out.objs
           /\ fault' = (fault \/ (GivesBack(out.stat, h.class) /\ out.objs[new].freed > 0))
  BY Zenon DEF AddXformByReference
<1> HIDE DEF io, loaded
<1>4. /\ Growing(os, U, xforms) /\ Len(os) = new /\ new \in 1 .. Len(os)
      /\ os[new] = NewObject(f, io, loaded)
      /\ \A k \in 1 .. Len(objs) : os[k] = objs[k]
  BY <1>1, <1>2, ObjectMade
<1>5. Len(objs) \in Nat BY <1>1 DEF Growing, Objects, List
<1>6. new \in U /\ U \ {new} = client
  <2>1. new \notin client BY <1>1, <1>5 DEF Growing, Owned
  <2> QED BY <2>1
<1>7. Encoding(os, new) <=> h.class = "Enc"
  BY <1>4 DEF Encoding, HeaderOf, NewObject
<1> HIDE DEF os, U, h
<1>8. LentTo(os, {new})
  <2>1. \A k \in 1 .. Len(os) : k \in 1 .. Len(objs) \/ k = new BY <1>4, <1>5
  <2> QED BY <1>1, <1>4, <2>1 DEF LentTo
<1> HIDE DEF new
<1>9. CASE /\ objs' = Delete(os, new) /\ ret' = "InvalidProfile"
           /\ xforms' = xforms /\ fault' = fault
  <2> DEFINE ds == Delete(os, new)
  <2>1. /\ Growing(ds, U \ {new}, xforms) /\ Len(ds) = Len(os) /\ ds[new].io = "none"
        /\ \A k \in 1 .. Len(os) : k # new => ds[k] = os[k]
    BY <1>4, <1>6, DeletedOutside
  <2> HIDE DEF ds
  <2>2. LentTo(ds, {}) BY <1>8, <2>1 DEF LentTo
  <2>3. SameProfiles(xforms, xforms) BY DEF SameProfiles
  <2>4. objs' = ds BY <1>9 DEF ds
  <2>5. Growing(objs', client', xforms') /\ LentTo(objs', {})
    BY <1>1, <1>6, <1>9, <2>1, <2>2, <2>4, Zenon
  <2> QED BY <1>1, <1>9, <2>3, <2>5, GrowingIsSound DEF ChainInv
<1>10. CASE \E out \in AddOwned(os, new, lut) :
           /\ Took(out)
           /\ objs' = IF GivesBack(out.stat, h.class) THEN [out.objs EXCEPT ![new].io = "none"]
                      ELSE out.objs
           /\ fault' = (fault \/ (GivesBack(out.stat, h.class) /\ out.objs[new].freed > 0))
  <2>1. PICK out \in AddOwned(os, new, lut) :
           /\ Took(out)
           /\ objs' = IF GivesBack(out.stat, h.class) THEN [out.objs EXCEPT ![new].io = "none"]
                      ELSE out.objs
           /\ fault' = (fault \/ (GivesBack(out.stat, h.class) /\ out.objs[new].freed > 0))
    BY <1>10
  <2>2. xforms' = out.xforms /\ ret' = out.stat BY <2>1 DEF Took
  <2>3. Settled(os, U, new, {new}, out)
    <3>1. {new} \subseteq {new} /\ Growing(os, U, xforms) /\ new \in U /\ LentTo(os, {new})
      BY <1>4, <1>6, <1>8
    <3> QED BY <3>1, AddSettles
  <2> DEFINE back == GivesBack(out.stat, h.class)
  <2>4. back <=> out.stat = "Ok" /\ ~Encoding(os, new) BY <1>7 DEF GivesBack
  <2>5. /\ Growing(out.objs, client, out.xforms)
        /\ LentTo(out.objs, IF back THEN {new} ELSE {})
        /\ back => out.objs[new].freed = 0
        /\ out.stat # "Ok" => SameProfiles(out.xforms, xforms)
        /\ new \in 1 .. Len(out.objs)
    <3>1. Len(out.objs) \in Nat BY <2>3 DEF Settled, Growing, Objects, List
    <3>2. new \in 1 .. Len(out.objs) BY <1>4, <2>3, <3>1 DEF Settled
    <3>3. LentTo(out.objs, IF back THEN {new} ELSE {}) BY <2>3, <2>4, Zenon DEF Settled
    <3> QED BY <1>6, <2>3, <2>4, <3>2, <3>3, Zenon DEF Settled
  <2>6. CASE ~back
    <3>1. objs' = out.objs /\ fault' = FALSE BY <1>1, <2>1, <2>6
    <3>2. LentTo(out.objs, {}) BY <2>5, <2>6, Zenon
    <3>3. Growing(objs', client', xforms') /\ LentTo(objs', {})
      BY <1>1, <2>2, <2>5, <3>1, <3>2, Zenon
    <3> QED BY <1>1, <2>2, <2>5, <3>1, <3>3, GrowingIsSound DEF ChainInv
  <2>7. CASE back
    <3> DEFINE was == out.objs
               r == [was[new] EXCEPT !.io = "none"]
    <3>1. objs' = [was EXCEPT ![new] = r] BY <2>1, <2>7
    <3>2. fault' = FALSE
      <4>1. ~(out.objs[new].freed > 0) BY <2>5, <2>7
      <4> QED BY <1>1, <2>1, <4>1
    <3>3. Objects(was) /\ new \in 1 .. Len(was) BY <2>5 DEF Growing
    <3>4. Obj(was[new]) /\ was[new].file \in File /\ was[new].freed \in {0, 1}
      BY <3>3 DEF Objects
    <3>5. Obj(r) /\ r.io = "none" /\ r.file = was[new].file /\ r.freed = was[new].freed
      BY <3>4, IORemoved
    <3> DEFINE is == [was EXCEPT ![new] = r]
    <3> HIDE DEF r, was
    <3>6. /\ Objects(is) /\ Len(is) = Len(was) /\ is[new] = r
          /\ \A k \in 1 .. Len(was) : k # new => is[k] = was[k]
      BY <3>3, <3>4, <3>5, Changed
    <3> HIDE DEF is
    <3>7. SameOwners(was, is) BY <3>3, <3>5, <3>6 DEF SameOwners
    <3>8. LentTo(was, {new}) BY <2>5, <2>7, Zenon DEF was
    <3>9. LentTo(is, {}) BY <3>5, <3>6, <3>8 DEF LentTo
    <3>10. Growing(is, client, out.xforms) BY <2>5, <3>7, OwnersKept DEF was
    <3>11. Growing(objs', client', xforms') /\ LentTo(objs', {})
      BY <1>1, <2>2, <3>1, <3>9, <3>10, Zenon DEF is
    <3> QED BY <1>1, <2>2, <2>5, <3>2, <3>11, GrowingIsSound DEF ChainInv
  <2> QED BY <2>6, <2>7
<1> QED BY <1>3, <1>9, <1>10

LEMMA ChainBegin ==
  ASSUME ChainInv, NEW alloc \in BOOLEAN, Begin(alloc) PROVE ChainInv' /\ phase' # "adding"
<1> DEFINE dest == IF destSpace = NoSpace THEN lastSpace ELSE destSpace
<1>1. /\ Growing(objs, client, xforms) /\ LentTo(objs, {}) /\ fault = FALSE
      /\ objs' = objs /\ client' = client /\ fault' = fault
  BY DEF ChainInv, Begin
<1>2. PICK out \in Begun(dest, alloc) :
        xforms' = out.xforms /\ phase' = IF out.stat = "Ok" THEN "begun" ELSE "failed"
  BY DEF Begin
<1>3. Sound(objs, client, out.xforms)
  <2> HIDE DEF dest
  <2> QED BY <1>1, BegunSound
<1>4. phase' # "adding" BY <1>2
<1>5. Sound(objs', client', xforms') /\ LentTo(objs', {}) BY <1>1, <1>2, <1>3, Zenon
<1> QED BY <1>1, <1>4, <1>5 DEF ChainInv

LEMMA ChainNewApply ==
  ASSUME ChainInv, NewApply PROVE ChainInv' /\ phase' # "adding"
<1>1. /\ objs' = objs /\ client' = client /\ xforms' = xforms /\ phase' = phase
      /\ fault' = fault /\ phase = "begun"
  BY DEF NewApply
<1>2. Sound(objs', client', xforms') /\ LentTo(objs', {}) BY <1>1, Zenon DEF ChainInv
<1> QED BY <1>1, <1>2 DEF ChainInv

LEMMA ChainRemoveAllIO ==
  ASSUME ChainInv, RemoveAllIO PROVE ChainInv' /\ phase' # "adding"
<1>1. /\ client' = client /\ xforms' = xforms /\ phase' = phase
      /\ fault' = fault /\ phase = "begun" /\ fault = FALSE
      /\ Sound(objs, client, xforms) /\ LentTo(objs, {})
  BY DEF RemoveAllIO, ChainInv
<1>2. CASE objs' = objs
  <2>1. Sound(objs', client', xforms') /\ LentTo(objs', {}) BY <1>1, <1>2, Zenon
  <2> QED BY <1>1, <2>1 DEF ChainInv
<1>3. CASE objs' = [o \in DOMAIN objs |->
                      IF \E i \in DOMAIN xforms : xforms[i].prof = o
                      THEN [objs[o] EXCEPT !.io = "none"] ELSE objs[o]]
  <2> DEFINE is == objs'
  <2>1. Objects(objs) /\ DOMAIN objs = 1 .. Len(objs) /\ Len(objs) \in Nat
    BY <1>1, ListDomain DEF Sound, Objects, List
  <2>2. /\ is = [o \in 1 .. Len(objs) |-> is[o]]
        /\ \A o \in 1 .. Len(objs) : is[o] = objs[o] \/ is[o] = [objs[o] EXCEPT !.io = "none"]
    BY <1>3, <2>1, Zenon
  <2>3. ASSUME NEW o \in 1 .. Len(objs)
        PROVE  /\ Obj(is[o]) /\ is[o].file = objs[o].file /\ is[o].freed = objs[o].freed
               /\ is[o].io \in {"none", objs[o].io}
    <3>1. Obj(objs[o]) BY <2>1 DEF Objects
    <3> DEFINE r == [objs[o] EXCEPT !.io = "none"]
    <3>2. Obj(r) /\ r.io = "none" /\ r.file = objs[o].file /\ r.freed = objs[o].freed
      BY <3>1, IORemoved
    <3>3. is[o] = objs[o] \/ is[o] = r BY <2>2
    <3> HIDE DEF r, is
    <3> QED BY <3>1, <3>2, <3>3
  <2> HIDE DEF is
  <2>4. List(is) /\ Len(is) = Len(objs) BY <2>1, <2>2, FunctionIsList
  <2>5. Objects(is) BY <2>1, <2>3, <2>4 DEF Objects
  <2>6. SameOwners(objs, is) BY <2>3, <2>4, <2>5 DEF SameOwners
  <2>7. LentTo(is, {}) BY <1>1, <2>3, <2>4 DEF LentTo
  <2>8. Sound(is, client, xforms) BY <1>1, <2>6, OwnersKept
  <2>9. Sound(objs', client', xforms') /\ LentTo(objs', {}) BY <1>1, <2>7, <2>8, Zenon DEF is
  <2> QED BY <1>1, <2>9 DEF ChainInv
<1> QED BY <1>2, <1>3 DEF RemoveAllIO

(* The transforms that own an object are one, or none.                       *)
LEMMA OwnersCounted ==
  ASSUME Sound(objs, client, xforms), NEW o \in 1 .. Len(objs)
  PROVE  /\ OwnersOf(o) = {i \in 1 .. Len(xforms) : OwnsIt(xforms[i], o)}
         /\ (\A i \in 1 .. Len(xforms) : ~OwnsIt(xforms[i], o)) => Cardinality(OwnersOf(o)) = 0
         /\ (\E i \in 1 .. Len(xforms) : OwnsIt(xforms[i], o)) => Cardinality(OwnersOf(o)) = 1
<1>1. DOMAIN xforms = 1 .. Len(xforms) BY ListDomain DEF Sound
<1> DEFINE S == {i \in 1 .. Len(xforms) : OwnsIt(xforms[i], o)}
<1>2. OwnersOf(o) = S BY <1>1 DEF OwnersOf, OwnsIt
<1>3. (\A i \in 1 .. Len(xforms) : ~OwnsIt(xforms[i], o)) => Cardinality(S) = 0
  <2>1. (\A i \in 1 .. Len(xforms) : ~OwnsIt(xforms[i], o)) => S = {} OBVIOUS
  <2> QED BY <2>1, FS_EmptySet
<1>4. ASSUME NEW i \in 1 .. Len(xforms), OwnsIt(xforms[i], o) PROVE Cardinality(S) = 1
  <2>1. \A j \in 1 .. Len(xforms) : OwnsIt(xforms[j], o) => j = i
    BY <1>4 DEF Sound, Owned
  <2>2. S = {i} BY <1>4, <2>1
  <2> QED BY <2>2, FS_Singleton
<1> QED BY <1>2, <1>3, <1>4

LEMMA ChainDelete ==
  ASSUME ChainInv, DeleteCmm PROVE ChainInv' /\ phase' # "adding"
<1> DEFINE is == objs'
           none == xforms'
<1>1. /\ client' = client /\ none = <<>> /\ phase' = "deleted" /\ fault' = fault
      /\ Sound(objs, client, xforms) /\ LentTo(objs, {}) /\ fault = FALSE
      /\ is = [o \in DOMAIN objs |->
                IF OwnersOf(o) = {} THEN objs[o]
                ELSE [Delete(objs, o)[o] EXCEPT
                        !.freed = objs[o].freed + Cardinality(OwnersOf(o))]]
  BY DEF ChainInv, DeleteCmm
<1>2. Objects(objs) /\ DOMAIN objs = 1 .. Len(objs) /\ Len(objs) \in Nat
  BY <1>1, ListDomain DEF Sound, Objects, List
<1>3. is = [o \in 1 .. Len(objs) |-> is[o]] BY <1>1, <1>2, Zenon
<1>4. List(is) /\ Len(is) = Len(objs)
  <2> HIDE DEF is
  <2> QED BY <1>2, <1>3, FunctionIsList
<1>5. ASSUME NEW o \in 1 .. Len(objs)
      PROVE  /\ Obj(is[o]) /\ is[o].file \in File /\ is[o].freed \in {0, 1}
             /\ is[o].freed = 0 <=> o \in client
             /\ is[o].io \in {"none", objs[o].io}
  <2>1. Obj(objs[o]) /\ objs[o].file \in File /\ objs[o].freed \in {0, 1} BY <1>2 DEF Objects
  <2>2. /\ OwnersOf(o) = {i \in 1 .. Len(xforms) : OwnsIt(xforms[i], o)}
        /\ (\A i \in 1 .. Len(xforms) : ~OwnsIt(xforms[i], o)) => Cardinality(OwnersOf(o)) = 0
        /\ (\E i \in 1 .. Len(xforms) : OwnsIt(xforms[i], o)) => Cardinality(OwnersOf(o)) = 1
    BY <1>1, OwnersCounted
  <2>3. /\ is[o] = IF OwnersOf(o) = {} THEN objs[o]
                   ELSE [Delete(objs, o)[o] EXCEPT
                           !.freed = objs[o].freed + Cardinality(OwnersOf(o))]
    BY <1>1, <1>2, Zenon
  <2> HIDE DEF OwnsIt, is
  <2>4. /\ o \in client => OwnersOf(o) = {} /\ objs[o].freed = 0
        /\ OwnersOf(o) # {} => objs[o].freed = 0
        /\ o \notin client /\ objs[o].freed = 0 => OwnersOf(o) # {}
    BY <1>1, <2>1, <2>2 DEF Sound, Owned
  <2>5. CASE OwnersOf(o) = {}
    <3>1. is[o] = objs[o] BY <2>3, <2>5
    <3> QED BY <2>1, <2>4, <2>5, <3>1
  <2>6. CASE OwnersOf(o) # {}
    <3> DEFINE d == Delete(objs, o)[o]
    <3>1. Objects(Delete(objs, o)) /\ d.freed = 1 /\ d.io = "none" /\ d.file = objs[o].file
          /\ Len(Delete(objs, o)) = Len(objs)
      BY <1>2, <2>4, <2>6, DeletedFacts
    <3>2. Obj(d) BY <3>1 DEF Objects
    <3>3. objs[o].freed + Cardinality(OwnersOf(o)) = 1
      <4>1. \E i \in 1 .. Len(xforms) : OwnsIt(xforms[i], o) BY <2>2, <2>6
      <4> QED BY <2>2, <2>4, <2>6, <4>1
    <3>4. is[o] = [d EXCEPT !.freed = 1] BY <2>3, <2>6, <3>3, Zenon
    <3> HIDE DEF d
    <3>5. [d EXCEPT !.freed = 1] = d
      <4>1. d = [file |-> d.file, io |-> d.io, loaded |-> d.loaded, freed |-> 1]
        BY <3>1, <3>2 DEF Obj
      <4> QED BY <3>1, <4>1
    <3>6. is[o] = d BY <3>4, <3>5
    <3> QED BY <2>1, <2>4, <2>6, <3>1, <3>2, <3>6
  <2> QED BY <2>5, <2>6
<1> HIDE DEF is
<1>6. Objects(is) /\ LentTo(is, {})
  <2>1. Objects(is) BY <1>4, <1>5 DEF Objects
  <2>2. LentTo(is, {}) BY <1>1, <1>4, <1>5 DEF LentTo
  <2> QED BY <2>1, <2>2
<1>7. Len(none) = 0 /\ List(none)
  <2>1. Len(<<>>) = 0 /\ List(<<>>) BY DEF List
  <2> QED BY <1>1, <2>1
<1> HIDE DEF none
<1>8. Sound(is, client, none)
  <2>1. client \subseteq 1 .. Len(is) BY <1>1, <1>4 DEF Sound, Owned
  <2>2. Owned(is, client, none) BY <1>4, <1>5, <1>7, <2>1 DEF Owned
  <2>3. Anchored(is, none) BY <1>7 DEF Anchored
  <2> QED BY <1>6, <1>7, <2>2, <2>3 DEF Sound
<1>9. Sound(objs', client', xforms') /\ LentTo(objs', {})
  BY <1>1, <1>6, <1>8, Zenon DEF is, none
<1> QED BY <1>1, <1>9 DEF ChainInv

LEMMA ChainNext ==
  ASSUME ChainInv, [Next]_vars
  PROVE  /\ ChainInv'
         /\ Next /\ phase' = "adding" /\ ret' # "Ok" => SameProfiles(xforms', xforms)
<1>1. CASE UNCHANGED vars
  <2>1. /\ objs' = objs /\ client' = client /\ xforms' = xforms /\ phase' = phase
        /\ fault' = fault
    BY <1>1 DEF vars
  <2>2. ChainInv' BY <2>1, Zenon DEF ChainInv
  <2>3. SameProfiles(xforms', xforms) BY <2>1 DEF SameProfiles
  <2> QED BY <2>2, <2>3
<1>2. ASSUME NEW f \in File, OpenProfile(f)
      PROVE  ChainInv' /\ SameProfiles(xforms', xforms)
  <2>1. SameProfiles(xforms', xforms) BY <1>2 DEF OpenProfile, SameProfiles
  <2> QED BY <1>2, <2>1, ChainOpen
<1> QED BY <1>1, <1>2, ChainAdd, ChainAddByReference, ChainBegin, ChainNewApply,
           ChainRemoveAllIO, ChainDelete DEF Next

LEMMA ChainInvariant == Spec => []ChainInv
<1>1. ChainInv /\ [Next]_vars => ChainInv' BY ChainNext
<1> QED BY ChainInit, <1>1, PTL DEF Spec

-----------------------------------------------------------------------------
(* Levels are a field in which every level has one cube root. *)

LEMMA Product ==
  ASSUME NEW a \in Nat, NEW b \in Nat PROVE a * b \in Nat
BY SMT

LEMMA RemainderIs ==
  ASSUME NEW a \in Nat, NEW b \in Nat, b > 0, NEW q \in Int, NEW r \in 0 .. b - 1, a = b * q + r
  PROVE  a % b = r
<1> DEFINE d == a \div b
           m == a % b
<1>1. d \in Int /\ m \in 0 .. b - 1 /\ a = b * d + m BY SMT
<1> HIDE DEF d, m
<1>2. b * (d - q) = r - m
  <2>1. b * (d - q) = b * d - b * q BY <1>1
  <2>2. b * d \in Int /\ b * q \in Int BY <1>1
  <2> QED BY <1>1, <2>1, <2>2
<1>3. ~(d - q >= 1)
  <2> SUFFICES ASSUME d - q >= 1 PROVE FALSE OBVIOUS
  <2> DEFINE e == d - q - 1
  <2>1. e \in Nat BY <1>1
  <2>2. b * e \in Nat BY <2>1, Product
  <2>3. b * (d - q) = b * e + b BY <1>1
  <2> HIDE DEF e
  <2> QED BY <1>1, <1>2, <2>2, <2>3
<1>4. ~(q - d >= 1)
  <2> SUFFICES ASSUME q - d >= 1 PROVE FALSE OBVIOUS
  <2> DEFINE e == q - d - 1
  <2>1. e \in Nat BY <1>1
  <2>2. b * e \in Nat BY <2>1, Product
  <2>3. b * (d - q) = -(b * e + b) BY <1>1
  <2> HIDE DEF e
  <2> QED BY <1>1, <1>2, <2>2, <2>3
<1>5. d = q BY <1>1, <1>3, <1>4
<1>6. m = r BY <1>1, <1>5
<1> QED BY <1>6 DEF m

LEMMA RemainderOf ==
  ASSUME NEW a \in Nat, NEW b \in Nat, b > 0
  PROVE  a % b \in 0 .. b - 1 /\ \E q \in Int : a = b * q + (a % b)
<1> DEFINE q == a \div b
<1>1. q \in Int /\ a % b \in 0 .. b - 1 /\ a = b * q + (a % b) BY SMT
<1> HIDE DEF q
<1> QED BY <1>1

LEMMA RemainderOfSum ==
  ASSUME NEW a \in Nat, NEW c \in Nat, NEW b \in Nat, b > 0
  PROVE  ((a % b) + c) % b = (a + c) % b
<1> DEFINE r == a % b
           s == (r + c) % b
<1>1. PICK q \in Int : a = b * q + r BY RemainderOf
<1>2. r \in Nat BY RemainderOf
<1> HIDE DEF r
<1>3. r + c \in Nat BY <1>2
<1>4. s \in 0 .. b - 1 BY <1>3, RemainderOf
<1>5. PICK p \in Int : r + c = b * p + s BY <1>3, RemainderOf
<1> HIDE DEF s
<1>6. a + c = b * (q + p) + s
  <2>1. b * (q + p) = b * q + b * p /\ b * q \in Int /\ b * p \in Int OBVIOUS
  <2> QED BY <1>1, <1>2, <1>4, <1>5, <2>1
<1>7. (a + c) % b = s
  <2>1. q + p \in Int /\ a + c \in Nat OBVIOUS
  <2> QED BY <1>4, <1>6, <2>1, RemainderIs
<1> QED BY <1>7 DEF r, s

LEMMA RemainderOfProduct ==
  ASSUME NEW a \in Nat, NEW c \in Nat, NEW b \in Nat, b > 0
  PROVE  ((a % b) * c) % b = (a * c) % b
<1> DEFINE r == a % b
           s == (r * c) % b
<1>1. PICK q \in Int : a = b * q + r BY RemainderOf
<1>2. r \in Nat BY RemainderOf
<1> HIDE DEF r
<1>3. r * c \in Nat /\ a * c \in Nat BY <1>2, Product
<1>4. s \in 0 .. b - 1 BY <1>3, RemainderOf
<1>5. PICK p \in Int : r * c = b * p + s BY <1>3, RemainderOf
<1> HIDE DEF s
<1>6. a * c = b * (q * c + p) + s
  <2>1. a * c = (b * q) * c + r * c
    <3>1. b * q \in Int OBVIOUS
    <3> QED BY <1>1, <1>2, <3>1
  <2>2. (b * q) * c = b * (q * c) OBVIOUS
  <2>3. q * c \in Int /\ b * (q * c + p) = b * (q * c) + b * p OBVIOUS
  <2>4. b * (q * c) \in Int /\ b * p \in Int BY <2>3
  <2> QED BY <1>3, <1>4, <1>5, <2>1, <2>2, <2>3, <2>4
<1>7. (a * c) % b = s
  <2>1. q * c + p \in Int OBVIOUS
  <2> QED BY <1>3, <1>4, <1>6, <2>1, RemainderIs
<1> QED BY <1>7 DEF r, s

Plus(a, b) == (a + b) % Modulus

LEMMA ModulusIs == Modulus \in Nat /\ Modulus > 1 /\ 0 \in Level /\ 1 \in Level
BY LevelsAssumption DEF Level

LEMMA Ring ==
  ASSUME NEW a \in Level, NEW b \in Level, NEW c \in Level
  PROVE  /\ Mult(a, b) \in Level /\ Mult(a, b) = Mult(b, a) /\ Mult(a, 1) = a /\ Mult(a, 0) = 0
         /\ Mult(Mult(a, b), c) = Mult(a, Mult(b, c))
         /\ Plus(a, b) \in Level /\ Plus(a, 0) = a
         /\ Plus(Plus(a, b), c) = Plus(a, Plus(b, c))
         /\ Mult(a, Plus(b, c)) = Plus(Mult(a, b), Mult(a, c))
<1> DEFINE m == Modulus
<1>1. m \in Nat /\ m > 0 /\ a \in Nat /\ b \in Nat /\ c \in Nat
      /\ a \in 0 .. m - 1 /\ b \in 0 .. m - 1
  BY ModulusIs DEF Level
<1> HIDE DEF m
<1>2. a * b \in Nat /\ b * c \in Nat /\ a * c \in Nat /\ a * b = b * a BY <1>1, Product
<1>3. \A n \in Nat : n % m \in Level /\ n % m \in Nat BY <1>1, RemainderOf DEF Level, m
<1>4. \A n \in 0 .. m - 1 : n % m = n
  <2> TAKE n \in 0 .. m - 1
  <2>1. n = m * 0 + n /\ n \in Nat BY <1>1
  <2> QED BY <1>1, <2>1, RemainderIs
<1>5. Mult(a, b) \in Level /\ Mult(a, b) = Mult(b, a) BY <1>2, <1>3 DEF Mult, m
<1>6. Mult(a, 1) = a /\ Mult(a, 0) = 0
  <2>1. a * 1 = a /\ a * 0 = 0 /\ 0 \in 0 .. m - 1 BY <1>1
  <2>2. a % m = a /\ 0 % m = 0 BY <1>1, <1>4, <2>1
  <2> QED BY <2>1, <2>2 DEF Mult, m
<1>7. Mult(Mult(a, b), c) = Mult(a, Mult(b, c))
  <2>1. Mult(Mult(a, b), c) = ((a * b) * c) % m BY <1>1, <1>2, RemainderOfProduct DEF Mult, m
  <2>2. Mult(a, Mult(b, c)) = (((b * c) % m) * a) % m
    <3> DEFINE n == (b * c) % m
    <3>1. n \in Nat BY <1>2, <1>3
    <3> HIDE DEF n
    <3>2. a * n = n * a BY <1>1, <3>1
    <3> QED BY <3>2 DEF n, Mult, m
  <2>3. (((b * c) % m) * a) % m = ((b * c) * a) % m BY <1>1, <1>2, RemainderOfProduct
  <2>4. (a * b) * c = (b * c) * a BY <1>1
  <2> QED BY <2>1, <2>2, <2>3, <2>4
<1>8. Plus(a, b) \in Level /\ Plus(a, 0) = a
  <2>1. a + b \in Nat /\ a + 0 = a BY <1>1
  <2> QED BY <1>1, <1>3, <1>4, <2>1 DEF Plus, m
<1>9. Plus(Plus(a, b), c) = Plus(a, Plus(b, c))
  <2>1. a + b \in Nat /\ b + c \in Nat BY <1>1
  <2>2. Plus(Plus(a, b), c) = ((a + b) + c) % m BY <1>1, <2>1, RemainderOfSum DEF Plus, m
  <2>3. Plus(a, Plus(b, c)) = (((b + c) % m) + a) % m
    <3> DEFINE n == (b + c) % m
    <3>1. n \in Nat BY <1>3, <2>1
    <3> HIDE DEF n
    <3>2. a + n = n + a BY <1>1, <3>1
    <3> QED BY <3>2 DEF n, Plus, m
  <2>4. (((b + c) % m) + a) % m = ((b + c) + a) % m BY <1>1, <2>1, RemainderOfSum
  <2>5. (a + b) + c = (b + c) + a BY <1>1
  <2> QED BY <2>2, <2>3, <2>4, <2>5
<1>10. Mult(a, Plus(b, c)) = Plus(Mult(a, b), Mult(a, c))
  <2>1. b + c \in Nat BY <1>1
  <2>2. Mult(a, Plus(b, c)) = (((b + c) % m) * a) % m
    <3> DEFINE n == (b + c) % m
    <3>1. n \in Nat BY <1>3, <2>1
    <3> HIDE DEF n
    <3>2. a * n = n * a BY <1>1, <3>1
    <3> QED BY <3>2 DEF n, Plus, Mult, m
  <2>3. (((b + c) % m) * a) % m = ((b + c) * a) % m BY <1>1, <2>1, RemainderOfProduct
  <2>4. Plus(Mult(a, b), Mult(a, c)) = (a * b + ((a * c) % m)) % m
    <3> DEFINE n == (a * c) % m
    <3>1. n \in Nat BY <1>2, <1>3
    <3>2. Plus(Mult(a, b), Mult(a, c)) = (((a * b) % m) + n) % m BY DEF Plus, Mult, m
    <3> HIDE DEF n
    <3>3. (((a * b) % m) + n) % m = (a * b + n) % m
      <4> DEFINE p == a * b
      <4>1. p \in Nat BY <1>2
      <4> HIDE DEF p
      <4>2. ((p % m) + n) % m = (p + n) % m BY <1>1, <3>1, <4>1, RemainderOfSum
      <4> QED BY <4>2 DEF p
    <3> QED BY <3>2, <3>3 DEF n
  <2>5. (a * b + ((a * c) % m)) % m = (a * c + a * b) % m
    <3> DEFINE n == (a * c) % m
    <3>1. n \in Nat BY <1>2, <1>3
    <3>2. (n + a * b) % m = (a * c + a * b) % m BY <1>1, <1>2, RemainderOfSum
    <3> HIDE DEF n
    <3>3. a * b + n = n + a * b BY <1>2, <3>1
    <3> QED BY <3>2, <3>3 DEF n
  <2>6. (b + c) * a = a * c + a * b BY <1>1
  <2> QED BY <2>2, <2>3, <2>4, <2>5, <2>6
<1> QED BY <1>5, <1>6, <1>7, <1>8, <1>9, <1>10

LEMMA InverseOf ==
  ASSUME NEW a \in Level, a # 0
  PROVE  /\ Inv[a] \in Level /\ Inv[a] # 0 /\ Mult(a, Inv[a]) = 1
         /\ \A b \in Level : /\ Mult(a, b) = 1 => b = Inv[a]
                             /\ b # 0 => Mult(a, b) # 0
<1> DEFINE i == CHOOSE b \in Level : Mult(a, b) = 1
<1>1. Inv[a] = i BY DEF Inv
<1>2. \E b \in Level : Mult(a, b) = 1 BY LevelsAssumption DEF Mult
<1>3. i \in Level /\ Mult(a, i) = 1 BY <1>2
<1> HIDE DEF i
<1>4. i # 0 BY <1>3, Ring, ModulusIs
<1>5. ASSUME NEW b \in Level PROVE Mult(i, Mult(a, b)) = b
  <2>1. Mult(i, Mult(a, b)) = Mult(Mult(i, a), b) BY <1>3, Ring
  <2>2. Mult(i, a) = 1 BY <1>3, Ring
  <2>3. Mult(1, b) = b BY Ring, ModulusIs
  <2> QED BY <2>1, <2>2, <2>3
<1>6. Mult(i, 1) = i /\ Mult(i, 0) = 0 BY <1>3, Ring
<1>7. ASSUME NEW b \in Level
      PROVE  (Mult(a, b) = 1 => b = i) /\ (b # 0 => Mult(a, b) # 0)
  BY <1>5, <1>6
<1> QED BY <1>1, <1>3, <1>4, <1>7

LEMMA CubeIn == ASSUME NEW a \in Level PROVE Cube(a) \in Level
<1>1. Modulus \in Nat /\ Modulus > 0 /\ a \in Nat BY ModulusIs DEF Level
<1> DEFINE n == a * a * a
<1>2. n \in Nat BY <1>1, Product
<1> HIDE DEF n
<1>3. n % Modulus \in Level BY <1>1, <1>2, RemainderOf DEF Level
<1> QED BY <1>3 DEF n, Cube

LEMMA RootOf ==
  ASSUME NEW a \in Level
  PROVE  Root[a] \in Level /\ Cube(Root[a]) = a /\ Root[Cube(a)] = a
<1> DEFINE C == [b \in Level |-> Cube(b)]
<1>1. C \in Surjection(Level, Level)
  <2>1. C \in [Level -> Level] BY CubeIn
  <2>2. \A b \in Level : \E c \in Level : C[c] = b BY LevelsAssumption
  <2> QED BY <2>1, <2>2 DEF Surjection
<1>2. IsFiniteSet(Level)
  <2>1. 0 \in Int /\ Modulus - 1 \in Int BY ModulusIs
  <2> QED BY <2>1, FS_Interval DEF Level
<1>3. C \in Injection(Level, Level) BY <1>1, <1>2, FS_SurjSameCardinalityImpliesInj
<1>4. \A b \in Level, c \in Level : Cube(b) = Cube(c) => b = c BY <1>3 DEF Injection, IsInjective
<1>5. ASSUME NEW b \in Level PROVE Root[b] \in Level /\ Cube(Root[b]) = b
  <2> DEFINE r == CHOOSE c \in Level : Cube(c) = b
  <2>1. Root[b] = r BY DEF Root
  <2>2. \E c \in Level : Cube(c) = b BY LevelsAssumption
  <2>3. r \in Level /\ Cube(r) = b BY <2>2
  <2> QED BY <2>1, <2>3
<1>6. Root[Cube(a)] = a BY <1>4, <1>5, CubeIn
<1> QED BY <1>5, <1>6

(* What holds of 0 and is handed on up to n holds of n. *)
LEMMA UpTo ==
  ASSUME NEW n \in Nat, NEW S, 0 \in S, \A k \in 0 .. n - 1 : k \in S => k + 1 \in S
  PROVE  n \in S
<1> DEFINE Bad == {k \in 0 .. n : k \notin S}
<1> SUFFICES ASSUME n \notin S PROVE FALSE OBVIOUS
<1>1. n \in Bad /\ Bad \subseteq Nat OBVIOUS
<1>2. PICK m \in Bad : \A k \in Bad : <<k, m>> \notin OpToRel(<, Nat)
  BY <1>1, NatLessThanWellFounded, WFMin, Zenon
<1>3. \A k \in Bad : ~(k < m) BY <1>1, <1>2, Zenon DEF OpToRel
<1>4. m # 0 /\ m \in 0 .. n OBVIOUS
<1>5. m - 1 \in 0 .. n - 1 /\ m - 1 < m BY <1>4
<1>6. m - 1 \in S BY <1>3, <1>5
<1>7. m - 1 + 1 \in S BY <1>5, <1>6
<1> QED BY <1>4, <1>7

(* A step of the fold that Pass makes. *)
Combined(acc, step) ==
  LET joined == Concat(acc.step, step)
  IN IF joined # NoStep THEN [acc EXCEPT !.step = joined, !.joined = TRUE]
     ELSE [acc EXCEPT !.list = Kept(@, acc.step), !.step = step]

StartOf(steps) == [list |-> <<>>, step |-> steps[1], joined |-> FALSE]

LEMMA PassFolds ==
  ASSUME NEW steps
  PROVE LET rest == Tail(steps)
            iter[s \in SUBSET DOMAIN rest] ==
              IF s = {} THEN StartOf(steps) ELSE Combined(iter[s \ {Max(s)}], rest[Max(s)])
            end == iter[DOMAIN rest]
        IN Pass(steps) = [list |-> Kept(end.list, end.step), joined |-> end.joined]
BY Zenon DEF Pass, FoldLeft, MapThenFoldSet, Combined, StartOf

LEMMA MaxOf ==
  ASSUME NEW n \in Nat, NEW s \in SUBSET (1 .. n), n \in s PROVE Max(s) = n
<1>1. n \in s /\ \A y \in s : n >= y OBVIOUS
<1>2. \A x \in s : (\A y \in s : x >= y) => x = n OBVIOUS
<1> QED BY <1>1, <1>2 DEF Max

LEMMA TailIs ==
  ASSUME NEW s, List(s), Len(s) > 0
  PROVE  /\ DOMAIN Tail(s) = 1 .. Len(s) - 1
         /\ \A k \in 1 .. Len(s) - 1 : Tail(s)[k] = s[k + 1]
<1> DEFINE S == {s[k] : k \in 1 .. Len(s)}
<1>1. s \in [1 .. Len(s) -> S] BY DEF List
<1>2. s \in Seq(S) /\ Len(s) \in Nat BY <1>1 DEF List
<1> HIDE DEF S
<1>3. s # <<>> BY <1>2
<1> QED BY <1>2, <1>3

(* How the accumulator goes on from each step to the next. *)
LEMMA PassRuns ==
  ASSUME NEW steps, List(steps), Len(steps) > 0
  PROVE  \E acc :
           /\ acc[1] = StartOf(steps)
           /\ \A k \in 2 .. Len(steps) : acc[k] = Combined(acc[k - 1], steps[k])
           /\ Pass(steps) = [list |-> Kept(acc[Len(steps)].list, acc[Len(steps)].step),
                             joined |-> acc[Len(steps)].joined]
<1> DEFINE m == Len(steps) - 1
           rest == Tail(steps)
           start == StartOf(steps)
           D == 1 .. m
           Follows(f, n) ==
             f = [s \in SUBSET (1 .. n) |->
                    IF s = {} THEN start ELSE Combined(f[s \ {Max(s)}], rest[Max(s)])]
           T == {n \in 0 .. m : \E f : Follows(f, n)}
<1>1. m \in Nat /\ DOMAIN rest = D /\ \A k \in D : rest[k] = steps[k + 1]
  <2>1. Len(steps) \in Nat BY DEF List
  <2> QED BY <2>1, TailIs
<1> HIDE DEF rest, m
<1>2. 0 \in T
  <2> DEFINE f == [s \in SUBSET (1 .. 0) |-> start]
  <2>1. \A s \in SUBSET (1 .. 0) : s = {} OBVIOUS
  <2>2. Follows(f, 0) BY <2>1, Zenon
  <2>3. 0 \in 0 .. m BY <1>1
  <2> HIDE DEF Follows, f
  <2> QED BY <2>2, <2>3
<1>3. ASSUME NEW n \in 0 .. m - 1, n \in T PROVE n + 1 \in T
  <2>1. PICK f : Follows(f, n) BY <1>3
  <2> DEFINE New(s) == Combined(f[s \ {n + 1}], rest[n + 1])
             g == [s \in SUBSET (1 .. n + 1) |-> IF n + 1 \in s THEN New(s) ELSE f[s]]
             Body(s) == IF s = {} THEN start ELSE Combined(g[s \ {Max(s)}], rest[Max(s)])
  <2>0. n \in Nat /\ n + 1 \in Nat BY <1>1
  <2>2. ASSUME NEW s \in SUBSET (1 .. n + 1) PROVE g[s] = Body(s)
    <3>1. CASE n + 1 \in s
      <4>1. Max(s) = n + 1 /\ s # {} BY <2>0, <3>1, MaxOf
      <4>2. s \ {n + 1} \in SUBSET (1 .. n + 1) /\ n + 1 \notin s \ {n + 1} OBVIOUS
      <4>3. g[s \ {n + 1}] = f[s \ {n + 1}] BY <4>2
      <4>4. g[s] = New(s) BY <3>1
      <4> HIDE DEF g
      <4> QED BY <4>1, <4>3, <4>4
    <3>2. CASE n + 1 \notin s
      <4>1. s \in SUBSET (1 .. n) BY <2>0, <3>2
      <4>2. g[s] = f[s] BY <3>2
      <4>3. f[s] = IF s = {} THEN start ELSE Combined(f[s \ {Max(s)}], rest[Max(s)])
        BY <2>1, <4>1, Zenon
      <4>4. s \ {Max(s)} \in SUBSET (1 .. n + 1) /\ n + 1 \notin s \ {Max(s)} BY <3>2
      <4>5. g[s \ {Max(s)}] = f[s \ {Max(s)}] BY <4>4
      <4> HIDE DEF g
      <4> QED BY <4>2, <4>3, <4>5
    <3> QED BY <3>1, <3>2
  <2>3. g = [s \in SUBSET (1 .. n + 1) |-> g[s]] OBVIOUS
  <2> HIDE DEF g
  <2>4. Follows(g, n + 1) BY <2>2, <2>3, Zenon
  <2>5. n + 1 \in 0 .. m BY <1>1
  <2> HIDE DEF Follows
  <2> QED BY <2>4, <2>5
<1>4. m \in T
  <2> HIDE DEF T
  <2> QED BY <1>1, <1>2, <1>3, UpTo
<1>5. PICK f : Follows(f, m) BY <1>4
<1> DEFINE iter[s \in SUBSET DOMAIN rest] ==
             IF s = {} THEN start ELSE Combined(iter[s \ {Max(s)}], rest[Max(s)])
<1>6. iter = [s \in SUBSET DOMAIN rest |->
                IF s = {} THEN start ELSE Combined(iter[s \ {Max(s)}], rest[Max(s)])]
  <2>1. f = [s \in SUBSET DOMAIN rest |->
               IF s = {} THEN start ELSE Combined(f[s \ {Max(s)}], rest[Max(s)])]
    BY <1>1, <1>5, Zenon
  <2> QED BY <2>1, Zenon
<1>7. Pass(steps) = [list |-> Kept(iter[DOMAIN rest].list, iter[DOMAIN rest].step),
                     joined |-> iter[DOMAIN rest].joined]
  BY PassFolds, Zenon DEF rest
<1> HIDE DEF iter
<1>8. \A s \in SUBSET (1 .. m) :
        iter[s] = IF s = {} THEN start ELSE Combined(iter[s \ {Max(s)}], rest[Max(s)])
  BY <1>1, <1>6, Zenon
<1> DEFINE acc == [k \in 1 .. m + 1 |-> iter[1 .. k - 1]]
<1>9. acc[1] = start
  <2>1. 1 .. 1 - 1 = {} /\ {} \in SUBSET (1 .. m) /\ 1 \in 1 .. m + 1 BY <1>1
  <2>2. iter[{}] = start BY <1>8, <2>1, Zenon
  <2>3. acc[1] = iter[1 .. 1 - 1] BY <2>1
  <2> HIDE DEF acc
  <2> QED BY <2>1, <2>2, <2>3
<1>10. ASSUME NEW k \in 2 .. m + 1 PROVE acc[k] = Combined(acc[k - 1], steps[k])
  <2> DEFINE s == 1 .. k - 1
  <2>1. s \in SUBSET (1 .. m) /\ s # {} /\ k - 1 \in s /\ k - 1 \in Nat
    <3>1. k \in Nat /\ k - 1 \in 1 .. m BY <1>1
    <3>2. k - 1 \in s BY <3>1
    <3>3. \A j \in s : j \in 1 .. m BY <1>1, <3>1
    <3> HIDE DEF s
    <3> QED BY <3>1, <3>2, <3>3
  <2>2. Max(s) = k - 1
    <3>1. s \in SUBSET (1 .. k - 1) OBVIOUS
    <3> HIDE DEF s
    <3> QED BY <2>1, <3>1, MaxOf
  <2>3. s \ {k - 1} = 1 .. k - 1 - 1 BY <1>1
  <2>4. acc[k] = iter[s] /\ acc[k - 1] = iter[1 .. k - 1 - 1] BY <1>1
  <2>5. rest[k - 1] = steps[k] BY <1>1
  <2> HIDE DEF s, acc
  <2>6. iter[s] = Combined(iter[s \ {k - 1}], rest[k - 1]) BY <1>8, <2>1, <2>2, Zenon
  <2> QED BY <2>3, <2>4, <2>5, <2>6
<1>11. m + 1 = Len(steps) /\ acc[m + 1] = iter[DOMAIN rest]
  <2>1. Len(steps) \in Nat BY DEF List
  <2>2. m + 1 = Len(steps) BY <2>1 DEF m
  <2>3. acc[m + 1] = iter[1 .. m + 1 - 1] /\ 1 .. m + 1 - 1 = D BY <1>1
  <2> QED BY <1>1, <2>2, <2>3
<1> HIDE DEF acc
<1> QED BY <1>7, <1>9, <1>10, <1>11

(* How a level goes on from each step to the next. *)
LEMMA RunFolds ==
  ASSUME NEW steps, NEW v
  PROVE LET iter[s \in SUBSET DOMAIN steps] ==
              IF s = {} THEN v ELSE Apply(steps[Max(s)], iter[s \ {Max(s)}])
        IN Run(steps, v) = iter[DOMAIN steps]
BY Zenon DEF Run, FoldLeft, MapThenFoldSet

LEMMA RunGoesOn ==
  ASSUME NEW steps, List(steps), NEW v
  PROVE  \E r : /\ r[0] = v
                /\ \A k \in 1 .. Len(steps) : r[k] = Apply(steps[k], r[k - 1])
                /\ Run(steps, v) = r[Len(steps)]
<1> DEFINE m == Len(steps)
           D == 1 .. m
           Follows(f, n) ==
             f = [s \in SUBSET (1 .. n) |->
                    IF s = {} THEN v ELSE Apply(steps[Max(s)], f[s \ {Max(s)}])]
           T == {n \in 0 .. m : \E f : Follows(f, n)}
<1>1. m \in Nat /\ DOMAIN steps = D BY ListDomain DEF List
<1> HIDE DEF m
<1>2. 0 \in T
  <2> DEFINE f == [s \in SUBSET (1 .. 0) |-> v]
  <2>1. \A s \in SUBSET (1 .. 0) : s = {} OBVIOUS
  <2>2. Follows(f, 0) BY <2>1, Zenon
  <2>3. 0 \in 0 .. m BY <1>1
  <2> HIDE DEF Follows, f
  <2> QED BY <2>2, <2>3
<1>3. ASSUME NEW n \in 0 .. m - 1, n \in T PROVE n + 1 \in T
  <2>1. PICK f : Follows(f, n) BY <1>3
  <2> DEFINE New(s) == Apply(steps[n + 1], f[s \ {n + 1}])
             g == [s \in SUBSET (1 .. n + 1) |-> IF n + 1 \in s THEN New(s) ELSE f[s]]
             Body(s) == IF s = {} THEN v ELSE Apply(steps[Max(s)], g[s \ {Max(s)}])
  <2>0. n \in Nat /\ n + 1 \in Nat BY <1>1
  <2>2. ASSUME NEW s \in SUBSET (1 .. n + 1) PROVE g[s] = Body(s)
    <3>1. CASE n + 1 \in s
      <4>1. Max(s) = n + 1 /\ s # {} BY <2>0, <3>1, MaxOf
      <4>2. s \ {n + 1} \in SUBSET (1 .. n + 1) /\ n + 1 \notin s \ {n + 1} OBVIOUS
      <4>3. g[s \ {n + 1}] = f[s \ {n + 1}] BY <4>2
      <4>4. g[s] = New(s) BY <3>1
      <4> HIDE DEF g
      <4> QED BY <4>1, <4>3, <4>4
    <3>2. CASE n + 1 \notin s
      <4>1. s \in SUBSET (1 .. n) BY <2>0, <3>2
      <4>2. g[s] = f[s] BY <3>2
      <4>3. f[s] = IF s = {} THEN v ELSE Apply(steps[Max(s)], f[s \ {Max(s)}])
        BY <2>1, <4>1, Zenon
      <4>4. s \ {Max(s)} \in SUBSET (1 .. n + 1) /\ n + 1 \notin s \ {Max(s)} BY <3>2
      <4>5. g[s \ {Max(s)}] = f[s \ {Max(s)}] BY <4>4
      <4> HIDE DEF g
      <4> QED BY <4>2, <4>3, <4>5
    <3> QED BY <3>1, <3>2
  <2>3. g = [s \in SUBSET (1 .. n + 1) |-> g[s]] OBVIOUS
  <2> HIDE DEF g
  <2>4. Follows(g, n + 1) BY <2>2, <2>3, Zenon
  <2>5. n + 1 \in 0 .. m BY <1>1
  <2> HIDE DEF Follows
  <2> QED BY <2>4, <2>5
<1>4. m \in T
  <2> HIDE DEF T
  <2> QED BY <1>1, <1>2, <1>3, UpTo
<1>5. PICK f : Follows(f, m) BY <1>4
<1> DEFINE iter[s \in SUBSET DOMAIN steps] ==
             IF s = {} THEN v ELSE Apply(steps[Max(s)], iter[s \ {Max(s)}])
<1>6. iter = [s \in SUBSET DOMAIN steps |->
                IF s = {} THEN v ELSE Apply(steps[Max(s)], iter[s \ {Max(s)}])]
  <2>1. f = [s \in SUBSET DOMAIN steps |->
               IF s = {} THEN v ELSE Apply(steps[Max(s)], f[s \ {Max(s)}])]
    BY <1>1, <1>5, Zenon
  <2> QED BY <2>1, Zenon
<1>7. Run(steps, v) = iter[DOMAIN steps] BY RunFolds, Zenon
<1> HIDE DEF iter
<1>8. \A s \in SUBSET (1 .. m) :
        iter[s] = IF s = {} THEN v ELSE Apply(steps[Max(s)], iter[s \ {Max(s)}])
  BY <1>1, <1>6, Zenon
<1> DEFINE r == [k \in 0 .. m |-> iter[1 .. k]]
<1>9. r[0] = v
  <2>1. 1 .. 0 = {} /\ {} \in SUBSET (1 .. m) /\ 0 \in 0 .. m BY <1>1
  <2>2. iter[{}] = v BY <1>8, <2>1, Zenon
  <2>3. r[0] = iter[1 .. 0] BY <2>1
  <2> HIDE DEF r
  <2> QED BY <2>1, <2>2, <2>3
<1>10. ASSUME NEW k \in 1 .. m PROVE r[k] = Apply(steps[k], r[k - 1])
  <2> DEFINE s == 1 .. k
  <2>1. s \in SUBSET (1 .. m) /\ s # {} /\ k \in s /\ k \in Nat /\ k \in 0 .. m /\ k - 1 \in 0 .. m
    <3>1. k \in s /\ k \in Nat /\ k \in 0 .. m /\ k - 1 \in 0 .. m BY <1>1
    <3>2. \A j \in s : j \in 1 .. m BY <1>1, <3>1
    <3> HIDE DEF s
    <3> QED BY <3>1, <3>2
  <2>2. Max(s) = k
    <3>1. s \in SUBSET (1 .. k) OBVIOUS
    <3> HIDE DEF s
    <3> QED BY <2>1, <3>1, MaxOf
  <2>3. s \ {k} = 1 .. k - 1 BY <1>1
  <2>4. r[k] = iter[s] /\ r[k - 1] = iter[1 .. k - 1] BY <2>1
  <2> HIDE DEF s, r
  <2>6. iter[s] = Apply(steps[k], iter[s \ {k}]) BY <1>8, <2>1, <2>2, Zenon
  <2> QED BY <2>3, <2>4, <2>6
<1>11. r[m] = iter[DOMAIN steps]
  <2>1. m \in 0 .. m BY <1>1
  <2> QED BY <1>1, <2>1
<1> HIDE DEF r
<1> QED BY <1>7, <1>9, <1>10, <1>11 DEF m

-----------------------------------------------------------------------------
(* What a list of steps makes of a level. *)

LEMMA RunIs ==
  ASSUME NEW steps, List(steps), NEW v, NEW r, r[0] = v,
         \A k \in 1 .. Len(steps) : r[k] = Apply(steps[k], r[k - 1])
  PROVE  Run(steps, v) = r[Len(steps)]
<1> DEFINE n == Len(steps)
<1>1. PICK q : /\ q[0] = v
               /\ \A k \in 1 .. n : q[k] = Apply(steps[k], q[k - 1])
               /\ Run(steps, v) = q[n]
  BY RunGoesOn
<1>2. n \in Nat BY DEF List
<1> HIDE DEF n
<1> DEFINE S == {k \in 0 .. n : q[k] = r[k]}
<1>3. 0 \in S
  <2>1. 0 \in 0 .. n BY <1>2
  <2> QED BY <1>1, <2>1
<1>4. ASSUME NEW k \in 0 .. n - 1, k \in S PROVE k + 1 \in S
  <2>1. k + 1 \in 1 .. n /\ k + 1 \in 0 .. n /\ k + 1 - 1 = k BY <1>2
  <2>2. q[k] = r[k] BY <1>4
  <2>3. q[k + 1] = Apply(steps[k + 1], q[k]) BY <1>1, <2>1
  <2>4. r[k + 1] = Apply(steps[k + 1], r[k]) BY <2>1 DEF n
  <2> QED BY <2>1, <2>2, <2>3, <2>4
<1>5. n \in S
  <2> HIDE DEF S
  <2> QED BY <1>2, <1>3, <1>4, UpTo
<1> QED BY <1>1, <1>5 DEF n

LEMMA NothingIs == List(<<>>) /\ Len(<<>>) = 0
BY DEF List

LEMMA RunOfNothing == ASSUME NEW v PROVE Run(<<>>, v) = v
<1> DEFINE none == <<>>
<1>1. PICK r : r[0] = v /\ Run(none, v) = r[Len(none)] BY NothingIs, RunGoesOn
<1>2. Len(none) = 0 BY NothingIs
<1> QED BY <1>1, <1>2

LEMMA RunAppended ==
  ASSUME NEW s, List(s), NEW x, NEW v
  PROVE  Run(Append(s, x), v) = Apply(x, Run(s, v))
<1> DEFINE n == Len(s)
           t == Append(s, x)
<1>1. PICK r : /\ r[0] = v
               /\ \A k \in 1 .. n : r[k] = Apply(s[k], r[k - 1])
               /\ Run(s, v) = r[n]
  BY RunGoesOn
<1>2. /\ n \in Nat /\ List(t) /\ Len(t) = n + 1 /\ t[n + 1] = x
      /\ \A k \in 1 .. n : t[k] = s[k]
  BY Appended DEF List
<1> HIDE DEF n, t
<1> DEFINE q == [k \in 0 .. n + 1 |-> IF k = n + 1 THEN Apply(x, r[n]) ELSE r[k]]
<1>3. q[0] = v
  <2>1. 0 \in 0 .. n + 1 /\ 0 # n + 1 BY <1>2
  <2> QED BY <1>1, <2>1
<1>4. ASSUME NEW k \in 1 .. Len(t) PROVE q[k] = Apply(t[k], q[k - 1])
  <2>1. k \in 0 .. n + 1 /\ k - 1 \in 0 .. n + 1 /\ k - 1 # n + 1 BY <1>2
  <2>2. q[k - 1] = r[k - 1] BY <2>1
  <2>3. CASE k = n + 1
    <3>1. q[k] = Apply(x, r[n]) /\ k - 1 = n /\ t[k] = x BY <1>2, <2>1, <2>3
    <3> HIDE DEF q
    <3> QED BY <2>2, <3>1
  <2>4. CASE k # n + 1
    <3>1. q[k] = r[k] /\ k \in 1 .. n BY <1>2, <2>1, <2>4
    <3> HIDE DEF q
    <3> QED BY <1>1, <1>2, <2>2, <3>1
  <2> QED BY <2>3, <2>4
<1>5. q[n + 1] = Apply(x, r[n])
  <2>1. n + 1 \in 0 .. n + 1 BY <1>2
  <2> QED BY <2>1
<1> HIDE DEF q
<1>6. Run(t, v) = q[n + 1] BY <1>2, <1>3, <1>4, RunIs
<1> QED BY <1>1, <1>5, <1>6 DEF t

LEMMA JoinedIs ==
  ASSUME NEW a, List(a), NEW b, List(b)
  PROVE  /\ List(a \o b) /\ Len(a \o b) = Len(a) + Len(b)
         /\ \A k \in 1 .. Len(a) : (a \o b)[k] = a[k]
         /\ \A k \in 1 .. Len(b) : (a \o b)[Len(a) + k] = b[k]
<1> DEFINE S == {a[k] : k \in 1 .. Len(a)} \cup {b[k] : k \in 1 .. Len(b)}
           c == a \o b
<1>1. a \in [1 .. Len(a) -> S] /\ b \in [1 .. Len(b) -> S] BY DEF List
<1>2. a \in Seq(S) /\ b \in Seq(S) /\ Len(a) \in Nat /\ Len(b) \in Nat BY <1>1 DEF List
<1> HIDE DEF S
<1>3. c \in Seq(S) /\ Len(c) = Len(a) + Len(b) BY <1>2
<1>4. /\ \A k \in 1 .. Len(a) : c[k] = a[k]
      /\ \A k \in 1 .. Len(b) : c[Len(a) + k] = b[k]
  BY <1>2
<1>5. List(c)
  <2> HIDE DEF c
  <2>1. c \in [1 .. Len(c) -> S] /\ Len(c) \in Nat BY <1>3
  <2> QED BY <2>1 DEF List
<1> QED BY <1>3, <1>4, <1>5

LEMMA RunJoined ==
  ASSUME NEW a, List(a), NEW b, List(b), NEW v
  PROVE  Run(a \o b, v) = Run(b, Run(a, v))
<1> DEFINE m == Len(a)
           n == Len(b)
           c == a \o b
           w == Run(a, v)
<1>1. PICK r : /\ r[0] = v
               /\ \A k \in 1 .. m : r[k] = Apply(a[k], r[k - 1])
               /\ w = r[m]
  BY RunGoesOn
<1>2. PICK p : /\ p[0] = w
               /\ \A k \in 1 .. n : p[k] = Apply(b[k], p[k - 1])
               /\ Run(b, w) = p[n]
  BY RunGoesOn
<1>3. /\ m \in Nat /\ n \in Nat /\ List(c) /\ Len(c) = m + n
      /\ \A k \in 1 .. m : c[k] = a[k]
      /\ \A k \in 1 .. n : c[m + k] = b[k]
  BY JoinedIs DEF List
<1> HIDE DEF m, n, c, w
<1> DEFINE q == [k \in 0 .. m + n |-> IF k <= m THEN r[k] ELSE p[k - m]]
<1>4. q[0] = v
  <2>1. 0 \in 0 .. m + n /\ 0 <= m BY <1>3
  <2> QED BY <1>1, <2>1
<1>5. ASSUME NEW k \in 1 .. Len(c) PROVE q[k] = Apply(c[k], q[k - 1])
  <2>1. k \in 0 .. m + n /\ k - 1 \in 0 .. m + n BY <1>3
  <2>2. CASE k <= m
    <3>1. q[k] = r[k] /\ k \in 1 .. m /\ q[k - 1] = r[k - 1] BY <1>3, <2>1, <2>2
    <3> HIDE DEF q
    <3> QED BY <1>1, <1>3, <3>1
  <2>3. CASE k > m
    <3>1. q[k] = p[k - m] /\ k - m \in 1 .. n /\ m + (k - m) = k /\ (k - m) - 1 = (k - 1) - m
      BY <1>3, <2>1, <2>3
    <3>2. q[k - 1] = p[(k - m) - 1]
      <4>1. CASE k - 1 <= m
        <5>1. k - 1 = m /\ q[k - 1] = r[m] /\ (k - m) - 1 = 0 BY <1>3, <2>1, <2>3, <4>1
        <5> HIDE DEF q
        <5> QED BY <1>1, <1>2, <5>1
      <4>2. CASE k - 1 > m
        <5>1. q[k - 1] = p[(k - 1) - m] BY <1>3, <2>1, <4>2
        <5> HIDE DEF q
        <5> QED BY <3>1, <5>1
      <4> QED BY <1>3, <2>1, <4>1, <4>2
    <3>3. c[k] = b[k - m] BY <1>3, <3>1
    <3> HIDE DEF q
    <3> QED BY <1>2, <3>1, <3>2, <3>3
  <2> QED BY <1>3, <2>2, <2>3
<1>6. q[m + n] = p[n]
  <2>1. m + n \in 0 .. m + n /\ (m + n) - m = n BY <1>3
  <2>2. CASE n = 0
    <3>1. m + n <= m /\ m + n = m BY <1>3, <2>2
    <3> QED BY <1>1, <1>2, <2>1, <2>2, <3>1
  <2>3. CASE n # 0
    <3>1. ~(m + n <= m) BY <1>3, <2>3
    <3> QED BY <2>1, <3>1
  <2> QED BY <2>2, <2>3
<1> HIDE DEF q
<1>7. Run(c, v) = q[m + n] BY <1>3, <1>4, <1>5, RunIs
<1> QED BY <1>2, <1>6, <1>7 DEF c, w

LEMMA OneIs ==
  ASSUME NEW x
  PROVE  List(<<x>>) /\ Len(<<x>>) = 1 /\ <<x>>[1] = x /\ \A v : Run(<<x>>, v) = Apply(x, v)
<1> DEFINE none == <<>>
           one == <<x>>
           more == Append(none, x)
<1>1. one = more OBVIOUS
<1>2. List(none) /\ Len(none) = 0 BY NothingIs
<1>3. \A v : Run(none, v) = v BY RunOfNothing
<1> HIDE DEF none
<1>4. /\ List(more) /\ Len(more) = Len(none) + 1 /\ more[Len(none) + 1] = x
      /\ \A v : Run(more, v) = Apply(x, Run(none, v))
  BY <1>2, Appended, RunAppended, Zenon
<1> HIDE DEF more, one
<1>5. List(one) /\ Len(one) = 1 /\ one[1] = x /\ \A v : Run(one, v) = Apply(x, v)
  BY <1>1, <1>2, <1>3, <1>4
<1> QED BY <1>5 DEF one

LEMMA ApplyIs ==
  ASSUME NEW s, NEW v
  PROVE  /\ s.kind = "LabToXYZ" => Apply(s, v) = Mult(s.k, Cube(v))
         /\ s.kind = "Lab2ToXYZ" => Apply(s, v) = Mult(s.k, Cube(Mult(v, Inv[Lab2])))
         /\ s.kind = "XYZToLab" => Apply(s, v) = Root[Mult(v, Inv[s.k])]
         /\ s.kind = "XYZToLab2" => Apply(s, v) = Mult(Root[Mult(v, Inv[s.k])], Lab2)
         /\ s.kind = "LabToLab2" => Apply(s, v) = Mult(v, Lab2)
         /\ s.kind = "Lab2ToLab" => Apply(s, v) = Mult(v, Inv[Lab2])
         /\ s.kind = "Offset" => Apply(s, v) = Plus(v, s.k)
         /\ s.kind \in {"Identity", "RouteMcs"} => Apply(s, v) = v
         /\ s.kind \in {"Scale", "Matrix", "SparseMatrix", "Mpe", "SrcMatrix"} =>
              Apply(s, v) = Mult(v, s.k)
<1> DEFINE a1 == Mult(s.k, Cube(v))
           a2 == Mult(s.k, Cube(Mult(v, Inv[Lab2])))
           a3 == Root[Mult(v, Inv[s.k])]
           a4 == Mult(Root[Mult(v, Inv[s.k])], Lab2)
           a5 == Mult(v, Lab2)
           a6 == Mult(v, Inv[Lab2])
           a7 == (v + s.k) % Modulus
           a8 == Mult(v, s.k)
<1>1. Apply(s, v) =
        CASE s.kind = "LabToXYZ" -> a1 [] s.kind = "Lab2ToXYZ" -> a2
          [] s.kind = "XYZToLab" -> a3 [] s.kind = "XYZToLab2" -> a4
          [] s.kind = "LabToLab2" -> a5 [] s.kind = "Lab2ToLab" -> a6
          [] s.kind = "Offset" -> a7 [] s.kind \in {"Identity", "RouteMcs"} -> v
          [] OTHER -> a8
  BY Zenon DEF Apply
<1> HIDE DEF a1, a2, a3, a4, a5, a6, a7, a8
<1>2. /\ s.kind = "LabToXYZ" => Apply(s, v) = a1
      /\ s.kind = "Lab2ToXYZ" => Apply(s, v) = a2
      /\ s.kind = "XYZToLab" => Apply(s, v) = a3
      /\ s.kind = "XYZToLab2" => Apply(s, v) = a4
      /\ s.kind = "LabToLab2" => Apply(s, v) = a5
      /\ s.kind = "Lab2ToLab" => Apply(s, v) = a6
      /\ s.kind = "Offset" => Apply(s, v) = a7
      /\ s.kind \in {"Identity", "RouteMcs"} => Apply(s, v) = v
      /\ s.kind \in {"Scale", "Matrix", "SparseMatrix", "Mpe", "SrcMatrix"} => Apply(s, v) = a8
  BY <1>1
<1> QED BY <1>2 DEF a1, a2, a3, a4, a5, a6, a7, a8, Plus

(* The conversions of Lab that know a white, and all steps of three channels. *)
WhiteKinds == {"LabToXYZ", "Lab2ToXYZ", "XYZToLab", "XYZToLab2"}
LabKinds == WhiteKinds \cup {"LabToLab2", "Lab2ToLab", "Identity"}

(* A step that Connect may push, or Concat make of two. *)
Legal(s) ==
  /\ s = PcsStep(s.kind, s.in, s.out, s.k)
  /\ s.kind \in StepKinds \ {"RouteMcs"} /\ s.in \in Nat /\ s.out \in Nat /\ s.k \in Level
  /\ s.kind \in WhiteKinds => s.k # 0
  /\ s.kind \in LabKinds => s.in = 3 /\ s.out = 3
  /\ s.kind \in {"Scale", "Offset"} => s.in = s.out

LEMMA Lab2Is == Lab2 \in Level /\ Lab2 # 0 /\ XyzIn \in Level /\ XyzIn # 0
BY LevelsAssumption

LEMMA ApplyIn ==
  ASSUME NEW s, Legal(s), NEW v \in Level
  PROVE  Apply(s, v) \in Level
<1>1. s.k \in Level /\ (s.kind \in WhiteKinds => Inv[s.k] \in Level) BY InverseOf DEF Legal
<1>2. Lab2 \in Level /\ Inv[Lab2] \in Level BY Lab2Is, InverseOf
<1>3. \A a \in Level, b \in Level : Mult(a, b) \in Level /\ Plus(a, b) \in Level BY Ring
<1>4. \A a \in Level : Cube(a) \in Level /\ Root[a] \in Level BY CubeIn, RootOf
<1>5. s.kind \in WhiteKinds \cup {"LabToLab2", "Lab2ToLab", "Offset", "Identity", "Scale",
                                  "Matrix", "SparseMatrix", "Mpe", "SrcMatrix"}
  BY DEF Legal, StepKinds, WhiteKinds
<1>6. CASE s.kind \in WhiteKinds
  <2>1. s.k \in Level /\ Inv[s.k] \in Level BY <1>1, <1>6
  <2>2. CASE s.kind = "LabToXYZ" BY <1>3, <1>4, <2>1, <2>2, ApplyIs
  <2>3. CASE s.kind = "Lab2ToXYZ" BY <1>2, <1>3, <1>4, <2>1, <2>3, ApplyIs
  <2>4. CASE s.kind = "XYZToLab" BY <1>3, <1>4, <2>1, <2>4, ApplyIs
  <2>5. CASE s.kind = "XYZToLab2" BY <1>2, <1>3, <1>4, <2>1, <2>5, ApplyIs
  <2> QED BY <1>6, <2>2, <2>3, <2>4, <2>5 DEF WhiteKinds
<1>7. CASE s.kind = "LabToLab2" BY <1>2, <1>3, <1>7, ApplyIs
<1>8. CASE s.kind = "Lab2ToLab" BY <1>2, <1>3, <1>8, ApplyIs
<1>9. CASE s.kind = "Offset" BY <1>1, <1>3, <1>9, ApplyIs
<1>10. CASE s.kind = "Identity" BY <1>10, ApplyIs
<1>11. CASE s.kind \in {"Scale", "Matrix", "SparseMatrix", "Mpe", "SrcMatrix"}
  BY <1>1, <1>3, <1>11, ApplyIs
<1> QED BY <1>5, <1>6, <1>7, <1>8, <1>9, <1>10, <1>11

LEMMA StepsAre ==
  ASSUME NEW kind, NEW in, NEW out, NEW k
  PROVE  /\ PcsStep(kind, in, out, k).kind = kind /\ PcsStep(kind, in, out, k).in = in
         /\ PcsStep(kind, in, out, k).out = out /\ PcsStep(kind, in, out, k).k = k
BY DEF PcsStep

(* What Concat may make of two steps. *)
LEMMA ConcatGives ==
  ASSUME NEW s, NEW t, Concat(s, t) # NoStep
  PROVE  \/ /\ s.k = t.k
            /\ \E kind : /\ Concat(s, t) = LabStep(kind, 0)
                         /\ <<s.kind, t.kind, kind>> \in LabJoins
         \/ /\ s.out = t.in
            /\ \/ /\ s.kind = "Offset" /\ t.kind = "Offset"
                  /\ Concat(s, t) = Offset(s.in, Plus(s.k, t.k))
               \/ /\ s.kind = "Scale" /\ t.kind = "Scale"
                  /\ Concat(s, t) = Scale(s.in, Mult(s.k, t.k))
               \/ /\ s.kind \in {"Scale", "Matrix"} /\ t.kind \in {"Scale", "Matrix"}
                  /\ Concat(s, t) = Matrix(t.out, s.in, Mult(s.k, t.k))
<1> DEFINE pair == <<s.kind, t.kind>>
           lab == {join \in LabJoins : <<join[1], join[2]>> = pair}
           a == Offset(s.in, (s.k + t.k) % Modulus)
           b == Scale(s.in, Mult(s.k, t.k))
           c == Matrix(t.out, s.in, Mult(s.k, t.k))
           j == CHOOSE join \in lab : TRUE
           cases == CASE pair = <<"Offset", "Offset">> -> a
                      [] pair = <<"Scale", "Scale">> -> b
                      [] pair \in {<<"Scale", "Matrix">>, <<"Matrix", "Scale">>,
                                   <<"Matrix", "Matrix">>} -> c
                      [] OTHER -> NoStep
<1>1. Concat(s, t) =
        IF lab # {} THEN IF s.k = t.k THEN LabStep(j[3], 0) ELSE NoStep
        ELSE IF s.out # t.in THEN NoStep ELSE cases
  BY Zenon DEF Concat, SameWhite
<1>2. lab # {} => j \in LabJoins /\ j[1] = s.kind /\ j[2] = t.kind BY DEF pair
<1>3. \A join \in LabJoins : join = <<join[1], join[2], join[3]>> BY DEF LabJoins
<1>4. \/ cases = NoStep
      \/ s.kind = "Offset" /\ t.kind = "Offset" /\ cases = a
      \/ s.kind = "Scale" /\ t.kind = "Scale" /\ cases = b
      \/ s.kind \in {"Scale", "Matrix"} /\ t.kind \in {"Scale", "Matrix"} /\ cases = c
  <2> HIDE DEF a, b, c
  <2>1. \/ cases = NoStep
        \/ pair = <<"Offset", "Offset">> /\ cases = a
        \/ pair = <<"Scale", "Scale">> /\ cases = b
        \/ /\ pair \in {<<"Scale", "Matrix">>, <<"Matrix", "Scale">>, <<"Matrix", "Matrix">>}
           /\ cases = c
    <3> HIDE DEF pair
    <3> QED OBVIOUS
  <2> HIDE DEF cases
  <2> QED BY <2>1
<1> HIDE DEF lab, cases, a, b, c, j
<1>5. CASE lab # {}
  <2>1. s.k = t.k /\ Concat(s, t) = LabStep(j[3], 0) BY <1>1, <1>5
  <2>2. <<s.kind, t.kind, j[3]>> \in LabJoins BY <1>2, <1>3, <1>5
  <2> QED BY <2>1, <2>2
<1>6. CASE lab = {}
  <2>1. s.out = t.in /\ Concat(s, t) = cases BY <1>1, <1>6
  <2> QED BY <1>4, <2>1 DEF a, b, c, Plus
<1> QED BY <1>5, <1>6

(* What is multiplied by a level that is not 0 can be divided by it. *)
LEMMA Cancels ==
  ASSUME NEW a \in Level, NEW b \in Level, b # 0
  PROVE  /\ Mult(Mult(a, b), Inv[b]) = a /\ Mult(Mult(b, a), Inv[b]) = a
         /\ Mult(Mult(a, Inv[b]), b) = a /\ Mult(b, Mult(a, Inv[b])) = a
<1> DEFINE i == Inv[b]
<1>1. i \in Level /\ Mult(b, i) = 1 BY InverseOf
<1> HIDE DEF i
<1>2. Mult(Mult(a, b), i) = a
  <2>1. Mult(Mult(a, b), i) = Mult(a, Mult(b, i)) BY <1>1, Ring
  <2> QED BY <1>1, <2>1, Ring
<1>3. Mult(Mult(a, i), b) = a
  <2>1. Mult(Mult(a, i), b) = Mult(a, Mult(i, b)) /\ Mult(i, b) = Mult(b, i) BY <1>1, Ring
  <2> QED BY <1>1, <2>1, Ring
<1>4. Mult(b, a) = Mult(a, b) /\ Mult(b, Mult(a, i)) = Mult(Mult(a, i), b) BY <1>1, Ring
<1> QED BY <1>2, <1>3, <1>4 DEF i

(* A conversion of Lab is undone by the one in the other direction, with the *)
(* same white.                                                               *)
LEMMA LabUndone ==
  ASSUME NEW w \in Level, w # 0, NEW v \in Level
  PROVE  /\ Root[Mult(Mult(w, Cube(v)), Inv[w])] = v
         /\ Mult(w, Cube(Root[Mult(v, Inv[w])])) = v
<1>1. Cube(v) \in Level /\ Root[Cube(v)] = v BY CubeIn, RootOf
<1>2. Mult(Mult(w, Cube(v)), Inv[w]) = Cube(v) BY <1>1, Cancels
<1>3. Mult(v, Inv[w]) \in Level BY InverseOf, Ring
<1>4. Cube(Root[Mult(v, Inv[w])]) = Mult(v, Inv[w]) BY <1>3, RootOf
<1>5. Mult(w, Mult(v, Inv[w])) = v BY Cancels
<1> QED BY <1>1, <1>2, <1>4, <1>5

LEMMA LabConcat ==
  ASSUME NEW s, Legal(s), NEW t, Legal(t), s.k = t.k, NEW kind, <<s.kind, t.kind, kind>> \in LabJoins,
         NEW v \in Level, NEW u, u.kind = kind
  PROVE  Apply(u, v) = Apply(t, Apply(s, v))
<1> DEFINE w == s.k
           two == Mult(v, Inv[Lab2])
<1>1. w \in Level /\ s.kind \in LabKinds /\ t.kind \in LabKinds /\ t.k = w
  BY DEF Legal, LabJoins, LabKinds, WhiteKinds
<1>2. s.kind \in WhiteKinds => w # 0 BY DEF Legal
<1>3. Lab2 \in Level /\ Lab2 # 0 /\ Inv[Lab2] \in Level /\ two \in Level
  BY Lab2Is, InverseOf, Ring
<1>4. Mult(two, Lab2) = v /\ Mult(Mult(v, Lab2), Inv[Lab2]) = v BY <1>3, Cancels
<1>5. w # 0 => /\ Root[Mult(Mult(w, Cube(v)), Inv[w])] = v
               /\ Mult(w, Cube(Root[Mult(v, Inv[w])])) = v
               /\ Root[Mult(Mult(w, Cube(two)), Inv[w])] = two
               /\ Root[Mult(v, Inv[w])] \in Level
  <2> HIDE DEF two, w
  <2>1. SUFFICES ASSUME w # 0
                 PROVE  /\ Root[Mult(Mult(w, Cube(v)), Inv[w])] = v
                        /\ Mult(w, Cube(Root[Mult(v, Inv[w])])) = v
                        /\ Root[Mult(Mult(w, Cube(two)), Inv[w])] = two
                        /\ Root[Mult(v, Inv[w])] \in Level
    OBVIOUS
  <2>2. Mult(v, Inv[w]) \in Level BY <1>1, <2>1, InverseOf, Ring
  <2>3. Root[Mult(v, Inv[w])] \in Level BY <2>2, RootOf
  <2> QED BY <1>1, <1>3, <2>1, <2>3, LabUndone
<1> HIDE DEF w, two
<1>6. CASE s.kind = "LabToXYZ" /\ t.kind \in {"XYZToLab", "XYZToLab2"}
  <2>1. Apply(s, v) = Mult(w, Cube(v)) /\ w # 0 BY <1>2, <1>6, ApplyIs DEF w, WhiteKinds
  <2>2. CASE t.kind = "XYZToLab" /\ kind = "Identity"
    <3>1. Apply(t, Apply(s, v)) = Root[Mult(Mult(w, Cube(v)), Inv[w])] BY <1>1, <2>1, <2>2, ApplyIs
    <3> QED BY <1>5, <2>1, <2>2, <3>1, ApplyIs
  <2>3. CASE t.kind = "XYZToLab2" /\ kind = "LabToLab2"
    <3>1. Apply(t, Apply(s, v)) = Mult(Root[Mult(Mult(w, Cube(v)), Inv[w])], Lab2)
      BY <1>1, <2>1, <2>3, ApplyIs
    <3> QED BY <1>5, <2>1, <2>3, <3>1, ApplyIs
  <2> QED BY <1>6, <2>2, <2>3 DEF LabJoins
<1>7. CASE s.kind = "Lab2ToXYZ" /\ t.kind \in {"XYZToLab", "XYZToLab2"}
  <2>1. Apply(s, v) = Mult(w, Cube(two)) /\ w # 0 BY <1>2, <1>7, ApplyIs DEF w, WhiteKinds, two
  <2>2. CASE t.kind = "XYZToLab2" /\ kind = "Identity"
    <3>1. Apply(t, Apply(s, v)) = Mult(Root[Mult(Mult(w, Cube(two)), Inv[w])], Lab2)
      BY <1>1, <2>1, <2>2, ApplyIs
    <3> QED BY <1>4, <1>5, <2>1, <2>2, <3>1, ApplyIs
  <2>3. CASE t.kind = "XYZToLab" /\ kind = "Lab2ToLab"
    <3>1. Apply(t, Apply(s, v)) = Root[Mult(Mult(w, Cube(two)), Inv[w])]
      BY <1>1, <2>1, <2>3, ApplyIs
    <3>2. Apply(u, v) = two BY <2>3, ApplyIs DEF two
    <3> QED BY <1>5, <2>1, <3>1, <3>2
  <2> QED BY <1>7, <2>2, <2>3 DEF LabJoins
<1>8. CASE s.kind = "XYZToLab"
  <2>1. t.kind = "LabToXYZ" /\ kind = "Identity" BY <1>8 DEF LabJoins
  <2>2. Apply(s, v) = Root[Mult(v, Inv[w])] /\ w # 0 BY <1>2, <1>8, ApplyIs DEF w, WhiteKinds
  <2>3. Apply(t, Apply(s, v)) = Mult(w, Cube(Root[Mult(v, Inv[w])])) BY <1>1, <2>1, <2>2, ApplyIs
  <2> QED BY <1>5, <2>1, <2>2, <2>3, ApplyIs
<1>9. CASE s.kind = "XYZToLab2"
  <2>1. t.kind = "Lab2ToXYZ" /\ kind = "Identity" BY <1>9 DEF LabJoins
  <2> DEFINE r == Root[Mult(v, Inv[w])]
  <2>2. Apply(s, v) = Mult(r, Lab2) /\ w # 0 BY <1>2, <1>9, ApplyIs DEF w, WhiteKinds
  <2>3. Apply(t, Apply(s, v)) = Mult(w, Cube(Mult(Mult(r, Lab2), Inv[Lab2])))
    BY <1>1, <2>1, <2>2, ApplyIs
  <2>4. r \in Level BY <1>5, <2>2
  <2>5. Mult(Mult(r, Lab2), Inv[Lab2]) = r
    <3> HIDE DEF r
    <3> QED BY <1>3, <2>4, Cancels
  <2> QED BY <1>5, <2>1, <2>2, <2>3, <2>5, ApplyIs
<1>10. CASE s.kind = "LabToLab2"
  <2>1. t.kind = "Lab2ToLab" /\ kind = "Identity" BY <1>10 DEF LabJoins
  <2>2. Apply(s, v) = Mult(v, Lab2) BY <1>10, ApplyIs
  <2> QED BY <1>4, <2>1, <2>2, ApplyIs
<1>11. CASE s.kind = "Lab2ToLab"
  <2>1. t.kind = "LabToLab2" /\ kind = "Identity" BY <1>11 DEF LabJoins
  <2>2. Apply(s, v) = two BY <1>11, ApplyIs DEF two
  <2> QED BY <1>4, <2>1, <2>2, ApplyIs
<1>12. \/ s.kind \in {"LabToXYZ", "Lab2ToXYZ"} /\ t.kind \in {"XYZToLab", "XYZToLab2"}
       \/ s.kind \in {"XYZToLab", "XYZToLab2", "LabToLab2", "Lab2ToLab"}
  BY DEF LabJoins
<1> QED BY <1>6, <1>7, <1>8, <1>9, <1>10, <1>11, <1>12

(* Two steps that are joined do the same as one after the other. *)
LEMMA ConcatApplies ==
  ASSUME NEW s, Legal(s), NEW t, Legal(t), Concat(s, t) # NoStep
  PROVE  LET u == Concat(s, t)
         IN /\ Legal(u) /\ u.in = s.in /\ u.out = t.out
            /\ "SrcMatrix" \notin {s.kind, t.kind, u.kind}
            /\ \A v \in Level : Apply(u, v) = Apply(t, Apply(s, v))
<1> DEFINE u == Concat(s, t)
<1>0. s.k \in Level /\ t.k \in Level /\ s.in \in Nat /\ t.out \in Nat /\ 0 \in Level
  BY ModulusIs DEF Legal
<1> DEFINE a == s.k
           b == t.k
<1>5. a \in Level /\ b \in Level BY <1>0
<1> HIDE DEF a, b
<1>6. /\ Mult(a, b) \in Level /\ Plus(a, b) \in Level
      /\ \A v \in Level : /\ Mult(Mult(v, a), b) = Mult(v, Mult(a, b))
                          /\ Plus(Plus(v, a), b) = Plus(v, Plus(a, b))
  BY <1>5, Ring
<1>1. CASE s.k = t.k /\ \E kind : /\ u = LabStep(kind, 0)
                                  /\ <<s.kind, t.kind, kind>> \in LabJoins
  <2>1. PICK kind : u = LabStep(kind, 0) /\ <<s.kind, t.kind, kind>> \in LabJoins BY <1>1
  <2>2. u.kind = kind /\ u.in = 3 /\ u.out = 3 /\ u.k = 0 BY <2>1, StepsAre DEF LabStep
  <2>3. s.kind \in LabKinds /\ t.kind \in LabKinds /\ kind \in {"Identity", "LabToLab2", "Lab2ToLab"}
    BY <2>1 DEF LabJoins, LabKinds, WhiteKinds
  <2>4. s.in = 3 /\ t.out = 3 /\ "SrcMatrix" \notin {s.kind, t.kind, kind}
    BY <2>3 DEF Legal, LabKinds, WhiteKinds
  <2>5. \A v \in Level : Apply(u, v) = Apply(t, Apply(s, v)) BY <1>1, <2>1, <2>2, LabConcat
  <2>7. u = PcsStep(u.kind, u.in, u.out, u.k)
    <3>1. u = PcsStep(kind, 3, 3, 0) BY <2>1 DEF LabStep
    <3> HIDE DEF u
    <3> QED BY <3>1, StepsAre
  <2> HIDE DEF u
  <2>6. Legal(u) BY <1>0, <2>2, <2>3, <2>7 DEF Legal, StepKinds, WhiteKinds
  <2> QED BY <2>2, <2>4, <2>5, <2>6 DEF u
<1>2. CASE s.out = t.in /\ s.kind = "Offset" /\ t.kind = "Offset" /\ u = Offset(s.in, Plus(s.k, t.k))
  <2>1. u.kind = "Offset" /\ u.in = s.in /\ u.out = s.in /\ u.k = Plus(s.k, t.k)
    BY <1>2, StepsAre DEF Offset
  <2>2. s.in = t.out BY <1>2 DEF Legal
  <2>3. u.k \in Level BY <1>6, <2>1 DEF a, b
  <2>4. ASSUME NEW v \in Level PROVE Apply(u, v) = Apply(t, Apply(s, v))
    <3>1. Apply(s, v) = Plus(v, s.k) BY <1>2, ApplyIs
    <3>2. Apply(t, Apply(s, v)) = Plus(Plus(v, s.k), t.k) BY <1>2, <3>1, ApplyIs
    <3>3. Apply(u, v) = Plus(v, Plus(s.k, t.k)) BY <2>1, ApplyIs
    <3> QED BY <1>6, <3>2, <3>3 DEF a, b
  <2>7. u = PcsStep(u.kind, u.in, u.out, u.k)
    <3>1. u = PcsStep("Offset", s.in, s.in, Plus(s.k, t.k)) BY <1>2 DEF Offset
    <3> HIDE DEF u
    <3> QED BY <3>1, StepsAre
  <2> HIDE DEF u
  <2>5. Legal(u) BY <1>0, <2>1, <2>3, <2>7 DEF Legal, StepKinds, WhiteKinds, LabKinds
  <2> QED BY <1>2, <2>1, <2>2, <2>4, <2>5 DEF u
<1>3. CASE s.out = t.in /\ s.kind = "Scale" /\ t.kind = "Scale" /\ u = Scale(s.in, Mult(s.k, t.k))
  <2>1. u.kind = "Scale" /\ u.in = s.in /\ u.out = s.in /\ u.k = Mult(s.k, t.k)
    BY <1>3, StepsAre DEF Scale
  <2>2. s.in = t.out BY <1>3 DEF Legal
  <2>3. u.k \in Level BY <1>6, <2>1 DEF a, b
  <2>4. ASSUME NEW v \in Level PROVE Apply(u, v) = Apply(t, Apply(s, v))
    <3>1. Apply(s, v) = Mult(v, s.k) BY <1>3, ApplyIs
    <3>2. Apply(t, Apply(s, v)) = Mult(Mult(v, s.k), t.k) BY <1>3, <3>1, ApplyIs
    <3>3. Apply(u, v) = Mult(v, Mult(s.k, t.k)) BY <2>1, ApplyIs
    <3> QED BY <1>6, <3>2, <3>3 DEF a, b
  <2>7. u = PcsStep(u.kind, u.in, u.out, u.k)
    <3>1. u = PcsStep("Scale", s.in, s.in, Mult(s.k, t.k)) BY <1>3 DEF Scale
    <3> HIDE DEF u
    <3> QED BY <3>1, StepsAre
  <2> HIDE DEF u
  <2>5. Legal(u) BY <1>0, <2>1, <2>3, <2>7 DEF Legal, StepKinds, WhiteKinds, LabKinds
  <2> QED BY <1>3, <2>1, <2>2, <2>4, <2>5 DEF u
<1>4. CASE /\ s.out = t.in /\ s.kind \in {"Scale", "Matrix"} /\ t.kind \in {"Scale", "Matrix"}
           /\ u = Matrix(t.out, s.in, Mult(s.k, t.k))
  <2>1. u.kind = "Matrix" /\ u.in = s.in /\ u.out = t.out /\ u.k = Mult(s.k, t.k)
    BY <1>4, StepsAre DEF Matrix
  <2>3. u.k \in Level BY <1>6, <2>1 DEF a, b
  <2>4. ASSUME NEW v \in Level PROVE Apply(u, v) = Apply(t, Apply(s, v))
    <3>1. Apply(s, v) = Mult(v, s.k) BY <1>4, ApplyIs
    <3>2. Apply(t, Apply(s, v)) = Mult(Mult(v, s.k), t.k) BY <1>4, <3>1, ApplyIs
    <3>3. Apply(u, v) = Mult(v, Mult(s.k, t.k)) BY <2>1, ApplyIs
    <3> QED BY <1>6, <3>2, <3>3 DEF a, b
  <2>7. u = PcsStep(u.kind, u.in, u.out, u.k)
    <3>1. u = PcsStep("Matrix", s.in, t.out, Mult(s.k, t.k)) BY <1>4 DEF Matrix
    <3> HIDE DEF u
    <3> QED BY <3>1, StepsAre
  <2> HIDE DEF u
  <2>5. Legal(u) BY <1>0, <2>1, <2>3, <2>7 DEF Legal, StepKinds, WhiteKinds, LabKinds
  <2> QED BY <1>4, <2>1, <2>4, <2>5 DEF u
<1> QED BY <1>1, <1>2, <1>3, <1>4, ConcatGives

(* A step that is left out does nothing. *)
LEMMA IdentityApplies ==
  ASSUME NEW s, Legal(s), IsIdentity(s)
  PROVE  /\ s.in = s.out /\ s.kind # "SrcMatrix"
         /\ \A v \in Level : Apply(s, v) = v
<1>1. s.kind \in {"Identity", "Offset", "Scale", "Matrix"} /\ s.in = s.out
  BY DEF IsIdentity, Legal, LabKinds
<1>2. \/ s.kind = "Identity"
      \/ s.kind = "Offset" /\ s.k = 0
      \/ s.kind = "Scale" /\ s.k = 1
      \/ s.kind = "Matrix" /\ s.k = 1
  BY DEF IsIdentity
<1>3. \A v \in Level : Mult(v, 1) = v /\ Plus(v, 0) = v BY Ring, ModulusIs
<1>4. \A v \in Level : Apply(s, v) = v BY <1>2, <1>3, ApplyIs
<1> QED BY <1>1, <1>4

-----------------------------------------------------------------------------
(* Optimize: what is joined, dropped or reduced does what was there before. *)

LEMMA KeptIs ==
  ASSUME NEW list, List(list), NEW step
  PROVE  /\ List(Kept(list, step))
         /\ Kept(list, step) = list \/ /\ Kept(list, step) = Append(list, step)
                                       /\ ~IsIdentity(step)
BY Appended DEF Kept

Acc(r) == r = [list |-> r.list, step |-> r.step, joined |-> r.joined]

LEMMA CombinedIs ==
  ASSUME NEW r, Acc(r), NEW t
  PROVE  LET new == Combined(r, t)
             joined == Concat(r.step, t)
         IN /\ Acc(new)
            /\ joined # NoStep => new.list = r.list /\ new.step = joined
            /\ joined = NoStep => new.list = Kept(r.list, r.step) /\ new.step = t
<1> DEFINE joined == Concat(r.step, t)
           kept == Kept(r.list, r.step)
           F == {"list", "step", "joined"}
<1>1. r = [f \in F |-> r[f]]
  <2>1. r = [list |-> r.list, step |-> r.step, joined |-> r.joined] BY DEF Acc
  <2>2. [list |-> r.list, step |-> r.step, joined |-> r.joined] = [f \in F |-> r[f]] OBVIOUS
  <2> QED BY <2>1, <2>2, Zenon
<1>2. joined # NoStep =>
        Combined(r, t) = [f \in F |-> IF f = "joined" THEN TRUE
                                      ELSE IF f = "step" THEN joined ELSE r[f]]
  <2> DEFINE a == [r EXCEPT !.step = joined]
             b == [a EXCEPT !.joined = TRUE]
  <2>1. a = [f \in F |-> IF f = "step" THEN joined ELSE r[f]] BY <1>1, Zenon
  <2>2. b = [f \in F |-> IF f = "joined" THEN TRUE ELSE a[f]] BY <2>1, Zenon
  <2>3. joined # NoStep => Combined(r, t) = b BY Zenon DEF Combined
  <2> HIDE DEF joined, b, a
  <2> QED BY <2>1, <2>2, <2>3
<1>3. joined = NoStep =>
        Combined(r, t) = [f \in F |-> IF f = "step" THEN t
                                      ELSE IF f = "list" THEN kept ELSE r[f]]
  <2> DEFINE a == [r EXCEPT !.list = kept]
             b == [a EXCEPT !.step = t]
  <2>1. a = [f \in F |-> IF f = "list" THEN kept ELSE r[f]] BY <1>1, Zenon
  <2>2. b = [f \in F |-> IF f = "step" THEN t ELSE a[f]] BY <2>1, Zenon
  <2>3. joined = NoStep => Combined(r, t) = b BY <1>1, Zenon DEF Combined
  <2> HIDE DEF joined, b, a, kept
  <2> QED BY <2>1, <2>2, <2>3
<1> HIDE DEF joined, kept
<1>4. /\ joined # NoStep =>
           /\ Acc(Combined(r, t)) /\ Combined(r, t).list = r.list
           /\ Combined(r, t).step = joined
      /\ joined = NoStep =>
           /\ Acc(Combined(r, t)) /\ Combined(r, t).list = kept
           /\ Combined(r, t).step = t
  BY <1>2, <1>3 DEF Acc
<1> QED BY <1>4 DEF joined, kept


(* The channels that leave a list of steps, of a pixel of in channels, and   *)
(* lists in which every step reads what the one before writes.               *)
End(list, in) == IF Len(list) = 0 THEN in ELSE list[Len(list)].out

Fits(list, in) ==
  /\ List(list)
  /\ \A k \in 1 .. Len(list) :
       /\ Legal(list[k]) /\ Reads(list[k]) = IF k = 1 THEN in ELSE list[k - 1].out
       /\ k > 1 => list[k].kind # "SrcMatrix"

LEMMA RunIn ==
  ASSUME NEW list, NEW in, Fits(list, in), NEW v \in Level
  PROVE  Run(list, v) \in Level
<1> DEFINE n == Len(list)
<1>1. PICK r : /\ r[0] = v
               /\ \A k \in 1 .. n : r[k] = Apply(list[k], r[k - 1])
               /\ Run(list, v) = r[n]
  BY RunGoesOn DEF Fits
<1>2. n \in Nat /\ \A k \in 1 .. n : Legal(list[k]) BY DEF Fits, List
<1> HIDE DEF n
<1> DEFINE S == {k \in 0 .. n : r[k] \in Level}
<1>3. 0 \in S
  <2>1. 0 \in 0 .. n BY <1>2
  <2> QED BY <1>1, <2>1
<1>4. ASSUME NEW k \in 0 .. n - 1, k \in S PROVE k + 1 \in S
  <2>1. k + 1 \in 1 .. n /\ k + 1 \in 0 .. n /\ k + 1 - 1 = k BY <1>2
  <2>2. r[k + 1] = Apply(list[k + 1], r[k]) /\ Legal(list[k + 1]) BY <1>1, <1>2, <2>1
  <2>3. r[k] \in Level BY <1>4
  <2> QED BY <2>1, <2>2, <2>3, ApplyIn
<1>5. n \in S
  <2> HIDE DEF S
  <2> QED BY <1>2, <1>3, <1>4, UpTo
<1> QED BY <1>1, <1>5

LEMMA ReadsIs ==
  ASSUME NEW s PROVE s.kind # "SrcMatrix" => Reads(s) = s.in
BY DEF Reads

LEMMA KeptFits ==
  ASSUME NEW list, NEW in, Fits(list, in), NEW step, Legal(step), Reads(step) = End(list, in),
         step.kind = "SrcMatrix" => Len(list) = 0
  PROVE  /\ Fits(Kept(list, step), in) /\ End(Kept(list, step), in) = step.out
         /\ \A v \in Level : Run(Kept(list, step), v) = Apply(step, Run(list, v))
<1> DEFINE new == Append(list, step)
<1>1. CASE IsIdentity(step)
  <2>1. Kept(list, step) = list BY <1>1 DEF Kept
  <2>2. step.in = step.out /\ step.kind # "SrcMatrix" /\ \A v \in Level : Apply(step, v) = v
    BY <1>1, IdentityApplies
  <2>3. \A v \in Level : Run(list, v) \in Level BY RunIn
  <2> QED BY <2>1, <2>2, <2>3, ReadsIs
<1>2. CASE ~IsIdentity(step)
  <2>1. Kept(list, step) = new BY <1>2 DEF Kept
  <2>0. List(list) /\ Len(list) \in Nat BY DEF Fits, List
  <2>2. /\ List(new) /\ Len(new) = Len(list) + 1 /\ new[Len(list) + 1] = step
        /\ \A k \in 1 .. Len(list) : new[k] = list[k]
        /\ \A v : Run(new, v) = Apply(step, Run(list, v))
    BY <2>0, Appended, RunAppended
  <2> HIDE DEF new
  <2>3. ASSUME NEW k \in 1 .. Len(new)
        PROVE  /\ Legal(new[k]) /\ Reads(new[k]) = IF k = 1 THEN in ELSE new[k - 1].out
               /\ k > 1 => new[k].kind # "SrcMatrix"
    <3>1. CASE k \in 1 .. Len(list)
      <4>1. new[k] = list[k] /\ (k # 1 => new[k - 1] = list[k - 1]) BY <2>0, <2>2, <3>1
      <4> QED BY <3>1, <4>1 DEF Fits
    <3>2. CASE k = Len(list) + 1
      <4>1. new[k] = step /\ (k > 1 => step.kind # "SrcMatrix") BY <2>0, <2>2, <3>2
      <4>2. CASE k = 1 BY <2>0, <3>2, <4>1, <4>2 DEF End
      <4>3. CASE k # 1
        <5>1. k - 1 = Len(list) /\ k - 1 \in 1 .. Len(list) /\ Len(list) # 0 BY <2>0, <3>2, <4>3
        <5>2. new[k - 1] = list[Len(list)] BY <2>2, <5>1
        <5> QED BY <4>1, <4>3, <5>1, <5>2 DEF End
      <4> QED BY <4>2, <4>3
    <3> QED BY <2>0, <2>2, <3>1, <3>2
  <2>4. Fits(new, in) BY <2>2, <2>3 DEF Fits
  <2>5. End(new, in) = step.out BY <2>0, <2>2 DEF End
  <2> QED BY <2>1, <2>2, <2>4, <2>5
<1> QED BY <1>1, <1>2

(* How far the fold of a pass is: its steps take a pixel of in channels to    *)
(* out, and level v to w.                                                    *)
PassReached(r, in, out, v, w) ==
  /\ Acc(r) /\ Fits(r.list, in) /\ Legal(r.step)
  /\ Reads(r.step) = End(r.list, in) /\ r.step.out = out
  /\ r.step.kind = "SrcMatrix" => Len(r.list) = 0
  /\ Apply(r.step, Run(r.list, v)) = w

LEMMA ReachedOn ==
  ASSUME NEW r, NEW in, NEW out, NEW v \in Level, NEW w, PassReached(r, in, out, v, w),
         NEW t, Legal(t), t.kind # "SrcMatrix", Reads(t) = out
  PROVE  PassReached(Combined(r, t), in, t.out, v, Apply(t, w))
<1> DEFINE new == Combined(r, t)
           joined == Concat(r.step, t)
           kept == Kept(r.list, r.step)
           s == r.step
<1>1. /\ Acc(new)
      /\ joined # NoStep => new.list = r.list /\ new.step = joined
      /\ joined = NoStep => new.list = kept /\ new.step = t
  BY CombinedIs DEF PassReached
<1>2. /\ Fits(r.list, in) /\ Legal(s) /\ Reads(s) = End(r.list, in) /\ s.out = out
      /\ (s.kind = "SrcMatrix" => Len(r.list) = 0) /\ Apply(s, Run(r.list, v)) = w
  BY DEF PassReached
<1>3. Run(r.list, v) \in Level BY <1>2, RunIn
<1>4. CASE joined # NoStep
  <2>1. /\ Legal(joined) /\ joined.in = s.in /\ joined.out = t.out
        /\ s.kind # "SrcMatrix" /\ joined.kind # "SrcMatrix"
        /\ \A x \in Level : Apply(joined, x) = Apply(t, Apply(s, x))
    BY <1>2, <1>4, ConcatApplies
  <2> HIDE DEF joined, new, s
  <2>2. Reads(joined) = End(r.list, in) BY <1>2, <2>1, ReadsIs
  <2>3. Apply(joined, Run(r.list, v)) = Apply(t, w) BY <1>2, <1>3, <2>1
  <2> QED BY <1>1, <1>2, <1>4, <2>1, <2>2, <2>3 DEF PassReached, new
<1>5. CASE joined = NoStep
  <2>1. /\ Fits(kept, in) /\ End(kept, in) = s.out
        /\ Run(kept, v) = Apply(s, Run(r.list, v))
    BY <1>2, KeptFits
  <2> HIDE DEF joined, new, s, kept
  <2> QED BY <1>1, <1>2, <1>5, <2>1 DEF PassReached, new
<1> QED BY <1>4, <1>5

LEMMA PassFits ==
  ASSUME NEW steps, NEW in, Fits(steps, in), Len(steps) > 0
  PROVE  /\ Fits(Pass(steps).list, in) /\ End(Pass(steps).list, in) = End(steps, in)
         /\ \A v \in Level : Run(Pass(steps).list, v) = Run(steps, v)
<1> DEFINE n == Len(steps)
<1>1. List(steps) /\ n \in Nat /\ n > 0 BY DEF Fits, List
<1>2. PICK acc :
        /\ acc[1] = StartOf(steps)
        /\ \A k \in 2 .. n : acc[k] = Combined(acc[k - 1], steps[k])
        /\ Pass(steps) = [list |-> Kept(acc[n].list, acc[n].step), joined |-> acc[n].joined]
  BY <1>1, PassRuns
<1>3. \A k \in 1 .. n :
        /\ Legal(steps[k]) /\ Reads(steps[k]) = IF k = 1 THEN in ELSE steps[k - 1].out
        /\ k > 1 => steps[k].kind # "SrcMatrix"
  BY DEF Fits
<1>4. End(steps, in) = steps[n].out BY <1>1 DEF End
<1> HIDE DEF n
<1>5. ASSUME NEW v \in Level PROVE PassReached(acc[n], in, steps[n].out, v, Run(steps, v))
  <2>1. PICK q : /\ q[0] = v
                 /\ \A k \in 1 .. n : q[k] = Apply(steps[k], q[k - 1])
                 /\ Run(steps, v) = q[n]
    BY <1>1, RunGoesOn DEF n
  <2> DEFINE T == {k \in 0 .. n - 1 : PassReached(acc[k + 1], in, steps[k + 1].out, v, q[k + 1])}
  <2>2. 0 \in T
    <3> DEFINE none == <<>>
    <3>1. Len(none) = 0 /\ List(none) /\ Run(none, v) = v BY NothingIs, RunOfNothing
    <3>2. acc[1] = [list |-> none, step |-> steps[1], joined |-> FALSE] BY <1>2 DEF StartOf
    <3> HIDE DEF none
    <3>3. Acc(acc[1]) /\ acc[1].list = none /\ acc[1].step = steps[1] BY <3>2 DEF Acc
    <3>4. Fits(none, in) /\ End(none, in) = in BY <3>1 DEF Fits, End
    <3>5. 1 \in 1 .. n /\ 0 \in 0 .. n - 1 BY <1>1
    <3>6. Legal(steps[1]) /\ Reads(steps[1]) = in BY <1>3, <3>5
    <3>7. q[1] = Apply(steps[1], v) BY <2>1, <3>5
    <3>8. PassReached(acc[1], in, steps[1].out, v, q[1])
      BY <3>1, <3>3, <3>4, <3>6, <3>7 DEF PassReached
    <3> QED BY <3>5, <3>8
  <2>3. ASSUME NEW k \in 0 .. n - 1 - 1, k \in T PROVE k + 1 \in T
    <3> DEFINE j == k + 1
               t == steps[j + 1]
    <3>1. /\ j \in Nat /\ j + 1 \in 2 .. n /\ j + 1 \in 1 .. n /\ j + 1 - 1 = j
          /\ j \in 0 .. n - 1 /\ j + 1 > 1 /\ j + 1 # 1
      BY <1>1
    <3>2. PassReached(acc[j], in, steps[j].out, v, q[j]) BY <2>3
    <3> HIDE DEF j, T
    <3>3. acc[j + 1] = Combined(acc[j], t) BY <1>2, <3>1
    <3>4. Legal(t) /\ t.kind # "SrcMatrix" /\ Reads(t) = steps[j].out BY <1>3, <3>1
    <3>5. q[j + 1] = Apply(t, q[j]) BY <2>1, <3>1
    <3>6. PassReached(Combined(acc[j], t), in, t.out, v, Apply(t, q[j]))
      <4> HIDE DEF t
      <4> QED BY <3>2, <3>4, ReachedOn
    <3>7. j \in T BY <3>1, <3>3, <3>5, <3>6 DEF T
    <3> QED BY <3>7 DEF j
  <2>4. n - 1 \in T
    <3>1. n - 1 \in Nat BY <1>1
    <3> HIDE DEF T
    <3> QED BY <2>2, <2>3, <3>1, UpTo
  <2>5. n - 1 + 1 = n BY <1>1
  <2> QED BY <2>1, <2>4, <2>5
<1> DEFINE r == acc[n]
           kept == Kept(r.list, r.step)
<1>6. ASSUME NEW v \in Level
      PROVE  /\ Fits(kept, in) /\ End(kept, in) = steps[n].out
             /\ Run(kept, v) = Run(steps, v)
  <2>1. PassReached(r, in, steps[n].out, v, Run(steps, v)) BY <1>5
  <2> HIDE DEF r
  <2>2. /\ Fits(r.list, in) /\ Legal(r.step) /\ Reads(r.step) = End(r.list, in)
        /\ r.step.out = steps[n].out /\ (r.step.kind = "SrcMatrix" => Len(r.list) = 0)
        /\ Apply(r.step, Run(r.list, v)) = Run(steps, v)
    BY <2>1 DEF PassReached
  <2> QED BY <2>2, KeptFits
<1>7. Pass(steps).list = kept BY <1>2
<1>8. 0 \in Level BY ModulusIs
<1> HIDE DEF kept
<1> QED BY <1>4, <1>6, <1>7, <1>8

LEMMA EmptyIs ==
  ASSUME NEW s, List(s), Len(s) = 0 PROVE s = <<>>
<1> DEFINE S == {s[k] : k \in 1 .. Len(s)}
<1>1. s \in [1 .. Len(s) -> S] BY DEF List
<1>2. s \in Seq(S) BY <1>1
<1> QED BY <1>2

LEMMA ReduceApplies ==
  ASSUME NEW s, Legal(s)
  PROVE  LET u == Reduce(s)
         IN /\ Legal(u) /\ u.in = s.in /\ u.out = s.out /\ Reads(u) = Reads(s)
            /\ u.kind = "SrcMatrix" => s.kind = "SrcMatrix"
            /\ \A v : Apply(u, v) = Apply(s, v)
<1> DEFINE new == [s EXCEPT !.kind = "SparseMatrix"]
<1>1. s = PcsStep(s.kind, s.in, s.out, s.k) BY DEF Legal
<1>2. CASE s.kind = "Matrix" /\ s.in > 3 /\ s.out > 3
  <2>1. Reduce(s) = new BY <1>2 DEF Reduce
  <2>2. new.kind = "SparseMatrix" /\ new.in = s.in /\ new.out = s.out /\ new.k = s.k
        /\ new = PcsStep(new.kind, new.in, new.out, new.k)
    BY <1>1 DEF PcsStep
  <2> HIDE DEF new
  <2>3. Legal(new) BY <1>2, <2>2 DEF Legal, StepKinds, WhiteKinds, LabKinds
  <2>4. Reads(new) = new.in /\ Reads(s) = s.in BY <1>2, <2>2, ReadsIs
  <2>5. \A v : Apply(new, v) = Mult(v, s.k) /\ Apply(s, v) = Mult(v, s.k) BY <1>2, <2>2, ApplyIs
  <2> QED BY <2>1, <2>2, <2>3, <2>4, <2>5
<1>3. CASE ~(s.kind = "Matrix" /\ s.in > 3 /\ s.out > 3)
  <2>1. Reduce(s) = s BY <1>3 DEF Reduce
  <2> QED BY <2>1
<1> QED BY <1>2, <1>3

LEMMA ReducedFits ==
  ASSUME NEW list, NEW in, Fits(list, in)
  PROVE  LET new == [i \in DOMAIN list |-> Reduce(list[i])]
         IN /\ Fits(new, in) /\ End(new, in) = End(list, in)
            /\ \A v : Run(new, v) = Run(list, v)
<1> DEFINE n == Len(list)
           new == [i \in DOMAIN list |-> Reduce(list[i])]
<1>1. List(list) /\ n \in Nat /\ DOMAIN list = 1 .. n BY ListDomain DEF Fits, List
<1>2. \A k \in 1 .. n : new[k] = Reduce(list[k]) BY <1>1
<1>3. List(new) /\ Len(new) = n
  <2>1. new = [k \in 1 .. n |-> new[k]] BY <1>1
  <2> HIDE DEF new
  <2> QED BY <1>1, <2>1, FunctionIsList
<1> HIDE DEF new, n
<1>4. ASSUME NEW k \in 1 .. n
      PROVE  /\ Legal(new[k]) /\ Reads(new[k]) = Reads(list[k]) /\ new[k].out = list[k].out
             /\ new[k].kind = "SrcMatrix" => list[k].kind = "SrcMatrix"
             /\ \A v : Apply(new[k], v) = Apply(list[k], v)
  <2>1. Legal(list[k]) BY DEF Fits, n
  <2> QED BY <1>2, <2>1, ReduceApplies
<1>5. ASSUME NEW k \in 1 .. n
      PROVE  /\ Legal(new[k]) /\ Reads(new[k]) = IF k = 1 THEN in ELSE new[k - 1].out
             /\ k > 1 => new[k].kind # "SrcMatrix"
  <2>1. Reads(list[k]) = IF k = 1 THEN in ELSE list[k - 1].out
    BY DEF Fits, n
  <2>2. k > 1 => list[k].kind # "SrcMatrix" BY DEF Fits, n
  <2>3. k # 1 => k - 1 \in 1 .. n BY <1>1
  <2>4. k # 1 => new[k - 1].out = list[k - 1].out BY <1>4, <2>3
  <2> QED BY <1>4, <2>1, <2>2, <2>4
<1>6. Fits(new, in) BY <1>3, <1>5 DEF Fits
<1>7. End(new, in) = End(list, in)
  <2>1. n # 0 => n \in 1 .. n BY <1>1
  <2>2. n # 0 => new[n].out = list[n].out BY <1>4, <2>1
  <2> QED BY <1>3, <2>2 DEF End, n
<1>8. ASSUME NEW v PROVE Run(new, v) = Run(list, v)
  <2>1. PICK r : /\ r[0] = v
                 /\ \A k \in 1 .. n : r[k] = Apply(list[k], r[k - 1])
                 /\ Run(list, v) = r[n]
    BY <1>1, RunGoesOn DEF n
  <2>2. \A k \in 1 .. Len(new) : r[k] = Apply(new[k], r[k - 1]) BY <1>3, <1>4, <2>1
  <2>3. Run(new, v) = r[Len(new)] BY <1>3, <2>1, <2>2, RunIs
  <2> QED BY <1>3, <2>1, <2>3
<1> QED BY <1>6, <1>7, <1>8 DEF new

(* Optimize makes steps that do the same and still fit one another. *)
LEMMA OptimizeFits ==
  ASSUME NEW steps, NEW in, Fits(steps, in)
  PROVE  /\ Fits(Optimize(steps), in) /\ End(Optimize(steps), in) = End(steps, in)
         /\ \A v \in Level : Run(Optimize(steps), v) = Run(steps, v)
<1> DEFINE n == Len(steps)
           start == [list |-> steps, joined |-> TRUE]
           On(b) == IF b.joined /\ b.list # <<>> THEN Pass(b.list) ELSE b
           Over(f, m) == f = [k \in 0 .. m |-> IF k = 0 THEN start ELSE On(f[k - 1])]
           T == {m \in 0 .. n : \E f : Over(f, m)}
<1>0. n \in Nat BY DEF Fits, List
<1>1. 0 \in T
  <2> DEFINE f == [k \in 0 .. 0 |-> start]
  <2>1. Over(f, 0) OBVIOUS
  <2>2. 0 \in 0 .. n BY <1>0
  <2> HIDE DEF Over, f
  <2> QED BY <2>1, <2>2
<1>2. ASSUME NEW m \in 0 .. n - 1, m \in T PROVE m + 1 \in T
  <2>1. PICK f : Over(f, m) BY <1>2
  <2> HIDE DEF On, start
  <2> DEFINE g == [k \in 0 .. m + 1 |-> IF k # m + 1 THEN f[k] ELSE On(f[m])]
  <2>0. m \in Nat BY <1>0
  <2>2. \A k \in 0 .. m + 1 : g[k] = IF k = 0 THEN start ELSE On(g[k - 1])
    <3> TAKE k \in 0 .. m + 1
    <3>1. CASE k = 0
      <4>1. k # m + 1 /\ 0 \in 0 .. m BY <2>0, <3>1
      <4>2. f[0] = start BY <2>1, <4>1
      <4> QED BY <3>1, <4>1, <4>2
    <3>2. CASE k = m + 1
      <4>1. k # 0 /\ k - 1 = m /\ m \in 0 .. m + 1 /\ m # m + 1 BY <2>0, <3>2
      <4>2. g[k - 1] = f[m] BY <4>1
      <4> QED BY <3>2, <4>1, <4>2
    <3>3. CASE k # 0 /\ k # m + 1
      <4>1. k \in 0 .. m /\ k - 1 \in 0 .. m + 1 /\ k - 1 # m + 1 BY <2>0, <3>3
      <4>2. g[k] = f[k] /\ g[k - 1] = f[k - 1] BY <3>3, <4>1
      <4>3. f[k] = On(f[k - 1]) BY <2>1, <3>3, <4>1
      <4> QED BY <3>3, <4>2, <4>3
    <3> QED BY <3>1, <3>2, <3>3
  <2>3. g = [k \in 0 .. m + 1 |-> g[k]] OBVIOUS
  <2> HIDE DEF g
  <2>4. Over(g, m + 1) BY <2>2, <2>3, Zenon
  <2>5. m + 1 \in 0 .. n BY <1>0
  <2> HIDE DEF Over
  <2> QED BY <2>4, <2>5
<1>3. n \in T
  <2> HIDE DEF T, n
  <2> QED BY <1>0, <1>1, <1>2, UpTo
<1>4. PICK f : Over(f, n) BY <1>3
<1> DEFINE after[k \in 0 .. Len(steps)] ==
             IF k = 0 THEN [list |-> steps, joined |-> TRUE]
             ELSE LET before == after[k - 1]
                  IN IF before.joined /\ before.list # <<>> THEN Pass(before.list) ELSE before
           list == after[Len(steps)].list
<1>5. Over(after, n) BY <1>4, Zenon
<1>6. Optimize(steps) = [i \in DOMAIN list |-> Reduce(list[i])] BY Zenon DEF Optimize
<1> HIDE DEF after
<1> DEFINE Same(l) == /\ Fits(l, in) /\ End(l, in) = End(steps, in)
                      /\ \A v \in Level : Run(l, v) = Run(steps, v)
           G == {k \in 0 .. n : Same(after[k].list)}
<1>7. \A k \in 0 .. n : after[k] = IF k = 0 THEN start ELSE On(after[k - 1])
  <2> HIDE DEF On, start
  <2> QED BY <1>5, Zenon
<1> HIDE DEF Over
<1>8. 0 \in G
  <2>1. 0 \in 0 .. n BY <1>0
  <2>2. after[0] = start BY <1>7, <2>1
  <2>3. after[0].list = steps BY <2>2
  <2>4. Same(steps) OBVIOUS
  <2> HIDE DEF Same
  <2> QED BY <2>1, <2>3, <2>4
<1>9. ASSUME NEW k \in 0 .. n - 1, k \in G PROVE k + 1 \in G
  <2>1. k + 1 \in 0 .. n /\ k + 1 # 0 /\ k + 1 - 1 = k BY <1>0
  <2>2. after[k + 1] = On(after[k])
    <3> HIDE DEF On, start
    <3> QED BY <1>7, <2>1
  <2> DEFINE l == after[k].list
  <2>3. Same(l) BY <1>9
  <2> HIDE DEF l
  <2>4. l # <<>> => Same(Pass(l).list)
    <3>1. List(l) /\ Len(l) \in Nat BY <2>3 DEF Fits, List
    <3>2. l # <<>> => Len(l) > 0 BY <3>1, EmptyIs
    <3>3. l # <<>> => /\ Fits(Pass(l).list, in) /\ End(Pass(l).list, in) = End(l, in)
                      /\ \A v \in Level : Run(Pass(l).list, v) = Run(l, v)
      BY <2>3, <3>2, PassFits
    <3> QED BY <2>3, <3>3
  <2> HIDE DEF Same
  <2>5. Same(after[k + 1].list) BY <2>2, <2>3, <2>4 DEF l
  <2> QED BY <2>1, <2>5
<1>10. n \in G
  <2> HIDE DEF G, n
  <2> QED BY <1>0, <1>8, <1>9, UpTo
<1>11. Same(list) BY <1>10
<1> HIDE DEF list, G
<1> QED BY <1>6, <1>11, ReducedFits

-----------------------------------------------------------------------------
(* Among numbers there is a largest. *)
LEMMA Largest ==
  ASSUME NEW n \in Nat, n > 0, NEW f, \A k \in 1 .. n : f[k] \in Nat
  PROVE  \E j \in 1 .. n : \A k \in 1 .. n : f[k] <= f[j]
<1> DEFINE m == n - 1
           S == {i \in 0 .. m : \E j \in 1 .. i + 1 : \A k \in 1 .. i + 1 : f[k] <= f[j]}
<1>1. m \in Nat /\ m + 1 = n OBVIOUS
<1> HIDE DEF m
<1>2. 0 \in S
  <2>1. 1 \in 1 .. n /\ 0 \in 0 .. m /\ 1 \in 1 .. 0 + 1 /\ \A k \in 1 .. 0 + 1 : k = 1 BY <1>1
  <2>2. f[1] \in Nat BY <2>1
  <2>3. f[1] <= f[1] BY <2>2
  <2> QED BY <2>1, <2>3
<1>3. ASSUME NEW i \in 0 .. m - 1, i \in S PROVE i + 1 \in S
  <2>1. PICK j \in 1 .. i + 1 : \A k \in 1 .. i + 1 : f[k] <= f[j] BY <1>3
  <2> DEFINE next == i + 1 + 1
  <2>2. /\ i + 1 \in 0 .. m /\ next \in 1 .. n /\ j \in 1 .. n /\ j \in 1 .. next
        /\ next \in 1 .. next
        /\ \A k \in 1 .. next : k \in 1 .. i + 1 \/ k = next
        /\ \A k \in 1 .. next : k \in 1 .. n
    BY <1>1
  <2>3. \A k \in 1 .. next : f[k] \in Nat BY <2>2
  <2>4. CASE f[next] <= f[j]
    <3>1. \A k \in 1 .. next : f[k] <= f[j] BY <2>1, <2>2, <2>4
    <3> QED BY <2>2, <3>1
  <2>5. CASE ~(f[next] <= f[j])
    <3>1. \A k \in 1 .. next : f[k] <= f[next]
      <4> TAKE k \in 1 .. next
      <4>1. f[next] \in Nat /\ f[j] \in Nat /\ f[k] \in Nat BY <2>2, <2>3
      <4>2. CASE k = next BY <4>1, <4>2
      <4>3. CASE k \in 1 .. i + 1
        <5>1. f[k] <= f[j] BY <2>1, <4>3
        <5> QED BY <2>5, <4>1, <5>1
      <4> QED BY <2>2, <4>2, <4>3
    <3> QED BY <2>2, <3>1
  <2> QED BY <2>4, <2>5
<1>4. m \in S
  <2> HIDE DEF S
  <2> QED BY <1>1, <1>2, <1>3, UpTo
<1> QED BY <1>1, <1>4

LEMMA FitsChained ==
  ASSUME NEW list, NEW in, Fits(list, in)
  PROVE  Chained(list, in, End(list, in))
<1> DEFINE n == Len(list)
<1>0. List(list) /\ n \in Nat BY DEF Fits, List
<1>1. CASE list = <<>>
  <2>1. n = 0 BY <1>1
  <2> QED BY <1>1, <2>1 DEF Chained, End
<1>2. CASE list # <<>>
  <2>0. n > 0 BY <1>0, <1>2, EmptyIs
  <2>1. \A k \in 1 .. n :
          /\ Legal(list[k]) /\ Reads(list[k]) = IF k = 1 THEN in ELSE list[k - 1].out
          /\ k > 1 => list[k].kind # "SrcMatrix"
    BY DEF Fits
  <2> HIDE DEF n
  <2>2. 1 \in 1 .. n /\ n \in 1 .. n BY <1>0, <2>0
  <2>3. Reads(list[1]) = in BY <2>1, <2>2
  <2>4. Last(list).out = End(list, in) BY <2>0 DEF Last, End, n
  <2> DEFINE f == [k \in 1 .. n |-> IF k = 1 THEN list[1].out ELSE list[k].in]
             S == {list[1].out} \cup {list[i].in : i \in 2 .. n}
  <2>5. \A k \in 1 .. n : f[k] \in Nat /\ f[k] \in S
    <3> TAKE k \in 1 .. n
    <3>1. Legal(list[k]) /\ Legal(list[1]) BY <2>1, <2>2
    <3>2. list[k].in \in Nat /\ list[1].out \in Nat BY <3>1 DEF Legal
    <3>3. k = 1 \/ k \in 2 .. n BY <1>0
    <3> QED BY <3>2, <3>3
  <2>6. PICK j \in 1 .. n : \A k \in 1 .. n : f[k] <= f[j]
    <3> HIDE DEF f
    <3> QED BY <1>0, <2>0, <2>5, Largest
  <2>7. \A x \in S : \E k \in 1 .. n : x = f[k]
    <3> TAKE x \in S
    <3>1. CASE x = list[1].out BY <2>2, <3>1
    <3>2. CASE \E i \in 2 .. n : x = list[i].in
      <4>1. PICK i \in 2 .. n : x = list[i].in BY <3>2
      <4>2. i \in 1 .. n /\ i # 1 BY <1>0
      <4> QED BY <4>1, <4>2
    <3> QED BY <3>1, <3>2
  <2>8. MaxChannels(list) = Max(S) BY <1>2 DEF MaxChannels, n
  <2> HIDE DEF S
  <2>9. Max(S) \in S /\ \A x \in S : Max(S) >= x
    <3>1. f[j] \in S /\ \A x \in S : f[j] >= x
      <4>1. f[j] \in S BY <2>5
      <4>2. ASSUME NEW x \in S PROVE f[j] >= x
        <5>1. PICK k \in 1 .. n : x = f[k] BY <2>7
        <5>2. f[k] \in Nat /\ f[j] \in Nat /\ f[k] <= f[j] BY <2>5, <2>6
        <5> HIDE DEF f
        <5> QED BY <5>1, <5>2
      <4> QED BY <4>1, <4>2
    <3> HIDE DEF f
    <3> QED BY <3>1 DEF Max
  <2>10. ASSUME NEW i \in 1 .. n - 1
         PROVE  list[i].out = Reads(list[i + 1]) /\ list[i].out <= MaxChannels(list)
    <3>1. i + 1 \in 1 .. n /\ i + 1 # 1 /\ i + 1 > 1 /\ i + 1 - 1 = i /\ i + 1 \in 2 .. n BY <1>0
    <3>2. list[i].out = Reads(list[i + 1]) /\ list[i + 1].kind # "SrcMatrix" BY <2>1, <3>1
    <3>3. list[i].out = list[i + 1].in BY <3>2, ReadsIs
    <3>4. list[i + 1].in \in S BY <3>1 DEF S
    <3>5. \A x \in S : x \in Nat
      <4> HIDE DEF f
      <4> QED BY <2>5, <2>7
    <3>6. list[i].out \in S /\ list[i].out \in Nat /\ Max(S) \in Nat BY <2>9, <3>3, <3>4, <3>5
    <3>7. Max(S) >= list[i].out BY <2>9, <3>6
    <3> QED BY <2>8, <3>2, <3>6, <3>7
  <2> QED BY <1>2, <2>3, <2>4, <2>10 DEF Chained, n
<1> QED BY <1>1, <1>2

-----------------------------------------------------------------------------
(* Lists of steps put behind one another. *)

(* A list of steps takes a pixel of in channels, all of level v, to one of    *)
(* out channels of level w; one that goes on may stand behind other steps.    *)
Goes(list, in, out, v, w) == Fits(list, in) /\ End(list, in) = out /\ Run(list, v) = w

GoesOn(list, in, out, v, w) ==
  Goes(list, in, out, v, w) /\ \A k \in 1 .. Len(list) : list[k].kind # "SrcMatrix"

LEMMA NoneGoes ==
  ASSUME NEW in, NEW v PROVE GoesOn(<<>>, in, in, v, v)
<1> DEFINE none == <<>>
<1>1. List(none) /\ Len(none) = 0 /\ Run(none, v) = v BY NothingIs, RunOfNothing
<1> HIDE DEF none
<1>2. GoesOn(none, in, in, v, v) BY <1>1 DEF GoesOn, Goes, Fits, End
<1> QED BY <1>2 DEF none

LEMMA OneGoes ==
  ASSUME NEW s, Legal(s), NEW v
  PROVE  /\ Goes(<<s>>, Reads(s), s.out, v, Apply(s, v))
         /\ s.kind # "SrcMatrix" => GoesOn(<<s>>, s.in, s.out, v, Apply(s, v))
<1> DEFINE one == <<s>>
<1>1. List(one) /\ Len(one) = 1 /\ one[1] = s /\ Run(one, v) = Apply(s, v) BY OneIs
<1> HIDE DEF one
<1>2. \A k \in 1 .. Len(one) : k = 1 /\ ~(k > 1) BY <1>1
<1>3. Goes(one, Reads(s), s.out, v, Apply(s, v)) BY <1>1, <1>2 DEF Goes, Fits, End
<1>4. s.kind # "SrcMatrix" => GoesOn(one, s.in, s.out, v, Apply(s, v))
  BY <1>1, <1>2, <1>3, ReadsIs DEF GoesOn
<1> QED BY <1>3, <1>4 DEF one

LEMMA JoinedGoes ==
  ASSUME NEW a, NEW b, NEW in, NEW mid, NEW out, NEW v, NEW w, NEW x,
         Goes(a, in, mid, v, w), GoesOn(b, mid, out, w, x)
  PROVE  /\ Goes(a \o b, in, out, v, x)
         /\ GoesOn(a, in, mid, v, w) => GoesOn(a \o b, in, out, v, x)
<1> DEFINE c == a \o b
           m == Len(a)
           n == Len(b)
<1>1. List(a) /\ List(b) /\ m \in Nat /\ n \in Nat BY DEF Goes, GoesOn, Fits, List
<1>2. /\ List(c) /\ Len(c) = m + n
      /\ \A k \in 1 .. m : c[k] = a[k]
      /\ \A k \in 1 .. n : c[m + k] = b[k]
  BY <1>1, JoinedIs
<1>3. Run(c, v) = Run(b, Run(a, v)) BY <1>1, RunJoined
<1> HIDE DEF c, m, n
<1>4. ASSUME NEW k \in 1 .. m + n
      PROVE  \/ k \in 1 .. m /\ c[k] = a[k]
             \/ k - m \in 1 .. n /\ c[k] = b[k - m]
  <2>1. k \in 1 .. m \/ k - m \in 1 .. n BY <1>1
  <2>2. k - m \in 1 .. n => c[m + (k - m)] = b[k - m] /\ m + (k - m) = k BY <1>1, <1>2
  <2> QED BY <1>2, <2>1, <2>2
<1>5. mid = IF m = 0 THEN in ELSE a[m].out BY DEF Goes, End, m
<1>6. out = IF n = 0 THEN mid ELSE b[n].out BY DEF GoesOn, Goes, End, n
<1>7. \A k \in 1 .. m : /\ Legal(a[k]) /\ Reads(a[k]) = IF k = 1 THEN in ELSE a[k - 1].out
                        /\ k > 1 => a[k].kind # "SrcMatrix"
  BY DEF Goes, Fits, m
<1>8. \A k \in 1 .. n : /\ Legal(b[k]) /\ Reads(b[k]) = IF k = 1 THEN mid ELSE b[k - 1].out
                        /\ b[k].kind # "SrcMatrix"
  BY DEF GoesOn, Goes, Fits, n
<1>9. ASSUME NEW k \in 1 .. m + n
      PROVE  /\ Legal(c[k]) /\ Reads(c[k]) = IF k = 1 THEN in ELSE c[k - 1].out
             /\ k > 1 => c[k].kind # "SrcMatrix"
  <2>1. CASE k \in 1 .. m /\ c[k] = a[k]
    <3>1. k # 1 => k - 1 \in 1 .. m BY <1>1, <2>1
    <3>2. k # 1 => c[k - 1] = a[k - 1] BY <1>2, <3>1
    <3> QED BY <1>7, <2>1, <3>2
  <2>2. CASE k - m \in 1 .. n /\ c[k] = b[k - m]
    <3>1. Legal(c[k]) /\ c[k].kind # "SrcMatrix" BY <1>8, <2>2
    <3>2. CASE k - m = 1
      <4>1. Reads(c[k]) = mid BY <1>8, <2>2, <3>2
      <4>2. m # 0 => k # 1 /\ k - 1 = m /\ m \in 1 .. m BY <1>1, <3>2
      <4>3. m # 0 => c[k - 1] = a[m] BY <1>2, <4>2
      <4>4. m = 0 => k = 1 BY <1>1, <3>2
      <4> QED BY <1>5, <3>1, <4>1, <4>2, <4>3, <4>4
    <3>3. CASE k - m # 1
      <4>1. (k - 1) - m \in 1 .. n /\ k - 1 \in 1 .. m + n /\ k # 1 /\ (k - m) - 1 = (k - 1) - m
            /\ m + ((k - 1) - m) = k - 1
        BY <1>1, <2>2, <3>3
      <4>2. c[k - 1] = b[(k - 1) - m] BY <1>2, <4>1
      <4>3. Reads(c[k]) = b[(k - m) - 1].out BY <1>8, <2>2, <3>3
      <4> QED BY <3>1, <4>1, <4>2, <4>3
    <3> QED BY <3>2, <3>3
  <2> QED BY <1>4, <2>1, <2>2
<1>10. Fits(c, in) BY <1>2, <1>9 DEF Fits
<1>11. End(c, in) = out
  <2>1. CASE n = 0
    <3>1. m + n = m /\ (m # 0 => m \in 1 .. m) BY <1>1, <2>1
    <3>2. m # 0 => c[m] = a[m] BY <1>2, <3>1
    <3> QED BY <1>2, <1>5, <1>6, <2>1, <3>1, <3>2 DEF End
  <2>2. CASE n # 0
    <3>1. m + n # 0 /\ n \in 1 .. n BY <1>1, <2>2
    <3>2. c[m + n] = b[n] BY <1>2, <3>1
    <3> QED BY <1>2, <1>6, <2>2, <3>1, <3>2 DEF End
  <2> QED BY <2>1, <2>2
<1>12. Run(c, v) = x BY <1>3 DEF Goes, GoesOn
<1>13. Goes(c, in, out, v, x) BY <1>10, <1>11, <1>12 DEF Goes
<1>14. ASSUME GoesOn(a, in, mid, v, w) PROVE GoesOn(c, in, out, v, x)
  <2>1. \A k \in 1 .. m : a[k].kind # "SrcMatrix" BY <1>14 DEF GoesOn, m
  <2>2. \A k \in 1 .. m + n : c[k].kind # "SrcMatrix" BY <1>4, <1>8, <2>1
  <2> QED BY <1>2, <1>13, <2>2 DEF GoesOn
<1> QED BY <1>13, <1>14 DEF c

LEMMA PairIs == ASSUME NEW s, NEW t PROVE <<s, t>> = <<s>> \o <<t>>
<1>1. ASSUME NEW a, NEW b, List(a), List(b), Len(a) = 1, Len(b) = 1, a[1] = s, b[1] = t
      PROVE  <<s, t>> = a \o b
  <2> DEFINE c == a \o b
             d == <<s, t>>
  <2>1. /\ List(c) /\ Len(c) = Len(a) + Len(b)
        /\ \A k \in 1 .. Len(a) : c[k] = a[k]
        /\ \A k \in 1 .. Len(b) : c[Len(a) + k] = b[k]
    <3>1. List(a) /\ List(b) BY <1>1
    <3> QED BY <3>1, JoinedIs
  <2>2. d = [k \in 1 .. 2 |-> d[k]] /\ d[1] = s /\ d[2] = t OBVIOUS
  <2> HIDE DEF c, d
  <2>3. Len(c) = 2 /\ c = [k \in 1 .. 2 |-> c[k]] BY <1>1, <2>1 DEF List
  <2>4. 1 \in 1 .. Len(a) /\ 1 \in 1 .. Len(b) /\ Len(a) + 1 = 2 BY <1>1
  <2>5. c[1] = s /\ c[2] = t BY <1>1, <2>1, <2>4
  <2>6. \A k \in 1 .. 2 : c[k] = d[k] BY <2>2, <2>5
  <2>7. c = d BY <2>2, <2>3, <2>6
  <2> QED BY <2>7 DEF c, d
<1> QED BY <1>1, OneIs

(* The steps that conversions are made of. *)
LEMMA ScaleGoes ==
  ASSUME NEW n \in Nat, NEW k \in Level, NEW v
  PROVE  GoesOn(<<Scale(n, k)>>, n, n, v, Mult(v, k))
<1> DEFINE s == Scale(n, k)
<1>1. s = PcsStep("Scale", n, n, k) BY DEF Scale
<1> HIDE DEF s
<1>2. s.kind = "Scale" /\ s.in = n /\ s.out = n /\ s.k = k BY <1>1, StepsAre
<1>3. Legal(s) BY <1>1, <1>2 DEF Legal, StepKinds, WhiteKinds, LabKinds
<1>4. Apply(s, v) = Mult(v, k) BY <1>2, ApplyIs
<1>5. GoesOn(<<s>>, n, n, v, Mult(v, k)) BY <1>2, <1>3, <1>4, OneGoes
<1> QED BY <1>5 DEF s

LEMMA OffsetGoes ==
  ASSUME NEW n \in Nat, NEW k \in Level, NEW v
  PROVE  GoesOn(<<Offset(n, k)>>, n, n, v, Plus(v, k))
<1> DEFINE s == Offset(n, k)
<1>1. s = PcsStep("Offset", n, n, k) BY DEF Offset
<1> HIDE DEF s
<1>2. s.kind = "Offset" /\ s.in = n /\ s.out = n /\ s.k = k BY <1>1, StepsAre
<1>3. Legal(s) BY <1>1, <1>2 DEF Legal, StepKinds, WhiteKinds, LabKinds
<1>4. Apply(s, v) = Plus(v, k) BY <1>2, ApplyIs
<1>5. GoesOn(<<s>>, n, n, v, Plus(v, k)) BY <1>2, <1>3, <1>4, OneGoes
<1> QED BY <1>5 DEF s

LEMMA ElementGoes ==
  ASSUME NEW kind \in {"Matrix", "Mpe"}, NEW m \in Nat, NEW n \in Nat, NEW k \in Level, NEW v
  PROVE  GoesOn(<<PcsStep(kind, n, m, k)>>, n, m, v, Mult(v, k))
<1> DEFINE s == PcsStep(kind, n, m, k)
<1>1. s.kind = kind /\ s.in = n /\ s.out = m /\ s.k = k BY StepsAre
<1>2. s = PcsStep(s.kind, s.in, s.out, s.k) BY <1>1
<1> HIDE DEF s
<1>3. Legal(s) BY <1>1, <1>2 DEF Legal, StepKinds, WhiteKinds, LabKinds
<1>4. Apply(s, v) = Mult(v, k) BY <1>1, ApplyIs
<1>5. GoesOn(<<s>>, n, m, v, Mult(v, k)) BY <1>1, <1>3, <1>4, OneGoes
<1> QED BY <1>5 DEF s

LEMMA MatrixGoes ==
  ASSUME NEW m \in Nat, NEW n \in Nat, NEW k \in Level, NEW v
  PROVE  GoesOn(<<Matrix(m, n, k)>>, n, m, v, Mult(v, k))
BY ElementGoes DEF Matrix

LEMMA SrcMatrixGoes ==
  ASSUME NEW m \in Nat, NEW n \in Nat, NEW k \in Level, NEW v
  PROVE  Goes(<<PcsStep("SrcMatrix", n, m, k)>>, m * n, m, v, Mult(v, k))
<1> DEFINE s == PcsStep("SrcMatrix", n, m, k)
<1>1. s.kind = "SrcMatrix" /\ s.in = n /\ s.out = m /\ s.k = k BY StepsAre
<1>2. s = PcsStep(s.kind, s.in, s.out, s.k) BY <1>1
<1> HIDE DEF s
<1>3. Legal(s) BY <1>1, <1>2 DEF Legal, StepKinds, WhiteKinds, LabKinds
<1>4. Apply(s, v) = Mult(v, k) BY <1>1, ApplyIs
<1>5. Reads(s) = n * m /\ n * m = m * n BY <1>1 DEF Reads
<1>6. Goes(<<s>>, m * n, m, v, Mult(v, k)) BY <1>1, <1>3, <1>4, <1>5, OneGoes
<1> QED BY <1>6 DEF s

LEMMA LabGoes ==
  ASSUME NEW kind \in LabKinds, NEW k \in Level, kind \in WhiteKinds => k # 0, NEW v
  PROVE  GoesOn(<<LabStep(kind, k)>>, 3, 3, v, Apply(LabStep(kind, k), v))
<1> DEFINE s == LabStep(kind, k)
<1>1. s = PcsStep(kind, 3, 3, k) BY DEF LabStep
<1> HIDE DEF s
<1>2. s.kind = kind /\ s.in = 3 /\ s.out = 3 /\ s.k = k BY <1>1, StepsAre
<1>3. Legal(s) BY <1>1, <1>2 DEF Legal, StepKinds, WhiteKinds, LabKinds
<1>4. GoesOn(<<s>>, 3, 3, v, Apply(s, v)) BY <1>2, <1>3, OneGoes DEF LabKinds, WhiteKinds
<1> QED BY <1>4 DEF s

-----------------------------------------------------------------------------
(* The sides of a conversion, and the levels their encodings stand for.      *)

StepsOf(r) == SpectralRange[r].steps

GoodPcc(p) ==
  /\ p.white \in Level /\ p.white # 0 /\ p.factor \in Level /\ p.factor # 0
  /\ p.illum \in Level /\ p.obs \in Level
  /\ StepsOf(p.illumRange) \in Nat /\ StepsOf(p.obsRange) \in Nat
  /\ p.custom \in {"none", "Matrix", "Element"}

GoodSide(x) ==
  /\ x.space \in PCS /\ GoodPcc(x.pcc)
  /\ x.scale \in Level /\ x.scale # 0 /\ x.offset \in Level
  /\ StepsOf(x.range) \in Nat /\ StepsOf(x.biRange) \in Nat

LEMMA DecodedIs ==
  ASSUME NEW x, NEW v
  PROVE  /\ x.space = "XYZ" => Decoded(x, v) = Mult(v, Inv[XyzIn])
         /\ x.space = "Lab" /\ x.legacy =>
              Decoded(x, v) = Mult(x.pcc.white, Cube(Mult(v, Inv[Lab2])))
         /\ x.space = "Lab" /\ ~x.legacy => Decoded(x, v) = Mult(x.pcc.white, Cube(v))
<1> DEFINE a == Mult(v, Inv[XyzIn])
           b == Mult(x.pcc.white, Cube(Mult(v, Inv[Lab2])))
           c == Mult(x.pcc.white, Cube(v))
<1>1. Decoded(x, v) = CASE x.space = "XYZ" -> a
                        [] x.space = "Lab" /\ x.legacy -> b
                        [] x.space = "Lab" /\ ~x.legacy -> c
  BY Zenon DEF Decoded
<1> HIDE DEF a, b, c
<1>2. /\ x.space = "XYZ" => Decoded(x, v) = a
      /\ x.space = "Lab" /\ x.legacy => Decoded(x, v) = b
      /\ x.space = "Lab" /\ ~x.legacy => Decoded(x, v) = c
  BY <1>1
<1> QED BY <1>2 DEF a, b, c

LEMMA DecodedIn ==
  ASSUME NEW x, x.space \in Colorimetric, GoodPcc(x.pcc), NEW v \in Level
  PROVE  Decoded(x, v) \in Level
<1>1. x.pcc.white \in Level BY DEF GoodPcc
<1>2. Inv[XyzIn] \in Level /\ Inv[Lab2] \in Level BY Lab2Is, InverseOf
<1>3. \A a \in Level, b \in Level : Mult(a, b) \in Level BY Ring
<1>4. \A a \in Level : Cube(a) \in Level BY CubeIn
<1>5. CASE x.space = "XYZ" BY <1>2, <1>3, <1>5, DecodedIs
<1>6. CASE x.space = "Lab"
  <2>1. Cube(v) \in Level /\ Cube(Mult(v, Inv[Lab2])) \in Level BY <1>2, <1>3, <1>4
  <2>2. CASE x.legacy BY <1>1, <1>3, <1>6, <2>1, <2>2, DecodedIs
  <2>3. CASE ~x.legacy BY <1>1, <1>3, <1>6, <2>1, <2>3, DecodedIs
  <2> QED BY <2>2, <2>3
<1> QED BY <1>5, <1>6 DEF Colorimetric

LEMMA AdjustedIs ==
  ASSUME NEW x, x.scale \in Level, x.offset \in Level, NEW v \in Level
  PROVE  /\ OffsetOf(x) \in Level /\ Adjusted(x, v) \in Level
         /\ Adjusted(x, v) = Plus(Mult(v, x.scale), OffsetOf(x))
         /\ ~Adjusts(x) => Adjusted(x, v) = v
<1> DEFINE o == OffsetOf(x)
           s == x.scale
<1>1. o \in Level /\ s \in Level
  <2>1. Inv[XyzIn] \in Level BY Lab2Is, InverseOf
  <2> QED BY <2>1, Ring DEF OffsetOf
<1>2. Adjusted(x, v) = Plus(Mult(s, v), o) BY DEF Adjusted, Plus
<1> HIDE DEF o, s
<1>3. Mult(s, v) = Mult(v, s) /\ Mult(v, s) \in Level BY <1>1, Ring
<1>4. Plus(Mult(v, s), o) \in Level BY <1>1, <1>3, Ring
<1>5. ASSUME ~Adjusts(x) PROVE Adjusted(x, v) = v
  <2>1. x.scale = 1 /\ x.offset = 0 BY <1>5 DEF Adjusts
  <2>2. o = 0
    <3>1. Inv[XyzIn] \in Level /\ 0 \in Level BY Lab2Is, InverseOf, ModulusIs
    <3>2. Mult(0, Inv[XyzIn]) = 0
      <4> DEFINE i == Inv[XyzIn]
      <4>1. i \in Level BY <3>1
      <4> HIDE DEF i
      <4>2. Mult(0, i) = 0 BY <3>1, <4>1, Ring
      <4> QED BY <4>2 DEF i
    <3> QED BY <2>1, <3>2 DEF o, OffsetOf
  <2>3. s = 1 BY <2>1 DEF s
  <2>4. Mult(v, 1) = v /\ Plus(v, 0) = v BY Ring, ModulusIs
  <2> QED BY <1>2, <1>3, <2>2, <2>3, <2>4
<1> QED BY <1>1, <1>2, <1>3, <1>4, <1>5 DEF o, s

LEMMA AdjustDstGoes ==
  ASSUME NEW x, x.scale \in Level, x.offset \in Level, NEW v \in Level
  PROVE  GoesOn(AdjustDst(x), 3, 3, v, Adjusted(x, v))
<1> DEFINE a == <<Scale(3, x.scale)>>
           b == <<Offset(3, OffsetOf(x))>>
<1>1. CASE Adjusts(x)
  <2>1. AdjustDst(x) = a \o b BY <1>1, PairIs DEF AdjustDst
  <2>2. GoesOn(a, 3, 3, v, Mult(v, x.scale)) BY ScaleGoes
  <2>3. GoesOn(b, 3, 3, Mult(v, x.scale), Plus(Mult(v, x.scale), OffsetOf(x)))
    BY AdjustedIs, OffsetGoes
  <2> HIDE DEF a, b
  <2>4. GoesOn(a \o b, 3, 3, v, Plus(Mult(v, x.scale), OffsetOf(x)))
    BY <2>2, <2>3, JoinedGoes DEF GoesOn
  <2> QED BY <2>1, <2>4, AdjustedIs
<1>2. CASE ~Adjusts(x)
  <2>1. AdjustDst(x) = <<>> /\ Adjusted(x, v) = v BY <1>2, AdjustedIs DEF AdjustDst
  <2> QED BY <2>1, NoneGoes
<1> QED BY <1>1, <1>2

LEMMA AdjustSrcGoes ==
  ASSUME NEW y, y.scale \in Level, y.scale # 0, y.offset \in Level, NEW v \in Level
  PROVE  GoesOn(AdjustSrc(y), 3, 3, v, Adjusted(y, v))
<1> DEFINE o == OffsetOf(y)
           s == y.scale
           i == Inv[s]
           k == Mult(o, i)
           w == Plus(v, k)
           a == <<Offset(3, k)>>
           b == <<Scale(3, s)>>
<1>1. CASE Adjusts(y)
  <2>1. AdjustSrc(y) = a \o b BY <1>1, PairIs DEF AdjustSrc
  <2>2. o \in Level /\ s \in Level /\ i \in Level /\ s # 0 BY AdjustedIs, InverseOf
  <2>3. Adjusted(y, v) = Plus(Mult(v, s), o) BY AdjustedIs
  <2> HIDE DEF o, s
  <2>4. Mult(k, s) = o BY <2>2, Cancels
  <2> HIDE DEF i
  <2>5. k \in Level BY <2>2, Ring
  <2>6. GoesOn(a, 3, 3, v, w) BY <2>5, OffsetGoes
  <2>7. GoesOn(b, 3, 3, w, Mult(w, s)) BY <2>2, ScaleGoes
  <2> HIDE DEF a, b, k
  <2>8. w \in Level /\ Mult(w, s) = Plus(Mult(v, s), o)
    <3>1. w \in Level /\ Mult(w, s) = Mult(s, w) BY <2>2, <2>5, Ring
    <3>2. Mult(s, w) = Plus(Mult(s, v), Mult(s, k)) BY <2>2, <2>5, Ring
    <3>3. Mult(s, v) = Mult(v, s) /\ Mult(s, k) = Mult(k, s) BY <2>2, <2>5, Ring
    <3> QED BY <2>4, <3>1, <3>2, <3>3
  <2> HIDE DEF w
  <2>9. GoesOn(a \o b, 3, 3, v, Mult(w, s)) BY <2>6, <2>7, JoinedGoes DEF GoesOn
  <2> QED BY <2>1, <2>3, <2>8, <2>9
<1>2. CASE ~Adjusts(y)
  <2>1. AdjustSrc(y) = <<>> /\ Adjusted(y, v) = v BY <1>2, AdjustedIs DEF AdjustSrc
  <2> QED BY <2>1, NoneGoes
<1> QED BY <1>1, <1>2

(* From the encoding of the profile connection space to XYZ, and back. *)
LEMMA DecodeGoes ==
  ASSUME NEW x, x.space \in Colorimetric, GoodPcc(x.pcc), NEW v \in Level
  PROVE  GoesOn(<<IF x.space = "Lab" THEN LabToXyz(x) ELSE XyzInToXyz>>, 3, 3, v, Decoded(x, v))
<1>1. x.pcc.white \in Level /\ x.pcc.white # 0 BY DEF GoodPcc
<1>2. CASE x.space = "XYZ"
  <2>1. Inv[XyzIn] \in Level BY Lab2Is, InverseOf
  <2>2. GoesOn(<<XyzInToXyz>>, 3, 3, v, Mult(v, Inv[XyzIn])) BY <2>1, ScaleGoes DEF XyzInToXyz
  <2> QED BY <1>2, <2>2, DecodedIs
<1>3. CASE x.space = "Lab"
  <2> DEFINE kind == IF x.legacy THEN "Lab2ToXYZ" ELSE "LabToXYZ"
             s == LabStep(kind, x.pcc.white)
  <2>1. LabToXyz(x) = s BY DEF LabToXyz
  <2>2. kind \in WhiteKinds /\ kind \in LabKinds BY DEF WhiteKinds, LabKinds
  <2>3. s.kind = kind /\ s.k = x.pcc.white
    <3> HIDE DEF kind
    <3> QED BY StepsAre DEF LabStep
  <2>4. GoesOn(<<s>>, 3, 3, v, Apply(s, v))
    <3> HIDE DEF kind
    <3> QED BY <1>1, <2>2, LabGoes
  <2> HIDE DEF s
  <2>5. Apply(s, v) = Decoded(x, v)
    <3>1. CASE x.legacy
      <4>1. s.kind = "Lab2ToXYZ" BY <2>3, <3>1
      <4>2. Apply(s, v) = Mult(x.pcc.white, Cube(Mult(v, Inv[Lab2]))) BY <2>3, <4>1, ApplyIs
      <4> QED BY <1>3, <3>1, <4>2, DecodedIs
    <3>2. CASE ~x.legacy
      <4>1. s.kind = "LabToXYZ" BY <2>3, <3>2
      <4>2. Apply(s, v) = Mult(x.pcc.white, Cube(v)) BY <2>3, <4>1, ApplyIs
      <4> QED BY <1>3, <3>2, <4>2, DecodedIs
    <3> QED BY <3>1, <3>2
  <2> QED BY <1>3, <2>1, <2>4, <2>5
<1> QED BY <1>2, <1>3 DEF Colorimetric

LEMMA EncodeGoes ==
  ASSUME NEW y, y.space \in Colorimetric, GoodPcc(y.pcc), NEW v \in Level
  PROVE  \E w \in Level :
           /\ GoesOn(<<IF y.space = "Lab" THEN XyzToLab(y) ELSE XyzToXyzIn>>, 3, 3, v, w)
           /\ Decoded(y, w) = v
<1>1. y.pcc.white \in Level /\ y.pcc.white # 0 BY DEF GoodPcc
<1>2. CASE y.space = "XYZ"
  <2>1. XyzIn \in Level /\ XyzIn # 0 BY Lab2Is
  <2>2. GoesOn(<<XyzToXyzIn>>, 3, 3, v, Mult(v, XyzIn)) BY <2>1, ScaleGoes DEF XyzToXyzIn
  <2>3. Mult(v, XyzIn) \in Level BY <2>1, Ring
  <2>4. Decoded(y, Mult(v, XyzIn)) = v BY <1>2, <2>1, Cancels, DecodedIs
  <2> QED BY <1>2, <2>2, <2>3, <2>4
<1>3. CASE y.space = "Lab"
  <2> DEFINE kind == IF y.legacy THEN "XYZToLab2" ELSE "XYZToLab"
             s == LabStep(kind, y.pcc.white)
             r == Root[Mult(v, Inv[y.pcc.white])]
             w == Apply(s, v)
  <2>1. XyzToLab(y) = s BY DEF XyzToLab
  <2>2. kind \in WhiteKinds /\ kind \in LabKinds BY DEF WhiteKinds, LabKinds
  <2>3. s.kind = kind /\ s.k = y.pcc.white
    <3> HIDE DEF kind
    <3> QED BY StepsAre DEF LabStep
  <2>4. GoesOn(<<s>>, 3, 3, v, w)
    <3> HIDE DEF kind
    <3> QED BY <1>1, <2>2, LabGoes
  <2>5. Mult(v, Inv[y.pcc.white]) \in Level BY <1>1, InverseOf, Ring
  <2>6. r \in Level BY <2>5, RootOf
  <2>7. Mult(y.pcc.white, Cube(r)) = v BY <1>1, LabUndone
  <2> HIDE DEF s
  <2>8. w \in Level /\ Decoded(y, w) = v
    <3>1. CASE y.legacy
      <4>1. s.kind = "XYZToLab2" BY <2>3, <3>1
      <4>2. w = Mult(r, Lab2) BY <2>3, <4>1, ApplyIs
      <4> HIDE DEF w, r
      <4>3. w \in Level /\ Mult(w, Inv[Lab2]) = r BY <2>6, <4>2, Lab2Is, Ring, Cancels
      <4>4. Decoded(y, w) = Mult(y.pcc.white, Cube(r)) BY <1>3, <3>1, <4>3, DecodedIs
      <4> QED BY <2>7, <4>3, <4>4
    <3>2. CASE ~y.legacy
      <4>1. s.kind = "XYZToLab" BY <2>3, <3>2
      <4>2. w = r BY <2>3, <4>1, ApplyIs
      <4> HIDE DEF w, r
      <4>3. Decoded(y, w) = Mult(y.pcc.white, Cube(r)) BY <1>3, <3>2, <4>2, DecodedIs
      <4> QED BY <2>6, <2>7, <4>2, <4>3
    <3> QED BY <3>1, <3>2
  <2> QED BY <1>3, <2>1, <2>4, <2>8
<1> QED BY <1>2, <1>3 DEF Colorimetric

LEMMA FromColourGoes ==
  ASSUME NEW x, GoodSide(x), x.space \in Colorimetric, NEW v \in Level
  PROVE  GoesOn(FromColour(x), 3, 3, v, Adjusted(x, Decoded(x, v)))
         /\ Adjusted(x, Decoded(x, v)) \in Level
<1> DEFINE a == <<IF x.space = "Lab" THEN LabToXyz(x) ELSE XyzInToXyz>>
           b == AdjustDst(x)
           d == Decoded(x, v)
<1>1. GoodPcc(x.pcc) /\ x.scale \in Level /\ x.offset \in Level BY DEF GoodSide
<1>2. d \in Level BY <1>1, DecodedIn
<1>3. GoesOn(a, 3, 3, v, d) BY <1>1, DecodeGoes
<1>4. FromColour(x) = a \o b BY DEF FromColour
<1> HIDE DEF a, d
<1>5. GoesOn(b, 3, 3, d, Adjusted(x, d)) /\ Adjusted(x, d) \in Level
  BY <1>1, <1>2, AdjustDstGoes, AdjustedIs
<1> HIDE DEF b
<1>6. GoesOn(a \o b, 3, 3, v, Adjusted(x, d)) BY <1>3, <1>5, JoinedGoes DEF GoesOn
<1> QED BY <1>4, <1>5, <1>6 DEF d

LEMMA IntoColourGoes ==
  ASSUME NEW y, GoodSide(y), y.space \in Colorimetric, NEW v \in Level
  PROVE  \E w \in Level : /\ GoesOn(IntoColour(y), 3, 3, v, w)
                          /\ Decoded(y, w) = Adjusted(y, v)
<1> DEFINE a == AdjustSrc(y)
           b == <<IF y.space = "Lab" THEN XyzToLab(y) ELSE XyzToXyzIn>>
           u == Adjusted(y, v)
<1>1. GoodPcc(y.pcc) /\ y.scale \in Level /\ y.scale # 0 /\ y.offset \in Level BY DEF GoodSide
<1>2. GoesOn(a, 3, 3, v, u) /\ u \in Level BY <1>1, AdjustSrcGoes, AdjustedIs
<1>3. IntoColour(y) = a \o b BY DEF IntoColour
<1> HIDE DEF a, u
<1>4. PICK w \in Level : GoesOn(b, 3, 3, u, w) /\ Decoded(y, w) = u BY <1>1, <1>2, EncodeGoes
<1> HIDE DEF b
<1>5. GoesOn(a \o b, 3, 3, v, w) BY <1>2, <1>4, JoinedGoes DEF GoesOn
<1> QED BY <1>3, <1>4, <1>5 DEF u

-----------------------------------------------------------------------------
(* What Connect pushes leads from one side to the other, or fails.           *)

Push(a) == a = [stat |-> a.stat, steps |-> a.steps]

LEMMA PushedIs ==
  ASSUME NEW s
  PROVE  Push(Pushed(s)) /\ Pushed(s).stat = "Ok" /\ Pushed(s).steps = s
BY DEF Push, Pushed

LEMMA FailedIs ==
  ASSUME NEW s
  PROVE  Push(Failed(s)) /\ Failed(s).stat = s
BY DEF Push, Failed

LEMMA ThenIs ==
  ASSUME NEW a, NEW b, Push(a), Push(b)
  PROVE  /\ Push(Then(a, b))
         /\ Then(a, b).stat = "Ok" <=> a.stat = "Ok" /\ b.stat = "Ok"
         /\ Then(a, b).stat = "Ok" => Then(a, b).steps = a.steps \o b.steps
<1> DEFINE c == a.steps \o b.steps
           t == [b EXCEPT !.steps = c]
<1>1. CASE a.stat = "Ok"
  <2>1. Then(a, b) = t BY <1>1, Zenon DEF Then
  <2> HIDE DEF c
  <2>2. b = [stat |-> b.stat, steps |-> b.steps] BY DEF Push
  <2>3. t = [stat |-> b.stat, steps |-> c]
    <3> DEFINE d == [stat |-> b.stat, steps |-> b.steps]
    <3>1. [d EXCEPT !.steps = c] = [stat |-> b.stat, steps |-> c] OBVIOUS
    <3> QED BY <2>2, <3>1, Zenon
  <2> HIDE DEF t
  <2>4. Push(t) /\ t.stat = b.stat /\ t.steps = c BY <2>3 DEF Push
  <2> QED BY <1>1, <2>1, <2>4 DEF c
<1>2. CASE a.stat # "Ok"
  <2>1. Then(a, b) = a BY <1>2, Zenon DEF Then
  <2> QED BY <1>2, <2>1
<1> QED BY <1>1, <1>2

(* A push that succeeds takes level v to w. *)
Leads(a, in, out, v, w) == Push(a) /\ (a.stat = "Ok" => GoesOn(a.steps, in, out, v, w))

LEMMA PushedLeads ==
  ASSUME NEW s, NEW in, NEW out, NEW v, NEW w, GoesOn(s, in, out, v, w)
  PROVE  Leads(Pushed(s), in, out, v, w)
BY PushedIs DEF Leads

LEMMA FailedLeads ==
  ASSUME NEW s, s # "Ok", NEW in, NEW out, NEW v, NEW w
  PROVE  Leads(Failed(s), in, out, v, w)
BY FailedIs DEF Leads

LEMMA ThenLeads ==
  ASSUME NEW a, NEW b, NEW in, NEW mid, NEW out, NEW v, NEW w, NEW x,
         Leads(a, in, mid, v, w), Leads(b, mid, out, w, x)
  PROVE  Leads(Then(a, b), in, out, v, x)
<1> DEFINE c == Then(a, b)
<1>1. /\ Push(c) /\ (c.stat = "Ok" <=> a.stat = "Ok" /\ b.stat = "Ok")
      /\ c.stat = "Ok" => c.steps = a.steps \o b.steps
  BY ThenIs DEF Leads
<1> HIDE DEF c
<1>2. ASSUME c.stat = "Ok" PROVE GoesOn(c.steps, in, out, v, x)
  <2>1. GoesOn(a.steps, in, mid, v, w) /\ GoesOn(b.steps, mid, out, w, x)
    BY <1>1, <1>2 DEF Leads
  <2>2. GoesOn(a.steps \o b.steps, in, out, v, x) BY <2>1, JoinedGoes DEF GoesOn
  <2> QED BY <1>1, <1>2, <2>2
<1>3. Leads(c, in, out, v, x) BY <1>1, <1>2 DEF Leads
<1> QED BY <1>3 DEF c

LEMMA GoesFurther ==
  ASSUME NEW a, NEW b, NEW in, NEW mid, NEW out, NEW v, NEW w, NEW x,
         GoesOn(a, in, mid, v, w), GoesOn(b, mid, out, w, x)
  PROVE  GoesOn(a \o b, in, out, v, x)
BY JoinedGoes DEF GoesOn

(* Between connection conditions. *)
LEMMA CustomLeads ==
  ASSUME NEW p, GoodPcc(p), NEW k \in Level, NEW v
  PROVE  Leads(PushCustom(p, k), 3, 3, v, IF IsStandardPcc(p) THEN v ELSE Mult(v, k))
<1> DEFINE r == PushCustom(p, k)
           m == <<Matrix(3, 3, k)>>
           e == <<PcsStep("Mpe", 3, 3, k)>>
<1>1. CASE IsStandardPcc(p)
  <2>1. r = Pushed(<<>>) BY <1>1 DEF PushCustom
  <2> QED BY <1>1, <2>1, NoneGoes, PushedLeads
<1>2. CASE ~IsStandardPcc(p)
  <2>1. CASE p.custom = "none"
    <3>1. r = Failed("BadSpaceLink") BY <1>2, <2>1 DEF PushCustom
    <3>2. Leads(Failed("BadSpaceLink"), 3, 3, v, Mult(v, k)) BY FailedLeads
    <3> QED BY <1>2, <3>1, <3>2
  <2>2. CASE p.custom = "Matrix"
    <3>1. r = Pushed(m) BY <1>2, <2>2 DEF PushCustom
    <3>2. GoesOn(m, 3, 3, v, Mult(v, k)) BY MatrixGoes
    <3> HIDE DEF m
    <3>3. Leads(Pushed(m), 3, 3, v, Mult(v, k)) BY <3>2, PushedLeads
    <3> QED BY <1>2, <3>1, <3>3
  <2>3. CASE p.custom = "Element"
    <3>1. r = Pushed(e) BY <1>2, <2>3 DEF PushCustom
    <3>2. GoesOn(e, 3, 3, v, Mult(v, k)) BY ElementGoes
    <3> HIDE DEF e
    <3>3. Leads(Pushed(e), 3, 3, v, Mult(v, k)) BY <3>2, PushedLeads
    <3> QED BY <1>2, <3>1, <3>3
  <2> QED BY <2>1, <2>2, <2>3 DEF GoodPcc
<1> QED BY <1>1, <1>2

LEMMA ConvertLeads ==
  ASSUME NEW p, NEW q, GoodPcc(p), GoodPcc(q), NEW v \in Level
  PROVE  /\ Leads(PushXYZConvert(p, q), 3, 3, v, InPcc(p, q, v))
         /\ InPcc(p, q, v) \in Level
<1> DEFINE r == PushXYZConvert(p, q)
           w == InPcc(p, q, v)
           u == IF IsStandardPcc(p) THEN v ELSE Mult(v, p.factor)
           i == Inv[q.factor]
           a == PushCustom(p, p.factor)
           b == PushCustom(q, i)
<1>1. CASE IsEquivalentPcc(p, q)
  <2>1. r = Pushed(<<>>) /\ w = v BY <1>1 DEF PushXYZConvert, InPcc
  <2> QED BY <2>1, NoneGoes, PushedLeads
<1>2. CASE ~IsEquivalentPcc(p, q)
  <2>1. p.factor \in Level /\ i \in Level BY InverseOf DEF GoodPcc
  <2>2. r = Then(a, b) BY <1>2 DEF PushXYZConvert
  <2>3. Mult(p.factor, v) = Mult(v, p.factor) BY <2>1, Ring
  <2>4. w = IF IsStandardPcc(q) THEN u ELSE Mult(u, i) BY <1>2, <2>3 DEF InPcc
  <2>5. u \in Level BY <2>1, Ring
  <2> HIDE DEF u, i, w
  <2>6. w \in Level BY <2>1, <2>4, <2>5, Ring
  <2>7. Leads(a, 3, 3, v, u) BY <2>1, CustomLeads DEF u
  <2>8. Leads(b, 3, 3, u, w) BY <2>1, <2>4, CustomLeads
  <2> HIDE DEF a, b, r
  <2>9. Leads(r, 3, 3, v, w) BY <2>2, <2>7, <2>8, ThenLeads
  <2> QED BY <2>6, <2>9 DEF r, w
<1> QED BY <1>1, <1>2

(* Between spectral ranges, and from a spectrum to XYZ. *)
LEMMA RangeGoes ==
  ASSUME NEW a, NEW b, StepsOf(a) \in Nat, StepsOf(b) \in Nat, NEW v \in Level
  PROVE  GoesOn(SpecToRange(a, b), StepsOf(a), StepsOf(b), v, v)
<1> DEFINE m == <<Matrix(StepsOf(b), StepsOf(a), 1)>>
<1>1. CASE a = b
  <2>1. SpecToRange(a, b) = <<>> BY <1>1 DEF SpecToRange
  <2> QED BY <1>1, <2>1, NoneGoes
<1>2. CASE a # b
  <2>1. SpecToRange(a, b) = m BY <1>2 DEF SpecToRange, StepsOf
  <2>2. 1 \in Level BY ModulusIs
  <2>3. GoesOn(m, StepsOf(a), StepsOf(b), v, Mult(v, 1)) BY <2>2, MatrixGoes
  <2> HIDE DEF m
  <2>4. Mult(v, 1) = v BY Ring, <2>2
  <2> QED BY <2>1, <2>3, <2>4
<1> QED BY <1>1, <1>2

LEMMA ObserveGoes ==
  ASSUME NEW p, GoodPcc(p), NEW v
  PROVE  GoesOn(Observe(p), StepsOf(p.obsRange), 3, v, Mult(v, p.obs))
<1>1. GoesOn(<<Matrix(3, StepsOf(p.obsRange), p.obs)>>, StepsOf(p.obsRange), 3, v, Mult(v, p.obs))
  BY MatrixGoes DEF GoodPcc
<1> QED BY <1>1 DEF Observe, StepsOf

LEMMA IlluminantSeen ==
  ASSUME NEW p, GoodPcc(p), NEW src, NEW dst, StepsOf(src) \in Nat, StepsOf(dst) \in Nat
  PROVE  LET ranges == IF src = p.illumRange /\ dst = p.illumRange
                       THEN SpecToRange(p.illumRange, p.obsRange)
                       ELSE SpecToRange(p.illumRange, src) \o SpecToRange(src, dst)
                            \o SpecToRange(dst, p.obsRange)
         IN Run(ranges \o Observe(p), p.illum) = Mult(p.illum, p.obs)
<1> DEFINE v == p.illum
           a == SpecToRange(p.illumRange, src)
           b == SpecToRange(src, dst)
           c == SpecToRange(dst, p.obsRange)
           d == SpecToRange(p.illumRange, p.obsRange)
           e == Observe(p)
           ranges == IF src = p.illumRange /\ dst = p.illumRange THEN d ELSE a \o b \o c
           in == StepsOf(p.illumRange)
           out == StepsOf(p.obsRange)
<1>1. v \in Level /\ in \in Nat /\ out \in Nat BY DEF GoodPcc
<1>2. GoesOn(a, in, StepsOf(src), v, v) BY <1>1, RangeGoes
<1>3. GoesOn(b, StepsOf(src), StepsOf(dst), v, v) BY <1>1, RangeGoes
<1>4. GoesOn(c, StepsOf(dst), out, v, v) BY <1>1, RangeGoes
<1>5. GoesOn(d, in, out, v, v) BY <1>1, RangeGoes
<1>6. GoesOn(e, out, 3, v, Mult(v, p.obs)) BY ObserveGoes
<1> HIDE DEF a, b, c, d, e, v, in, out
<1>7. GoesOn(a \o b, in, StepsOf(dst), v, v) BY <1>2, <1>3, GoesFurther
<1>8. GoesOn(a \o b \o c, in, out, v, v) BY <1>4, <1>7, GoesFurther
<1>9. GoesOn(ranges, in, out, v, v) BY <1>5, <1>8
<1> HIDE DEF ranges
<1>10. GoesOn(ranges \o e, in, 3, v, Mult(v, p.obs)) BY <1>6, <1>9, GoesFurther
<1>11. Run(ranges \o e, v) = Mult(v, p.obs) BY <1>10 DEF GoesOn, Goes
<1> QED BY <1>11 DEF ranges, a, b, c, d, e, v

LEMMA Normal ==
  ASSUME NEW v \in Level, NEW a \in Level, a # 0, NEW b \in Level, b # 0, NEW white \in Level
  PROVE  LET k == Mult(white, Inv[Mult(a, b)])
         IN k \in Level /\ Mult(Mult(Mult(v, a), b), k) = Mult(v, white)
<1> DEFINE xyz == Mult(a, b)
           i == Inv[xyz]
<1>1. xyz \in Level BY Ring
<1>2. xyz # 0 BY InverseOf
<1>3. Mult(Mult(v, a), b) = Mult(v, xyz) BY Ring
<1> HIDE DEF xyz
<1>4. i \in Level /\ Mult(xyz, i) = 1 BY <1>1, <1>2, InverseOf
<1> HIDE DEF i
<1> DEFINE k == Mult(white, i)
           u == Mult(v, xyz)
<1>5. k \in Level /\ k = Mult(i, white) /\ u \in Level BY <1>1, <1>4, Ring
<1>6. Mult(u, Mult(i, white)) = Mult(Mult(u, i), white)
  <2> HIDE DEF u
  <2> QED BY <1>4, <1>5, Ring
<1>7. Mult(u, i) = Mult(v, Mult(xyz, i)) BY <1>1, <1>4, Ring
<1>8. 1 \in Level /\ Mult(v, 1) = v BY ModulusIs, Ring
<1>9. k \in Level /\ Mult(u, k) = Mult(v, white)
  <2> HIDE DEF u, k
  <2> QED BY <1>4, <1>5, <1>6, <1>7, <1>8
<1> QED BY <1>3, <1>9 DEF xyz, i

(* What is left of a level after the light and the observer is divided out. *)
LEMMA NormalizeLeads ==
  ASSUME NEW p, GoodPcc(p), NEW src, NEW dst, StepsOf(src) \in Nat, StepsOf(dst) \in Nat,
         NEW v \in Level
  PROVE  /\ Leads(PushXYZNormalize(p, src, dst), 3, 3, Mult(Mult(v, p.illum), p.obs),
                  Mult(v, p.white))
         /\ p.view /\ p.illum # 0 /\ p.obs # 0 => PushXYZNormalize(p, src, dst).stat = "Ok"
<1> DEFINE ranges == IF src = p.illumRange /\ dst = p.illumRange
                     THEN SpecToRange(p.illumRange, p.obsRange)
                     ELSE SpecToRange(p.illumRange, src) \o SpecToRange(src, dst)
                          \o SpecToRange(dst, p.obsRange)
           xyz == Run(ranges \o Observe(p), p.illum)
           r == PushXYZNormalize(p, src, dst)
           k == Mult(p.white, Inv[xyz])
           s == <<Scale(3, k)>>
           u == Mult(Mult(v, p.illum), p.obs)
           w == Mult(v, p.white)
<1>1. xyz = Mult(p.illum, p.obs)
  <2> HIDE DEF ranges
  <2>1. Run(ranges \o Observe(p), p.illum) = Mult(p.illum, p.obs)
    BY IlluminantSeen DEF ranges
  <2> QED BY <2>1
<1> HIDE DEF ranges
<1>2. r = IF ~p.view THEN Failed("ProfileMissingTag")
          ELSE IF p.illum = 0 \/ p.obs = 0 THEN Failed("InvalidProfile") ELSE Pushed(s)
  BY Zenon DEF PushXYZNormalize, ranges
<1> HIDE DEF xyz, r
<1>3. CASE ~p.view
  <2>1. Leads(Failed("ProfileMissingTag"), 3, 3, u, w) BY FailedLeads
  <2> HIDE DEF u, w, s
  <2> QED BY <1>2, <1>3, <2>1 DEF r, u, w
<1>4. CASE p.view /\ (p.illum = 0 \/ p.obs = 0)
  <2>1. Leads(Failed("InvalidProfile"), 3, 3, u, w) BY FailedLeads
  <2> HIDE DEF u, w, s
  <2> QED BY <1>2, <1>4, <2>1 DEF r, u, w
<1>5. CASE p.view /\ p.illum # 0 /\ p.obs # 0
  <2>1. p.illum \in Level /\ p.obs \in Level /\ p.white \in Level BY DEF GoodPcc
  <2>2. k = Mult(p.white, Inv[Mult(p.illum, p.obs)]) BY <1>1
  <2> HIDE DEF k
  <2>3. v \in Level /\ p.illum # 0 /\ p.obs # 0 BY <1>5
  <2>4. k \in Level /\ Mult(u, k) = w BY <2>1, <2>2, <2>3, Normal
  <2>6. GoesOn(s, 3, 3, u, Mult(u, k)) BY <2>4, ScaleGoes
  <2> HIDE DEF u, w, s
  <2>8. r = Pushed(s) BY <1>2, <1>5
  <2>9. Leads(r, 3, 3, u, w) BY <2>4, <2>6, <2>8, PushedLeads
  <2> QED BY <2>8, <2>9, PushedIs DEF r, u, w
<1> QED BY <1>3, <1>4, <1>5

(* The same of a push whose first step may read a matrix of channels. *)
Begins(a, in, out, v, w) == Push(a) /\ (a.stat = "Ok" => Goes(a.steps, in, out, v, w))

LEMMA LeadsBegins ==
  ASSUME NEW a, NEW in, NEW out, NEW v, NEW w, Leads(a, in, out, v, w)
  PROVE  Begins(a, in, out, v, w)
BY DEF Leads, Begins, GoesOn

LEMMA ThenBegins ==
  ASSUME NEW a, NEW b, NEW in, NEW mid, NEW out, NEW v, NEW w, NEW x,
         Begins(a, in, mid, v, w), Leads(b, mid, out, w, x)
  PROVE  Begins(Then(a, b), in, out, v, x)
<1> DEFINE c == Then(a, b)
<1>1. /\ Push(c) /\ (c.stat = "Ok" <=> a.stat = "Ok" /\ b.stat = "Ok")
      /\ c.stat = "Ok" => c.steps = a.steps \o b.steps
  BY ThenIs DEF Leads, Begins
<1> HIDE DEF c
<1>2. ASSUME c.stat = "Ok" PROVE Goes(c.steps, in, out, v, x)
  <2>1. Goes(a.steps, in, mid, v, w) /\ GoesOn(b.steps, mid, out, w, x)
    BY <1>1, <1>2 DEF Leads, Begins
  <2>2. Goes(a.steps \o b.steps, in, out, v, x) BY <2>1, JoinedGoes
  <2> QED BY <1>1, <1>2, <2>2
<1>3. Begins(c, in, out, v, x) BY <1>1, <1>2 DEF Begins
<1> QED BY <1>3 DEF c

GoodSpectral(x) == GoodPcc(x.pcc) /\ StepsOf(x.range) \in Nat /\ StepsOf(x.biRange) \in Nat

LEMMA RefToXyzLeads ==
  ASSUME NEW x, GoodSpectral(x), x.pcc.view, NEW v \in Level
  PROVE  Leads(PushRef2Xyz(x), StepsOf(x.range), 3, v, Mult(v, x.pcc.white))
<1> DEFINE p == x.pcc
           mid == StepsOf(p.illumRange)
           last == StepsOf(p.obsRange)
           a == SpecToRange(x.range, p.illumRange)
           b == <<Scale(mid, p.illum)>>
           c == SpecToRange(p.illumRange, p.obsRange)
           d == Observe(p)
           n == PushXYZNormalize(p, p.illumRange, p.illumRange)
           vi == Mult(v, p.illum)
           vo == Mult(vi, p.obs)
           w == Mult(v, p.white)
           in == StepsOf(x.range)
           r == PushRef2Xyz(x)
<1>1. /\ GoodPcc(p) /\ in \in Nat /\ mid \in Nat /\ last \in Nat
      /\ p.illum \in Level /\ p.obs \in Level
  BY DEF GoodSpectral, GoodPcc
<1>2. vi \in Level BY <1>1, Ring
<1>3. GoesOn(a, in, mid, v, v) BY <1>1, RangeGoes
<1>4. GoesOn(b, mid, mid, v, vi)
  <2> HIDE DEF mid
  <2> QED BY <1>1, ScaleGoes
<1>5. GoesOn(c, mid, last, vi, vi)
  <2> HIDE DEF vi
  <2> QED BY <1>1, <1>2, RangeGoes
<1>6. GoesOn(d, last, 3, vi, vo) BY <1>1, ObserveGoes
<1>7. Leads(n, 3, 3, vo, w) BY <1>1, NormalizeLeads
<1>8. r = IF p.illum = 0 \/ p.obs = 0 THEN Failed("InvalidProfile")
          ELSE Then(Pushed(a \o b \o c \o d), n)
  BY Zenon DEF PushRef2Xyz, StepsOf
<1>9. Leads(Failed("InvalidProfile"), in, 3, v, w) BY FailedLeads
<1> HIDE DEF a, b, c, d, n, vi, vo, w, in, mid, last, r
<1>10. GoesOn(a \o b, in, mid, v, vi) BY <1>3, <1>4, GoesFurther
<1>11. GoesOn(a \o b \o c, in, last, v, vi) BY <1>5, <1>10, GoesFurther
<1>12. GoesOn(a \o b \o c \o d, in, 3, v, vo) BY <1>6, <1>11, GoesFurther
<1>13. Leads(Pushed(a \o b \o c \o d), in, 3, v, vo) BY <1>12, PushedLeads
<1>14. Leads(Then(Pushed(a \o b \o c \o d), n), in, 3, v, w) BY <1>7, <1>13, ThenLeads
<1>15. Leads(r, in, 3, v, w) BY <1>8, <1>9, <1>14
<1> QED BY <1>15 DEF r, in, w

LEMMA IlluminantLeads ==
  ASSUME NEW x, GoodSpectral(x), x.pcc.view, NEW v \in Level
  PROVE  Leads(PushApplyIllum(x), StepsOf(x.range), StepsOf(x.range), v, Mult(v, x.pcc.illum))
<1> DEFINE p == x.pcc
           mid == StepsOf(p.illumRange)
           a == SpecToRange(x.range, p.illumRange)
           b == <<Scale(mid, p.illum)>>
           c == SpecToRange(p.illumRange, x.range)
           vi == Mult(v, p.illum)
           in == StepsOf(x.range)
           r == PushApplyIllum(x)
<1>1. in \in Nat /\ mid \in Nat /\ p.illum \in Level BY DEF GoodSpectral, GoodPcc
<1>2. vi \in Level BY <1>1, Ring
<1>3. GoesOn(a, in, mid, v, v) BY <1>1, RangeGoes
<1>4. GoesOn(b, mid, mid, v, vi)
  <2> HIDE DEF mid
  <2> QED BY <1>1, ScaleGoes
<1>5. GoesOn(c, mid, in, vi, vi)
  <2> HIDE DEF vi
  <2> QED BY <1>1, <1>2, RangeGoes
<1>6. r = IF p.illum = 0 THEN Failed("InvalidProfile") ELSE Pushed(a \o b \o c)
  BY Zenon DEF PushApplyIllum, StepsOf
<1>7. Leads(Failed("InvalidProfile"), in, in, v, vi) BY FailedLeads
<1> HIDE DEF a, b, c, vi, in, mid, r
<1>8. GoesOn(a \o b, in, mid, v, vi) BY <1>3, <1>4, GoesFurther
<1>9. GoesOn(a \o b \o c, in, in, v, vi) BY <1>5, <1>8, GoesFurther
<1>10. Leads(Pushed(a \o b \o c), in, in, v, vi) BY <1>9, PushedLeads
<1>11. Leads(r, in, in, v, vi) BY <1>6, <1>7, <1>10
<1> QED BY <1>11 DEF r, in, vi

(* What is left when the observer is divided out again with the light. *)
LEMMA Observed ==
  ASSUME NEW v \in Level, NEW a \in Level, a # 0, NEW b \in Level, b # 0
  PROVE  LET k == Inv[Mult(a, b)]
         IN k \in Level /\ Mult(Mult(v, a), k) = Mult(v, Inv[b])
<1> DEFINE xyz == Mult(a, b)
           i == Inv[xyz]
           j == Inv[b]
           u == Mult(v, j)
<1>0. xyz \in Level BY Ring
<1>1. xyz \in Level /\ xyz # 0 BY <1>0, InverseOf
<1>2. j \in Level /\ Mult(b, j) = 1 BY InverseOf
<1> HIDE DEF j
<1>3. Mult(v, a) = Mult(u, xyz)
  <2>1. u \in Level BY <1>2, Ring
  <2>2. Mult(u, b) = Mult(v, Mult(j, b)) BY <1>2, Ring
  <2>3. Mult(j, b) = 1 BY <1>2, Ring
  <2>4. Mult(v, 1) = v BY Ring, ModulusIs
  <2>5. xyz = Mult(b, a) BY Ring
  <2> HIDE DEF u
  <2>6. Mult(u, Mult(b, a)) = Mult(Mult(u, b), a) BY <2>1, Ring
  <2> QED BY <2>2, <2>3, <2>4, <2>5, <2>6
<1>4. u \in Level BY <1>2, Ring
<1> HIDE DEF xyz, u
<1>5. i \in Level /\ Mult(xyz, i) = 1 BY <1>1, InverseOf
<1> HIDE DEF i
<1>6. Mult(Mult(u, xyz), i) = u
  <2>1. Mult(Mult(u, xyz), i) = Mult(u, Mult(xyz, i)) BY <1>1, <1>4, <1>5, Ring
  <2>2. Mult(u, 1) = u BY <1>4, Ring, ModulusIs
  <2> QED BY <1>5, <2>1, <2>2
<1>7. i \in Level /\ Mult(Mult(v, a), i) = u BY <1>3, <1>5, <1>6
<1> QED BY <1>7 DEF u, i, xyz, j

LEMMA RadToXyzLeads ==
  ASSUME NEW x, GoodSpectral(x), x.pcc.view, NEW v \in Level
  PROVE  Leads(PushRad2Xyz(x), StepsOf(x.range), 3, v, Mult(v, Inv[x.pcc.illum]))
<1> DEFINE p == x.pcc
           last == StepsOf(p.obsRange)
           fine == SpectralRange[x.range].size < SpectralRange[p.obsRange].size
           a == SpecToRange(x.range, p.obsRange)
           b == Observe(p)
           c == <<Matrix(3, StepsOf(x.range), p.obs)>>
           k == Inv[Mult(p.obs, p.illum)]
           d == <<Scale(3, k)>>
           e == IF fine THEN c ELSE a \o b
           vo == Mult(v, p.obs)
           w == Mult(v, Inv[p.illum])
           in == StepsOf(x.range)
           r == PushRad2Xyz(x)
<1>1. /\ GoodPcc(p) /\ in \in Nat /\ last \in Nat
      /\ p.illum \in Level /\ p.obs \in Level
  BY DEF GoodSpectral, GoodPcc
<1>2. vo \in Level BY <1>1, Ring
<1>3. GoesOn(a, in, last, v, v) BY <1>1, RangeGoes
<1>4. GoesOn(b, last, 3, v, vo) BY <1>1, ObserveGoes
<1>5. GoesOn(c, in, 3, v, vo) BY <1>1, MatrixGoes
<1>6. r = IF p.illum = 0 \/ p.obs = 0 THEN Failed("InvalidProfile") ELSE Pushed(e \o d)
  BY Zenon DEF PushRad2Xyz, StepsOf
<1>7. CASE p.illum = 0 \/ p.obs = 0
  <2>1. Leads(Failed("InvalidProfile"), in, 3, v, w) BY FailedLeads
  <2>2. r = Failed("InvalidProfile")
    <3> HIDE DEF e, d, r
    <3> QED BY <1>6, <1>7
  <2> QED BY <2>1, <2>2
<1>8. CASE p.illum # 0 /\ p.obs # 0
  <2>1. k \in Level /\ Mult(vo, k) = w BY <1>1, <1>8, Observed
  <2> HIDE DEF k
  <2>2. GoesOn(d, 3, 3, vo, w)
    <3> HIDE DEF vo, w
    <3> QED BY <2>1, ScaleGoes
  <2> HIDE DEF a, b, c, d, vo, w, in, last, r, fine
  <2>3. GoesOn(a \o b, in, 3, v, vo) BY <1>3, <1>4, GoesFurther
  <2>4. GoesOn(e, in, 3, v, vo) BY <1>5, <2>3
  <2> HIDE DEF e
  <2>5. GoesOn(e \o d, in, 3, v, w) BY <2>2, <2>4, GoesFurther
  <2>6. r = Pushed(e \o d) BY <1>6, <1>8
  <2>7. Leads(r, in, 3, v, w) BY <2>5, <2>6, PushedLeads
  <2> QED BY <2>7 DEF r, in, w
<1> QED BY <1>7, <1>8

LEMMA BiRefToRadBegins ==
  ASSUME NEW x, GoodSpectral(x), x.pcc.view, NEW v \in Level
  PROVE  /\ Begins(PushBiRef2Rad(x), StepsOf(x.range) * StepsOf(x.biRange), StepsOf(x.range), v,
                   Mult(v, x.pcc.illum))
         /\ PushBiRef2Rad(x).stat = "Ok" <=> x.pcc.illum # 0
<1> DEFINE m == StepsOf(x.range)
           n == StepsOf(x.biRange)
           s == <<PcsStep("SrcMatrix", n, m, x.pcc.illum)>>
           w == Mult(v, x.pcc.illum)
           r == PushBiRef2Rad(x)
<1>1. m \in Nat /\ n \in Nat /\ x.pcc.illum \in Level BY DEF GoodSpectral, GoodPcc
<1>2. r = IF x.pcc.illum = 0 THEN Failed("ProfileMissingTag") ELSE Pushed(s)
  BY Zenon DEF PushBiRef2Rad, StepsOf
<1> HIDE DEF m, n, r
<1>3. Goes(s, m * n, m, v, w) BY <1>1, SrcMatrixGoes
<1> HIDE DEF s, w
<1>4. Begins(r, m * n, m, v, w)
  <2>1. CASE x.pcc.illum = 0 BY <1>2, <2>1, FailedIs DEF Begins
  <2>2. CASE x.pcc.illum # 0 BY <1>2, <1>3, <2>2, PushedIs DEF Begins
  <2> QED BY <2>1, <2>2
<1>5. r.stat = "Ok" <=> x.pcc.illum # 0 BY <1>2, PushedIs, FailedIs
<1> QED BY <1>4, <1>5 DEF r, m, n, w

LEMMA BiRefToXyzBegins ==
  ASSUME NEW x, GoodSpectral(x), x.pcc.view, NEW v \in Level
  PROVE  /\ Begins(PushBiRef2Xyz(x), StepsOf(x.range) * StepsOf(x.biRange), 3, v,
                   Mult(v, x.pcc.white))
         /\ x.pcc.illum # 0 /\ x.pcc.obs # 0 => PushBiRef2Xyz(x).stat = "Ok"
<1> DEFINE p == x.pcc
           in == StepsOf(x.range) * StepsOf(x.biRange)
           mid == StepsOf(x.range)
           last == StepsOf(p.obsRange)
           a == PushBiRef2Rad(x)
           b == SpecToRange(x.range, p.obsRange)
           c == Observe(p)
           n == PushXYZNormalize(p, x.biRange, x.range)
           d == IF p.obs = 0 THEN Failed("InvalidProfile") ELSE Then(Pushed(b \o c), n)
           vi == Mult(v, p.illum)
           vo == Mult(vi, p.obs)
           w == Mult(v, p.white)
           r == PushBiRef2Xyz(x)
<1>1. /\ GoodPcc(p) /\ mid \in Nat /\ last \in Nat /\ StepsOf(x.biRange) \in Nat
      /\ p.illum \in Level /\ p.obs \in Level
  BY DEF GoodSpectral, GoodPcc
<1>2. vi \in Level BY <1>1, Ring
<1>3. Begins(a, in, mid, v, vi) /\ (a.stat = "Ok" <=> p.illum # 0) BY BiRefToRadBegins
<1>4. GoesOn(b, mid, last, vi, vi)
  <2> HIDE DEF vi
  <2> QED BY <1>1, <1>2, RangeGoes
<1>5. GoesOn(c, last, 3, vi, vo) BY <1>1, ObserveGoes
<1>6. Leads(n, 3, 3, vo, w) BY <1>1, NormalizeLeads
<1>7. p.illum # 0 /\ p.obs # 0 => n.stat = "Ok" BY <1>1, NormalizeLeads
<1>8. r = Then(a, d) BY Zenon DEF PushBiRef2Xyz
<1>9. Leads(Failed("InvalidProfile"), mid, 3, vi, w) BY FailedLeads
<1> HIDE DEF a, b, c, n, vi, vo, w, in, mid, last, r
<1>10. GoesOn(b \o c, mid, 3, vi, vo) BY <1>4, <1>5, GoesFurther
<1>11. Leads(Pushed(b \o c), mid, 3, vi, vo) BY <1>10, PushedLeads
<1>12. Leads(Then(Pushed(b \o c), n), mid, 3, vi, w) BY <1>6, <1>11, ThenLeads
<1>13. p.illum # 0 /\ p.obs # 0 => Then(Pushed(b \o c), n).stat = "Ok"
  BY <1>6, <1>7, ThenIs, PushedIs DEF Leads
<1>14. Leads(d, mid, 3, vi, w) BY <1>9, <1>12
<1>15. p.illum # 0 /\ p.obs # 0 => d.stat = "Ok" BY <1>13
<1> HIDE DEF d
<1>16. Begins(r, in, 3, v, w) BY <1>3, <1>8, <1>14, ThenBegins
<1>17. p.illum # 0 /\ p.obs # 0 => r.stat = "Ok"
  BY <1>3, <1>8, <1>14, <1>15, ThenIs DEF Leads, Begins
<1> QED BY <1>16, <1>17 DEF r, in, w

LEMMA BiRefToRefBegins ==
  ASSUME NEW x, GoodSpectral(x), x.pcc.view, NEW v \in Level
  PROVE  Begins(PushBiRef2Ref(x), StepsOf(x.range) * StepsOf(x.biRange), StepsOf(x.range), v, v)
<1> DEFINE i == x.pcc.illum
           in == StepsOf(x.range) * StepsOf(x.biRange)
           n == StepsOf(x.range)
           a == PushBiRef2Rad(x)
           s == <<Scale(n, Inv[i])>>
           r == PushBiRef2Ref(x)
<1>1. n \in Nat /\ i \in Level BY DEF GoodSpectral, GoodPcc
<1>2. Begins(a, in, n, v, Mult(v, i)) /\ (a.stat = "Ok" <=> i # 0) BY BiRefToRadBegins
<1>3. r = Then(a, Pushed(s)) BY Zenon DEF PushBiRef2Ref, StepsOf
<1> HIDE DEF a, in, n, r, i
<1>4. CASE i = 0
  <2>1. Push(Pushed(s)) BY PushedIs
  <2> HIDE DEF s
  <2>2. Push(r) /\ r.stat # "Ok" BY <1>2, <1>3, <1>4, <2>1, ThenIs DEF Begins
  <2>3. Begins(r, in, n, v, v) BY <2>2 DEF Begins
  <2> QED BY <2>3 DEF r, in, n
<1>5. CASE i # 0
  <2>1. Inv[i] \in Level /\ Mult(Mult(v, i), Inv[i]) = v
    BY <1>1, <1>5, InverseOf, Cancels
  <2> DEFINE u == Mult(v, i)
             j == Inv[i]
  <2>2. GoesOn(s, n, n, u, Mult(u, j))
    <3> HIDE DEF u
    <3> QED BY <1>1, <2>1, ScaleGoes
  <2> HIDE DEF s
  <2>3. GoesOn(s, n, n, u, v) BY <2>1, <2>2
  <2> HIDE DEF u, j
  <2>4. Leads(Pushed(s), n, n, u, v) BY <2>3, PushedLeads
  <2>5. Begins(a, in, n, v, u) BY <1>2 DEF u
  <2>6. Begins(r, in, n, v, v) BY <1>3, <2>4, <2>5, ThenBegins
  <2> QED BY <2>6 DEF r, in, n
<1> QED BY <1>4, <1>5

-----------------------------------------------------------------------------
(* ConnectSides. *)

(* The channels of a pixel on one side of a conversion. *)
Channels(x) ==
  IF x.space \in Colorimetric THEN 3
  ELSE StepsOf(x.range) * (IF SpaceType(x.space) = "BiRef" THEN StepsOf(x.biRange) ELSE 1)

(* The steps take each level of x to the level that means the same colour in y. *)
Converts(x, y, steps) ==
  \A v \in Level :
    \E w \in Level :
      /\ Goes(steps, Channels(x), Channels(y), v, w)
      /\ IF y.space \in Colorimetric
         THEN Decoded(y, w) = Adjusted(y, InPcc(x.pcc, y.pcc, Xyz(x, v)))
         ELSE w = Spectrum(x, y, v)

LEMMA SpacesAre ==
  ASSUME NEW s \in PCS
  PROVE  /\ s \in Colorimetric => s \notin Spectral /\ SpaceType(s) = s
         /\ s \notin Colorimetric => s \in Spectral /\ SpaceType(s) \in {"Ref", "Rad", "BiRef"}
         /\ s \in Colorimetric <=> SpaceType(s) \in Colorimetric
BY SpacesAssumption DEF PCS, Colorimetric, Spectral, SpaceType

LEMMA ChannelsAre ==
  ASSUME NEW x, GoodSide(x)
  PROVE  /\ x.space \in Colorimetric => Channels(x) = 3
         /\ SpaceType(x.space) \in {"Ref", "Rad"} => Channels(x) = StepsOf(x.range)
         /\ SpaceType(x.space) = "BiRef" => Channels(x) = StepsOf(x.range) * StepsOf(x.biRange)
<1>1. x.space \in PCS /\ StepsOf(x.range) \in Nat BY DEF GoodSide
<1>2. StepsOf(x.range) * 1 = StepsOf(x.range) BY <1>1
<1>3. x.space \in Colorimetric <=> SpaceType(x.space) \in Colorimetric BY <1>1, SpacesAre
<1> QED BY <1>2, <1>3 DEF Channels, Colorimetric

LEMMA XyzIs ==
  ASSUME NEW x, x.space \in PCS, NEW v
  PROVE  /\ x.space \in Colorimetric => Xyz(x, v) = Adjusted(x, Decoded(x, v))
         /\ SpaceType(x.space) = "Rad" => Xyz(x, v) = Mult(v, Inv[x.pcc.illum])
         /\ SpaceType(x.space) \in {"Ref", "BiRef"} => Xyz(x, v) = Mult(v, x.pcc.white)
<1> DEFINE a == Adjusted(x, Decoded(x, v))
           b == Mult(v, Inv[x.pcc.illum])
           c == Mult(v, x.pcc.white)
<1>1. Xyz(x, v) = CASE x.space \in Colorimetric -> a [] SpaceType(x.space) = "Rad" -> b
                    [] OTHER -> c
  BY Zenon DEF Xyz
<1>2. x.space \in Colorimetric <=> SpaceType(x.space) \in Colorimetric BY SpacesAre
<1> HIDE DEF a, b, c
<1>3. /\ x.space \in Colorimetric => Xyz(x, v) = a
      /\ SpaceType(x.space) = "Rad" => Xyz(x, v) = b
      /\ SpaceType(x.space) \in {"Ref", "BiRef"} => Xyz(x, v) = c
  BY <1>1, <1>2 DEF Colorimetric
<1> QED BY <1>3 DEF a, b, c

LEMMA ProductIn == ASSUME NEW a \in Level, NEW b \in Level PROVE Mult(a, b) \in Level
BY Ring

LEMMA ToXyzBegins ==
  ASSUME NEW x, GoodSide(x), NEW y, x.space \in Spectral => Seen(x),
         PushToXyz(x, y).stat = "Ok", NEW v \in Level
  PROVE  /\ Begins(PushToXyz(x, y), Channels(x), 3, v, Xyz(x, v))
         /\ Xyz(x, v) \in Level
<1> DEFINE r == PushToXyz(x, y)
           t == SpaceType(x.space)
           c == Pushed(FromColour(x))
           b == PushBiRef2Xyz(x)
           bl == [b EXCEPT !.stat = "Ok"]
           ob == IF y.space = "Lab" THEN bl ELSE b
           q == Xyz(x, v)
           n == Channels(x)
<1>1. /\ x.space \in PCS /\ GoodSpectral(x) /\ x.pcc.white \in Level /\ x.pcc.illum \in Level
  BY DEF GoodSide, GoodSpectral, GoodPcc
<1>2. r = CASE t \in Colorimetric -> c [] t = "Ref" -> PushRef2Xyz(x)
            [] t = "Rad" -> PushRad2Xyz(x) [] OTHER -> ob
  BY Zenon DEF PushToXyz
<1>3. t \in Colorimetric \/ t = "Ref" \/ t = "Rad" \/ t = "BiRef" BY <1>1, SpacesAre
<1>4. CASE t \in Colorimetric
  <2>1. x.space \in Colorimetric BY <1>1, <1>4, SpacesAre
  <2>2. GoesOn(FromColour(x), 3, 3, v, q) /\ q \in Level
    <3>1. q = Adjusted(x, Decoded(x, v)) BY <1>1, <2>1, XyzIs
    <3> HIDE DEF q
    <3> QED BY <2>1, <3>1, FromColourGoes
  <2>3. n = 3 BY <2>1, ChannelsAre
  <2> HIDE DEF n, q
  <2>4. Leads(c, n, 3, v, q) BY <2>2, <2>3, PushedLeads
  <2>5. r = c
    <3> HIDE DEF r, c, t, ob
    <3> QED BY <1>2, <1>4 DEF Colorimetric
  <2> QED BY <2>2, <2>4, <2>5, LeadsBegins DEF n, q
<1>5. CASE t \notin Colorimetric
  <2>1. x.space \in Spectral /\ x.pcc.view BY <1>1, <1>5, SpacesAre DEF Seen
  <2>2. CASE t = "Ref"
    <3>1. Leads(PushRef2Xyz(x), StepsOf(x.range), 3, v, Mult(v, x.pcc.white))
      BY <1>1, <2>1, RefToXyzLeads
    <3>2. n = StepsOf(x.range) BY <2>2, ChannelsAre
    <3>3. q = Mult(v, x.pcc.white) /\ q \in Level BY <1>1, <2>2, XyzIs, ProductIn
    <3>4. r = PushRef2Xyz(x)
      <4> HIDE DEF r, c, t, ob
      <4> QED BY <1>2, <1>5, <2>2
    <3> HIDE DEF n, q, r
    <3> QED BY <3>1, <3>2, <3>3, <3>4, LeadsBegins DEF n, q, r
  <2>3. CASE t = "Rad"
    <3>1. Leads(PushRad2Xyz(x), StepsOf(x.range), 3, v, Mult(v, Inv[x.pcc.illum]))
      BY <1>1, <2>1, RadToXyzLeads
    <3>2. n = StepsOf(x.range) BY <2>3, ChannelsAre
    <3>3. q = Mult(v, Inv[x.pcc.illum]) BY <1>1, <2>3, XyzIs
    <3>4. r = PushRad2Xyz(x)
      <4> HIDE DEF r, c, t, ob
      <4> QED BY <1>2, <1>5, <2>3
    <3>5. x.pcc.illum # 0
      <4>1. PushRad2Xyz(x).stat = "Ok" BY <3>4
      <4>2. x.pcc.illum = 0 => PushRad2Xyz(x) = Failed("InvalidProfile")
        BY <2>1, Zenon DEF PushRad2Xyz
      <4> QED BY <4>1, <4>2, FailedIs
    <3>6. q \in Level BY <1>1, <3>3, <3>5, InverseOf, ProductIn
    <3> HIDE DEF n, q, r
    <3> QED BY <3>1, <3>2, <3>3, <3>4, <3>6, LeadsBegins DEF n, q, r
  <2>4. CASE t = "BiRef"
    <3>1. Begins(b, StepsOf(x.range) * StepsOf(x.biRange), 3, v, Mult(v, x.pcc.white))
      BY <1>1, <2>1, BiRefToXyzBegins
    <3>2. b.stat = "Ok"
      <4>1. x.pcc.illum # 0 /\ x.pcc.obs # 0 BY <2>1, <2>4 DEF Seen
      <4> QED BY <1>1, <2>1, <4>1, BiRefToXyzBegins
    <3>3. n = StepsOf(x.range) * StepsOf(x.biRange) BY <2>4, ChannelsAre
    <3>4. q = Mult(v, x.pcc.white) /\ q \in Level BY <1>1, <2>4, XyzIs, ProductIn
    <3>5. r = ob
      <4> HIDE DEF r, c, t, ob
      <4> QED BY <1>2, <1>5, <2>4
    <3> HIDE DEF b
    <3>6. bl = b
      <4>1. b = [stat |-> b.stat, steps |-> b.steps] BY <3>1 DEF Begins, Push
      <4> DEFINE d == [stat |-> b.stat, steps |-> b.steps]
      <4>2. [d EXCEPT !.stat = "Ok"] = [stat |-> "Ok", steps |-> b.steps] OBVIOUS
      <4>3. [b EXCEPT !.stat = "Ok"] = [d EXCEPT !.stat = "Ok"] BY <4>1, Zenon
      <4>4. d = [stat |-> "Ok", steps |-> b.steps] BY <3>2
      <4> QED BY <4>1, <4>2, <4>3, <4>4, Zenon
    <3>7. r = b BY <3>5, <3>6
    <3> HIDE DEF n, q, r
    <3> QED BY <3>1, <3>3, <3>4, <3>7 DEF n, q, r
  <2> QED BY <1>3, <1>5, <2>2, <2>3, <2>4
<1> QED BY <1>4, <1>5

LEMMA ColourConverts ==
  ASSUME NEW x, NEW y, GoodSide(x), GoodSide(y), x.space \in Spectral => Seen(x),
         y.space \in Colorimetric, ConnectSides(x, y).stat = "Ok"
  PROVE  Converts(x, y, ConnectSides(x, y).steps)
<1> DEFINE a == PushToXyz(x, y)
           b == PushXYZConvert(x.pcc, y.pcc)
           c == Pushed(IntoColour(y))
           bc == Then(b, c)
           r == ConnectSides(x, y)
           n == Channels(x)
<1>1. {x.space, y.space} \ (Colorimetric \cup Spectral) = {} BY DEF GoodSide, PCS
<1>2. r = Then(a, bc) BY <1>1, Zenon DEF ConnectSides
<1>3. GoodPcc(x.pcc) /\ GoodPcc(y.pcc) BY DEF GoodSide
<1>4. 0 \in Level BY ModulusIs
<1>5. Push(b) BY <1>3, <1>4, ConvertLeads DEF Leads
<1>6. Push(c) BY PushedIs
<1>7. Push(bc) BY <1>5, <1>6, ThenIs
<1>8. a.stat = "Ok"
  <2>1. CASE a.stat = "Ok" BY <2>1
  <2>2. CASE a.stat # "Ok"
    <3>1. r = a BY <1>2, <2>2, Zenon DEF Then
    <3> QED BY <3>1
  <2> QED BY <2>1, <2>2
<1>9. Channels(y) = 3 BY ChannelsAre
<1>10. ASSUME NEW v \in Level
       PROVE  \E w \in Level :
                /\ Goes(r.steps, n, Channels(y), v, w)
                /\ Decoded(y, w) = Adjusted(y, InPcc(x.pcc, y.pcc, Xyz(x, v)))
  <2> DEFINE q == Xyz(x, v)
             u == InPcc(x.pcc, y.pcc, q)
  <2>1. Begins(a, n, 3, v, q) /\ q \in Level BY <1>8, ToXyzBegins
  <2> HIDE DEF q
  <2>2. Leads(b, 3, 3, q, u) /\ u \in Level BY <1>3, <2>1, ConvertLeads
  <2> HIDE DEF u
  <2>3. PICK w \in Level : /\ GoesOn(IntoColour(y), 3, 3, u, w)
                           /\ Decoded(y, w) = Adjusted(y, u)
    BY <2>2, IntoColourGoes
  <2>4. Leads(c, 3, 3, u, w) BY <2>3, PushedLeads
  <2> HIDE DEF a, b, c, r, n
  <2>5. Leads(bc, 3, 3, q, w) BY <2>2, <2>4, ThenLeads
  <2> HIDE DEF bc
  <2>6. Begins(r, n, 3, v, w) BY <1>2, <2>1, <2>5, ThenBegins
  <2>7. r.stat = "Ok" BY DEF r
  <2>8. Goes(r.steps, n, Channels(y), v, w) BY <1>9, <2>6, <2>7 DEF Begins
  <2> QED BY <2>3, <2>8 DEF q, u
<1> HIDE DEF r
<1> QED BY <1>10 DEF Converts, r, n

LEMMA SpectrumIs ==
  ASSUME NEW x, NEW y, NEW v
  PROVE  Spectrum(x, y, v) =
           IF SpaceType(y.space) = "Rad" /\ SpaceType(x.space) # "Rad"
           THEN Mult(v, x.pcc.illum) ELSE v
BY Zenon DEF Spectrum

LEMMA SpectralBegins ==
  ASSUME NEW x, NEW y, GoodSide(x), GoodSide(y), x.space \in Spectral => Seen(x),
         y.space \notin Colorimetric, PushSpectral(x, y).stat = "Ok", NEW v \in Level
  PROVE  Begins(PushSpectral(x, y), Channels(x), Channels(y), v, Spectrum(x, y, v))
<1> DEFINE s == SpaceType(x.space)
           t == SpaceType(y.space)
           m == StepsOf(x.range)
           n == StepsOf(y.range)
           bi == StepsOf(x.range) * StepsOf(x.biRange)
           range == Pushed(SpecToRange(x.range, y.range))
           i == Mult(v, x.pcc.illum)
           lit == Then(PushApplyIllum(x), range)
           ref == Then(PushBiRef2Ref(x), range)
           rad == Then(PushBiRef2Rad(x), range)
           r == PushSpectral(x, y)
           q == Spectrum(x, y, v)
           in == Channels(x)
           out == Channels(y)
           same == x.range = y.range /\ x.biRange = y.biRange
<1>1. /\ x.space \in PCS /\ y.space \in PCS /\ GoodSpectral(x) /\ m \in Nat /\ n \in Nat
      /\ x.pcc.illum \in Level
  BY DEF GoodSide, GoodSpectral, GoodPcc
<1>2. t \in {"Ref", "Rad", "BiRef"} BY <1>1, SpacesAre
<1>3. i \in Level BY <1>1, ProductIn
<1>4. r = CASE <<s, t>> \in {<<"Ref", "Ref">>, <<"Rad", "Rad">>} -> range
            [] <<s, t>> = <<"Ref", "Rad">> -> lit
            [] <<s, t>> = <<"BiRef", "Ref">> -> ref
            [] <<s, t>> = <<"BiRef", "Rad">> -> rad
            [] <<s, t>> = <<"BiRef", "BiRef">> /\ same -> Pushed(<<>>)
            [] OTHER -> Failed("UnsupportedPcsLink")
  BY Zenon DEF PushSpectral
<1>5. r.stat = "Ok" OBVIOUS
<1>6. Failed("UnsupportedPcsLink").stat # "Ok" BY FailedIs
<1>7. /\ s \in {"Ref", "Rad"} => in = m
      /\ s = "BiRef" => in = bi
      /\ t \in {"Ref", "Rad"} => out = n
      /\ t = "BiRef" => out = StepsOf(y.range) * StepsOf(y.biRange)
  BY ChannelsAre
<1>8. q = IF t = "Rad" /\ s # "Rad" THEN i ELSE v BY SpectrumIs
<1>9. ASSUME s \in {"Ref", "Rad", "BiRef"} PROVE x.pcc.view
  <2>1. x.space \notin Colorimetric
    <3>1. s \notin Colorimetric BY <1>9 DEF Colorimetric
    <3> QED BY <1>1, <3>1, SpacesAre
  <2>2. x.space \in Spectral BY <1>1, <2>1, SpacesAre
  <2> QED BY <2>2 DEF Seen
<1>10. Leads(range, m, n, v, v)
  <2>1. GoesOn(SpecToRange(x.range, y.range), m, n, v, v) BY <1>1, RangeGoes
  <2> QED BY <2>1, PushedLeads
<1>11. Leads(range, m, n, i, i)
  <2> HIDE DEF i
  <2>1. GoesOn(SpecToRange(x.range, y.range), m, n, i, i) BY <1>1, <1>3, RangeGoes
  <2> QED BY <2>1, PushedLeads
<1>12. x.pcc.view =>
         /\ Leads(PushApplyIllum(x), m, m, v, i)
         /\ Begins(PushBiRef2Ref(x), bi, m, v, v)
         /\ Begins(PushBiRef2Rad(x), bi, m, v, i)
  BY <1>1, IlluminantLeads, BiRefToRefBegins, BiRefToRadBegins
<1> HIDE DEF range, i, m, n, bi, q, in, out, s, t, r
<1>13. x.pcc.view =>
         /\ Leads(lit, m, n, v, i)
         /\ Begins(ref, bi, n, v, v)
         /\ Begins(rad, bi, n, v, i)
  BY <1>10, <1>11, <1>12, ThenLeads, ThenBegins
<1>14. Begins(range, m, n, v, v) BY <1>10, LeadsBegins
<1>15. x.pcc.view => Begins(lit, m, n, v, i) BY <1>13, LeadsBegins
<1> HIDE DEF lit, ref, rad
<1>16. \/ <<s, t>> \in {<<"Ref", "Ref">>, <<"Rad", "Rad">>} /\ r = range
       \/ s = "Ref" /\ t = "Rad" /\ r = lit
       \/ s = "BiRef" /\ t = "Ref" /\ r = ref
       \/ s = "BiRef" /\ t = "Rad" /\ r = rad
       \/ s = "BiRef" /\ t = "BiRef" /\ same /\ r = Pushed(<<>>)
  <2> HIDE DEF same
  <2> DEFINE none == Pushed(<<>>)
             no == Failed("UnsupportedPcsLink")
  <2>1. r = CASE <<s, t>> \in {<<"Ref", "Ref">>, <<"Rad", "Rad">>} -> range
            [] <<s, t>> = <<"Ref", "Rad">> -> lit
            [] <<s, t>> = <<"BiRef", "Ref">> -> ref
            [] <<s, t>> = <<"BiRef", "Rad">> -> rad
            [] <<s, t>> = <<"BiRef", "BiRef">> /\ same -> none
            [] OTHER -> no
    BY <1>4
  <2>2. r # no BY <1>5, <1>6 DEF r
  <2> HIDE DEF none, no
  <2>3. <<s, t>> = <<"Ref", "Rad">> <=> s = "Ref" /\ t = "Rad" OBVIOUS
  <2> QED BY <2>1, <2>2 DEF none
<1>17. CASE <<s, t>> \in {<<"Ref", "Ref">>, <<"Rad", "Rad">>} /\ r = range
  <2>1. s = t /\ s \in {"Ref", "Rad"} BY <1>17
  <2>2. q = v /\ in = m /\ out = n BY <1>7, <1>8, <2>1
  <2> QED BY <1>14, <1>17, <2>2 DEF q, in, out, r
<1>18. CASE s = "Ref" /\ t = "Rad" /\ r = lit
  <2>1. q = i /\ in = m /\ out = n BY <1>7, <1>8, <1>18
  <2> QED BY <1>9, <1>15, <1>18, <2>1 DEF q, in, out, r
<1>19. CASE s = "BiRef" /\ t = "Ref" /\ r = ref
  <2>1. q = v /\ in = bi /\ out = n BY <1>7, <1>8, <1>19
  <2> QED BY <1>9, <1>13, <1>19, <2>1 DEF q, in, out, r
<1>20. CASE s = "BiRef" /\ t = "Rad" /\ r = rad
  <2>1. q = i /\ in = bi /\ out = n BY <1>7, <1>8, <1>20
  <2> QED BY <1>9, <1>13, <1>20, <2>1 DEF q, in, out, r
<1>21. CASE s = "BiRef" /\ t = "BiRef" /\ same /\ r = Pushed(<<>>)
  <2>1. q = v /\ in = out BY <1>7, <1>8, <1>21 DEF bi
  <2>2. GoesOn(<<>>, in, in, v, v) BY NoneGoes
  <2>3. Begins(Pushed(<<>>), in, out, v, q) BY <2>1, <2>2, PushedLeads, LeadsBegins
  <2> QED BY <1>21, <2>3 DEF q, in, out, r
<1> QED BY <1>16, <1>17, <1>18, <1>19, <1>20, <1>21

LEMMA SpectraConvert ==
  ASSUME NEW x, NEW y, GoodSide(x), GoodSide(y), x.space \in Spectral => Seen(x),
         y.space \notin Colorimetric, ConnectSides(x, y).stat = "Ok"
  PROVE  Converts(x, y, ConnectSides(x, y).steps)
<1> DEFINE r == ConnectSides(x, y)
<1>1. {x.space, y.space} \ (Colorimetric \cup Spectral) = {} BY DEF GoodSide, PCS
<1>2. r = PushSpectral(x, y) BY <1>1, Zenon DEF ConnectSides
<1>3. r.stat = "Ok" OBVIOUS
<1>4. ASSUME NEW v \in Level
      PROVE  Goes(r.steps, Channels(x), Channels(y), v, Spectrum(x, y, v))
  BY <1>2, <1>3, SpectralBegins DEF Begins
<1>5. ASSUME NEW v \in Level PROVE Spectrum(x, y, v) \in Level
  <2>1. x.pcc.illum \in Level BY DEF GoodSide, GoodPcc
  <2>2. Mult(v, x.pcc.illum) \in Level BY <2>1, ProductIn
  <2> QED BY <2>2, SpectrumIs
<1> HIDE DEF r
<1> QED BY <1>4, <1>5 DEF Converts, r

LEMMA SidesConvert ==
  ASSUME NEW x, NEW y, GoodSide(x), GoodSide(y), x.space \in Spectral => Seen(x),
         ConnectSides(x, y).stat = "Ok"
  PROVE  Converts(x, y, ConnectSides(x, y).steps)
BY ColourConverts, SpectraConvert

(* What Optimize leaves of a conversion is one. *)
LEMMA FinishedIs ==
  ASSUME NEW a, NEW x, NEW y, Finished(a).stat \in {"Ok", "Identity"},
         a.stat = "Ok" => Converts(x, y, a.steps),
         a.stat # "Identity"
  PROVE  /\ Converts(x, y, Finished(a).steps)
         /\ Finished(a).stat = "Identity" <=> Finished(a).steps = <<>>
<1> DEFINE list == Optimize(a.steps)
           f == Finished(a)
<1>1. a.stat = "Ok"
  <2>1. a.stat # "Ok" => f = a BY Zenon DEF Finished
  <2> QED BY <2>1
<1>2. f = [stat |-> IF list = <<>> THEN "Identity" ELSE "Ok", steps |-> list]
  BY <1>1, Zenon DEF Finished
<1>3. f.steps = list /\ (f.stat = "Identity" <=> list = <<>>)
  <2> HIDE DEF list, f
  <2> QED BY <1>2
<1>4. Converts(x, y, list)
  <2>1. ASSUME NEW v \in Level, NEW w \in Level, Goes(a.steps, Channels(x), Channels(y), v, w)
        PROVE  Goes(list, Channels(x), Channels(y), v, w)
    <3>1. /\ Fits(list, Channels(x)) /\ End(list, Channels(x)) = End(a.steps, Channels(x))
          /\ Run(list, v) = Run(a.steps, v)
      BY <2>1, OptimizeFits DEF Goes
    <3> HIDE DEF list
    <3> QED BY <2>1, <3>1 DEF Goes
  <2> HIDE DEF list
  <2> QED BY <1>1, <2>1 DEF Converts
<1> QED BY <1>3, <1>4

LEMMA ConvertsCarries ==
  ASSUME NEW x, NEW y, NEW steps, Converts(x, y, steps)
  PROVE  Carries(x, y, steps) /\ Chained(steps, Channels(x), Channels(y))
<1>1. ASSUME NEW v \in Level
      PROVE  IF y.space \in Colorimetric
             THEN Decoded(y, Run(steps, v)) = Adjusted(y, InPcc(x.pcc, y.pcc, Xyz(x, v)))
             ELSE Run(steps, v) = Spectrum(x, y, v)
  BY DEF Converts, Goes
<1>2. PICK w \in Level : Goes(steps, Channels(x), Channels(y), 0, w) BY ModulusIs DEF Converts
<1>3. Chained(steps, Channels(x), Channels(y)) BY <1>2, FitsChained DEF Goes
<1> QED BY <1>1, <1>3 DEF Carries

-----------------------------------------------------------------------------
(* Statuses, and ConnectFirst and ConnectLast.                               *)

(* No push ends with the status of a conversion that Optimize left nothing of. *)
Plain(a) == Push(a) /\ a.stat # "Identity"

LEMMA PlainPushes ==
  /\ \A s : Plain(Pushed(s))
  /\ \A s : s # "Identity" => Plain(Failed(s))
  /\ \A a, b : Plain(a) /\ Plain(b) => Plain(Then(a, b))
<1>1. \A s : Plain(Pushed(s)) BY PushedIs DEF Plain
<1>2. \A s : s # "Identity" => Plain(Failed(s)) BY FailedIs DEF Plain
<1>3. ASSUME NEW a, NEW b, Plain(a), Plain(b) PROVE Plain(Then(a, b))
  <2>1. CASE a.stat = "Ok"
    <3>1. b.stat = "Ok" => Then(a, b).stat = "Ok" BY <1>3, <2>1, ThenIs DEF Plain
    <3>2. Push(Then(a, b)) BY <1>3, ThenIs DEF Plain
    <3>3. Then(a, b).stat = b.stat
      <4> DEFINE c == a.steps \o b.steps
      <4>1. Then(a, b) = [b EXCEPT !.steps = c] BY <2>1, Zenon DEF Then
      <4>2. b = [stat |-> b.stat, steps |-> b.steps] BY <1>3 DEF Plain, Push
      <4> DEFINE d == [stat |-> b.stat, steps |-> b.steps]
      <4> HIDE DEF c
      <4>3. [d EXCEPT !.steps = c].stat = b.stat OBVIOUS
      <4> QED BY <4>1, <4>2, <4>3, Zenon
    <3> QED BY <1>3, <3>2, <3>3 DEF Plain
  <2>2. CASE a.stat # "Ok"
    <3>1. Then(a, b) = a BY <2>2, Zenon DEF Then
    <3> QED BY <1>3, <3>1
  <2> QED BY <2>1, <2>2
<1> QED BY <1>1, <1>2, <1>3

LEMMA ConversionsPlain ==
  /\ \A p, q : Plain(PushXYZConvert(p, q))
  /\ \A p, src, dst : Plain(PushXYZNormalize(p, src, dst))
  /\ \A x : Plain(PushRef2Xyz(x)) /\ Plain(PushApplyIllum(x)) /\ Plain(PushRad2Xyz(x))
  /\ \A x : Plain(PushBiRef2Rad(x)) /\ Plain(PushBiRef2Xyz(x)) /\ Plain(PushBiRef2Ref(x))
<1>0. /\ Plain(Failed("BadSpaceLink")) /\ Plain(Failed("ProfileMissingTag"))
      /\ Plain(Failed("InvalidProfile")) /\ Plain(Failed("BadConnection"))
  BY PlainPushes
<1>1. \A p, k : Plain(PushCustom(p, k))
  <2>1. \A s : Plain(Pushed(s)) BY PlainPushes
  <2> QED BY <1>0, <2>1, Zenon DEF PushCustom
<1>2. \A p, q : Plain(PushXYZConvert(p, q))
  <2> TAKE p, q
  <2>1. \/ PushXYZConvert(p, q) = Pushed(<<>>)
        \/ PushXYZConvert(p, q) = Then(PushCustom(p, p.factor), PushCustom(q, Inv[q.factor]))
    BY Zenon DEF PushXYZConvert
  <2> QED BY <1>1, <2>1, PlainPushes
<1>3. \A p, src, dst : Plain(PushXYZNormalize(p, src, dst))
  <2> TAKE p, src, dst
  <2>1. \/ PushXYZNormalize(p, src, dst) = Failed("ProfileMissingTag")
        \/ PushXYZNormalize(p, src, dst) = Failed("InvalidProfile")
        \/ \E s : PushXYZNormalize(p, src, dst) = Pushed(s)
    BY Zenon DEF PushXYZNormalize
  <2> QED BY <1>0, <2>1, PlainPushes
<1>4. ASSUME NEW x
      PROVE  Plain(PushRef2Xyz(x)) /\ Plain(PushApplyIllum(x)) /\ Plain(PushRad2Xyz(x))
  <2>1. \/ \E s : PushRef2Xyz(x) = Pushed(s)
        \/ PushRef2Xyz(x) = Failed("InvalidProfile")
        \/ \E s : PushRef2Xyz(x) = Then(Pushed(s), PushXYZNormalize(x.pcc, x.pcc.illumRange,
                                                                   x.pcc.illumRange))
    BY Zenon DEF PushRef2Xyz
  <2>2. \/ \E s : PushApplyIllum(x) = Pushed(s)
        \/ PushApplyIllum(x) = Failed("InvalidProfile")
    BY Zenon DEF PushApplyIllum
  <2>3. \/ \E s : PushRad2Xyz(x) = Pushed(s)
        \/ PushRad2Xyz(x) = Failed("InvalidProfile")
    BY Zenon DEF PushRad2Xyz
  <2>4. Plain(PushRef2Xyz(x)) BY <1>0, <1>3, <2>1, PlainPushes
  <2>5. Plain(PushApplyIllum(x)) BY <1>0, <2>2, PlainPushes
  <2>6. Plain(PushRad2Xyz(x)) BY <1>0, <2>3, PlainPushes
  <2> QED BY <2>4, <2>5, <2>6
<1>5. ASSUME NEW x
      PROVE  Plain(PushBiRef2Rad(x)) /\ Plain(PushBiRef2Xyz(x)) /\ Plain(PushBiRef2Ref(x))
  <2>1. \/ \E s : PushBiRef2Rad(x) = Pushed(s)
        \/ PushBiRef2Rad(x) = Failed("ProfileMissingTag")
    BY Zenon DEF PushBiRef2Rad
  <2>2. Plain(PushBiRef2Rad(x)) BY <1>0, <2>1, PlainPushes
  <2>3. PICK b, s :
          /\ \/ b = Failed("BadConnection") \/ b = Failed("InvalidProfile")
             \/ b = Then(Pushed(s), PushXYZNormalize(x.pcc, x.biRange, x.range))
          /\ PushBiRef2Xyz(x) = Then(PushBiRef2Rad(x), b)
    BY Zenon DEF PushBiRef2Xyz
  <2>4. Plain(b) BY <1>0, <1>3, <2>3, PlainPushes
  <2>5. PICK c, t : /\ c = Failed("BadConnection") \/ c = Pushed(t)
                    /\ PushBiRef2Ref(x) = Then(PushBiRef2Rad(x), c)
    BY Zenon DEF PushBiRef2Ref
  <2>6. Plain(c) BY <1>0, <2>5, PlainPushes
  <2> QED BY <2>2, <2>3, <2>4, <2>5, <2>6, PlainPushes
<1> QED BY <1>2, <1>3, <1>4, <1>5

LEMMA ConnectPlain ==
  ASSUME NEW x, NEW y PROVE Plain(ConnectSides(x, y))
<1>1. Plain(PushToXyz(x, y))
  <2> DEFINE b == PushBiRef2Xyz(x)
             bl == [b EXCEPT !.stat = "Ok"]
             a == Pushed(FromColour(x))
             t == SpaceType(x.space)
             ob == IF y.space = "Lab" THEN bl ELSE b
             r == PushToXyz(x, y)
  <2>1. r = CASE t \in Colorimetric -> a [] t = "Ref" -> PushRef2Xyz(x)
              [] t = "Rad" -> PushRad2Xyz(x) [] OTHER -> ob
    BY Zenon DEF PushToXyz
  <2>2. Plain(a) BY PlainPushes
  <2>3. Plain(b) BY ConversionsPlain
  <2>4. Plain(bl)
    <3> HIDE DEF b
    <3> DEFINE d == [stat |-> b.stat, steps |-> b.steps]
    <3>1. b = d BY <2>3 DEF Plain, Push
    <3>2. [d EXCEPT !.stat = "Ok"] = [stat |-> "Ok", steps |-> b.steps] OBVIOUS
    <3>3. bl = [stat |-> "Ok", steps |-> b.steps] BY <3>1, <3>2, Zenon
    <3> HIDE DEF bl
    <3> QED BY <3>3 DEF Plain, Push
  <2> HIDE DEF a, b, bl, r, t
  <2>5. r = a \/ r = PushRef2Xyz(x) \/ r = PushRad2Xyz(x) \/ r = b \/ r = bl BY <2>1
  <2>6. Plain(r) BY <2>2, <2>3, <2>4, <2>5, ConversionsPlain
  <2> QED BY <2>6 DEF r
<1>2. Plain(PushSpectral(x, y))
  <2> DEFINE s == SpaceType(x.space)
             t == SpaceType(y.space)
             range == Pushed(SpecToRange(x.range, y.range))
             lit == Then(PushApplyIllum(x), range)
             ref == Then(PushBiRef2Ref(x), range)
             rad == Then(PushBiRef2Rad(x), range)
             none == Pushed(<<>>)
             no == Failed("UnsupportedPcsLink")
             same == x.range = y.range /\ x.biRange = y.biRange
             r == PushSpectral(x, y)
  <2>1. r = CASE <<s, t>> \in {<<"Ref", "Ref">>, <<"Rad", "Rad">>} -> range
            [] <<s, t>> = <<"Ref", "Rad">> -> lit
            [] <<s, t>> = <<"BiRef", "Ref">> -> ref
            [] <<s, t>> = <<"BiRef", "Rad">> -> rad
            [] <<s, t>> = <<"BiRef", "BiRef">> /\ same -> none
            [] OTHER -> no
    BY Zenon DEF PushSpectral
  <2>2. Plain(range) /\ Plain(none) /\ Plain(no) BY PlainPushes
  <2> HIDE DEF range
  <2>3. Plain(lit) /\ Plain(ref) /\ Plain(rad) BY <2>2, ConversionsPlain, PlainPushes
  <2> HIDE DEF lit, ref, rad, none, no, s, t, same, r
  <2>4. r = range \/ r = lit \/ r = ref \/ r = rad \/ r = none \/ r = no BY <2>1
  <2>5. Plain(r) BY <2>2, <2>3, <2>4
  <2> QED BY <2>5 DEF r
<1>3. Plain(PushXYZConvert(x.pcc, y.pcc)) BY ConversionsPlain
<1> DEFINE bc == Then(PushXYZConvert(x.pcc, y.pcc), Pushed(IntoColour(y)))
           abc == Then(PushToXyz(x, y), bc)
           no == Failed("UnsupportedPcsLink")
<1>4. Plain(bc)
  <2>1. Plain(Pushed(IntoColour(y))) BY PlainPushes
  <2> QED BY <1>3, <2>1, PlainPushes
<1>5. ConnectSides(x, y) \in {no, abc, PushSpectral(x, y)} BY Zenon DEF ConnectSides
<1> HIDE DEF bc
<1>6. Plain(abc) BY <1>1, <1>4, PlainPushes
<1>7. Plain(no) BY PlainPushes
<1> HIDE DEF abc, no
<1> QED BY <1>2, <1>5, <1>6, <1>7

(* The same colour at the client's ends. *)
LEMMA SameConditions ==
  ASSUME NEW p, GoodPcc(p), NEW v \in Level PROVE InPcc(p, p, v) = v
<1> DEFINE f == p.factor
           i == Inv[f]
           u == Mult(f, v)
<1>1. f \in Level /\ f # 0 BY DEF GoodPcc
<1>2. Mult(u, i) = v BY <1>1, Cancels
<1> HIDE DEF u
<1>3. CASE IsEquivalentPcc(p, p) BY <1>3, Zenon DEF InPcc
<1>4. CASE ~IsEquivalentPcc(p, p) /\ IsStandardPcc(p) BY <1>4, Zenon DEF InPcc
<1>5. CASE ~IsEquivalentPcc(p, p) /\ ~IsStandardPcc(p)
  <2>1. InPcc(p, p, v) = Mult(u, i) BY <1>5, Zenon DEF InPcc, u
  <2> QED BY <1>2, <2>1
<1> QED BY <1>3, <1>4, <1>5

(* Two sides of one profile that adjust nothing. *)
Ends(x, y) ==
  /\ {x.space, y.space} \subseteq Colorimetric /\ x.pcc = y.pcc /\ GoodPcc(x.pcc)
  /\ x.scale = 1 /\ x.offset = 0 /\ y.scale = 1 /\ y.offset = 0

LEMMA EndsConvert ==
  ASSUME NEW x, NEW y, Ends(x, y), NEW steps,
         \A v \in Level :
           \E w \in Level : Goes(steps, 3, 3, v, w) /\ Decoded(y, w) = Decoded(x, v)
  PROVE  Converts(x, y, steps)
<1>1. ASSUME NEW v \in Level
      PROVE  Adjusted(y, InPcc(x.pcc, y.pcc, Xyz(x, v))) = Decoded(x, v)
  <2>1. Decoded(x, v) \in Level BY DecodedIn DEF Ends
  <2>2. 0 \in Level /\ 1 \in Level /\ ~Adjusts(x) /\ ~Adjusts(y) BY ModulusIs DEF Ends, Adjusts
  <2>3. x.space \in PCS /\ x.space \in Colorimetric BY DEF Ends, PCS
  <2>4. Xyz(x, v) = Adjusted(x, Decoded(x, v)) BY <2>3, XyzIs
  <2>5. x.scale \in Level /\ x.offset \in Level /\ y.scale \in Level /\ y.offset \in Level
    BY <2>2 DEF Ends
  <2> DEFINE d == Decoded(x, v)
  <2> HIDE DEF d
  <2>6. d \in Level BY <2>1 DEF d
  <2>7. Adjusted(x, d) = d BY <2>2, <2>5, <2>6, AdjustedIs
  <2>8. InPcc(x.pcc, y.pcc, d) = d
    <3>1. x.pcc = y.pcc /\ GoodPcc(x.pcc) BY DEF Ends
    <3>2. InPcc(x.pcc, x.pcc, d) = d BY <2>6, <3>1, SameConditions
    <3> QED BY <3>1, <3>2
  <2>9. Adjusted(y, d) = d BY <2>2, <2>5, <2>6, AdjustedIs
  <2> QED BY <2>4, <2>7, <2>8, <2>9 DEF d
<1>2. Channels(x) = 3 /\ Channels(y) = 3 /\ y.space \in Colorimetric BY DEF Ends, Channels
<1> QED BY <1>1, <1>2 DEF Converts

LEMMA SameEncoding ==
  ASSUME NEW x, NEW y, Ends(x, y), x.space = y.space, x.space = "Lab" => (x.legacy <=> y.legacy)
  PROVE  Converts(x, y, <<>>)
<1> DEFINE none == <<>>
<1>1. ASSUME NEW v \in Level PROVE Goes(none, 3, 3, v, v) BY NoneGoes DEF GoesOn
<1>2. ASSUME NEW v \in Level PROVE Decoded(y, v) = Decoded(x, v)
  <2>1. x.pcc = y.pcc BY DEF Ends
  <2>2. CASE x.space = "XYZ" BY <2>2, DecodedIs
  <2>3. CASE x.space = "Lab" /\ x.legacy BY <2>1, <2>3, DecodedIs
  <2>4. CASE x.space = "Lab" /\ ~x.legacy BY <2>1, <2>4, DecodedIs
  <2> QED BY <2>2, <2>3, <2>4 DEF Ends, Colorimetric
<1> HIDE DEF none
<1>3. Converts(x, y, none) BY <1>1, <1>2, EndsConvert
<1> QED BY <1>3 DEF none

LEMMA ThroughXyz ==
  ASSUME NEW x, NEW y, Ends(x, y)
  PROVE  Converts(x, y, <<IF x.space = "Lab" THEN LabToXyz(x) ELSE XyzInToXyz,
                          IF y.space = "Lab" THEN XyzToLab(y) ELSE XyzToXyzIn>>)
<1> DEFINE s == IF x.space = "Lab" THEN LabToXyz(x) ELSE XyzInToXyz
           t == IF y.space = "Lab" THEN XyzToLab(y) ELSE XyzToXyzIn
           list == <<s, t>>
<1>1. x.space \in Colorimetric /\ y.space \in Colorimetric /\ GoodPcc(x.pcc) /\ GoodPcc(y.pcc)
  BY DEF Ends
<1>2. ASSUME NEW v \in Level
      PROVE  \E w \in Level : Goes(list, 3, 3, v, w) /\ Decoded(y, w) = Decoded(x, v)
  <2> DEFINE d == Decoded(x, v)
  <2>1. GoesOn(<<s>>, 3, 3, v, d) /\ d \in Level BY <1>1, DecodeGoes, DecodedIn
  <2> HIDE DEF d
  <2>2. PICK w \in Level : GoesOn(<<t>>, 3, 3, d, w) /\ Decoded(y, w) = d
    BY <1>1, <2>1, EncodeGoes
  <2> HIDE DEF s, t
  <2>3. GoesOn(<<s>> \o <<t>>, 3, 3, v, w) BY <2>1, <2>2, GoesFurther
  <2>4. Goes(list, 3, 3, v, w) BY <2>3, PairIs DEF GoesOn
  <2> QED BY <2>2, <2>4 DEF d
<1> HIDE DEF list
<1>3. Converts(x, y, list) BY <1>2, EndsConvert
<1> QED BY <1>3 DEF list

LEMMA LegacyConverts ==
  ASSUME NEW x, NEW y, Ends(x, y), x.space = "Lab", y.space = "Lab"
  PROVE  /\ ~x.legacy /\ y.legacy => Converts(x, y, <<LabStep("LabToLab2", 0)>>)
         /\ x.legacy /\ ~y.legacy => Converts(x, y, <<LabStep("Lab2ToLab", 0)>>)
<1>1. 0 \in Level /\ Lab2 \in Level /\ Lab2 # 0 /\ Inv[Lab2] \in Level
  BY ModulusIs, Lab2Is, InverseOf
<1>2. "LabToLab2" \in LabKinds \ WhiteKinds /\ "Lab2ToLab" \in LabKinds \ WhiteKinds
  BY DEF LabKinds, WhiteKinds
<1>3. x.pcc = y.pcc BY DEF Ends
<1>4. ASSUME ~x.legacy, y.legacy PROVE Converts(x, y, <<LabStep("LabToLab2", 0)>>)
  <2> DEFINE s == LabStep("LabToLab2", 0)
             list == <<s>>
  <2>1. s.kind = "LabToLab2" BY StepsAre DEF LabStep
  <2>2. ASSUME NEW v \in Level
        PROVE  \E w \in Level : Goes(list, 3, 3, v, w) /\ Decoded(y, w) = Decoded(x, v)
    <3> DEFINE w == Mult(v, Lab2)
    <3>1. GoesOn(list, 3, 3, v, Apply(s, v)) BY <1>1, <1>2, LabGoes
    <3> HIDE DEF s
    <3>2. Apply(s, v) = w BY <2>1, ApplyIs
    <3>3. w \in Level /\ Mult(w, Inv[Lab2]) = v BY <1>1, ProductIn, Cancels
    <3> HIDE DEF w, list
    <3>4. Decoded(y, w) = Mult(y.pcc.white, Cube(v)) BY <1>4, <3>3, DecodedIs
    <3>5. Decoded(x, v) = Mult(x.pcc.white, Cube(v)) BY <1>4, DecodedIs
    <3>6. Decoded(y, w) = Decoded(x, v) BY <1>3, <3>4, <3>5
    <3>7. Goes(list, 3, 3, v, w) BY <3>1, <3>2 DEF GoesOn
    <3> QED BY <3>3, <3>6, <3>7
  <2> HIDE DEF list
  <2>3. Converts(x, y, list) BY <2>2, EndsConvert
  <2> QED BY <2>3 DEF list
<1>5. ASSUME x.legacy, ~y.legacy PROVE Converts(x, y, <<LabStep("Lab2ToLab", 0)>>)
  <2> DEFINE s == LabStep("Lab2ToLab", 0)
             list == <<s>>
  <2>1. s.kind = "Lab2ToLab" BY StepsAre DEF LabStep
  <2>2. ASSUME NEW v \in Level
        PROVE  \E w \in Level : Goes(list, 3, 3, v, w) /\ Decoded(y, w) = Decoded(x, v)
    <3> DEFINE w == Mult(v, Inv[Lab2])
    <3>1. GoesOn(list, 3, 3, v, Apply(s, v)) BY <1>1, <1>2, LabGoes
    <3> HIDE DEF s
    <3>2. Apply(s, v) = w BY <2>1, ApplyIs
    <3>3. w \in Level BY <1>1, ProductIn
    <3>4. Decoded(x, v) = Mult(x.pcc.white, Cube(w)) BY <1>5, DecodedIs
    <3> HIDE DEF w, list
    <3>5. Decoded(y, w) = Mult(y.pcc.white, Cube(w)) BY <1>5, DecodedIs
    <3>6. Decoded(y, w) = Decoded(x, v) BY <1>3, <3>4, <3>5
    <3>7. Goes(list, 3, 3, v, w) BY <3>1, <3>2 DEF GoesOn
    <3> QED BY <3>3, <3>6, <3>7
  <2> HIDE DEF list
  <2>3. Converts(x, y, list) BY <2>2, EndsConvert
  <2> QED BY <2>3 DEF list
<1> QED BY <1>4, <1>5

(* What ConnectFirst and ConnectLast push, or leave out where the encodings    *)
(* are the same.                                                            *)
LEMMA FirstConverts ==
  ASSUME NEW y, NEW c, NEW u, Ends(c, u), ~c.legacy,
         u.space = y.space, u.legacy <=> y.legacy, u.pcc = y.pcc,
         ~(c.space = "Lab" /\ y.space = "XYZ")
  PROVE  /\ Converts(c, u, ConnectFirst(y, c.space).steps)
         /\ c.space = y.space /\ ~y.legacy => Converts(c, u, <<>>)
<1> DEFINE through == <<XyzInToXyz, IF y.space = "Lab" THEN XyzToLab(y) ELSE XyzToXyzIn>>
           white == <<LabStep("LabToXYZ", y.pcc.white)>>
           legacy == <<LabStep("LabToLab2", 0)>>
           none == <<>>
           list == CASE c.space = "XYZ" -> through
                     [] c.space = "Lab" /\ y.space = "XYZ" -> white
                     [] c.space = "Lab" /\ y.space # "XYZ" /\ y.legacy -> legacy
                     [] OTHER -> none
<1>1. ConnectFirst(y, c.space) = Pushed(list) BY Zenon DEF ConnectFirst
<1>2. c.space \in Colorimetric /\ y.space \in Colorimetric BY DEF Ends
<1>3. ASSUME c.space = y.space, ~y.legacy PROVE Converts(c, u, none)
  <2>1. c.space = u.space /\ (c.legacy <=> u.legacy) BY <1>3
  <2> QED BY <2>1, SameEncoding
<1>4. CASE c.space = "XYZ"
  <2>1. XyzToLab(y) = XyzToLab(u) BY Zenon DEF XyzToLab
  <2>2. Converts(c, u, <<IF c.space = "Lab" THEN LabToXyz(c) ELSE XyzInToXyz,
                         IF u.space = "Lab" THEN XyzToLab(u) ELSE XyzToXyzIn>>)
    BY ThroughXyz
  <2>3. (IF c.space = "Lab" THEN LabToXyz(c) ELSE XyzInToXyz) = XyzInToXyz BY <1>4
  <2>4. Converts(c, u, through) BY <2>1, <2>2, <2>3
  <2>5. list = through
    <3> HIDE DEF through, white, legacy, none
    <3> QED BY <1>4
  <2> HIDE DEF list, through, none
  <2> QED BY <1>1, <1>3, <2>4, <2>5, PushedIs DEF none
<1>5. CASE c.space = "Lab"
  <2>1. y.space = "Lab" /\ u.space = "Lab" BY <1>2, <1>5 DEF Colorimetric
  <2>2. Converts(c, u, list)
    <3>1. CASE y.legacy
      <4>1. Converts(c, u, legacy) BY <1>5, <2>1, <3>1, LegacyConverts
      <4> HIDE DEF through, white, legacy, none
      <4>2. list = legacy BY <1>5, <2>1, <3>1
      <4> QED BY <4>1, <4>2
    <3>2. CASE ~y.legacy
      <4>1. Converts(c, u, none) BY <1>3, <1>5, <2>1, <3>2
      <4> HIDE DEF through, white, legacy, none
      <4>2. list = none BY <1>5, <2>1, <3>2
      <4> QED BY <4>1, <4>2
    <3> QED BY <3>1, <3>2
  <2> HIDE DEF list, none
  <2> QED BY <1>1, <1>3, <2>2, PushedIs DEF none
<1> QED BY <1>2, <1>4, <1>5 DEF Colorimetric

LEMMA LastConverts ==
  ASSUME NEW x, NEW c, NEW u, Ends(u, c), ~c.legacy,
         u.space = x.space, u.legacy <=> x.legacy, u.pcc = x.pcc
  PROVE  /\ Converts(u, c, ConnectLast(x, c.space).steps)
         /\ c.space = x.space /\ ~x.legacy => Converts(u, c, <<>>)
<1> DEFINE into == <<XyzInToXyz, LabStep("XYZToLab", x.pcc.white)>>
           from == <<LabToXyz(x), XyzToXyzIn>>
           legacy == <<LabStep("Lab2ToLab", 0)>>
           none == <<>>
           list == CASE x.space = "XYZ" /\ c.space = "Lab" -> into
                     [] x.space = "Lab" /\ c.space = "XYZ" -> from
                     [] x.space = "Lab" /\ c.space = "Lab" /\ x.legacy -> legacy
                     [] OTHER -> none
<1>1. ConnectLast(x, c.space) = Pushed(list) BY Zenon DEF ConnectLast
<1>2. c.space \in Colorimetric /\ x.space \in Colorimetric BY DEF Ends
<1>3. ASSUME c.space = x.space, x.space = "Lab" => ~x.legacy PROVE Converts(u, c, none)
  <2>1. c.space = u.space /\ (u.space = "Lab" => (u.legacy <=> c.legacy)) BY <1>3
  <2> QED BY <2>1, SameEncoding
<1>4. u.pcc = c.pcc BY DEF Ends
<1>5. Converts(u, c, <<IF u.space = "Lab" THEN LabToXyz(u) ELSE XyzInToXyz,
                       IF c.space = "Lab" THEN XyzToLab(c) ELSE XyzToXyzIn>>)
  BY ThroughXyz
<1>6. Converts(u, c, list)
  <2>1. CASE x.space = "XYZ" /\ c.space = "Lab"
    <3>1. XyzToLab(c) = LabStep("XYZToLab", x.pcc.white) BY <1>4, Zenon DEF XyzToLab
    <3>2. Converts(u, c, into) BY <1>5, <2>1, <3>1
    <3> HIDE DEF into, from, legacy, none
    <3>3. list = into BY <2>1
    <3> QED BY <3>2, <3>3
  <2>2. CASE x.space = "Lab" /\ c.space = "XYZ"
    <3>1. LabToXyz(x) = LabToXyz(u) BY Zenon DEF LabToXyz
    <3>2. Converts(u, c, from) BY <1>5, <2>2, <3>1
    <3> HIDE DEF into, from, legacy, none
    <3>3. list = from BY <2>2
    <3> QED BY <3>2, <3>3
  <2>3. CASE x.space = "Lab" /\ c.space = "Lab" /\ x.legacy
    <3>1. Converts(u, c, legacy) BY <2>3, LegacyConverts
    <3> HIDE DEF into, from, legacy, none
    <3>2. list = legacy BY <2>3
    <3> QED BY <3>1, <3>2
  <2>4. CASE c.space = x.space /\ (x.space = "Lab" => ~x.legacy)
    <3>1. Converts(u, c, none) BY <1>3, <2>4
    <3> HIDE DEF into, from, legacy, none
    <3>2. list = none BY <2>4
    <3> QED BY <3>1, <3>2
  <2> QED BY <1>2, <2>1, <2>2, <2>3, <2>4 DEF Colorimetric
<1> HIDE DEF list, none
<1> QED BY <1>1, <1>3, <1>6, PushedIs DEF none

(* The sides that SideOf makes of a transform. *)
IsSide(s) ==
  s = [space |-> s.space, legacy |-> s.legacy, pcc |-> s.pcc, scale |-> s.scale,
       offset |-> s.offset, range |-> s.range, biRange |-> s.biRange]

LEMMA EncodingsAre ==
  ASSUME NEW s, NEW space, IsSide(s)
  PROVE  /\ Unadjusted(s).space = s.space /\ Unadjusted(s).legacy = s.legacy
         /\ Unadjusted(s).pcc = s.pcc /\ Unadjusted(s).scale = 1 /\ Unadjusted(s).offset = 0
         /\ Client(s, space).space = space /\ ~Client(s, space).legacy
         /\ Client(s, space).pcc = s.pcc /\ Client(s, space).scale = 1
         /\ Client(s, space).offset = 0
<1> DEFINE d == [space |-> s.space, legacy |-> s.legacy, pcc |-> s.pcc, scale |-> s.scale,
                 offset |-> s.offset, range |-> s.range, biRange |-> s.biRange]
           u == Unadjusted(s)
           c == Client(s, space)
           F == {"space", "legacy", "pcc", "scale", "offset", "range", "biRange"}
<1>1. s = [f \in F |-> s[f]]
  <2>1. s = d BY DEF IsSide
  <2>2. d = [f \in F |-> s[f]] OBVIOUS
  <2> QED BY <2>1, <2>2, Zenon
<1>2. u = [f \in F |-> IF f = "offset" THEN 0 ELSE IF f = "scale" THEN 1 ELSE s[f]]
  <2> DEFINE a == [s EXCEPT !.scale = 1]
             b == [a EXCEPT !.offset = 0]
  <2>1. a = [f \in F |-> IF f = "scale" THEN 1 ELSE s[f]] BY <1>1, Zenon
  <2>2. b = [f \in F |-> IF f = "offset" THEN 0 ELSE a[f]] BY <2>1, Zenon
  <2>3. u = b BY Zenon DEF Unadjusted
  <2> HIDE DEF u, a, b
  <2> QED BY <2>1, <2>2, <2>3
<1> HIDE DEF u
<1>3. c = [f \in F |-> IF f = "legacy" THEN FALSE ELSE IF f = "space" THEN space ELSE u[f]]
  <2> DEFINE a == [u EXCEPT !.space = space]
             b == [a EXCEPT !.legacy = FALSE]
  <2>1. a = [f \in F |-> IF f = "space" THEN space ELSE u[f]] BY <1>2, Zenon
  <2>2. b = [f \in F |-> IF f = "legacy" THEN FALSE ELSE a[f]] BY <2>1, Zenon
  <2>3. c = b BY Zenon DEF Client, u
  <2> HIDE DEF c, a, b
  <2> QED BY <2>1, <2>2, <2>3
<1> HIDE DEF c
<1>4. /\ u.space = s.space /\ u.legacy = s.legacy /\ u.pcc = s.pcc
      /\ u.scale = 1 /\ u.offset = 0
      /\ c.space = space /\ ~c.legacy /\ c.pcc = s.pcc
      /\ c.scale = 1 /\ c.offset = 0
  BY <1>2, <1>3
<1> QED BY <1>4 DEF u, c

LEMMA SideIs ==
  ASSUME NEW os, NEW x, NEW space
  PROVE  LET s == SideOf(os, x, space)
             h == HeaderOf(os, x.prof)
         IN /\ IsSide(s) /\ s.space = space /\ s.legacy = Legacy(os, x) /\ s.pcc = Pcc[h.pcc]
            /\ s.scale = (IF x.input THEN h.scale ELSE Inv[h.scale])
            /\ s.offset = (IF x.input THEN h.offset ELSE Minus(Mult(h.offset, Inv[h.scale])))
            /\ s.range = h.range /\ s.biRange = h.biRange
<1> DEFINE h == HeaderOf(os, x.prof)
           s == SideOf(os, x, space)
           legacy == Legacy(os, x)
           a == IF x.input THEN h.scale ELSE Inv[h.scale]
           b == IF x.input THEN h.offset ELSE Minus(Mult(h.offset, Inv[h.scale]))
<1>1. s = [space |-> space, legacy |-> legacy, pcc |-> Pcc[h.pcc], scale |-> a, offset |-> b,
           range |-> h.range, biRange |-> h.biRange]
  BY Zenon DEF SideOf
<1> HIDE DEF s, legacy, a, b, h
<1>2. /\ IsSide(s) /\ s.space = space /\ s.legacy = legacy /\ s.pcc = Pcc[h.pcc]
      /\ s.scale = a /\ s.offset = b /\ s.range = h.range /\ s.biRange = h.biRange
  BY <1>1 DEF IsSide
<1> QED BY <1>2 DEF s, legacy, a, b, h

LEMMA GoodConditions ==
  ASSUME NEW f \in File
  PROVE  GoodPcc(Pcc[Header[f].pcc])
<1> DEFINE p == Pcc[Header[f].pcc]
<1>1. Header[f].pcc \in DOMAIN Pcc BY HeaderAssumption
<1>2. /\ p.white \in Level \ {0} /\ p.factor \in Level \ {0}
      /\ {p.illum, p.obs} \subseteq Level
      /\ {p.illumRange, p.obsRange} \subseteq DOMAIN SpectralRange
      /\ p.custom \in {"none", "Matrix", "Element"}
  BY <1>1, PccAssumption
<1>3. \A r \in DOMAIN SpectralRange : StepsOf(r) \in Nat BY SpacesAssumption DEF StepsOf
<1> HIDE DEF p
<1>4. GoodPcc(p) BY <1>2, <1>3 DEF GoodPcc
<1> QED BY <1>4 DEF p

LEMMA GoodSides ==
  ASSUME NEW os, NEW x, os[x.prof].file \in File, NEW space \in PCS
  PROVE  GoodSide(SideOf(os, x, space))
<1> DEFINE f == os[x.prof].file
           h == Header[f]
           s == SideOf(os, x, space)
<1>1. h.scale \in Level /\ h.scale # 0 /\ h.offset \in Level
      /\ {h.range, h.biRange} \subseteq DOMAIN SpectralRange
  BY HeaderAssumption
<1>2. GoodPcc(Pcc[h.pcc]) BY GoodConditions
<1>3. /\ s.space = space /\ s.pcc = Pcc[h.pcc]
      /\ s.scale = (IF x.input THEN h.scale ELSE Inv[h.scale])
      /\ s.offset = (IF x.input THEN h.offset ELSE Minus(Mult(h.offset, Inv[h.scale])))
      /\ s.range = h.range /\ s.biRange = h.biRange
  BY SideIs DEF HeaderOf
<1> HIDE DEF s, h
<1>4. Inv[h.scale] \in Level /\ Inv[h.scale] # 0 BY <1>1, InverseOf
<1>5. Minus(Mult(h.offset, Inv[h.scale])) \in Level
  <2> DEFINE k == Mult(h.offset, Inv[h.scale])
  <2>1. k \in Level BY <1>1, <1>4, ProductIn
  <2> HIDE DEF k
  <2>2. Modulus \in Nat /\ Modulus > 0 /\ Modulus - k \in Nat BY <2>1, ModulusIs DEF Level
  <2>3. (Modulus - k) % Modulus \in 0 .. Modulus - 1 BY <2>2, RemainderOf
  <2> QED BY <2>3 DEF Minus, Level, k
<1>6. s.scale \in Level /\ s.scale # 0 /\ s.offset \in Level BY <1>1, <1>3, <1>4, <1>5
<1>7. \A r \in DOMAIN SpectralRange : StepsOf(r) \in Nat BY SpacesAssumption DEF StepsOf
<1>8. StepsOf(s.range) \in Nat /\ StepsOf(s.biRange) \in Nat BY <1>1, <1>3, <1>7
<1>9. GoodSide(s) BY <1>2, <1>3, <1>6, <1>8 DEF GoodSide
<1> QED BY <1>9 DEF s

-----------------------------------------------------------------------------
(* The chain that Begin leaves. *)

LEMMA BelowNext ==
  ASSUME NEW n \in Nat, NEW D \in SUBSET (0 .. n)
  PROVE  /\ Below(D, 0) = 0 /\ Below(D, n + 1) = Cardinality(D)
         /\ \A m \in 0 .. n : Below(D, m + 1) = Below(D, m) + (IF m \in D THEN 1 ELSE 0)
<1> DEFINE L(k) == {j \in D : j < k}
<1>0. \A d \in D : d \in Nat /\ d <= n OBVIOUS
<1>1. IsFiniteSet(D) /\ \A k \in Nat : Below(D, k) \in Nat BY BelowFacts
<1>2. L(0) = {}
  <2>1. \A d \in D : ~(d < 0) BY <1>0
  <2> QED BY <2>1
<1>3. L(n + 1) = D
  <2>1. \A d \in D : d < n + 1 BY <1>0
  <2> QED BY <2>1
<1>4. ASSUME NEW m \in 0 .. n
      PROVE  Cardinality(L(m + 1)) = Cardinality(L(m)) + (IF m \in D THEN 1 ELSE 0)
  <2>1. CASE m \in D
    <3>0. \A d \in D : d < m + 1 <=> d < m \/ d = m BY <1>0
    <3>1. L(m + 1) = L(m) \cup {m} BY <2>1, <3>0
    <3>2. m \notin L(m) /\ L(m) \in SUBSET D BY <1>0, <2>1
    <3>3. IsFiniteSet(L(m)) BY <1>1, <3>2, FS_Subset
    <3> DEFINE A == L(m)
    <3> HIDE DEF A
    <3>4. Cardinality(A \cup {m}) = Cardinality(A) + 1 BY <3>2, <3>3, FS_AddElement DEF A
    <3> QED BY <2>1, <3>1, <3>4 DEF A
  <2>2. CASE m \notin D
    <3>0. \A d \in D : d < m + 1 <=> d < m \/ d = m BY <1>0
    <3>1. L(m + 1) = L(m) BY <2>2, <3>0
    <3>2. Cardinality(L(m)) \in Nat BY <1>1 DEF Below
    <3> HIDE DEF L
    <3> QED BY <2>2, <3>1, <3>2
  <2> QED BY <2>1, <2>2
<1>5. Cardinality(L(0)) = 0 BY <1>2, FS_EmptySet
<1>6. Cardinality(L(n + 1)) = Cardinality(D) BY <1>3
<1> HIDE DEF L
<1>7. \A k : Below(D, k) = Cardinality(L(k)) BY DEF Below, L
<1> QED BY <1>4, <1>5, <1>6, <1>7

(* The steps at a place of a list, and the place past the conversion there. *)
StepsIn(list, i) == IF i \in DOMAIN list /\ ~Profile(list[i]) THEN list[i].steps ELSE <<>>
Past(list, i) == IF i < Len(list) /\ ~Profile(list[i + 1]) THEN i + 2 ELSE i + 1

LEMMA ChainLaid ==
  ASSUME NEW os, NEW xs, List(xs), \A m \in 1 .. Len(xs) : xs[m].prof # 0, NEW at,
         \A k \in 0 .. Len(xs) : /\ at[k].stat \in {"Ok", "Identity"}
                                 /\ at[k].stat = "Identity" => at[k].steps = <<>>
  PROVE  LET list == ChainOf(os, xs, at)
         IN /\ List(list)
            /\ \A i \in 1 .. Len(list) : Profile(list[i]) =>
                 \E m \in 1 .. Len(xs) :
                   /\ list[i] = xs[m]
                   /\ (\A j \in 1 .. i - 1 : ~Profile(list[j])) =>
                        m = 1 /\ StepsIn(list, i - 1) = at[0].steps
                   /\ StepsIn(list, i + 1) = at[m].steps
                   /\ Past(list, i) > Len(list) => m = Len(xs)
                   /\ Past(list, i) <= Len(list) => m < Len(xs) /\ list[Past(list, i)] = xs[m + 1]
<1> DEFINE n == Len(xs)
           D == {j \in 0 .. n : at[j].stat = "Ok"}
           new == [k \in D |-> IF k \in {0, n} THEN EndXform(at[k].steps)
                               ELSE PcsXform(os, xs[k], xs[k + 1], at[k].steps)]
           list == ChainOf(os, xs, at)
           N == n + Cardinality(D)
           P(m) == Place(D, m)
           none == <<>>
<1>1. n \in Nat /\ D \in SUBSET (0 .. n) /\ DOMAIN new = D BY DEF List
<1>2. list = Interposed(xs, new) BY Zenon DEF ChainOf
<1>3. \A k \in D : new[k].prof = 0 /\ new[k].steps = at[k].steps
  <2>1. \A src, dst, nSrc, nDst, steps : LET c == Conversion(src, dst, nSrc, nDst, steps)
                                         IN c.prof = 0 /\ c.steps = steps
    BY DEF Conversion, Xform
  <2>2. \A steps : EndXform(steps).prof = 0 /\ EndXform(steps).steps = steps
    BY <2>1 DEF EndXform
  <2>3. \A x, y, steps : LET c == PcsXform(os, x, y, steps) IN c.prof = 0 /\ c.steps = steps
    BY <2>1 DEF PcsXform
  <2> QED BY <2>2, <2>3
<1>4. \A k \in 0 .. n : k \notin D => at[k].steps = none OBVIOUS
<1> HIDE DEF new, list, n, D, none
<1>5. /\ List(list) /\ Len(list) = N
      /\ \A i \in 1 .. n : list[P(i)] = xs[i]
      /\ \A k \in D : list[NewPlace(D, k)] = new[k]
  <2>1. DOMAIN new \in SUBSET (0 .. Len(xs)) BY <1>1 DEF n
  <2> DEFINE ys == Interposed(xs, new)
  <2>2. /\ List(ys) /\ Len(ys) = Len(xs) + Cardinality(DOMAIN new)
        /\ \A i \in 1 .. Len(xs) : ys[Place(DOMAIN new, i)] = xs[i]
        /\ \A k \in DOMAIN new : ys[NewPlace(DOMAIN new, k)] = new[k]
    BY <2>1, InterposedIs
  <2>3. list = ys BY <1>2
  <2> HIDE DEF ys
  <2> QED BY <1>1, <2>2, <2>3 DEF n
<1>6. DOMAIN list = 1 .. N BY <1>5, ListDomain
<1>7. /\ N \in Nat /\ \A i \in 1 .. n : P(i) \in 1 .. N
      /\ \A k \in D : NewPlace(D, k) \in 1 .. N
  BY <1>1, PlacesDiffer
<1>8. \A p \in 1 .. N : (\E i \in 1 .. n : p = P(i)) \/ (\E k \in D : p = NewPlace(D, k))
  BY <1>1, PlacesFill
<1>9. \A m \in 0 .. n + 1 : Below(D, m) \in Nat
  <2>1. \A m \in Nat : Below(D, m) \in Nat BY <1>1, BelowFacts
  <2>2. 0 .. n + 1 \subseteq Nat BY <1>1
  <2> QED BY <2>1, <2>2
<1>10. /\ P(0) = 0 /\ P(n + 1) = N + 1
       /\ \A m \in 0 .. n : P(m) \in Nat /\ P(m + 1) = P(m) + (IF m \in D THEN 2 ELSE 1)
       /\ \A k \in D : NewPlace(D, k) = P(k) + 1
  <2>1. /\ Below(D, 0) = 0 /\ Below(D, n + 1) = Cardinality(D)
        /\ \A m \in 0 .. n : Below(D, m + 1) = Below(D, m) + (IF m \in D THEN 1 ELSE 0)
    <3>1. n \in Nat /\ D \in SUBSET (0 .. n) BY <1>1
    <3> HIDE DEF N, P
    <3> QED BY <3>1, BelowNext, Zenon
  <2>2. P(0) = 0 BY <2>1 DEF Place
  <2>3. Cardinality(D) \in Nat BY <1>1, BelowFacts
  <2>4. P(n + 1) = N + 1 BY <1>1, <2>1, <2>3 DEF Place
  <2>5. ASSUME NEW m \in 0 .. n
        PROVE  P(m) \in Nat /\ P(m + 1) = P(m) + (IF m \in D THEN 2 ELSE 1)
    <3>1. m \in Nat /\ m \in 0 .. n + 1 /\ m + 1 \in 0 .. n + 1 BY <1>1
    <3>2. Below(D, m) \in Nat /\ Below(D, m + 1) = Below(D, m) + (IF m \in D THEN 1 ELSE 0)
      BY <1>9, <2>1, <3>1
    <3> QED BY <3>1, <3>2 DEF Place
  <2>6. \A k \in D : NewPlace(D, k) = P(k) + 1 BY <1>1, <1>9 DEF Place, NewPlace
  <2> QED BY <2>2, <2>4, <2>5, <2>6
<1>11. \A m \in 1 .. n : P(1) <= P(m) /\ (m # 1 => P(1) < P(m))
  <2>1. \A k, m \in Nat : k <= m => Below(D, k) <= Below(D, m) BY <1>1, BelowFacts
  <2> QED BY <1>1, <1>9, <2>1 DEF Place
<1> HIDE DEF N, P
<1>12. \A m \in 1 .. n : Profile(list[P(m)]) BY <1>5 DEF Profile, n
<1>13. \A k \in D : ~Profile(list[P(k) + 1]) /\ list[P(k) + 1].steps = at[k].steps
                    /\ P(k) + 1 \in 1 .. N
  BY <1>3, <1>5, <1>7, <1>10 DEF Profile
<1>14. ASSUME NEW i \in 1 .. N, Profile(list[i])
       PROVE  \E m \in 1 .. n :
                /\ list[i] = xs[m]
                /\ (\A j \in 1 .. i - 1 : ~Profile(list[j])) =>
                     m = 1 /\ StepsIn(list, i - 1) = at[0].steps
                /\ StepsIn(list, i + 1) = at[m].steps
                /\ Past(list, i) > N => m = n
                /\ Past(list, i) <= N => m < n /\ list[Past(list, i)] = xs[m + 1]
  <2>1. PICK m \in 1 .. n : i = P(m)
    <3>1. \A k \in D : i # NewPlace(D, k) BY <1>10, <1>13, <1>14
    <3> QED BY <1>8, <3>1
  <2>2. m \in 0 .. n /\ m + 1 \in 1 .. n + 1 /\ 0 \in 0 .. n BY <1>1
  <2>3. list[i] = xs[m] BY <1>5, <2>1
  <2>4. m < n => m + 1 \in 1 .. n BY <1>1
  <2>5. StepsIn(list, i + 1) = at[m].steps
    <3>1. CASE m \in D BY <1>6, <1>13, <2>1, <3>1 DEF StepsIn
    <3>2. CASE m \notin D
      <4>1. at[m].steps = none /\ P(m + 1) = i + 1 BY <1>4, <1>10, <2>1, <2>2, <3>2
      <4>2. m < n => Profile(list[i + 1]) BY <1>12, <2>4, <4>1
      <4>3. m = n => i + 1 \notin 1 .. N BY <1>7, <1>10, <4>1
      <4>4. m < n \/ m = n BY <1>1
      <4> QED BY <1>6, <4>1, <4>2, <4>3, <4>4 DEF StepsIn, none
    <3> QED BY <3>1, <3>2
  <2>6. Past(list, i) = P(m + 1)
    <3>1. CASE m \in D
      <4>1. i + 1 \in 1 .. N /\ ~Profile(list[i + 1]) BY <1>13, <2>1, <3>1
      <4>2. i < N BY <1>7, <4>1
      <4>3. P(m + 1) = i + 2 BY <1>10, <2>1, <2>2, <3>1
      <4> QED BY <1>5, <4>1, <4>2, <4>3 DEF Past
    <3>2. CASE m \notin D
      <4>1. P(m + 1) = i + 1 BY <1>10, <2>1, <2>2, <3>2
      <4>2. m < n => Profile(list[i + 1]) BY <1>12, <2>4, <4>1
      <4>3. m = n => ~(i < N) BY <1>7, <1>10, <4>1
      <4>4. m < n \/ m = n BY <1>1
      <4> QED BY <1>5, <4>1, <4>2, <4>3, <4>4 DEF Past
    <3> QED BY <3>1, <3>2
  <2>7. m < n => P(m + 1) \in 1 .. N /\ list[P(m + 1)] = xs[m + 1] BY <1>5, <1>7, <2>4
  <2>8. m = n => P(m + 1) = N + 1 BY <1>10
  <2>9. Past(list, i) > N => m = n BY <1>1, <1>7, <2>6, <2>7
  <2>10. Past(list, i) <= N => m < n /\ list[Past(list, i)] = xs[m + 1]
    BY <1>1, <1>7, <2>6, <2>7, <2>8
  <2>11. ASSUME \A j \in 1 .. i - 1 : ~Profile(list[j])
         PROVE  m = 1 /\ StepsIn(list, i - 1) = at[0].steps
    <3>1. m = 1
      <4>1. 1 \in 1 .. n BY <1>1
      <4>2. m # 1 => P(1) \in 1 .. i - 1 BY <1>7, <1>11, <2>1, <4>1
      <4>3. Profile(list[P(1)]) BY <1>12, <4>1
      <4> QED BY <2>11, <4>2, <4>3
    <3>2. P(0) = 0 /\ P(0 + 1) = P(0) + (IF 0 \in D THEN 2 ELSE 1) BY <1>10, <2>2
    <3>3. CASE 0 \in D
      <4>1. i - 1 = P(0) + 1 BY <2>1, <3>1, <3>2, <3>3
      <4> QED BY <1>6, <1>13, <3>1, <3>3, <4>1 DEF StepsIn
    <3>4. CASE 0 \notin D
      <4>1. i - 1 \notin 1 .. N BY <2>1, <3>1, <3>2, <3>4
      <4>2. at[0].steps = none BY <1>4, <2>2, <3>4
      <4> QED BY <1>6, <3>1, <4>1, <4>2 DEF StepsIn, none
    <3> QED BY <3>3, <3>4
  <2> QED BY <2>3, <2>5, <2>9, <2>10, <2>11
<1> QED BY <1>5, <1>14 DEF list, n

LEMMA AtPlain ==
  ASSUME NEW os, NEW xs, NEW dest, NEW k
  PROVE  \E a : Plain(a) /\ ConnectAt(os, xs, dest, k) = Finished(a)
<1>1. Plain(Connect(os, xs[k], xs[k + 1]))
  <2> DEFINE x == xs[k]
             y == xs[k + 1]
  <2>1. \/ Connect(os, x, y) = Failed("BadSpaceLink")
        \/ \E from, to, all : Connect(os, x, y) = ConnectMcs(from, to, all)
        \/ Connect(os, x, y) = ConnectSides(DstSide(os, x), SrcSide(os, y))
    BY Zenon DEF Connect
  <2>2. \A from, to, all : Plain(ConnectMcs(from, to, all))
    <3>1. TAKE from, to, all
    <3>2. \/ ConnectMcs(from, to, all) = Failed("BadMCSLink")
          \/ \E s : ConnectMcs(from, to, all) = Pushed(s)
      BY Zenon DEF ConnectMcs
    <3> QED BY <3>2, PlainPushes
  <2>3. Plain(Failed("BadSpaceLink")) BY PlainPushes
  <2> HIDE DEF x, y
  <2>4. Plain(Connect(os, x, y)) BY <2>1, <2>2, <2>3, ConnectPlain
  <2> QED BY <2>4 DEF x, y
<1>2. \A s : Plain(Pushed(s)) BY PlainPushes
<1> DEFINE none == Pushed(<<>>)
           first == ConnectFirst(SrcSide(os, xs[1]), srcSpace)
           last == ConnectLast(DstSide(os, xs[k]), dest)
           inner == Connect(os, xs[k], xs[k + 1])
           wants == Wants(os, xs, dest, k)
           r == IF ~wants THEN none
                ELSE CASE k = 0 -> first [] k = Len(xs) -> last [] OTHER -> inner
<1>3. ConnectAt(os, xs, dest, k) = Finished(r) BY Zenon DEF ConnectAt
<1>4. Plain(none) /\ Plain(first) /\ Plain(last) /\ Plain(inner)
  BY <1>1, <1>2 DEF ConnectFirst, ConnectLast
<1> HIDE DEF none, first, last, inner, wants
<1>5. r = none \/ r = first \/ r = last \/ r = inner OBVIOUS
<1> HIDE DEF r
<1> QED BY <1>3, <1>4, <1>5

LEMMA NothingLeft ==
  ASSUME NEW os, NEW xs, NEW dest, NEW k, ConnectAt(os, xs, dest, k).stat = "Identity"
  PROVE  ConnectAt(os, xs, dest, k).steps = <<>>
<1>1. PICK a : Plain(a) /\ ConnectAt(os, xs, dest, k) = Finished(a) BY AtPlain
<1> DEFINE list == Optimize(a.steps)
           f == Finished(a)
<1>2. a.stat = "Ok"
  <2>1. a.stat # "Ok" => f = a BY Zenon DEF Finished
  <2> QED BY <1>1, <2>1 DEF Plain
<1>3. f = [stat |-> IF list = <<>> THEN "Identity" ELSE "Ok", steps |-> list]
  BY <1>2, Zenon DEF Finished
<1>4. f.stat = "Identity" BY <1>1
<1> HIDE DEF list, f
<1>5. f.steps = <<>> BY <1>3, <1>4
<1> QED BY <1>1, <1>5 DEF f

(* ColourCarried of any list of transforms. *)
Taken(os, x, source, steps) ==
  LET y == SrcSide(os, x)
      exempt == (source = "Lab" /\ y.space = "XYZ") \/ Abstract(os, x)
  IN {source, y.space} \subseteq Colorimetric /\ ~exempt =>
       Carries(Client(y, source), Unadjusted(y), steps)

Given(os, x, dest, steps) ==
  LET u == DstSide(os, x)
      exempt == Abstract(os, x) /\ ~x.input
  IN {u.space, dest} \subseteq Colorimetric /\ ~exempt =>
       Carries(Unadjusted(u), Client(u, dest), steps)

Handed(os, x, y, steps) ==
  LET u == DstSide(os, x)
      w == SrcSide(os, y)
  IN {u.space, w.space} \subseteq PCS /\ (u.space \in Spectral => Seen(u)) =>
       /\ Carries(u, w, steps)
       /\ Chained(steps, Samples[u.space], Samples[w.space])

LEMMA EndsAre ==
  ASSUME NEW os, NEW x, os[x.prof].file \in File, NEW own, NEW space,
         {own, space} \subseteq Colorimetric
  PROVE  LET s == SideOf(os, x, own)
         IN /\ IsSide(s) /\ s.space = own
            /\ Ends(Client(s, space), Unadjusted(s)) /\ Ends(Unadjusted(s), Client(s, space))
<1> DEFINE s == SideOf(os, x, own)
           c == Client(s, space)
           u == Unadjusted(s)
           p == Pcc[Header[os[x.prof].file].pcc]
<1>1. IsSide(s) /\ s.space = own /\ s.pcc = p BY SideIs DEF HeaderOf
<1>2. GoodPcc(p) BY GoodConditions
<1> HIDE DEF s, p
<1>3. /\ u.space = s.space /\ u.pcc = s.pcc /\ u.scale = 1 /\ u.offset = 0
      /\ c.space = space /\ c.pcc = s.pcc /\ c.scale = 1 /\ c.offset = 0
  BY <1>1, EncodingsAre
<1> HIDE DEF u, c
<1>4. Ends(c, u) /\ Ends(u, c) BY <1>1, <1>2, <1>3 DEF Ends
<1> QED BY <1>1, <1>4 DEF s, c, u

LEMMA FirstTaken ==
  ASSUME NEW os, NEW xs, Len(xs) \in Nat, Len(xs) # 0,
         xs[1].prof # 0, os[xs[1].prof].file \in File,
         NEW dest,
         \/ ConnectAt(os, xs, dest, 0).stat = "Ok"
         \/ ConnectAt(os, xs, dest, 0).stat = "Identity"
  PROVE  Taken(os, xs[1], srcSpace, ConnectAt(os, xs, dest, 0).steps)
<1> DEFINE x == xs[1]
           y == SrcSide(os, x)
           c == Client(y, srcSpace)
           u == Unadjusted(y)
           f == os[x.prof].file
           h == Header[f]
           at == ConnectAt(os, xs, dest, 0)
           wants == Wants(os, xs, dest, 0)
<1>1. SUFFICES ASSUME {srcSpace, y.space} \subseteq Colorimetric,
                      ~(srcSpace = "Lab" /\ y.space = "XYZ"), ~Abstract(os, x)
               PROVE  Carries(c, u, at.steps)
  BY Zenon DEF Taken
<1>2. y.space = GetSrcSpace(os, x) BY SideIs DEF SrcSide
<1>3. /\ IsSide(y) /\ Ends(c, u) /\ y.legacy = Legacy(os, x)
  <2>1. IsSide(y) /\ y.legacy = Legacy(os, x) BY SideIs DEF SrcSide
  <2>2. {GetSrcSpace(os, x), srcSpace} \subseteq Colorimetric BY <1>1, <1>2
  <2>3. Ends(c, u) BY <2>2, EndsAre DEF SrcSide
  <2> QED BY <2>1, <2>3
<1>4. /\ u.space = y.space /\ u.legacy = y.legacy /\ u.pcc = y.pcc
      /\ c.space = srcSpace /\ ~c.legacy
  <2>1. IsSide(y) BY <1>3
  <2> HIDE DEF y
  <2> QED BY <2>1, EncodingsAre
<1>5. /\ Converts(c, u, ConnectFirst(y, srcSpace).steps)
      /\ srcSpace = y.space /\ ~y.legacy => Converts(c, u, <<>>)
  <2> HIDE DEF c, u, y
  <2> QED BY <1>1, <1>3, <1>4, FirstConverts
<1>6. ~x.input
  <2> SUFFICES ASSUME x.input PROVE FALSE OBVIOUS
  <2>1. ~x.adjust BY <1>1 DEF Abstract
  <2>2. y.space = h.space BY <1>2, <2>1, Zenon DEF GetSrcSpace, Profile, HeaderOf
  <2>3. h.space \in PCS BY <1>1, <2>2 DEF PCS
  <2>4. h.class = "Abstract" BY <2>3, HeaderAssumption
  <2> QED BY <1>1, <2>4 DEF Abstract, Profile, HeaderOf
<1>7. wants <=> srcSpace # y.space \/ Legacy(os, x)
  <2> DEFINE a == /\ ~x.input /\ GetSrcSpace(os, xs[0 + 1]) \in Colorimetric
                  /\ srcSpace # GetSrcSpace(os, xs[0 + 1]) \/ Legacy(os, x)
             src == GetDstSpace(os, xs[0])
             b == /\ xs[Len(xs)].input /\ src \in Colorimetric
                  /\ dest # src \/ Legacy(os, xs[Len(xs)]) \/ Adjusts(DstSide(os, xs[Len(xs)]))
             d == \/ xs[0].input /\ xs[0].mcs # "No" /\ xs[0 + 1].mcs # "No"
                  \/ {src, GetSrcSpace(os, xs[0 + 1])} \cap PCS # {}
  <2>1. wants <=> CASE 0 = 0 -> a [] 0 = Len(xs) -> b [] OTHER -> d BY Zenon DEF Wants
  <2>2. 0 + 1 = 1 OBVIOUS
  <2>3. a <=> srcSpace # y.space \/ Legacy(os, x) BY <1>1, <1>2, <1>6, <2>2
  <2> HIDE DEF a, b, d, wants
  <2>4. wants <=> a BY <2>1
  <2> QED BY <2>3, <2>4
<1>8. at = Finished(IF wants THEN ConnectFirst(y, srcSpace) ELSE Pushed(<<>>))
  <2> DEFINE none == Pushed(<<>>)
             first == ConnectFirst(SrcSide(os, xs[1]), srcSpace)
             last == ConnectLast(DstSide(os, xs[0]), dest)
             inner == Connect(os, xs[0], xs[0 + 1])
             r == IF ~wants THEN none
                  ELSE CASE 0 = 0 -> first [] 0 = Len(xs) -> last [] OTHER -> inner
  <2>1. at = Finished(r) BY Zenon DEF ConnectAt
  <2>2. r = IF wants THEN first ELSE none
    <3> HIDE DEF none, first, last, inner, wants
    <3>1. CASE wants BY <3>1, Zenon
    <3>2. CASE ~wants BY <3>2, Zenon
    <3> QED BY <3>1, <3>2
  <2> HIDE DEF r, wants
  <2> QED BY <2>1, <2>2
<1> DEFINE a == IF wants THEN ConnectFirst(y, srcSpace) ELSE Pushed(<<>>)
<1>9. Converts(c, u, a.steps) /\ a.stat = "Ok"
  <2> DEFINE list == ConnectFirst(y, srcSpace)
             none == Pushed(<<>>)
  <2>1. list.stat = "Ok" /\ none.stat = "Ok" /\ none.steps = <<>>
    BY PushedIs DEF ConnectFirst
  <2>2. ~wants => srcSpace = y.space /\ ~y.legacy BY <1>3, <1>7
  <2> HIDE DEF wants, list, none, c, u, y
  <2>3. CASE wants
    <3>1. Converts(c, u, list.steps) BY <1>5 DEF list
    <3>2. a = list BY <2>3 DEF list
    <3> QED BY <2>1, <3>1, <3>2
  <2>4. CASE ~wants
    <3>1. Converts(c, u, none.steps) BY <1>5, <2>1, <2>2, <2>4
    <3>2. a = none BY <2>4 DEF none
    <3> QED BY <2>1, <3>1, <3>2
  <2> QED BY <2>3, <2>4
<1> HIDE DEF a, c, u, y
<1>10. at = Finished(a) BY <1>8 DEF a
<1> HIDE DEF at
<1>11. at.stat \in {"Ok", "Identity"} BY DEF at
<1>12. Converts(c, u, at.steps) BY <1>9, <1>10, <1>11, FinishedIs
<1> QED BY <1>12, ConvertsCarries

LEMMA LastGiven ==
  ASSUME NEW os, NEW xs, NEW n, n = Len(xs), n \in Nat, n # 0,
         xs[n].prof # 0, os[xs[n].prof].file \in File,
         NEW dest,
         \/ ConnectAt(os, xs, dest, n).stat = "Ok"
         \/ ConnectAt(os, xs, dest, n).stat = "Identity"
  PROVE  Given(os, xs[n], dest, ConnectAt(os, xs, dest, n).steps)
<1> DEFINE x == xs[n]
           y == DstSide(os, x)
           c == Client(y, dest)
           u == Unadjusted(y)
           f == os[x.prof].file
           h == Header[f]
           at == ConnectAt(os, xs, dest, n)
           wants == Wants(os, xs, dest, n)
<1>1. SUFFICES ASSUME {y.space, dest} \subseteq Colorimetric, ~(Abstract(os, x) /\ ~x.input)
               PROVE  Carries(u, c, at.steps)
  BY Zenon DEF Given
<1>2. y.space = GetDstSpace(os, x) BY SideIs DEF DstSide
<1>3. /\ IsSide(y) /\ Ends(u, c) /\ y.legacy = Legacy(os, x)
  <2>1. IsSide(y) /\ y.legacy = Legacy(os, x) BY SideIs DEF DstSide
  <2>2. {GetDstSpace(os, x), dest} \subseteq Colorimetric BY <1>1, <1>2
  <2>3. Ends(u, c) BY <2>2, EndsAre DEF DstSide
  <2> QED BY <2>1, <2>3
<1>4. /\ u.space = y.space /\ u.legacy = y.legacy /\ u.pcc = y.pcc
      /\ c.space = dest /\ ~c.legacy
  <2>1. IsSide(y) BY <1>3
  <2> HIDE DEF y
  <2> QED BY <2>1, EncodingsAre
<1>5. /\ Converts(u, c, ConnectLast(y, dest).steps)
      /\ dest = y.space /\ ~y.legacy => Converts(u, c, <<>>)
  <2> HIDE DEF c, u, y
  <2> QED BY <1>1, <1>3, <1>4, LastConverts
<1>6. x.input
  <2> SUFFICES ASSUME ~x.input PROVE FALSE OBVIOUS
  <2>1. y.space = h.mcs \/ y.space = h.space
    BY <1>2, Zenon DEF GetDstSpace, Profile, HeaderOf
  <2>2. h.space \in PCS
    <3>1. h.mcs \notin PCS BY HeaderAssumption
    <3> QED BY <1>1, <2>1, <3>1 DEF PCS, Colorimetric
  <2>3. h.class = "Abstract" BY <2>2, HeaderAssumption
  <2> QED BY <1>1, <2>3 DEF Abstract, Profile, HeaderOf
<1>7. ~wants => dest = y.space /\ ~Legacy(os, x)
  <2> DEFINE dst == GetSrcSpace(os, xs[n + 1])
             a == /\ ~xs[1].input /\ dst \in Colorimetric
                  /\ srcSpace # dst \/ Legacy(os, xs[1])
             b == /\ x.input /\ GetDstSpace(os, x) \in Colorimetric
                  /\ dest # GetDstSpace(os, x) \/ Legacy(os, x) \/ Adjusts(y)
             d == \/ x.input /\ x.mcs # "No" /\ xs[n + 1].mcs # "No"
                  \/ {GetDstSpace(os, x), dst} \cap PCS # {}
  <2>1. wants <=> CASE n = 0 -> a [] n = n -> b [] OTHER -> d BY Zenon DEF Wants
  <2>2. ~b => dest = y.space /\ ~Legacy(os, x) BY <1>1, <1>2, <1>6
  <2> HIDE DEF a, b, d, wants
  <2>3. wants <=> b BY <2>1
  <2> QED BY <2>2, <2>3
<1>8. at = Finished(IF wants THEN ConnectLast(y, dest) ELSE Pushed(<<>>))
  <2> DEFINE none == Pushed(<<>>)
             first == ConnectFirst(SrcSide(os, xs[1]), srcSpace)
             last == ConnectLast(DstSide(os, xs[n]), dest)
             inner == Connect(os, xs[n], xs[n + 1])
               r == IF ~wants THEN none
                  ELSE CASE n = 0 -> first [] n = Len(xs) -> last [] OTHER -> inner
  <2>1. at = Finished(r) BY Zenon DEF ConnectAt
  <2>2. r = IF wants THEN last ELSE none
    <3> HIDE DEF none, first, last, inner, wants
    <3>1. CASE wants BY <3>1, Zenon
    <3>2. CASE ~wants BY <3>2, Zenon
    <3> QED BY <3>1, <3>2
  <2> HIDE DEF r, wants
  <2> QED BY <2>1, <2>2
<1> DEFINE a == IF wants THEN ConnectLast(y, dest) ELSE Pushed(<<>>)
<1>9. Converts(u, c, a.steps) /\ a.stat = "Ok"
  <2> DEFINE list == ConnectLast(y, dest)
             none == Pushed(<<>>)
  <2>1. list.stat = "Ok" /\ none.stat = "Ok" /\ none.steps = <<>>
    BY PushedIs DEF ConnectLast
  <2>2. ~wants => dest = y.space /\ ~y.legacy BY <1>3, <1>7
  <2> HIDE DEF wants, list, none, c, u, y
  <2>3. CASE wants
    <3>1. Converts(u, c, list.steps) BY <1>5 DEF list
    <3>2. a = list BY <2>3 DEF list
    <3> QED BY <2>1, <3>1, <3>2
  <2>4. CASE ~wants
    <3>1. Converts(u, c, none.steps) BY <1>5, <2>1, <2>2, <2>4
    <3>2. a = none BY <2>4 DEF none
    <3> QED BY <2>1, <3>1, <3>2
  <2> QED BY <2>3, <2>4
<1> HIDE DEF a, c, u, y
<1>10. at = Finished(a) BY <1>8 DEF a
<1> HIDE DEF at
<1>11. at.stat \in {"Ok", "Identity"} BY DEF at
<1>12. Converts(u, c, at.steps) BY <1>9, <1>10, <1>11, FinishedIs
<1> QED BY <1>12, ConvertsCarries

(* The PCS spaces of a profile are described by its own ranges. *)
LEMMA ChannelsOf ==
  ASSUME NEW os, NEW x, os[x.prof].file \in File, NEW s \in PCS,
         LET h == HeaderOf(os, x.prof) IN s \in {h.space, h.pcs, h.spec}
  PROVE  Channels(SideOf(os, x, s)) = Samples[s]
<1> DEFINE h == Header[os[x.prof].file]
           side == SideOf(os, x, s)
<1>1. s \in {h.space, h.pcs, h.spec} BY DEF HeaderOf
<1>2. side.space = s /\ side.range = h.range /\ side.biRange = h.biRange
  BY SideIs DEF HeaderOf
<1>3. \A t \in {h.space, h.pcs, h.spec} \cap Spectral :
        Samples[t] = SpectralRange[h.range].steps *
                       (IF SpectralType[t] = "BiRef" THEN SpectralRange[h.biRange].steps ELSE 1)
  BY HeaderAssumption
<1> HIDE DEF h, side
<1>4. CASE s \in Colorimetric
  <2>1. Channels(side) = 3 BY <1>2, <1>4 DEF Channels
  <2>2. Samples[s] = 3 BY <1>4, SamplesAssumption DEF Colorimetric
  <2> QED BY <2>1, <2>2 DEF side
<1>5. CASE s \in Spectral
  <2>1. s \notin Colorimetric BY <1>5, SpacesAre
  <2>2. SpaceType(s) = SpectralType[s] BY <1>5 DEF SpaceType
  <2>3. Samples[s] = SpectralRange[h.range].steps *
                       (IF SpectralType[s] = "BiRef" THEN SpectralRange[h.biRange].steps ELSE 1)
    BY <1>1, <1>3, <1>5
  <2>4. Channels(side) = StepsOf(h.range) *
                           (IF SpectralType[s] = "BiRef" THEN StepsOf(h.biRange) ELSE 1)
    BY <1>2, <2>1, <2>2 DEF Channels
  <2> QED BY <2>3, <2>4 DEF StepsOf, side
<1> QED BY <1>4, <1>5 DEF PCS, side

LEMMA SpacesOf ==
  ASSUME NEW os, NEW x, x.prof # 0, os[x.prof].file \in File, NEW s \in PCS
  PROVE  LET h == HeaderOf(os, x.prof)
         IN (s = GetDstSpace(os, x) \/ (s = GetSrcSpace(os, x)))
              => s \in {h.space, h.pcs, h.spec}
<1> DEFINE h == HeaderOf(os, x.prof)
<1>1. s # h.mcs BY HeaderAssumption DEF HeaderOf
<1>2. PcsOf(os, x) \in {h.pcs, h.spec} BY DEF PcsOf
<1>3. GetDstSpace(os, x) \in {h.mcs, PcsOf(os, x), h.space} BY DEF GetDstSpace, Profile
<1>4. GetSrcSpace(os, x) \in {PcsOf(os, x), h.pcs, h.space} BY DEF GetSrcSpace, Profile
<1> HIDE DEF h
<1> QED BY <1>1, <1>2, <1>3, <1>4 DEF h

LEMMA NextHanded ==
  ASSUME NEW os, NEW xs, NEW n, n = Len(xs), n \in Nat, NEW k \in 1 .. n - 1,
         xs[k].prof # 0, os[xs[k].prof].file \in File,
         xs[k + 1].prof # 0, os[xs[k + 1].prof].file \in File,
         "No" \in {xs[k].mcs, xs[k + 1].mcs},
         NEW dest,
         \/ ConnectAt(os, xs, dest, k).stat = "Ok"
         \/ ConnectAt(os, xs, dest, k).stat = "Identity"
  PROVE  Handed(os, xs[k], xs[k + 1], ConnectAt(os, xs, dest, k).steps)
<1> DEFINE x == xs[k]
           y == xs[k + 1]
           u == DstSide(os, x)
           w == SrcSide(os, y)
           at == ConnectAt(os, xs, dest, k)
           sides == ConnectSides(u, w)
           wants == Wants(os, xs, dest, k)
<1>1. SUFFICES ASSUME {u.space, w.space} \subseteq PCS, u.space \in Spectral => Seen(u)
               PROVE  /\ Carries(u, w, at.steps)
                      /\ Chained(at.steps, Samples[u.space], Samples[w.space])
  BY Zenon DEF Handed
<1>2. u.space = GetDstSpace(os, x) /\ w.space = GetSrcSpace(os, y)
  BY SideIs DEF DstSide, SrcSide
<1>3. GetDstSpace(os, x) \in PCS /\ GetSrcSpace(os, y) \in PCS BY <1>1, <1>2
<1>4. GoodSide(u) /\ GoodSide(w) BY <1>3, GoodSides DEF DstSide, SrcSide
<1>5. Channels(u) = Samples[u.space] /\ Channels(w) = Samples[w.space]
  <2>1. Channels(u) = Samples[GetDstSpace(os, x)]
    <3>1. LET h == HeaderOf(os, x.prof) IN GetDstSpace(os, x) \in {h.space, h.pcs, h.spec}
      BY <1>3, SpacesOf
    <3> QED BY <1>3, <3>1, ChannelsOf DEF DstSide
  <2>2. Channels(w) = Samples[GetSrcSpace(os, y)]
    <3>1. LET h == HeaderOf(os, y.prof) IN GetSrcSpace(os, y) \in {h.space, h.pcs, h.spec}
      BY <1>3, SpacesOf
    <3> QED BY <1>3, <3>1, ChannelsOf DEF SrcSide
  <2> QED BY <1>2, <2>1, <2>2
<1>6. k # 0 /\ k # n OBVIOUS
<1>7. wants
  <2> DEFINE src == GetDstSpace(os, xs[k])
             dst == GetSrcSpace(os, xs[k + 1])
             a == /\ ~xs[1].input /\ dst \in Colorimetric
                  /\ srcSpace # dst \/ Legacy(os, xs[1])
             b == /\ xs[n].input /\ src \in Colorimetric
                  /\ dest # src \/ Legacy(os, xs[n]) \/ Adjusts(DstSide(os, xs[n]))
             d == \/ xs[k].input /\ xs[k].mcs # "No" /\ xs[k + 1].mcs # "No"
                  \/ {src, dst} \cap PCS # {}
  <2>1. wants <=> CASE k = 0 -> a [] k = n -> b [] OTHER -> d BY Zenon DEF Wants
  <2>2. d BY <1>3
  <2> HIDE DEF a, b, d, wants
  <2>3. wants <=> d BY <1>6, <2>1
  <2> QED BY <2>2, <2>3
<1>8. at = Finished(Connect(os, x, y))
  <2> DEFINE none == Pushed(<<>>)
             first == ConnectFirst(SrcSide(os, xs[1]), srcSpace)
             last == ConnectLast(DstSide(os, xs[k]), dest)
             inner == Connect(os, xs[k], xs[k + 1])
             r == IF ~wants THEN none
                  ELSE CASE k = 0 -> first [] k = Len(xs) -> last [] OTHER -> inner
  <2>1. at = Finished(r) BY Zenon DEF ConnectAt
  <2>2. r = inner
    <3> HIDE DEF none, first, last, inner, wants
    <3> QED BY <1>6, <1>7, Zenon
  <2> HIDE DEF r
  <2> QED BY <2>1, <2>2
<1> DEFINE a == Connect(os, x, y)
<1>9. a = Failed("BadSpaceLink") \/ a = sides
  <2>1. ~(x.mcs # "No" /\ y.mcs # "No") OBVIOUS
  <2> QED BY <2>1, Zenon DEF Connect
<1> HIDE DEF at, a, sides, u, w, wants
<1>10. a = sides
  <2> SUFFICES ASSUME a = Failed("BadSpaceLink") PROVE FALSE BY <1>9
  <2>1. a.stat = "BadSpaceLink" BY FailedIs
  <2>2. at = a BY <1>8, <2>1, Zenon DEF Finished, a
  <2>3. at.stat \in {"Ok", "Identity"} BY DEF at
  <2> QED BY <2>1, <2>2, <2>3
<1>11. a.stat = "Ok" => Converts(u, w, a.steps)
  BY <1>1, <1>4, <1>10, SidesConvert DEF sides
<1>12. a.stat # "Identity" BY <1>10, ConnectPlain DEF sides, Plain
<1>13. Finished(a).stat \in {"Ok", "Identity"} /\ at = Finished(a) BY <1>8 DEF at, a
<1>14. Converts(u, w, at.steps) BY <1>11, <1>12, <1>13, FinishedIs
<1>15. Carries(u, w, at.steps) /\ Chained(at.steps, Channels(u), Channels(w))
  BY <1>14, ConvertsCarries
<1> QED BY <1>5, <1>15

(* Every transform of a list that has a profile is given the colours meant.  *)
Carried(os, list, source, dest) ==
  \A i \in 1 .. Len(list) : Profile(list[i]) =>
    /\ (\A j \in 1 .. i - 1 : ~Profile(list[j])) =>
         Taken(os, list[i], source, StepsIn(list, i - 1))
    /\ Past(list, i) > Len(list) => Given(os, list[i], dest, StepsIn(list, i + 1))
    /\ Past(list, i) <= Len(list) =>
         /\ Profile(list[Past(list, i)])
         /\ "No" \in {list[i].mcs, list[Past(list, i)].mcs} =>
              Handed(os, list[i], list[Past(list, i)], StepsIn(list, i + 1))

LEMMA ChainCarried ==
  ASSUME NEW os, NEW xs, List(xs), NEW dest,
         \A m \in 1 .. Len(xs) : xs[m].prof # 0 /\ os[xs[m].prof].file \in File,
         NEW at, \A k \in 0 .. Len(xs) : /\ at[k] = ConnectAt(os, xs, dest, k)
                                         /\ at[k].stat \in {"Ok", "Identity"}
  PROVE  List(ChainOf(os, xs, at)) /\ Carried(os, ChainOf(os, xs, at), srcSpace, dest)
<1> DEFINE n == Len(xs)
           list == ChainOf(os, xs, at)
<1>1. n \in Nat BY DEF List
<1>2. \A k \in 0 .. n : at[k].stat = "Identity" => at[k].steps = <<>> BY NothingLeft
<1>3. /\ List(list)
      /\ \A i \in 1 .. Len(list) : Profile(list[i]) =>
           \E m \in 1 .. n :
             /\ list[i] = xs[m]
             /\ (\A j \in 1 .. i - 1 : ~Profile(list[j])) =>
                  m = 1 /\ StepsIn(list, i - 1) = at[0].steps
             /\ StepsIn(list, i + 1) = at[m].steps
             /\ Past(list, i) > Len(list) => m = n
             /\ Past(list, i) <= Len(list) => m < n /\ list[Past(list, i)] = xs[m + 1]
  BY <1>2, ChainLaid
<1>0. n = Len(xs) OBVIOUS
<1> HIDE DEF list, n
<1>4. ASSUME NEW i \in 1 .. Len(list), Profile(list[i])
      PROVE  /\ (\A j \in 1 .. i - 1 : ~Profile(list[j])) =>
                  Taken(os, list[i], srcSpace, StepsIn(list, i - 1))
             /\ Past(list, i) > Len(list) => Given(os, list[i], dest, StepsIn(list, i + 1))
             /\ Past(list, i) <= Len(list) =>
                  /\ Profile(list[Past(list, i)])
                  /\ "No" \in {list[i].mcs, list[Past(list, i)].mcs} =>
                       Handed(os, list[i], list[Past(list, i)], StepsIn(list, i + 1))
  <2>1. PICK m \in 1 .. n :
             /\ list[i] = xs[m]
             /\ (\A j \in 1 .. i - 1 : ~Profile(list[j])) =>
                  m = 1 /\ StepsIn(list, i - 1) = at[0].steps
             /\ StepsIn(list, i + 1) = at[m].steps
             /\ Past(list, i) > Len(list) => m = n
             /\ Past(list, i) <= Len(list) => m < n /\ list[Past(list, i)] = xs[m + 1]
    BY <1>3, <1>4, Zenon
  <2>2. n # 0 /\ 0 \in 0 .. n /\ m \in 0 .. n /\ 1 \in 1 .. n BY <1>1
  <2>3. ASSUME \A j \in 1 .. i - 1 : ~Profile(list[j])
        PROVE  Taken(os, list[i], srcSpace, StepsIn(list, i - 1))
    <3>1. list[i] = xs[1] /\ StepsIn(list, i - 1) = at[0].steps BY <2>1, <2>3
    <3>2. Taken(os, xs[1], srcSpace, at[0].steps)
      <4>1. xs[1].prof # 0 /\ os[xs[1].prof].file \in File BY <1>0, <2>2
      <4>2. at[0] = ConnectAt(os, xs, dest, 0) /\ at[0].stat \in {"Ok", "Identity"} BY <1>0, <2>2
      <4>3. Taken(os, xs[1], srcSpace, ConnectAt(os, xs, dest, 0).steps)
          <5>1. \/ ConnectAt(os, xs, dest, 0).stat = "Ok"
                \/ ConnectAt(os, xs, dest, 0).stat = "Identity"
            BY <4>2
          <5> QED BY <1>0, <1>1, <2>2, <4>1, <5>1, FirstTaken
      <4> QED BY <4>2, <4>3
    <3> QED BY <3>1, <3>2
  <2>4. ASSUME Past(list, i) > Len(list)
        PROVE  Given(os, list[i], dest, StepsIn(list, i + 1))
    <3>1. list[i] = xs[n] /\ StepsIn(list, i + 1) = at[n].steps /\ m = n BY <2>1, <2>4
    <3>2. Given(os, xs[n], dest, at[n].steps)
      <4>1. n \in 1 .. n /\ n \in 0 .. n BY <1>1, <2>2
      <4>2. xs[n].prof # 0 /\ os[xs[n].prof].file \in File BY <1>0, <4>1
      <4>3. at[n] = ConnectAt(os, xs, dest, n) /\ at[n].stat \in {"Ok", "Identity"} BY <1>0, <4>1
      <4>4. Given(os, xs[n], dest, ConnectAt(os, xs, dest, n).steps)
          <5>1. \/ ConnectAt(os, xs, dest, n).stat = "Ok"
                \/ ConnectAt(os, xs, dest, n).stat = "Identity"
            BY <4>3
          <5> QED BY <1>0, <1>1, <2>2, <4>2, <5>1, LastGiven
      <4> QED BY <4>3, <4>4
    <3> QED BY <3>1, <3>2
  <2>5. ASSUME Past(list, i) <= Len(list), "No" \in {list[i].mcs, list[Past(list, i)].mcs}
        PROVE  Handed(os, list[i], list[Past(list, i)], StepsIn(list, i + 1))
    <3>1. /\ list[i] = xs[m] /\ list[Past(list, i)] = xs[m + 1]
          /\ StepsIn(list, i + 1) = at[m].steps
      BY <2>1, <2>5
    <3>2. m \in 1 .. n - 1 /\ m + 1 \in 1 .. n BY <1>1, <2>1, <2>5
    <3>3. Handed(os, xs[m], xs[m + 1], at[m].steps)
      <4>1. /\ xs[m].prof # 0 /\ os[xs[m].prof].file \in File
            /\ xs[m + 1].prof # 0 /\ os[xs[m + 1].prof].file \in File
        BY <1>0, <3>2
      <4>2. "No" \in {xs[m].mcs, xs[m + 1].mcs} BY <2>5, <3>1
      <4>3. at[m] = ConnectAt(os, xs, dest, m) /\ at[m].stat \in {"Ok", "Identity"} BY <1>0, <2>2
      <4>4. Handed(os, xs[m], xs[m + 1], ConnectAt(os, xs, dest, m).steps)
          <5>1. \/ ConnectAt(os, xs, dest, m).stat = "Ok"
                \/ ConnectAt(os, xs, dest, m).stat = "Identity"
            BY <4>3
          <5> QED BY <1>0, <1>1, <3>2, <4>1, <4>2, <5>1, NextHanded
      <4> QED BY <4>3, <4>4
    <3> QED BY <3>1, <3>3
  <2>6. ASSUME Past(list, i) <= Len(list) PROVE Profile(list[Past(list, i)])
    <3>1. list[Past(list, i)] = xs[m + 1] BY <2>1, <2>6
    <3>2. m + 1 \in 1 .. n BY <1>1, <2>1, <2>6
    <3>3. xs[m + 1].prof # 0 BY <1>0, <3>2
    <3> QED BY <3>1, <3>3 DEF Profile
  <2> QED BY <2>3, <2>4, <2>5, <2>6
<1> QED BY <1>3, <1>4 DEF Carried, list

-----------------------------------------------------------------------------
(* Begin, and the invariant of what it leaves. *)

(* Transforms of profiles the CMM has. *)
OfProfiles(os, xs) ==
  /\ List(xs)
  /\ \A m \in 1 .. Len(xs) : xs[m].prof # 0 /\ os[xs[m].prof].file \in File

LEMMA RangeProfiles ==
  ASSUME NEW os, NEW U, NEW xs, Growing(os, U, xs), NEW ys \in RangeConverted(os, xs)
  PROVE  OfProfiles(os, ys)
<1> DEFINE n == Len(xs)
<1>1. /\ List(xs) /\ DOMAIN xs = 1 .. n /\ n \in Nat
      /\ \A i \in 1 .. n : xs[i].prof # 0 /\ os[xs[i].prof].file \in File
  BY ListDomain DEF Growing, Objects, AllOwn, List
<1>2. PICK made \in SUBSET (1 .. n) :
        ys = Interposed(xs, [i \in made |-> RangeXform(xs[i])])
  <2>1. \E made \in SUBSET (DOMAIN xs) :
          ys = Interposed(xs, [i \in made |-> RangeXform(xs[i])])
    BY DEF RangeConverted
  <2> QED BY <1>1, <2>1
<1> DEFINE new == [i \in made |-> RangeXform(xs[i])]
           D == DOMAIN new
<1>3. D \in SUBSET (1 .. n) /\ D \in SUBSET (0 .. n) OBVIOUS
<1>4. \A k \in D : new[k].prof # 0 /\ os[new[k].prof].file \in File
  <2>1. \A x : RangeXform(x).prof = x.prof BY DEF RangeXform, Xform
  <2>2. \A k \in D : k \in 1 .. n /\ new[k] = RangeXform(xs[k]) OBVIOUS
  <2> HIDE DEF n, new
  <2> QED BY <1>1, <2>1, <2>2
<1>5. ys = Interposed(xs, new) BY <1>2
<1> HIDE DEF new
<1>6. /\ List(ys) /\ Len(ys) = n + Cardinality(D)
      /\ \A i \in 1 .. n : ys[Place(D, i)] = xs[i]
      /\ \A k \in D : ys[NewPlace(D, k)] = new[k]
  BY <1>1, <1>3, <1>5, InterposedIs
<1> HIDE DEF n, D
<1>7. \A p \in 1 .. Len(ys) : \/ \E i \in 1 .. n : p = Place(D, i)
                              \/ \E k \in D : p = NewPlace(D, k)
  BY <1>1, <1>3, <1>6, PlacesFill
<1>8. ASSUME NEW p \in 1 .. Len(ys) PROVE ys[p].prof # 0 /\ os[ys[p].prof].file \in File
  BY <1>1, <1>4, <1>6, <1>7
<1> QED BY <1>6, <1>8 DEF OfProfiles

LEMMA ConnectedCarries ==
  ASSUME NEW os, NEW xs, OfProfiles(os, xs), NEW dest,
         NEW c \in Connected(os, xs, dest), c.stat = "Ok"
  PROVE  Carried(os, c.xforms, srcSpace, dest)
<1> DEFINE n == Len(xs)
           at == [k \in 0 .. n |-> ConnectAt(os, xs, dest, k)]
           list == ChainOf(os, xs, at)
<1>1. CASE xs = <<>>
  <2> DEFINE none == <<>>
  <2>1. c = [stat |-> "Ok", xforms |-> xs] BY <1>1 DEF Connected
  <2>2. c.xforms = none BY <1>1, <2>1
  <2>3. 1 .. Len(none) = {} OBVIOUS
  <2> HIDE DEF none
  <2>4. Carried(os, none, srcSpace, dest) BY <2>3 DEF Carried
  <2> QED BY <2>2, <2>4
<1>2. CASE xs # <<>>
  <2>1. c \in Connections(os, xs, dest, at) BY <1>2, Zenon DEF Connected
  <2> DEFINE Reached(k) == \A j \in 0 .. k - 1 : at[j].stat \in {"Ok", "Identity"}
             ends == {at[k].stat : k \in {j \in 0 .. n : Reached(j)}}
             failures == ends \ {"Ok", "Identity"}
             mayFail == \E k \in 0 .. n : Reached(k) /\ Wants(os, xs, dest, k)
             ways == failures \cup (IF mayFail THEN Failing({"AllocErr", "BadConnection"}) ELSE {})
             good == IF Reached(n + 1) THEN {[stat |-> "Ok", xforms |-> list]} ELSE {}
  <2>2. c \in {[stat |-> f, xforms |-> xs] : f \in ways} \cup good BY <2>1, Zenon DEF Connections
  <2>3. "Ok" \notin ways
    <3>1. Failing({"AllocErr", "BadConnection"}) \subseteq {"AllocErr", "BadConnection"}
      BY DEF Failing
    <3> HIDE DEF ends, mayFail
    <3> QED BY <3>1
  <2> HIDE DEF ways, at, list, Reached
  <2>4. c \in good BY <2>2, <2>3
  <2>5. Reached(n + 1) /\ c.xforms = list BY <2>4
  <2>6. n \in Nat BY DEF OfProfiles, List
  <2>7. \A k \in 0 .. n : at[k].stat \in {"Ok", "Identity"}
    <3>1. \A k \in 0 .. n : k \in 0 .. (n + 1) - 1 BY <2>6
    <3> QED BY <2>5, <3>1 DEF Reached
  <2>8. \A k \in 0 .. n : at[k] = ConnectAt(os, xs, dest, k) BY DEF at
  <2>9. \A k \in 0 .. n : /\ at[k] = ConnectAt(os, xs, dest, k)
                          /\ at[k].stat \in {"Ok", "Identity"}
    BY <2>7, <2>8
  <2>10. Carried(os, list, srcSpace, dest)
    <3>1. List(xs) /\ \A m \in 1 .. Len(xs) : xs[m].prof # 0 /\ os[xs[m].prof].file \in File
      BY DEF OfProfiles
    <3> QED BY <2>9, <3>1, ChainCarried DEF list
  <2> QED BY <2>5, <2>10
<1> QED BY <1>1, <1>2

LEMMA BegunCarries ==
  ASSUME NEW U, Growing(objs, U, xforms), NEW dest, NEW alloc \in BOOLEAN,
         NEW out \in Begun(dest, alloc)
  PROVE  /\ out.stat # "Ok" => out.apply = NotMade
         /\ out.apply = NotMade \/ out.apply = out.xforms
         /\ out.stat = "Ok" => Carried(objs, out.xforms, srcSpace, dest)
<1> DEFINE Result(stat, xs, list) == [stat |-> stat, xforms |-> xs, apply |-> list]
           Applied(xs) == {Result(s, xs, IF s = "Ok" /\ alloc THEN xs ELSE NotMade) :
                             s \in IF alloc THEN GetNewApplyCmm ELSE {"Ok"}}
           Connecting(xs) == UNION {IF c.stat = "Ok" THEN Applied(c.xforms)
                                    ELSE {Result(c.stat, xs, NotMade)} :
                                      c \in Connected(objs, xs, dest)}
           Beginning(xs) == UNION {IF s = "Ok" THEN Connecting(xs) ELSE {Result(s, xs, NotMade)} :
                                     s \in XformsBegin(objs, xs)}
           Good(r) == /\ r.stat # "Ok" => r.apply = NotMade
                      /\ r.apply = NotMade \/ r.apply = r.xforms
                      /\ r.stat = "Ok" => Carried(objs, r.xforms, srcSpace, dest)
<1>1. \A s, xs : s # "Ok" => Good(Result(s, xs, NotMade)) OBVIOUS
<1>2. ASSUME NEW xs, OfProfiles(objs, xs), NEW r \in Beginning(xs) PROVE Good(r)
  <2>1. PICK s \in XformsBegin(objs, xs) :
          r \in IF s = "Ok" THEN Connecting(xs) ELSE {Result(s, xs, NotMade)}
    BY <1>2
  <2>2. CASE s # "Ok"
    <3>1. r = Result(s, xs, NotMade) BY <2>1, <2>2
    <3> HIDE DEF Good, Result
    <3> QED BY <1>1, <2>2, <3>1
  <2>3. CASE s = "Ok"
    <3>1. PICK c \in Connected(objs, xs, dest) :
            r \in IF c.stat = "Ok" THEN Applied(c.xforms) ELSE {Result(c.stat, xs, NotMade)}
      BY <2>1, <2>3
    <3>2. CASE c.stat # "Ok"
      <4>1. r = Result(c.stat, xs, NotMade) BY <3>1, <3>2
      <4> HIDE DEF Good, Result
      <4> QED BY <1>1, <3>2, <4>1
    <3>3. CASE c.stat = "Ok"
      <4>1. Carried(objs, c.xforms, srcSpace, dest) BY <1>2, <3>3, ConnectedCarries
      <4>2. r \in Applied(c.xforms) BY <3>1, <3>3
      <4> DEFINE ys == c.xforms
      <4>3. PICK t : r = Result(t, ys, IF t = "Ok" /\ alloc THEN ys ELSE NotMade) BY <4>2
      <4> HIDE DEF ys
      <4>4. /\ r.stat = t /\ r.xforms = ys
            /\ r.apply = (IF t = "Ok" /\ alloc THEN ys ELSE NotMade)
        BY <4>3
      <4> QED BY <4>1, <4>4 DEF ys
    <3> QED BY <3>2, <3>3
  <2> QED BY <2>2, <2>3
<1>3. \/ out = Result("BadSpaceLink", xforms, NotMade)
      \/ \E xs \in RangeConverted(objs, xforms) : out \in Beginning(xs)
  BY DEF Begun
<1> HIDE DEF Beginning, Good, Result
<1>4. Good(out)
  <2>1. CASE out = Result("BadSpaceLink", xforms, NotMade) BY <1>1, <2>1
  <2>2. ASSUME NEW xs \in RangeConverted(objs, xforms), out \in Beginning(xs) PROVE Good(out)
    <3>1. OfProfiles(objs, xs) BY RangeProfiles
    <3> QED BY <1>2, <2>2, <3>1
  <2> QED BY <1>3, <2>1, <2>2
<1> QED BY <1>4 DEF Good

(* What a transform says of its sides depends on its profile's header alone. *)
LEMMA SidesKept ==
  ASSUME NEW os, NEW new, NEW x, HeaderOf(new, x.prof) = HeaderOf(os, x.prof)
  PROVE  /\ SrcSide(new, x) = SrcSide(os, x) /\ DstSide(new, x) = DstSide(os, x)
         /\ Abstract(new, x) <=> Abstract(os, x)
<1>1. PcsOf(new, x) = PcsOf(os, x) BY Zenon DEF PcsOf
<1>2. GetSrcSpace(new, x) = GetSrcSpace(os, x) /\ GetDstSpace(new, x) = GetDstSpace(os, x)
  BY <1>1, Zenon DEF GetSrcSpace, GetDstSpace
<1>3. Legacy(new, x) = Legacy(os, x) BY Zenon DEF Legacy
<1>4. \A s : SideOf(new, x, s) = SideOf(os, x, s) BY <1>3, Zenon DEF SideOf
<1>5. Abstract(new, x) <=> Abstract(os, x) BY Zenon DEF Abstract
<1> QED BY <1>2, <1>4, <1>5, Zenon DEF SrcSide, DstSide

LEMMA CarriedKept ==
  ASSUME NEW os, NEW new, NEW list, NEW source, NEW dest,
         \A i \in 1 .. Len(list) : list[i].prof # 0 =>
           HeaderOf(new, list[i].prof) = HeaderOf(os, list[i].prof),
         Carried(os, list, source, dest), List(list)
  PROVE  Carried(new, list, source, dest)
<1> SUFFICES ASSUME NEW i \in 1 .. Len(list), Profile(list[i])
    PROVE  /\ (\A j \in 1 .. i - 1 : ~Profile(list[j])) =>
                Taken(new, list[i], source, StepsIn(list, i - 1))
           /\ Past(list, i) > Len(list) => Given(new, list[i], dest, StepsIn(list, i + 1))
           /\ Past(list, i) <= Len(list) =>
                /\ Profile(list[Past(list, i)])
                /\ "No" \in {list[i].mcs, list[Past(list, i)].mcs} =>
                     Handed(new, list[i], list[Past(list, i)], StepsIn(list, i + 1))
  BY DEF Carried
<1> DEFINE x == list[i]
<1>1. /\ SrcSide(new, x) = SrcSide(os, x) /\ DstSide(new, x) = DstSide(os, x)
      /\ Abstract(new, x) <=> Abstract(os, x)
  BY SidesKept DEF Profile
<1>2. /\ (\A j \in 1 .. i - 1 : ~Profile(list[j])) =>
           Taken(os, x, source, StepsIn(list, i - 1))
      /\ Past(list, i) > Len(list) => Given(os, x, dest, StepsIn(list, i + 1))
      /\ Past(list, i) <= Len(list) =>
           /\ Profile(list[Past(list, i)])
           /\ "No" \in {x.mcs, list[Past(list, i)].mcs} =>
                Handed(os, x, list[Past(list, i)], StepsIn(list, i + 1))
  BY DEF Carried
<1>3. \A steps : Taken(os, x, source, steps) => Taken(new, x, source, steps)
  BY <1>1, Zenon DEF Taken
<1>4. \A steps : Given(os, x, dest, steps) => Given(new, x, dest, steps)
  BY <1>1, Zenon DEF Given
<1>5. ASSUME Past(list, i) <= Len(list), "No" \in {x.mcs, list[Past(list, i)].mcs}
      PROVE  Handed(new, x, list[Past(list, i)], StepsIn(list, i + 1))
  <2> DEFINE y == list[Past(list, i)]
  <2>1. SrcSide(new, y) = SrcSide(os, y)
    <3>1. y.prof # 0 BY <1>2, <1>5 DEF Profile
    <3>2. Past(list, i) \in 1 .. Len(list)
      <4>1. Past(list, i) \in {i + 1, i + 2} BY DEF Past
      <4>2. i \in Nat /\ i >= 1 /\ Len(list) \in Nat BY DEF List
      <4>3. Past(list, i) \in Nat /\ Past(list, i) >= 1 BY <4>1, <4>2
      <4> QED BY <1>5, <4>2, <4>3
    <3> QED BY <3>1, <3>2, SidesKept
  <2>2. Handed(os, x, y, StepsIn(list, i + 1)) BY <1>2, <1>5
  <2> QED BY <1>1, <2>1, <2>2, Zenon DEF Handed
<1> HIDE DEF x
<1> QED BY <1>2, <1>3, <1>4, <1>5 DEF x

(* Nothing is applied before Begin succeeds, and what it leaves is carried.  *)
CarriedInv ==
  /\ apply = NotMade \/ (apply = xforms /\ phase = "begun")
  /\ phase = "begun" => Carried(objs, xforms, srcSpace, destSpace)

LEMMA CarriedBegin ==
  ASSUME ChainInv, CarriedInv, NEW alloc \in BOOLEAN, Begin(alloc) PROVE CarriedInv'
<1> DEFINE dest == IF destSpace = NoSpace THEN lastSpace ELSE destSpace
<1>1. /\ Growing(objs, client, xforms)
      /\ objs' = objs /\ srcSpace' = srcSpace /\ destSpace' = dest
  BY DEF ChainInv, Begin
<1>2. PICK out \in Begun(dest, alloc) :
        /\ xforms' = out.xforms /\ apply' = out.apply
        /\ phase' = IF out.stat = "Ok" THEN "begun" ELSE "failed"
  BY DEF Begin
<1> HIDE DEF dest
<1>3. /\ out.stat # "Ok" => out.apply = NotMade
      /\ out.apply = NotMade \/ out.apply = out.xforms
      /\ out.stat = "Ok" => Carried(objs, out.xforms, srcSpace, dest)
  BY <1>1, BegunCarries
<1>4. NotMade' = NotMade BY DEF NotMade, NoXform, Xform
<1>5. apply' = NotMade \/ (apply' = xforms' /\ phase' = "begun") BY <1>2, <1>3
<1>6. phase' = "begun" => Carried(objs', xforms', srcSpace', destSpace')
  <2>1. phase' = "begun" => Carried(objs, out.xforms, srcSpace, dest) BY <1>2, <1>3
  <2> QED BY <1>1, <1>2, <2>1, Zenon
<1> QED BY <1>4, <1>5, <1>6 DEF CarriedInv

LEMMA CarriedRemoveAllIO ==
  ASSUME ChainInv, CarriedInv, RemoveAllIO PROVE CarriedInv'
<1>1. /\ xforms' = xforms /\ phase' = phase /\ apply' = apply
      /\ srcSpace' = srcSpace /\ destSpace' = destSpace
      /\ Sound(objs, client, xforms) /\ Carried(objs, xforms, srcSpace, destSpace)
  BY DEF RemoveAllIO, ChainInv, CarriedInv, spaces
<1> DEFINE is == objs'
<1>2. \A o \in 1 .. Len(objs) : is[o].file = objs[o].file
  <2>1. CASE is = objs BY <2>1
  <2>2. CASE is = [o \in DOMAIN objs |->
                     IF \E i \in DOMAIN xforms : xforms[i].prof = o
                     THEN [objs[o] EXCEPT !.io = "none"] ELSE objs[o]]
    <3>1. Objects(objs) /\ DOMAIN objs = 1 .. Len(objs) BY <1>1, ListDomain DEF Sound, Objects
    <3>2. \A o \in 1 .. Len(objs) : is[o] = objs[o] \/ is[o] = [objs[o] EXCEPT !.io = "none"]
      BY <2>2, <3>1, Zenon
    <3>3. ASSUME NEW o \in 1 .. Len(objs) PROVE is[o].file = objs[o].file
      <4>1. Obj(objs[o]) BY <3>1 DEF Objects
      <4> DEFINE r == [objs[o] EXCEPT !.io = "none"]
      <4>2. r.file = objs[o].file BY <4>1, IORemoved
      <4>3. is[o] = objs[o] \/ is[o] = r BY <3>2
      <4> HIDE DEF r, is
      <4> QED BY <4>2, <4>3
    <3> QED BY <3>3
  <2> QED BY <2>1, <2>2 DEF RemoveAllIO
<1> HIDE DEF is
<1>3. \A i \in 1 .. Len(xforms) : xforms[i].prof # 0 =>
        HeaderOf(is, xforms[i].prof) = HeaderOf(objs, xforms[i].prof)
  BY <1>1, <1>2 DEF Sound, Anchored, HeaderOf
<1>4. List(xforms) BY <1>1 DEF Sound
<1>5. Carried(is, xforms, srcSpace, destSpace) BY <1>1, <1>3, <1>4, CarriedKept
<1>6. Carried(objs', xforms', srcSpace', destSpace') BY <1>1, <1>5, Zenon DEF is
<1>7. apply' = NotMade \/ (apply' = xforms' /\ phase' = "begun") BY <1>1 DEF CarriedInv
<1> QED BY <1>6, <1>7 DEF CarriedInv, NotMade, NoXform, Xform

LEMMA CarriedNext ==
  ASSUME ChainInv, CarriedInv, [Next]_vars PROVE CarriedInv'
<1>0. \A a : a = NotMade' <=> a = NotMade BY DEF NotMade, NoXform, Xform
<1>1. CASE UNCHANGED vars
  <2>1. /\ objs' = objs /\ xforms' = xforms /\ phase' = phase /\ apply' = apply
        /\ srcSpace' = srcSpace /\ destSpace' = destSpace
    BY <1>1 DEF vars, spaces
  <2>2. phase' = "begun" => Carried(objs', xforms', srcSpace', destSpace')
    BY <2>1, Zenon DEF CarriedInv
  <2> QED BY <1>0, <2>1, <2>2 DEF CarriedInv
<1>2. ASSUME phase' = "adding", phase = "adding", apply' = apply PROVE CarriedInv'
  BY <1>0, <1>2 DEF CarriedInv
<1>3. ASSUME NEW f \in File, OpenProfile(f) PROVE CarriedInv'
  BY <1>2, <1>3 DEF OpenProfile
<1>4. ASSUME NEW o \in 1 .. MaxObjects, NEW lut \in LutTypes, AddXform(o, lut) PROVE CarriedInv'
  BY <1>2, <1>4 DEF AddXform
<1>5. ASSUME NEW o \in 1 .. MaxObjects, NEW lut \in LutTypes, AddXformByReference(o, lut)
      PROVE  CarriedInv'
  BY <1>2, <1>5 DEF AddXformByReference
<1>6. CASE NewApply
  <2>1. /\ objs' = objs /\ xforms' = xforms /\ phase' = phase /\ phase = "begun"
        /\ srcSpace' = srcSpace /\ destSpace' = destSpace
        /\ apply' = xforms \/ apply' = NotMade
    BY <1>6 DEF NewApply, spaces
  <2>2. Carried(objs', xforms', srcSpace', destSpace') BY <2>1, Zenon DEF CarriedInv
  <2> QED BY <1>0, <2>1, <2>2 DEF CarriedInv
<1>7. CASE DeleteCmm
  <2>1. apply' = NotMade /\ phase' = "deleted" BY <1>7 DEF DeleteCmm
  <2> QED BY <1>0, <2>1 DEF CarriedInv
<1> QED BY <1>1, <1>3, <1>4, <1>5, <1>6, <1>7, CarriedBegin, CarriedRemoveAllIO DEF Next

LEMMA CarriedHolds == ChainInv /\ CarriedInv => ColourCarried
<1> SUFFICES ASSUME ChainInv, CarriedInv, apply # NotMade,
                    NEW i \in DOMAIN apply, Profile(apply[i])
    PROVE  /\ (\A j \in 1 .. i - 1 : ~Profile(apply[j])) => TakenFromClient(i)
           /\ After(i) > Len(apply) => GivenToClient(i)
           /\ After(i) <= Len(apply) =>
                ("No" \in {apply[i].mcs, apply[After(i)].mcs} => HandedOn(i))
  BY DEF ColourCarried
<1>1. apply = xforms /\ Carried(objs, xforms, srcSpace, destSpace) BY DEF CarriedInv
<1>2. Carried(objs, apply, srcSpace, destSpace) BY <1>1, Zenon
<1>3. i \in 1 .. Len(apply) BY <1>1, ListDomain DEF ChainInv, Sound
<1>4. After(i) = Past(apply, i) BY Zenon DEF After, Past
<1>5. \A k : StepsAt(k) = StepsIn(apply, k) BY Zenon DEF StepsAt, StepsIn
<1>6. /\ (\A j \in 1 .. i - 1 : ~Profile(apply[j])) =>
           Taken(objs, apply[i], srcSpace, StepsAt(i - 1))
      /\ After(i) > Len(apply) => Given(objs, apply[i], destSpace, StepsAt(i + 1))
      /\ After(i) <= Len(apply) =>
           ("No" \in {apply[i].mcs, apply[After(i)].mcs} =>
              Handed(objs, apply[i], apply[After(i)], StepsAt(i + 1)))
  BY <1>2, <1>3, <1>4, <1>5 DEF Carried
<1>7. Taken(objs, apply[i], srcSpace, StepsAt(i - 1)) => TakenFromClient(i)
  BY Zenon DEF Taken, TakenFromClient
<1>8. Given(objs, apply[i], destSpace, StepsAt(i + 1)) => GivenToClient(i)
  BY Zenon DEF Given, GivenToClient
<1>9. Handed(objs, apply[i], apply[After(i)], StepsAt(i + 1)) => HandedOn(i)
  BY Zenon DEF Handed, HandedOn
<1> QED BY <1>6, <1>7, <1>8, <1>9

-----------------------------------------------------------------------------
(* Theorems. *)

(* Every profile object is the client's, or exactly one transform's, or was  *)
(* deleted once, whichever AddXform took, refused or copied it               *)
(* (IccCmm.cpp:8536-8968), after Begin, and after the CMM is deleted.        *)
THEOREM ProfilesHaveOneOwner == Spec => []OneOwner
<1>1. ChainInv => OneOwner
  <2> SUFFICES ASSUME ChainInv, NEW o \in DOMAIN objs
               PROVE  Cardinality(OwnersOf(o)) + Cardinality({o} \cap client)
                        + objs[o].freed = 1
    BY DEF OneOwner
  <2>1. Sound(objs, client, xforms) BY DEF ChainInv
  <2>2. o \in 1 .. Len(objs) BY <2>1, ListDomain DEF Sound, Objects
  <2>3. /\ (\A i \in 1 .. Len(xforms) : ~OwnsIt(xforms[i], o)) => Cardinality(OwnersOf(o)) = 0
        /\ (\E i \in 1 .. Len(xforms) : OwnsIt(xforms[i], o)) => Cardinality(OwnersOf(o)) = 1
    BY <2>1, <2>2, OwnersCounted
  <2>4. Cardinality({o} \cap client) = IF o \in client THEN 1 ELSE 0
    <3>1. CASE o \in client
      <4>1. {o} \cap client = {o} BY <3>1
      <4> QED BY <3>1, <4>1, FS_Singleton
    <3>2. CASE o \notin client
      <4>1. {o} \cap client = {} BY <3>2
      <4> QED BY <3>2, <4>1, FS_EmptySet
    <3> QED BY <3>1, <3>2
  <2> HIDE DEF OwnsIt
  <2>5. /\ o \in client => objs[o].freed = 0 /\ \A i \in 1 .. Len(xforms) : ~OwnsIt(xforms[i], o)
        /\ objs[o].freed = 1 => \A i \in 1 .. Len(xforms) : ~OwnsIt(xforms[i], o)
        /\ objs[o].freed = 0 /\ o \notin client => \E i \in 1 .. Len(xforms) : OwnsIt(xforms[i], o)
        /\ objs[o].freed \in {0, 1}
    BY <2>1, <2>2 DEF Sound, Owned, Objects
  <2> QED BY <2>3, <2>4, <2>5
<1> QED BY <1>1, ChainInvariant, PTL

(* No transform of the chain refers to a deleted profile, those of range     *)
(* conversions, which borrow their neighbour's, included, and no call used   *)
(* an object after it was deleted.                                           *)
THEOREM NothingDangles == Spec => []NoDangling
<1>1. ChainInv => NoDangling
  <2> SUFFICES ASSUME ChainInv PROVE NoDangling OBVIOUS
  <2>1. Sound(objs, client, xforms) /\ ~fault BY DEF ChainInv
  <2>2. ASSUME NEW i \in DOMAIN xforms, Profile(xforms[i])
        PROVE  objs[xforms[i].prof].freed = 0
    <3>1. i \in 1 .. Len(xforms) BY <2>1, ListDomain DEF Sound
    <3>2. xforms[i].prof # 0 BY <2>2 DEF Profile
    <3> DEFINE o == xforms[i].prof
    <3>3. o \in 1 .. Len(objs) /\ \E j \in 1 .. Len(xforms) : OwnsIt(xforms[j], o)
      BY <2>1, <3>1, <3>2 DEF Sound, Anchored
    <3> HIDE DEF o, OwnsIt
    <3>4. objs[o].freed # 1 /\ objs[o].freed \in {0, 1}
      BY <2>1, <3>3 DEF Sound, Owned, Objects
    <3> QED BY <3>4 DEF o
  <2> QED BY <2>1, <2>2 DEF NoDangling
<1> QED BY <1>1, ChainInvariant, PTL

(* The IO object of a client's profile is lent to the copy that AddXform by  *)
(* reference makes, and taken back before AddXform returns, on every path.   *)
THEOREM LentIOReturned == Spec => []LentReturned
<1>1. ChainInv => LentReturned
  <2> SUFFICES ASSUME ChainInv, NEW o \in DOMAIN objs PROVE objs[o].io # "lent"
    BY DEF LentReturned
  <2>1. o \in 1 .. Len(objs) BY ListDomain DEF ChainInv, Sound, Objects
  <2> QED BY <2>1 DEF ChainInv, LentTo
<1> QED BY <1>1, ChainInvariant, PTL

(* An AddXform that is refused leaves the chain with the same profiles in    *)
(* the same order, though it made the last transform anew for an MCS link.   *)
THEOREM RefusalsKeepProfiles == Spec => RefusalKeepsProfiles
<1>1. ASSUME ChainInv, [Next]_vars
      PROVE  [phase' = "adding" /\ ret' # "Ok" =>
                /\ Len(xforms') = Len(xforms)
                /\ \A i \in DOMAIN xforms : xforms'[i].prof = xforms[i].prof]_vars
  <2>1. CASE UNCHANGED vars BY <2>1
  <2>2. CASE Next
    <3>1. DOMAIN xforms = 1 .. Len(xforms) BY <1>1, ListDomain DEF ChainInv, Sound
    <3>2. phase' = "adding" /\ ret' # "Ok" => SameProfiles(xforms', xforms)
      BY <1>1, <2>2, ChainNext
    <3> QED BY <3>1, <3>2 DEF SameProfiles
  <2> QED BY <1>1, <2>1, <2>2
<1> QED BY <1>1, ChainInvariant, PTL DEF Spec, RefusalKeepsProfiles

(* Optimize joins, drops and reduces steps until a pass joins nothing, and   *)
(* what is left makes the same of every level, each step reading the channels *)
(* the one before writes, in buffers that have room (IccCmm.cpp:2670-2757).  *)
THEOREM OptimizeKeepsColours ==
  ASSUME NEW steps, NEW in, Fits(steps, in)
  PROVE  /\ \A v \in Level : Run(Optimize(steps), v) = Run(steps, v)
         /\ Chained(Optimize(steps), in, End(steps, in))
<1>1. /\ Fits(Optimize(steps), in) /\ End(Optimize(steps), in) = End(steps, in)
      /\ \A v \in Level : Run(Optimize(steps), v) = Run(steps, v)
  BY OptimizeFits
<1> DEFINE list == Optimize(steps)
<1> HIDE DEF list
<1>2. Chained(list, in, End(list, in)) BY <1>1, FitsChained DEF list
<1> QED BY <1>1, <1>2 DEF list

(* Whatever two sides Connect links, encodings, viewing conditions, ranges    *)
(* and adjustments, the steps it leaves take each level to the one that means *)
(* the same colour on the other side (IccCmm.cpp:2188-2337).                 *)
THEOREM ConversionsKeepColours ==
  ASSUME NEW x, NEW y, GoodSide(x), GoodSide(y), x.space \in Spectral => Seen(x),
         ConnectSides(x, y).stat = "Ok"
  PROVE  LET steps == Finished(ConnectSides(x, y)).steps
         IN Carries(x, y, steps) /\ Chained(steps, Channels(x), Channels(y))
<1> DEFINE a == ConnectSides(x, y)
<1>1. a.stat = "Ok" /\ Converts(x, y, a.steps) BY SidesConvert
<1> HIDE DEF a
<1>2. Finished(a).stat \in {"Ok", "Identity"}
  <2> DEFINE list == Optimize(a.steps)
             f == Finished(a)
  <2>1. f = [stat |-> IF list = <<>> THEN "Identity" ELSE "Ok", steps |-> list]
    BY <1>1, Zenon DEF Finished
  <2> HIDE DEF list, f
  <2>2. f.stat \in {"Ok", "Identity"} BY <2>1
  <2> QED BY <2>2 DEF f
<1>3. Converts(x, y, Finished(a).steps)
  <2>1. a.stat = "Ok" => Converts(x, y, a.steps) BY <1>1
  <2>2. a.stat # "Identity" BY <1>1
  <2> QED BY <1>2, <2>1, <2>2, FinishedIs
<1> QED BY <1>3, ConvertsCarries DEF a

(* In every chain that Begin leaves to be applied, each transform is given    *)
(* the level that means the colour the one before it put out, and the first   *)
(* and the last agree with the client's encodings, for any number of profiles *)
(* and whatever their headers, conditions and lut types; the steps between    *)
(* them fit one another (CheckPCSConnections, IccCmm.cpp:8987-9105).          *)
THEOREM ColourIsCarried == Spec => []ColourCarried
<1>1. Init => CarriedInv
  <2>1. Init => apply = NotMade /\ phase = "adding" BY DEF Init
  <2> QED BY <2>1 DEF CarriedInv
<1>2. ChainInv /\ CarriedInv /\ [Next]_vars => CarriedInv' BY CarriedNext
<1>3. ChainInv /\ [Next]_vars => ChainInv' BY ChainNext
<1> QED BY ChainInit, CarriedHolds, <1>1, <1>2, <1>3, PTL DEF Spec
=============================================================================
