-------------------------- MODULE IccProfile_proofs --------------------------
(***************************************************************************)
(* Theorems about IccProfile, for every value of its constants.  First the   *)
(* types and the ownership of tag objects under every sequence of public     *)
(* calls; then, with the habits of the repository's callers (CarefulSpec),   *)
(* that every entry of a directory serves the payload it was listed with,    *)
(* and that every IO object is closed once, by the profile that owns it.     *)
(***************************************************************************)
EXTENDS IccProfile, TLAPS, FiniteSetTheorems, WellFoundedInduction

-----------------------------------------------------------------------------
(* Offsets *)

LEMMA NodeCount ==
  ASSUME NEW S \in SUBSET NodeId
  PROVE  Cardinality(S) \in 0 .. MaxTags
<1>1. MaxTags \in Nat BY BoundAssumption
<1>2. IsFiniteSet(NodeId) /\ Cardinality(NodeId) = MaxTags
  BY <1>1, FS_Interval DEF NodeId
<1>3. IsFiniteSet(S) /\ Cardinality(S) <= MaxTags
  BY <1>2, FS_Subset
<1>4. Cardinality(S) \in Nat BY <1>3, FS_CardinalityType
<1> QED BY <1>1, <1>3, <1>4

(* Write gives every entry an offset behind the directory it writes. *)
LEMMA WriteOffsetInSlot ==
  ASSUME NEW t, NEW n PROVE WriteOffset(t, n) \in Slot
<1>1. Loaded(t) \in SUBSET NodeId /\ WrittenBefore(t, n) \in SUBSET NodeId
  BY DEF Loaded, Nodes, WrittenBefore
<1>2. /\ Cardinality(Loaded(t)) \in 0 .. MaxTags
      /\ Cardinality(WrittenBefore(t, n)) \in 0 .. MaxTags
  BY <1>1, NodeCount
<1> QED BY <1>2 DEF WriteOffset, Slot

LEMMA SlotIsOffset == Slot \subseteq Offset /\ 0 \in Offset
BY DEF Offset
-----------------------------------------------------------------------------
(* Types of the helpers *)

Directory == [NodeId -> TagEntry \cup {NoEntry}]
Heap      == [Obj -> Payload]

LEMMA EntryType ==
  ASSUME NEW t \in Directory, NEW n \in Nodes(t)
  PROVE  n \in NodeId /\ t[n] \in TagEntry /\ t[n] # NoEntry
BY NullAssumption DEF Directory, Nodes

LEMMA AssociatedType ==
  ASSUME NEW t \in Directory, NEW X, NEW a \in [X -> Obj]
  PROVE  Associated(t, X, a) \in Directory
<1> SUFFICES ASSUME NEW n \in NodeId
             PROVE  (IF n \in Nodes(t) /\ t[n].off \in X
                      THEN [t[n] EXCEPT !.pTag = a[t[n].off]] ELSE t[n])
                      \in TagEntry \cup {NoEntry}
  BY DEF Associated, Directory
<1>1. CASE n \in Nodes(t) /\ t[n].off \in X
  BY <1>1, EntryType DEF TagEntry
<1>2. CASE ~(n \in Nodes(t) /\ t[n].off \in X)
  BY <1>2 DEF Directory
<1> QED BY <1>1, <1>2

LEMMA RemappedType ==
  ASSUME NEW t \in Directory, NEW S \in SUBSET Obj, NEW a \in [S -> Obj]
  PROVE  Remapped(t, S, a) \in Directory
<1> SUFFICES ASSUME NEW n \in Nodes(t)
             PROVE  [t[n] EXCEPT !.pTag = IF @ \in S THEN a[@] ELSE NoObj] \in TagEntry
  BY DEF Remapped, Directory, Nodes
<1> QED BY EntryType DEF TagEntry

LEMMA PlacedType ==
  ASSUME NEW t \in Directory, NEW P \in SUBSET Loaded(t), NEW Z \in SUBSET Loaded(t)
  PROVE  Placed(t, P, Z) \in Directory
<1> SUFFICES ASSUME NEW n \in NodeId
             PROVE  (IF n \in P THEN [t[n] EXCEPT !.off = WriteOffset(t, n)]
                     ELSE IF n \in Z THEN [t[n] EXCEPT !.off = 0] ELSE t[n])
                      \in TagEntry \cup {NoEntry}
  BY DEF Placed, Directory
<1>1. CASE n \in P \cup Z
  <2>1. n \in Nodes(t) BY <1>1 DEF Loaded
  <2>2. t[n] \in TagEntry BY <2>1, EntryType
  <2>3. WriteOffset(t, n) \in Offset BY WriteOffsetInSlot, SlotIsOffset
  <2> QED BY <2>2, <2>3, SlotIsOffset DEF TagEntry
<1>2. CASE n \notin P \cup Z
  BY <1>2 DEF Directory
<1> QED BY <1>1, <1>2

LEMMA ConstructedType ==
  ASSUME NEW h \in Heap, NEW X, NEW a \in [X -> Obj], NEW d,
         \A x \in X : d[x] \in Payload
  PROVE  Constructed(h, X, a, d) \in Heap
BY DEF Constructed, Heap

LEMMA DestroyedType ==
  ASSUME NEW h \in Heap, NEW S PROVE Destroyed(h, S) \in Heap
BY DEF Destroyed, Heap, Payload

LEMMA AllocsType ==
  ASSUME NEW X, NEW a \in Allocs(X)
  PROVE  a \in [X -> Obj] /\ \A x \in X : a[x] \in Free
BY DEF Allocs, Free

LEMMA FilesType ==
  ASSUME TypeOK, NEW f \in IO, NEW x \in Slot PROVE file[f].at[x] \in Payload
BY DEF TypeOK, File

LEMMA ReadBasicType ==
  ASSUME TypeOK, NEW f \in IO PROVE ReadBasic(f) \in Directory
<1> SUFFICES ASSUME NEW n \in NodeId, file[f].dir[n] # NoEntry
             PROVE  [sig |-> file[f].dir[n].sig, off |-> file[f].dir[n].off,
                     pTag |-> NoObj, listed |-> ListedAt(f, file[f].dir[n].off)] \in TagEntry
  BY DEF ReadBasic, Directory
<1>1. file[f].dir[n] \in DirEntry BY DEF TypeOK, File
<1>2. ListedAt(f, file[f].dir[n].off) \in Payload
  BY FilesType DEF ListedAt, Payload
<1> QED BY <1>1, <1>2 DEF DirEntry, TagEntry

(* LoadTag was able to read every offset in LoadSet. *)
LEMMA LoadSetReadable ==
  ASSUME NEW t, NEW f
  PROVE  LoadSet(t, f) \subseteq Slot /\ \A x \in LoadSet(t, f) : CanRead(f, x)
<1> SUFFICES ASSUME NEW n \in Unloaded(t), \A m \in Failing(t, f) : n < m,
                    n \in NodeId
             PROVE  CanRead(f, t[n].off)
  BY DEF LoadSet, Unloaded, Nodes, CanRead
<1>1. CASE n \in Failing(t, f)
  <2>1. n \in Nat BY DEF NodeId
  <2> QED BY <1>1, <2>1
<1>2. CASE n \notin Failing(t, f)
  BY <1>2 DEF Failing
<1> QED BY <1>1, <1>2

LEMMA WrittenFileType ==
  ASSUME TypeOK, NEW t \in Directory, NEW P \in SUBSET Loaded(t)
  PROVE  WrittenFile(t, P) \in File
<1>1. ASSUME NEW n \in NodeId
      PROVE  (IF n \in P THEN [sig |-> t[n].sig, off |-> WriteOffset(t, n)]
              ELSE IF n \in Loaded(t) THEN [sig |-> t[n].sig, off |-> 0]
              ELSE NoEntry) \in DirEntry \cup {NoEntry}
  <2>1. CASE n \in Loaded(t)
    <3>1. t[n].sig \in Sig BY <2>1, EntryType DEF Loaded, TagEntry
    <3>2. WriteOffset(t, n) \in Offset BY WriteOffsetInSlot, SlotIsOffset
    <3> QED BY <3>1, <3>2, SlotIsOffset DEF DirEntry
  <2> QED BY <2>1
<1>2. ASSUME NEW x \in Slot, \E n \in Loaded(t) : WriteOffset(t, n) = x
      PROVE  data[t[CHOOSE n \in Loaded(t) : WriteOffset(t, n) = x].pTag] \in Payload
  <2>1. PICK n \in Loaded(t) : n = CHOOSE m \in Loaded(t) : WriteOffset(t, m) = x
    BY <1>2
  <2>2. t[n].pTag \in Obj BY <2>1, EntryType DEF Loaded, TagEntry
  <2> QED BY <2>1, <2>2 DEF TypeOK
<1>3. NoData \in Payload BY DEF Payload
<1> QED BY <1>1, <1>2, <1>3 DEF WrittenFile, File

LEMMA EmptyFileType == EmptyFile \in File
BY DEF EmptyFile, File, NoTags, Payload
-----------------------------------------------------------------------------
(* Type correctness *)

(* What an action must establish about one profile p for the types to hold. *)
LEMMA LoadType ==
  ASSUME TypeOK, NEW p \in Profile, NEW f \in IO, NEW X \in SUBSET Slot,
         Load(p, f, X), UNCHANGED <<alive, attachIO, sharedIO, file, open>>
  PROVE  TypeOK'
<1>1. PICK a \in Allocs(X) :
        /\ tags' = [tags EXCEPT ![p] = Associated(@, X, a)]
        /\ vals' = [vals EXCEPT ![p] = @ \cup {a[x] : x \in X}]
        /\ data' = Constructed(data, X, a, file[f].at)
  BY DEF Load
<1>2. a \in [X -> Obj] BY AllocsType
<1>3. tags[p] \in Directory /\ data \in Heap BY DEF TypeOK, Directory, Heap
<1>4. Associated(tags[p], X, a) \in Directory BY <1>2, <1>3, AssociatedType
<1>5. Constructed(data, X, a, file[f].at) \in Heap
  BY <1>2, <1>3, FilesType, ConstructedType
<1> QED BY <1>1, <1>2, <1>4, <1>5 DEF TypeOK, Directory, Heap

LEMMA CleanupType ==
  ASSUME TypeOK, NEW p \in Profile, Cleanup(p)
  PROVE  /\ tags' \in [Profile -> [NodeId -> TagEntry \cup {NoEntry}]]
         /\ vals' \in [Profile -> SUBSET Obj]
         /\ attachIO' \in [Profile -> IO \cup {NoIO}]
         /\ data' \in [Obj -> Payload]
         /\ open' \in SUBSET IO
BY DestroyedType DEF TypeOK, Cleanup, NoTags, Heap

LEMMA AttachType ==
  ASSUME TypeOK, NEW p \in Profile, NEW f \in IO, Attach(p, f) PROVE TypeOK'
<1>1. ReadBasic(f) \in Directory BY ReadBasicType
<1>2. Destroyed(data, vals[p]) \in Heap BY DestroyedType DEF TypeOK, Heap
<1> QED BY <1>1, <1>2 DEF Attach, TypeOK, Directory, Heap

LEMMA ReadType ==
  ASSUME TypeOK, NEW p \in Profile, NEW f \in IO, Read(p, f) PROVE TypeOK'
<1> DEFINE cleanup == Nodes(tags[p]) # {}
           heap    == IF cleanup THEN Destroyed(data, vals[p]) ELSE data
           t       == ReadBasic(f)
           X       == LoadSet(t, f)
<1>1. PICK a \in Allocs(X) :
        /\ tags' = [tags EXCEPT ![p] = Associated(t, X, a)]
        /\ vals' = [vals EXCEPT ![p] = (IF cleanup THEN {} ELSE @) \cup {a[x] : x \in X}]
        /\ data' = Constructed(heap, X, a, file[f].at)
  BY DEF Read
<1>2. a \in [X -> Obj] BY AllocsType
<1>3. t \in Directory BY ReadBasicType
<1>4. heap \in Heap BY DestroyedType DEF TypeOK, Heap
<1>5. Associated(t, X, a) \in Directory BY <1>2, <1>3, AssociatedType
<1>6. X \subseteq Slot BY LoadSetReadable
<1>7. Constructed(heap, X, a, file[f].at) \in Heap
  BY <1>2, <1>4, <1>6, FilesType, ConstructedType
<1>8. /\ open' = open \ (IF cleanup THEN ClosedBy(p) ELSE {})
      /\ attachIO' = [attachIO EXCEPT ![p] = IF cleanup THEN NoIO ELSE @]
      /\ UNCHANGED <<alive, sharedIO, file>>
  BY DEF Read
<1> HIDE DEF cleanup, heap, t, X
<1> QED BY <1>1, <1>2, <1>5, <1>7, <1>8 DEF TypeOK, Directory, Heap

LEMMA EditType ==
  ASSUME TypeOK, NEW p \in Profile, LoadOrEdit(p) PROVE TypeOK'
<1>1. ASSUME NEW s \in Sig, FindTag(p, s) PROVE TypeOK'
  <2>1. PICK n \in NodeId :
          /\ attachIO[p] \in open
          /\ CanRead(attachIO[p], tags[p][n].off)
          /\ Load(p, attachIO[p], {tags[p][n].off})
          /\ UNCHANGED <<alive, attachIO, sharedIO, file, open>>
    BY <1>1 DEF FindTag
  <2>2. attachIO[p] \in IO /\ {tags[p][n].off} \in SUBSET Slot
    BY <2>1 DEF CanRead, TypeOK
  <2> QED BY <2>1, <2>2, LoadType
<1>2. ASSUME NEW s \in Sig, NEW o \in Obj, NEW d \in Data, AttachTag(p, s, o, d)
      PROVE  TypeOK'
  <2>1. [sig |-> s, off |-> 0, pTag |-> o, listed |-> d] \in TagEntry
    BY SlotIsOffset DEF TagEntry, Payload
  <2> QED BY <1>2, <2>1 DEF AttachTag, TypeOK, Payload
<1>3. ASSUME NEW s \in Sig, DeleteTag(p, s) PROVE TypeOK'
  <2>1. PICK n \in NodeId :
          LET t    == Erased(tags[p], n)
              dead == Orphans(t, tags[p][n].pTag) IN
          /\ tags' = [tags EXCEPT ![p] = t]
          /\ vals' = [vals EXCEPT ![p] = @ \ dead]
          /\ data' = Destroyed(data, dead)
          /\ UNCHANGED <<alive, attachIO, sharedIO, file, open>>
    BY <1>3 DEF DeleteTag
  <2>2. Erased(tags[p], n) \in Directory BY DEF Erased, Directory, TypeOK
  <2>3. Destroyed(data, Orphans(Erased(tags[p], n), tags[p][n].pTag)) \in Heap
    BY DestroyedType DEF TypeOK, Heap
  <2> QED BY <2>1, <2>2, <2>3 DEF TypeOK, Directory, Heap
<1>4. ASSUME Detach(p) PROVE TypeOK'
  BY <1>4 DEF Detach, TypeOK
<1> QED BY <1>1, <1>2, <1>3, <1>4 DEF LoadOrEdit

LEMMA CopyType ==
  ASSUME TypeOK, NEW p \in Profile, NEW q \in Profile,
         Copy(p, q) \/ Assign(p, q) PROVE TypeOK'
<1>0. tags[q] \in Directory /\ vals[q] \in SUBSET Obj /\ data \in Heap
  BY DEF TypeOK, Directory, Heap
<1>1. CASE Copy(p, q)
  <2>1. PICK a \in Allocs(vals[q]) :
          /\ tags' = [tags EXCEPT ![p] = Remapped(tags[q], vals[q], a)]
          /\ vals' = [vals EXCEPT ![p] = {a[o] : o \in vals[q]}]
          /\ data' = Constructed(data, vals[q], a, data)
    BY <1>1 DEF Copy
  <2>2. a \in [vals[q] -> Obj] BY AllocsType
  <2>3. Remapped(tags[q], vals[q], a) \in Directory BY <1>0, <2>2, RemappedType
  <2>4. Constructed(data, vals[q], a, data) \in Heap
    BY <1>0, <2>2 DEF Constructed, Heap
  <2>5. /\ alive' = alive \cup {p}
        /\ sharedIO' = [sharedIO EXCEPT ![p] = FALSE]
        /\ UNCHANGED <<attachIO, file, open>>
    BY <1>1 DEF Copy
  <2>6. {a[o] : o \in vals[q]} \in SUBSET Obj BY <2>2
  <2> QED BY <2>1, <2>3, <2>4, <2>5, <2>6 DEF TypeOK, Directory, Heap
<1>2. CASE Assign(p, q)
  <2>1. PICK a \in [vals[q] -> Free \cup vals[p]] :
          /\ tags' = [tags EXCEPT ![p] = Remapped(tags[q], vals[q], a)]
          /\ vals' = [vals EXCEPT ![p] = {a[o] : o \in vals[q]}]
          /\ data' = Constructed(Destroyed(data, vals[p]), vals[q], a, data)
    BY <1>2 DEF Assign
  <2>2. a \in [vals[q] -> Obj] BY DEF Free, TypeOK
  <2>3. Remapped(tags[q], vals[q], a) \in Directory BY <1>0, <2>2, RemappedType
  <2>4. Destroyed(data, vals[p]) \in Heap BY <1>0, DestroyedType
  <2>6. Constructed(Destroyed(data, vals[p]), vals[q], a, data) \in Heap
    BY <1>0, <2>2, <2>4 DEF Constructed, Heap
  <2>7. /\ attachIO' = [attachIO EXCEPT ![p] = NoIO]
        /\ open' = open \ ClosedBy(p)
        /\ UNCHANGED <<alive, sharedIO, file>>
    BY <1>2 DEF Assign
  <2>8. {a[o] : o \in vals[q]} \in SUBSET Obj BY <2>2
  <2> QED BY <2>1, <2>3, <2>6, <2>7, <2>8 DEF TypeOK, Directory, Heap
<1> QED BY <1>1, <1>2

LEMMA AddXformCopyType ==
  ASSUME TypeOK, NEW p \in Profile, NEW q \in Profile, AddXformCopy(p, q) PROVE TypeOK'
<1>0. tags[q] \in Directory /\ vals[q] \in SUBSET Obj /\ data \in Heap
  BY DEF TypeOK, Directory, Heap
<1> DEFINE U == {tags[q][n].off : n \in Unloaded(tags[q])}
<1>a. PICK X \in SUBSET {x \in U : attachIO[q] \in open /\ CanRead(attachIO[q], x)} :
        \E a \in Allocs(vals[q]), b \in Allocs(X) :
          /\ tags' = [tags EXCEPT ![p] = Associated(Remapped(tags[q], vals[q], a), X, b)]
          /\ vals' = [vals EXCEPT ![p] = {a[o] : o \in vals[q]} \cup {b[x] : x \in X}]
          /\ data' = LET copied == Constructed(data, vals[q], a, data) IN
                     IF X = {} THEN copied
                     ELSE Constructed(copied, X, b, file[attachIO[q]].at)
  BY DEF AddXformCopy
<1>1. PICK a \in Allocs(vals[q]), b \in Allocs(X) :
        /\ tags' = [tags EXCEPT ![p] = Associated(Remapped(tags[q], vals[q], a), X, b)]
        /\ vals' = [vals EXCEPT ![p] = {a[o] : o \in vals[q]} \cup {b[x] : x \in X}]
        /\ data' = LET copied == Constructed(data, vals[q], a, data) IN
                   IF X = {} THEN copied
                   ELSE Constructed(copied, X, b, file[attachIO[q]].at)
  BY <1>a
<1>2. a \in [vals[q] -> Obj] /\ b \in [X -> Obj] BY AllocsType
<1>3. Remapped(tags[q], vals[q], a) \in Directory BY <1>0, <1>2, RemappedType
<1>4. Associated(Remapped(tags[q], vals[q], a), X, b) \in Directory
  BY <1>2, <1>3, AssociatedType
<1>5. Constructed(data, vals[q], a, data) \in Heap
  BY <1>0, <1>2, ConstructedType DEF Heap
<1>6. X # {} => Constructed(Constructed(data, vals[q], a, data), X, b, file[attachIO[q]].at) \in Heap
  <2>1. SUFFICES ASSUME X # {} PROVE \A x \in X : file[attachIO[q]].at[x] \in Payload
    BY <1>2, <1>5, ConstructedType
  <2>2. attachIO[q] \in IO /\ X \subseteq Slot BY <2>1 DEF CanRead, TypeOK
  <2> QED BY <2>2, FilesType
<1>7. /\ alive' = alive \cup {p}
      /\ BorrowEnded(p, q)
      /\ sharedIO' = [sharedIO EXCEPT ![p] = FALSE]
      /\ UNCHANGED <<file, open>>
  BY DEF AddXformCopy
<1> HIDE DEF U
<1> QED BY <1>1, <1>2, <1>4, <1>5, <1>6, <1>7 DEF BorrowEnded, TypeOK, Directory, Heap

(* Write, finished or not, moves loaded entries and replaces one file. *)
WriteEffect(p, f) ==
  \E P \in SUBSET Loaded(tags[p]), Z \in SUBSET Loaded(tags[p]), g \in File :
    /\ tags' = [tags EXCEPT ![p] = Placed(@, P, Z)]
    /\ file' = [file EXCEPT ![f] = g]
    /\ UNCHANGED <<alive, vals, attachIO, sharedIO, data, open>>

LEMMA WriteShape ==
  ASSUME TypeOK, NEW p \in Profile, NEW f, WriteOrFail(p, f)
  PROVE  WriteEffect(p, f)
<1> USE DEF WriteEffect
<1>0. tags[p] \in Directory BY DEF TypeOK, Directory
<1>1. CASE Write(p, f)
  <2>1. WrittenFile(tags[p], Loaded(tags[p])) \in File BY <1>0, WrittenFileType
  <2> QED BY <1>0, <1>1, <2>1 DEF Write, TypeOK
<1>2. CASE WriteFailsInFirstPass(p, f)
  <2>1. PICK k \in Loaded(tags[p]) :
          /\ tags' = [tags EXCEPT ![p] = Placed(@, {}, {n \in Loaded(@) : n <= k})]
          /\ file' = [file EXCEPT ![f] = EmptyFile]
          /\ UNCHANGED <<alive, vals, attachIO, sharedIO, data, open>>
    BY <1>2 DEF WriteFailsInFirstPass
  <2>2. {n \in Loaded(tags[p]) : n <= k} \in SUBSET Loaded(tags[p]) OBVIOUS
  <2> QED BY <1>0, <2>1, <2>2, EmptyFileType DEF TypeOK
<1>3. CASE WriteFailsInTags(p, f)
  <2>1. PICK k \in Loaded(tags[p]) :
          /\ tags' = [tags EXCEPT ![p] = Placed(@, {n \in Loaded(@) : n <= k}, Loaded(@))]
          /\ file' = [file EXCEPT ![f] = [WrittenFile(tags[p], {}) EXCEPT !.at = EmptyFile.at]]
          /\ UNCHANGED <<alive, vals, attachIO, sharedIO, data, open>>
    BY <1>3 DEF WriteFailsInTags
  <2>2. {n \in Loaded(tags[p]) : n <= k} \in SUBSET Loaded(tags[p]) OBVIOUS
  <2>3. WrittenFile(tags[p], {}) \in File BY <1>0, WrittenFileType
  <2>4. [WrittenFile(tags[p], {}) EXCEPT !.at = EmptyFile.at] \in File
    BY <2>3, EmptyFileType DEF File
  <2> QED BY <2>1, <2>2, <2>4 DEF TypeOK
<1>4. CASE WriteFailsInLastPass(p, f)
  <2>1. PICK k \in Loaded(tags[p]) :
          /\ tags' = [tags EXCEPT ![p] = Placed(@, Loaded(@), {})]
          /\ file' = [file EXCEPT ![f] = WrittenFile(tags[p], {n \in Loaded(tags[p]) : n < k})]
          /\ UNCHANGED <<alive, vals, attachIO, sharedIO, data, open>>
    BY <1>4 DEF WriteFailsInLastPass
  <2>2. WrittenFile(tags[p], {n \in Loaded(tags[p]) : n < k}) \in File
    BY <1>0, WrittenFileType
  <2> QED BY <1>0, <2>1, <2>2 DEF TypeOK
<1>5. CASE WriteFailsInHeader(p, f)
  <2>1. Placed(tags[p], {}, {}) = tags[p] BY <1>0 DEF Placed, Directory
  <2>2. tags' = [tags EXCEPT ![p] = Placed(@, {}, {})]
    BY <1>5, <2>1 DEF WriteFailsInHeader, TypeOK
  <2> QED BY <1>5, <2>2, EmptyFileType DEF WriteFailsInHeader
<1> QED BY <1>1, <1>2, <1>3, <1>4, <1>5 DEF WriteOrFail

LEMMA WriteType ==
  ASSUME TypeOK, NEW p \in Profile, NEW f \in IO, WriteOrFail(p, f) PROVE TypeOK'
<1>0. tags[p] \in Directory BY DEF TypeOK, Directory
<1>a. WriteEffect(p, f) BY WriteShape
<1>1. PICK P \in SUBSET Loaded(tags[p]), Z \in SUBSET Loaded(tags[p]), g \in File :
        /\ tags' = [tags EXCEPT ![p] = Placed(@, P, Z)]
        /\ file' = [file EXCEPT ![f] = g]
        /\ UNCHANGED <<alive, vals, attachIO, sharedIO, data, open>>
  BY <1>a DEF WriteEffect
<1>2. Placed(tags[p], P, Z) \in Directory BY <1>0, PlacedType
<1> QED BY <1>1, <1>2 DEF TypeOK, Directory

LEMMA InitType == Init => TypeOK
BY FileAssumption DEF Init, TypeOK, NoTags, Payload

LEMMA LifeType ==
  ASSUME TypeOK, NEW p \in Profile, New(p) \/ Delete(p) \/ CopyAttachNull(p)
  PROVE  TypeOK'
<1>1. CASE New(p) BY <1>1 DEF New, TypeOK
<1>2. CASE Delete(p)
  <2>1. Cleanup(p) /\ alive' \in SUBSET Profile /\ UNCHANGED <<sharedIO, file>>
    BY <1>2 DEF Delete, TypeOK
  <2> QED BY <2>1, CleanupType DEF TypeOK
<1>3. CASE CopyAttachNull(p) BY <1>3 DEF CopyAttachNull, TypeOK
<1> QED BY <1>1, <1>2, <1>3

LEMMA FailureType ==
  ASSUME TypeOK, NEW p \in Profile, NEW f \in IO, AttachOrReadFails(p, f) PROVE TypeOK'
<1>1. Cleanup(p) /\ UNCHANGED <<alive, sharedIO, file>>
  BY DEF AttachOrReadFails
<1> QED BY <1>1, CleanupType DEF TypeOK

LEMMA ReadTagsType ==
  ASSUME TypeOK, NEW p \in Profile, NEW q \in Profile, ReadTags(p, q) PROVE TypeOK'
<1> DEFINE f == IF attachIO[q] # NoIO THEN attachIO[q] ELSE attachIO[p]
<1>1. /\ f \in open
      /\ Load(p, f, LoadSet(tags[p], f))
      /\ UNCHANGED <<alive, attachIO, sharedIO, file, open>>
  BY DEF ReadTags
<1>2. f \in IO BY <1>1 DEF TypeOK
<1>3. LoadSet(tags[p], f) \in SUBSET Slot BY LoadSetReadable
<1> QED BY <1>1, <1>2, <1>3, LoadType

LEMMA NextType == TypeOK /\ [Next]_vars => TypeOK'
<1> SUFFICES ASSUME TypeOK, [Next]_vars PROVE TypeOK'
  OBVIOUS
<1>1. CASE UNCHANGED vars BY <1>1 DEF vars, TypeOK
<1>2. CASE Next
  <2>1. PICK p \in Profile :
          \/ New(p)
          \/ Delete(p)
          \/ LoadOrEdit(p)
          \/ CopyAttachNull(p)
          \/ \E f \in IO : Attach(p, f) \/ AttachOrReadFails(p, f) \/ Read(p, f)
          \/ \E f \in Target : WriteOrFail(p, f)
          \/ \E q \in Profile : ReadTags(p, q) \/ CopyAttach(p, q) \/ Copy(p, q) \/ Assign(p, q)
    BY <1>2 DEF Next
  <2>2. CASE New(p) \/ Delete(p) \/ CopyAttachNull(p) BY <2>2, LifeType
  <2>3. CASE LoadOrEdit(p) BY <2>3, EditType
  <2>4. ASSUME NEW f \in IO, Attach(p, f) \/ AttachOrReadFails(p, f) \/ Read(p, f)
        PROVE  TypeOK'
    BY <2>4, AttachType, ReadType, FailureType
  <2>5. ASSUME NEW f \in Target, WriteOrFail(p, f) PROVE TypeOK'
    BY <2>5, WriteType, FileAssumption
  <2>6. ASSUME NEW q \in Profile,
               ReadTags(p, q) \/ CopyAttach(p, q) \/ Copy(p, q) \/ Assign(p, q)
        PROVE  TypeOK'
    BY <2>6, ReadTagsType, CopyType DEF CopyAttach, TypeOK
  <2> QED BY <2>1, <2>2, <2>3, <2>4, <2>5, <2>6
<1> QED BY <1>1, <1>2

(* Every variable keeps its type, whatever the order of the public calls. *)
THEOREM TypeCorrect == Spec => []TypeOK
<1>1. Init => TypeOK BY InitType
<1>2. TypeOK /\ [Next]_vars => TypeOK' BY NextType
<1> QED BY <1>1, <1>2, PTL DEF Spec
-----------------------------------------------------------------------------
(* Ownership of tag objects *)

Owned == EntriesOwned /\ OneOwner

(* Every operation on profile p keeps some of its objects, adds objects that    *)
(* were free or its own, deletes the others, and leaves other profiles alone.   *)
OwnershipChange(p, kept, new) ==
  /\ kept \subseteq vals[p]
  /\ new \subseteq Obj
  /\ \A o \in new : data[o] = NoData \/ o \in vals[p]
  /\ vals' = [vals EXCEPT ![p] = kept \cup new]
  /\ \A o \in kept \cup new : data'[o] # NoData
  /\ \A o \in vals[p] \ (kept \cup new) : data'[o] = NoData
  /\ \A o \in Obj \ (vals[p] \cup new) : data'[o] = data[o]
  /\ \A n \in Nodes(tags'[p]) : tags'[p][n].pTag \in kept \cup new \cup {NoObj}
  /\ \A q \in Profile \ {p} : tags'[q] = tags[q]
  /\ alive \ {p} \subseteq alive'
  /\ kept \cup new # {} => p \in alive'

(* The objects of other profiles keep their payload. *)
HeapFrame(p) == \A o \in Obj \ vals[p] : data[o] # NoData => data'[o] = data[o]

LEMMA OwnershipStep ==
  ASSUME TypeOK, Owned, NEW p \in Profile, NEW kept, NEW new,
         OwnershipChange(p, kept, new)
  PROVE  Owned' /\ HeapFrame(p)
<1> USE DEF OwnershipChange
<1>1. vals \in [Profile -> SUBSET Obj] BY DEF TypeOK
<1>2. \A q \in Profile \ {p} : vals'[q] = vals[q] BY <1>1
<1>3. vals'[p] = kept \cup new BY <1>1
<1>4. \A q \in Profile \ {p} : vals[q] \cap (kept \cup new) = {} /\ vals[q] \cap vals[p] = {}
  <2> SUFFICES ASSUME NEW q \in Profile \ {p}, NEW o \in vals[q]
               PROVE  o \notin new /\ o \notin vals[p]
    OBVIOUS
  <2>1. o \notin vals[p] BY DEF Owned, OneOwner
  <2>2. data[o] # NoData BY DEF Owned, EntriesOwned
  <2> QED BY <2>1, <2>2
<1>5. EntriesOwned'
  <2>1. ASSUME NEW q \in Profile, NEW n \in Nodes(tags'[q])
        PROVE  tags'[q][n].pTag \in vals'[q] \cup {NoObj}
    <3>1. CASE q = p BY <3>1, <2>1, <1>3
    <3>2. CASE q # p BY <3>2, <2>1, <1>2 DEF Owned, EntriesOwned
    <3> QED BY <3>1, <3>2
  <2>2. ASSUME NEW q \in Profile, NEW o \in vals'[q] PROVE data'[o] # NoData
    <3>1. CASE q = p BY <3>1, <2>2, <1>3
    <3>2. CASE q # p
      <4>1. o \in vals[q] /\ o \in Obj BY <3>2, <2>2, <1>1, <1>2
      <4>2. data'[o] = data[o] BY <3>2, <4>1, <1>4
      <4> QED BY <4>1, <4>2 DEF Owned, EntriesOwned
    <3> QED BY <3>1, <3>2
  <2> QED BY <2>1, <2>2 DEF EntriesOwned, Nodes
<1>6. OneOwner'
  <2>1. ASSUME NEW o \in Obj, data'[o] # NoData PROVE \E q \in alive' : o \in vals'[q]
    <3>1. CASE o \in kept \cup new BY <3>1, <1>3
    <3>2. CASE o \notin kept \cup new
      <4>1. o \notin vals[p] BY <3>2, <2>1
      <4>2. data[o] # NoData BY <3>2, <4>1, <2>1
      <4>3. PICK q \in alive : o \in vals[q] BY <4>2 DEF Owned, OneOwner
      <4>4. q \in Profile /\ q # p BY <4>1, <4>3 DEF TypeOK
      <4> QED BY <4>3, <4>4, <1>2
    <3> QED BY <3>1, <3>2
  <2>2. ASSUME NEW q \in Profile, NEW r \in Profile, vals'[q] \cap vals'[r] # {}
        PROVE  q = r
    BY <2>2, <1>2, <1>3, <1>4 DEF Owned, OneOwner
  <2> QED BY <2>1, <2>2 DEF OneOwner
<1>7. HeapFrame(p) BY DEF HeapFrame
<1> QED BY <1>5, <1>6, <1>7 DEF Owned

(* Constructed gives each new object its payload and leaves the rest alone. *)
Builds(h, X, a, d, h2) ==
  /\ \A x \in X : h2[a[x]] = d[x]
  /\ \A o \in Obj : o \notin {a[x] : x \in X} => h2[o] = h[o]

LEMMA ConstructedValues ==
  ASSUME NEW h, NEW X, NEW a \in [X -> Obj], NEW d,
         \A x, y \in X : a[x] = a[y] => x = y
  PROVE  Builds(h, X, a, d, Constructed(h, X, a, d))
<1>1. ASSUME NEW x \in X PROVE Constructed(h, X, a, d)[a[x]] = d[x]
  <2>1. (CHOOSE y \in X : a[y] = a[x]) = x OBVIOUS
  <2> QED BY <2>1 DEF Constructed
<1>2. ASSUME NEW o \in Obj, o \notin {a[x] : x \in X}
      PROVE  Constructed(h, X, a, d)[o] = h[o]
  BY <1>2 DEF Constructed
<1> QED BY <1>1, <1>2 DEF Builds

LEMMA LoadOwned ==
  ASSUME TypeOK, Owned, NEW p \in alive, NEW f \in IO, NEW X \in SUBSET Slot,
         \A x \in X : CanRead(f, x),
         Load(p, f, X), UNCHANGED <<alive, attachIO, sharedIO, file, open>>
  PROVE  Owned' /\ HeapFrame(p)
<1>1. PICK a \in Allocs(X) :
        /\ tags' = [tags EXCEPT ![p] = Associated(@, X, a)]
        /\ vals' = [vals EXCEPT ![p] = @ \cup {a[x] : x \in X}]
        /\ data' = Constructed(data, X, a, file[f].at)
  BY DEF Load
<1> DEFINE new == {a[x] : x \in X}
<1>2. /\ a \in [X -> Obj] /\ \A x \in X : a[x] \in Free
      /\ \A x, y \in X : a[x] = a[y] => x = y
  BY AllocsType DEF Allocs
<1>3. p \in Profile BY DEF TypeOK
<1>4. new \in SUBSET Obj /\ \A o \in new : data[o] = NoData BY <1>2 DEF Free
<1>5. vals[p] \in SUBSET Obj /\ \A o \in vals[p] : data[o] # NoData
  BY <1>3 DEF TypeOK, Owned, EntriesOwned
<1>6. /\ \A x \in X : data'[a[x]] = file[f].at[x]
      /\ \A o \in Obj : o \notin new => data'[o] = data[o]
  <2>1. Builds(data, X, a, file[f].at, Constructed(data, X, a, file[f].at))
    BY <1>2, ConstructedValues
  <2> QED BY <1>1, <2>1 DEF Builds
<1>7. \A o \in vals[p] \cup new : data'[o] # NoData BY <1>4, <1>5, <1>6 DEF CanRead
<1>8. \A n \in Nodes(tags'[p]) : tags'[p][n].pTag \in vals[p] \cup new \cup {NoObj}
  <2>1. tags[p] \in Directory /\ tags'[p] = Associated(tags[p], X, a)
    BY <1>1, <1>3 DEF TypeOK, Directory
  <2> SUFFICES ASSUME NEW n \in NodeId, Associated(tags[p], X, a)[n] # NoEntry
               PROVE  Associated(tags[p], X, a)[n].pTag \in vals[p] \cup new \cup {NoObj}
    BY <2>1 DEF Nodes
  <2>2. CASE n \in Nodes(tags[p]) /\ tags[p][n].off \in X
    <3>1. tags[p][n] \in TagEntry BY <2>1, <2>2, EntryType
    <3> QED BY <2>2, <3>1 DEF Associated, TagEntry
  <2>3. CASE ~(n \in Nodes(tags[p]) /\ tags[p][n].off \in X)
    <3>1. Associated(tags[p], X, a)[n] = tags[p][n] BY <2>3 DEF Associated
    <3>2. n \in Nodes(tags[p]) BY <3>1 DEF Nodes
    <3> QED BY <3>1, <3>2, <1>3 DEF Owned, EntriesOwned
  <2> QED BY <2>2, <2>3
<1>9. \A q \in Profile \ {p} : tags'[q] = tags[q] BY <1>1 DEF TypeOK
<1>10. vals' = [vals EXCEPT ![p] = vals[p] \cup new] BY <1>1
<1> HIDE DEF new
<1>11. OwnershipChange(p, vals[p], new)
  BY <1>3, <1>4, <1>5, <1>6, <1>7, <1>8, <1>9, <1>10 DEF OwnershipChange
<1> QED BY <1>3, <1>11, OwnershipStep

LEMMA CleanupOwned ==
  ASSUME TypeOK, Owned, NEW p \in Profile, Cleanup(p), alive \ {p} \subseteq alive'
  PROVE  Owned' /\ HeapFrame(p)
<1>1. /\ vals' = [vals EXCEPT ![p] = {} \cup {}]
      /\ tags'[p] = NoTags /\ \A q \in Profile \ {p} : tags'[q] = tags[q]
  BY DEF Cleanup, TypeOK
<1>2. vals[p] \in SUBSET Obj BY DEF TypeOK
<1>3. /\ \A o \in vals[p] : data'[o] = NoData
      /\ \A o \in Obj \ vals[p] : data'[o] = data[o]
  BY <1>2 DEF Cleanup, Destroyed
<1>4. Nodes(tags'[p]) = {} BY <1>1 DEF Nodes, NoTags
<1>5. OwnershipChange(p, {}, {})
  BY <1>1, <1>2, <1>3, <1>4 DEF OwnershipChange
<1> QED BY <1>5, OwnershipStep

(* The pTags an operation leaves alone: only offsets change. *)
LEMMA WriteOwned ==
  ASSUME TypeOK, Owned, NEW p \in Profile, NEW f, WriteOrFail(p, f)
  PROVE  Owned' /\ HeapFrame(p)
<1>a. WriteEffect(p, f) BY WriteShape
<1>1. PICK P \in SUBSET Loaded(tags[p]), Z \in SUBSET Loaded(tags[p]) :
        /\ tags' = [tags EXCEPT ![p] = Placed(@, P, Z)]
        /\ UNCHANGED <<alive, vals, attachIO, sharedIO, data, open>>
  BY <1>a DEF WriteEffect
<1>2. tags[p] \in Directory BY DEF TypeOK, Directory
<1>3. ASSUME NEW n \in Nodes(tags'[p])
      PROVE  n \in Nodes(tags[p]) /\ tags'[p][n].pTag = tags[p][n].pTag
  <2>1. n \in NodeId /\ tags'[p][n] = Placed(tags[p], P, Z)[n] /\ tags'[p][n] # NoEntry
    BY <1>1, <1>3 DEF Nodes, TypeOK
  <2>2. n \in Nodes(tags[p]) BY <2>1 DEF Placed, Loaded, Nodes
  <2>3. tags[p][n] \in TagEntry BY <1>2, <2>2, EntryType
  <2> QED BY <2>1, <2>2, <2>3 DEF Placed, TagEntry
<1>4. \A q \in Profile \ {p} : tags'[q] = tags[q] BY <1>1 DEF TypeOK
<1>5. \A q \in Profile : \A n \in Nodes(tags'[q]) :
         n \in Nodes(tags[q]) /\ tags'[q][n].pTag = tags[q][n].pTag
  BY <1>3, <1>4
<1> QED BY <1>1, <1>5 DEF Owned, EntriesOwned, OneOwner, HeapFrame

LEMMA AttachOwned ==
  ASSUME TypeOK, Owned, NEW p \in Profile, NEW f \in IO, Attach(p, f) PROVE Owned' /\ HeapFrame(p)
<1> DEFINE kept == IF Nodes(tags[p]) # {} THEN {} ELSE vals[p]
<1>1. /\ p \in alive /\ alive' = alive
      /\ tags' = [tags EXCEPT ![p] = ReadBasic(f)]
      /\ vals' = [vals EXCEPT ![p] = kept \cup {}]
      /\ data' = IF Nodes(tags[p]) # {} THEN Destroyed(data, vals[p]) ELSE data
  BY DEF Attach, TypeOK
<1>2. vals[p] \in SUBSET Obj /\ \A o \in vals[p] : data[o] # NoData
  BY DEF TypeOK, Owned, EntriesOwned
<1>3. /\ \A o \in kept : data'[o] # NoData
      /\ \A o \in vals[p] \ kept : data'[o] = NoData
      /\ \A o \in Obj \ vals[p] : data'[o] = data[o]
  BY <1>1, <1>2 DEF Destroyed
<1>4. \A n \in Nodes(tags'[p]) : tags'[p][n].pTag = NoObj
  <2>1. tags'[p] = ReadBasic(f) BY <1>1 DEF TypeOK
  <2> QED BY <2>1 DEF ReadBasic, Nodes
<1>5. \A q \in Profile \ {p} : tags'[q] = tags[q] BY <1>1 DEF TypeOK
<1>6. OwnershipChange(p, kept, {})
  BY <1>1, <1>2, <1>3, <1>4, <1>5 DEF OwnershipChange
<1> QED BY <1>6, OwnershipStep

LEMMA ReadOwned ==
  ASSUME TypeOK, Owned, NEW p \in Profile, NEW f \in IO, Read(p, f) PROVE Owned' /\ HeapFrame(p)
<1> DEFINE cleanup == Nodes(tags[p]) # {}
           heap    == IF cleanup THEN Destroyed(data, vals[p]) ELSE data
           t       == ReadBasic(f)
           X       == LoadSet(t, f)
           kept    == IF cleanup THEN {} ELSE vals[p]
<1>1. PICK a \in Allocs(X) :
        /\ tags' = [tags EXCEPT ![p] = Associated(t, X, a)]
        /\ vals' = [vals EXCEPT ![p] = (IF cleanup THEN {} ELSE @) \cup {a[x] : x \in X}]
        /\ data' = Constructed(heap, X, a, file[f].at)
  BY DEF Read
<1> DEFINE new == {a[x] : x \in X}
<1>2. /\ a \in [X -> Obj] /\ \A x \in X : a[x] \in Free
      /\ \A x, y \in X : a[x] = a[y] => x = y
  BY AllocsType DEF Allocs
<1>3. /\ \A x \in X : file[f].at[x] # NoData
      /\ p \in alive /\ alive' = alive
  <2>1. \A x \in X : CanRead(f, x) BY LoadSetReadable
  <2> QED BY <2>1 DEF CanRead, Read
<1>4. new \subseteq Obj /\ \A o \in new : data[o] = NoData BY <1>2 DEF Free
<1>5. vals[p] \in SUBSET Obj /\ \A o \in vals[p] : data[o] # NoData
  BY DEF TypeOK, Owned, EntriesOwned
<1>6. /\ \A x \in X : data'[a[x]] = file[f].at[x]
      /\ \A o \in Obj : o \notin new => data'[o] = heap[o]
  <2> HIDE DEF heap, t, X
  <2>1. Builds(heap, X, a, file[f].at, Constructed(heap, X, a, file[f].at))
    BY <1>2, ConstructedValues
  <2> QED BY <1>1, <2>1 DEF Builds
<1>7. /\ \A o \in vals[p] \ kept : heap[o] = NoData
      /\ \A o \in Obj : o \notin vals[p] \/ o \in kept => heap[o] = data[o]
  BY <1>5 DEF Destroyed
<1>8. \A n \in Nodes(tags'[p]) : tags'[p][n].pTag \in new \cup {NoObj}
  <2>1. t \in Directory /\ tags'[p] = Associated(t, X, a)
    BY <1>1, ReadBasicType DEF TypeOK
  <2>2. \A n \in Nodes(t) : t[n].pTag = NoObj BY DEF ReadBasic, Nodes
  <2> HIDE DEF t
  <2> SUFFICES ASSUME NEW n \in NodeId, Associated(t, X, a)[n] # NoEntry
               PROVE  Associated(t, X, a)[n].pTag \in new \cup {NoObj}
    BY <2>1 DEF Nodes
  <2>3. CASE n \in Nodes(t) /\ t[n].off \in X
    <3>1. t[n] \in TagEntry BY <2>1, <2>3, EntryType
    <3> QED BY <2>3, <3>1 DEF Associated, TagEntry
  <2>4. CASE ~(n \in Nodes(t) /\ t[n].off \in X)
    <3>1. Associated(t, X, a)[n] = t[n] BY <2>4 DEF Associated
    <3> QED BY <3>1, <2>2 DEF Nodes
  <2> QED BY <2>3, <2>4
<1>9. \A q \in Profile \ {p} : tags'[q] = tags[q] BY <1>1 DEF TypeOK
<1>10. vals' = [vals EXCEPT ![p] = kept \cup new] BY <1>1
<1>11. kept \subseteq vals[p] OBVIOUS
<1>12. \A o \in kept \cup new : data'[o] # NoData
  BY <1>3, <1>4, <1>5, <1>6, <1>7, <1>11
<1> HIDE DEF new, heap, t, X, kept, cleanup
<1>13. \A o \in vals[p] \ (kept \cup new) : data'[o] = NoData
  BY <1>5, <1>6, <1>7
<1>14. \A o \in Obj \ (vals[p] \cup new) : data'[o] = data[o]
  BY <1>6, <1>7
<1>15. OwnershipChange(p, kept, new)
  BY <1>3, <1>4, <1>8, <1>9, <1>10, <1>11, <1>12, <1>13, <1>14 DEF OwnershipChange
<1> QED BY <1>15, OwnershipStep

LEMMA EditOwned ==
  ASSUME TypeOK, Owned, NEW p \in Profile, LoadOrEdit(p) PROVE Owned' /\ HeapFrame(p)
<1>0. /\ tags[p] \in Directory /\ vals[p] \in SUBSET Obj
      /\ \A o \in vals[p] : data[o] # NoData
      /\ \A n \in Nodes(tags[p]) : tags[p][n].pTag \in vals[p] \cup {NoObj}
  BY DEF TypeOK, Directory, Owned, EntriesOwned
<1>1. ASSUME NEW s \in Sig, FindTag(p, s) PROVE Owned' /\ HeapFrame(p)
  <2>1. PICK n \in NodeId :
          /\ p \in alive /\ attachIO[p] \in open
          /\ CanRead(attachIO[p], tags[p][n].off)
          /\ Load(p, attachIO[p], {tags[p][n].off})
          /\ UNCHANGED <<alive, attachIO, sharedIO, file, open>>
    BY <1>1 DEF FindTag
  <2>2. attachIO[p] \in IO /\ {tags[p][n].off} \in SUBSET Slot
    BY <2>1 DEF CanRead, TypeOK
  <2>3. \A x \in {tags[p][n].off} : CanRead(attachIO[p], x) BY <2>1
  <2> QED BY <2>1, <2>2, <2>3, LoadOwned
<1>2. ASSUME NEW s \in Sig, NEW o \in Obj, NEW d \in Data, AttachTag(p, s, o, d)
      PROVE  Owned' /\ HeapFrame(p)
  <2>1. PICK n \in NodeId :
          tags' = [tags EXCEPT ![p][n] = [sig |-> s, off |-> 0, pTag |-> o, listed |-> d]]
    BY <1>2 DEF AttachTag
  <2>2. /\ p \in alive /\ alive' = alive
        /\ o \in Free \cup vals[p]
        /\ vals' = [vals EXCEPT ![p] = vals[p] \cup {o}]
        /\ data' = [data EXCEPT ![o] = d]
    BY <1>2 DEF AttachTag
  <2>3. \A m \in Nodes(tags'[p]) : tags'[p][m].pTag \in vals[p] \cup {o} \cup {NoObj}
    <3>1. tags'[p] = [tags[p] EXCEPT ![n] = [sig |-> s, off |-> 0, pTag |-> o, listed |-> d]]
      BY <2>1 DEF TypeOK
    <3> SUFFICES ASSUME NEW m \in NodeId, tags'[p][m] # NoEntry
                 PROVE  tags'[p][m].pTag \in vals[p] \cup {o} \cup {NoObj}
      BY DEF Nodes
    <3>2. CASE m = n BY <3>1, <3>2, <1>0 DEF Directory
    <3>3. CASE m # n
      <4>1. tags'[p][m] = tags[p][m] BY <3>1, <3>3, <1>0 DEF Directory
      <4> QED BY <4>1, <1>0 DEF Nodes
    <3> QED BY <3>2, <3>3
  <2>4. \A q \in Profile \ {p} : tags'[q] = tags[q] BY <2>1 DEF TypeOK
  <2>5. d # NoData BY NullAssumption
  <2>6. \A x \in Obj : data'[x] = IF x = o THEN d ELSE data[x] BY <2>2 DEF TypeOK
  <2>7. OwnershipChange(p, vals[p], {o})
    BY <1>0, <2>2, <2>3, <2>4, <2>5, <2>6 DEF OwnershipChange, Free
  <2> QED BY <2>7, OwnershipStep
<1>3. ASSUME NEW s \in Sig, DeleteTag(p, s) PROVE Owned' /\ HeapFrame(p)
  <2>1. PICK n \in NodeId :
          /\ p \in alive
          /\ tags' = [tags EXCEPT ![p] = Erased(tags[p], n)]
          /\ vals' = [vals EXCEPT ![p] = @ \ Orphans(Erased(tags[p], n), tags[p][n].pTag)]
          /\ data' = Destroyed(data, Orphans(Erased(tags[p], n), tags[p][n].pTag))
          /\ IsFirst(tags[p], s, n)
          /\ UNCHANGED <<alive, attachIO, sharedIO, file, open>>
    BY <1>3 DEF DeleteTag
  <2> DEFINE t    == Erased(tags[p], n)
             dead == Orphans(t, tags[p][n].pTag)
  <2>2. /\ dead \subseteq vals[p]
        /\ \A m \in Nodes(t) : t[m].pTag \notin dead
    <3>1. n \in Nodes(tags[p]) BY <2>1 DEF IsFirst
    <3> QED BY <3>1, <1>0 DEF Orphans
  <2>3. \A m \in Nodes(t) : t[m].pTag \in vals[p] \cup {NoObj}
    BY <1>0 DEF Erased, Nodes, Directory
  <2>4. tags'[p] = t /\ \A q \in Profile \ {p} : tags'[q] = tags[q] BY <2>1 DEF TypeOK
  <2>5. \A x \in Obj : data'[x] = IF x \in dead THEN NoData ELSE data[x]
    BY <2>1 DEF Destroyed
  <2>6. vals' = [vals EXCEPT ![p] = (vals[p] \ dead) \cup {}] BY <2>1
  <2> HIDE DEF t, dead
  <2>7. OwnershipChange(p, vals[p] \ dead, {})
    BY <1>0, <2>1, <2>2, <2>3, <2>4, <2>5, <2>6 DEF OwnershipChange
  <2> QED BY <2>7, OwnershipStep
<1>4. ASSUME Detach(p) PROVE Owned' /\ HeapFrame(p)
  BY <1>4 DEF Detach, Owned, EntriesOwned, OneOwner, Nodes, HeapFrame
<1> QED BY <1>1, <1>2, <1>3, <1>4 DEF LoadOrEdit

LEMMA ReadTagsOwned ==
  ASSUME TypeOK, Owned, NEW p \in Profile, NEW q \in Profile, ReadTags(p, q) PROVE Owned' /\ HeapFrame(p)
<1> DEFINE f == IF attachIO[q] # NoIO THEN attachIO[q] ELSE attachIO[p]
<1>1. /\ p \in alive /\ f \in open
      /\ Load(p, f, LoadSet(tags[p], f))
      /\ UNCHANGED <<alive, attachIO, sharedIO, file, open>>
  BY DEF ReadTags
<1>2. f \in IO BY <1>1 DEF TypeOK
<1>3. /\ LoadSet(tags[p], f) \in SUBSET Slot
      /\ \A x \in LoadSet(tags[p], f) : CanRead(f, x)
  BY LoadSetReadable
<1> QED BY <1>1, <1>2, <1>3, LoadOwned

(* Copying q's objects to a[o] gives a directory that only names the copies. *)
LEMMA RemappedTags ==
  ASSUME NEW t \in Directory, NEW S \in SUBSET Obj, NEW a \in [S -> Obj],
         NEW n \in Nodes(Remapped(t, S, a))
  PROVE  Remapped(t, S, a)[n].pTag \in {a[o] : o \in S} \cup {NoObj}
<1>1. n \in NodeId /\ n \in Nodes(t) BY DEF Nodes, Remapped
<1>2. t[n] \in TagEntry BY <1>1, EntryType
<1> QED BY <1>1, <1>2 DEF Remapped, TagEntry

LEMMA CopyOwned ==
  ASSUME TypeOK, Owned, NEW p \in Profile, NEW q \in Profile, Copy(p, q) PROVE Owned' /\ HeapFrame(p)
<1>0. /\ tags[q] \in Directory
      /\ vals[q] \in SUBSET Obj /\ \A o \in vals[q] : data[o] # NoData
  BY DEF TypeOK, Directory, Owned, EntriesOwned
<1>1. PICK a \in Allocs(vals[q]) :
        /\ tags' = [tags EXCEPT ![p] = Remapped(tags[q], vals[q], a)]
        /\ vals' = [vals EXCEPT ![p] = {a[o] : o \in vals[q]}]
        /\ data' = Constructed(data, vals[q], a, data)
  BY DEF Copy
<1> DEFINE new == {a[o] : o \in vals[q]}
<1>2. /\ a \in [vals[q] -> Obj] /\ \A x \in vals[q] : a[x] \in Free
      /\ \A x, y \in vals[q] : a[x] = a[y] => x = y
  BY AllocsType DEF Allocs
<1>3. alive' = alive \cup {p} /\ p \notin alive BY DEF Copy
<1>4. vals[p] = {}
  <2>1. \A o \in vals[p] : o \in Obj /\ data[o] # NoData
    BY DEF TypeOK, Owned, EntriesOwned
  <2>2. \A o \in vals[p] : \E r \in alive : r = p
    BY <2>1 DEF TypeOK, Owned, OneOwner
  <2> QED BY <2>2, <1>3
<1>5. new \subseteq Obj /\ \A o \in new : data[o] = NoData BY <1>2 DEF Free
<1>6. /\ \A x \in vals[q] : data'[a[x]] = data[x]
      /\ \A o \in Obj : o \notin new => data'[o] = data[o]
  <2>1. Builds(data, vals[q], a, data, Constructed(data, vals[q], a, data))
    BY <1>2, ConstructedValues
  <2> QED BY <1>1, <2>1 DEF Builds
<1>7. /\ tags'[p] = Remapped(tags[q], vals[q], a)
      /\ \A r \in Profile \ {p} : tags'[r] = tags[r]
  BY <1>1 DEF TypeOK
<1>8. \A n \in Nodes(tags'[p]) : tags'[p][n].pTag \in new \cup {NoObj}
  BY <1>0, <1>2, <1>7, RemappedTags
<1>9. \A o \in new : data'[o] # NoData BY <1>0, <1>6
<1>10. vals' = [vals EXCEPT ![p] = {} \cup new] BY <1>1
<1> HIDE DEF new
<1>11. OwnershipChange(p, {}, new)
  BY <1>3, <1>4, <1>5, <1>6, <1>7, <1>8, <1>9, <1>10 DEF OwnershipChange
<1> QED BY <1>11, OwnershipStep

LEMMA AssignOwned ==
  ASSUME TypeOK, Owned, NEW p \in Profile, NEW q \in Profile, Assign(p, q) PROVE Owned' /\ HeapFrame(p)
<1>0. /\ tags[q] \in Directory /\ vals[p] \in SUBSET Obj
      /\ vals[q] \in SUBSET Obj /\ \A o \in vals[q] : data[o] # NoData
  BY DEF TypeOK, Directory, Owned, EntriesOwned
<1> DEFINE heap == Destroyed(data, vals[p])
<1>1. PICK a \in [vals[q] -> Free \cup vals[p]] :
        /\ \A x, y \in vals[q] : a[x] = a[y] => x = y
        /\ tags' = [tags EXCEPT ![p] = Remapped(tags[q], vals[q], a)]
        /\ vals' = [vals EXCEPT ![p] = {a[o] : o \in vals[q]}]
        /\ data' = Constructed(heap, vals[q], a, data)
  BY DEF Assign
<1> DEFINE new == {a[o] : o \in vals[q]}
<1>2. a \in [vals[q] -> Obj] BY <1>0 DEF Free
<1>3. alive' = alive /\ p \in alive BY DEF Assign
<1>5. new \subseteq Obj /\ \A o \in new : data[o] = NoData \/ o \in vals[p]
  BY <1>2 DEF Free
<1>6. /\ \A x \in vals[q] : data'[a[x]] = data[x]
      /\ \A o \in Obj : o \notin new => data'[o] = heap[o]
  <2> HIDE DEF heap
  <2>1. Builds(heap, vals[q], a, data, Constructed(heap, vals[q], a, data))
    BY <1>1, <1>2, ConstructedValues
  <2> QED BY <1>1, <2>1 DEF Builds
<1>7. /\ tags'[p] = Remapped(tags[q], vals[q], a)
      /\ \A r \in Profile \ {p} : tags'[r] = tags[r]
  BY <1>1 DEF TypeOK
<1>8. \A n \in Nodes(tags'[p]) : tags'[p][n].pTag \in new \cup {NoObj}
  BY <1>0, <1>2, <1>7, RemappedTags
<1>9. \A o \in new : data'[o] # NoData BY <1>0, <1>6
<1>10. vals' = [vals EXCEPT ![p] = {} \cup new] BY <1>1
<1>11. \A o \in Obj : heap[o] = IF o \in vals[p] THEN NoData ELSE data[o]
  BY DEF Destroyed
<1> HIDE DEF new, heap
<1>12. OwnershipChange(p, {}, new)
  BY <1>0, <1>3, <1>5, <1>6, <1>7, <1>8, <1>9, <1>10, <1>11 DEF OwnershipChange
<1> QED BY <1>12, OwnershipStep

LEMMA NextOwned == TypeOK /\ Owned /\ [Next]_vars => Owned'
<1> SUFFICES ASSUME TypeOK, Owned, [Next]_vars PROVE Owned'
  OBVIOUS
<1>1. CASE UNCHANGED vars BY <1>1 DEF vars, Owned, EntriesOwned, OneOwner, Nodes
<1>2. CASE Next
  <2>1. PICK p \in Profile :
          \/ New(p)
          \/ Delete(p)
          \/ LoadOrEdit(p)
          \/ CopyAttachNull(p)
          \/ \E f \in IO : Attach(p, f) \/ AttachOrReadFails(p, f) \/ Read(p, f)
          \/ \E f \in Target : WriteOrFail(p, f)
          \/ \E q \in Profile : ReadTags(p, q) \/ CopyAttach(p, q) \/ Copy(p, q) \/ Assign(p, q)
    BY <1>2 DEF Next
  <2>2. CASE New(p) BY <2>2 DEF New, Owned, EntriesOwned, OneOwner, Nodes
  <2>3. CASE Delete(p) BY <2>3, CleanupOwned DEF Delete
  <2>4. CASE LoadOrEdit(p) BY <2>4, EditOwned
  <2>5. CASE CopyAttachNull(p)
    BY <2>5 DEF CopyAttachNull, Owned, EntriesOwned, OneOwner, Nodes
  <2>6. ASSUME NEW f \in IO, Attach(p, f) \/ AttachOrReadFails(p, f) \/ Read(p, f)
        PROVE  Owned'
    <3>1. CASE AttachOrReadFails(p, f) BY <3>1, CleanupOwned DEF AttachOrReadFails
    <3> QED BY <2>6, <3>1, AttachOwned, ReadOwned
  <2>7. ASSUME NEW f \in Target, WriteOrFail(p, f) PROVE Owned'
    BY <2>7, WriteOwned
  <2>8. ASSUME NEW q \in Profile,
               ReadTags(p, q) \/ CopyAttach(p, q) \/ Copy(p, q) \/ Assign(p, q)
        PROVE  Owned'
    <3>1. CASE CopyAttach(p, q)
      BY <3>1 DEF CopyAttach, Owned, EntriesOwned, OneOwner, Nodes
    <3> QED BY <2>8, <3>1, ReadTagsOwned, CopyOwned, AssignOwned
  <2> QED BY <2>1, <2>2, <2>3, <2>4, <2>5, <2>6, <2>7, <2>8
<1> QED BY <1>1, <1>2

LEMMA InitOwned == Init => Owned
BY DEF Init, Owned, EntriesOwned, OneOwner, Nodes, NoTags

(* No sequence of public calls leaves an entry naming a deleted or foreign tag  *)
(* object: the aliasing loop of LoadTag, DeleteTag of one of several aliases,    *)
(* re-attachment, copy and assignment all keep m_Tags within m_TagVals.          *)
THEOREM EntriesAlwaysOwned == Spec => []EntriesOwned
<1>1. Init => TypeOK /\ Owned BY InitType, InitOwned
<1>2. TypeOK /\ Owned /\ [Next]_vars => (TypeOK /\ Owned)' BY NextType, NextOwned
<1>3. TypeOK /\ Owned => EntriesOwned BY DEF Owned
<1> QED BY <1>1, <1>2, <1>3, PTL DEF Spec

(* Every live tag object has exactly one owner, a profile that still exists:    *)
(* no operation leaks a tag and no two destructors delete the same one.          *)
THEOREM TagsHaveOneOwner == Spec => []OneOwner
<1>1. Init => TypeOK /\ Owned BY InitType, InitOwned
<1>2. TypeOK /\ Owned /\ [Next]_vars => (TypeOK /\ Owned)' BY NextType, NextOwned
<1>3. TypeOK /\ Owned => OneOwner BY DEF Owned
<1> QED BY <1>1, <1>2, <1>3, PTL DEF Spec

-----------------------------------------------------------------------------
(* What Write writes. *)

LEMMA LeastOf == ASSUME NEW S, S \subseteq Nat, S # {} PROVE \E m \in S : \A k \in S : m <= k
<1>1. PICK m \in S : \A k \in S : <<k, m>> \notin OpToRel(<, Nat)
  BY NatLessThanWellFounded, WFMin, Zenon
<1>2. \A k \in S : ~(k < m) BY <1>1, Zenon DEF OpToRel
<1> QED BY <1>2

(* The first entry that names an object is the one it is written for. *)
LEMMA LeadOf ==
  ASSUME NEW t, NEW n \in Loaded(t)
  PROVE  \E k \in Loaded(t) :
           /\ Leads(t, k) /\ t[k].pTag = t[n].pTag
           /\ \A m \in Loaded(t) : t[m].pTag = t[n].pTag => k <= m
<1> DEFINE S == {m \in Loaded(t) : t[m].pTag = t[n].pTag}
<1>1. Loaded(t) \subseteq Nat BY DEF Loaded, Nodes, NodeId
<1>2. PICK k \in S : \A m \in S : k <= m BY <1>1, LeastOf
<1>3. \A m \in Loaded(t) : m < k => t[m].pTag # t[k].pTag BY <1>1, <1>2
<1> QED BY <1>2, <1>3 DEF Leads

(* Objects written one before the other have different places. *)
LEMMA LaterOffset ==
  ASSUME NEW t, NEW m \in Loaded(t), NEW n \in Loaded(t), NEW k \in Loaded(t), NEW l \in Loaded(t),
         Leads(t, k), t[k].pTag = t[m].pTag, Leads(t, l), t[l].pTag = t[n].pTag, k < l
  PROVE  WriteOffset(t, m) # WriteOffset(t, n)
<1> DEFINE A == WrittenBefore(t, m)
           B == WrittenBefore(t, n)
<1>1. MaxTags \in Nat /\ Loaded(t) \subseteq Nat /\ A \subseteq NodeId /\ B \subseteq NodeId
  BY BoundAssumption DEF Loaded, Nodes, NodeId, WrittenBefore
<1>2. IsFiniteSet(B)
  <2>1. IsFiniteSet(NodeId) BY <1>1, FS_Interval DEF NodeId
  <2> QED BY <1>1, <2>1, FS_Subset
<1>3. \A i \in Loaded(t) : t[i].pTag = t[n].pTag => l <= i
  BY <1>1 DEF Leads
<1>4. k \in B BY <1>1, <1>3 DEF WrittenBefore
<1>5. k \notin A BY <1>1 DEF WrittenBefore
<1>6. A \subseteq B
  <2> SUFFICES ASSUME NEW i \in A PROVE i \in B OBVIOUS
  <2>1. i \in Loaded(t) /\ Leads(t, i) /\ i < k BY DEF WrittenBefore
  <2>2. \A j \in Loaded(t) : t[j].pTag = t[n].pTag => i < j BY <1>1, <1>3, <2>1
  <2> QED BY <2>1, <2>2 DEF WrittenBefore
<1>7. Cardinality(A) <= Cardinality(B) /\ Cardinality(A) # Cardinality(B)
  BY <1>2, <1>4, <1>5, <1>6, FS_Subset
<1>8. Cardinality(A) \in Nat /\ Cardinality(B) \in Nat /\ Cardinality(Loaded(t)) \in Nat
  BY <1>1, NodeCount DEF Loaded, Nodes
<1> HIDE DEF A, B
<1>9. ASSUME NEW a \in Nat, NEW b \in Nat, NEW d \in Nat, a <= b, a # b
      PROVE  TagDirEnd(d) + TagBytes * a # TagDirEnd(d) + TagBytes * b
  <2>1. TagBytes \in Nat /\ TagBytes > 0 BY BoundAssumption
  <2>2. b = a + (b - a) /\ b - a \in Nat /\ b - a >= 1 BY <1>9
  <2>3. TagBytes * b = TagBytes * a + TagBytes * (b - a) BY <2>1, <2>2
  <2>4. TagBytes * (b - a) >= TagBytes * 1
    <3> DEFINE c == b - a
    <3>1. c \in Nat /\ c >= 1 BY <2>2
    <3> HIDE DEF c
    <3>2. TagBytes * c = TagBytes + TagBytes * (c - 1) /\ TagBytes * (c - 1) >= 0 BY <2>1, <3>1
    <3> QED BY <2>1, <3>2 DEF c
  <2>5. TagDirEnd(d) \in Nat BY DEF TagDirEnd
  <2>6. TagBytes * a \in Nat /\ TagBytes * b \in Nat BY <2>1
  <2> QED BY <2>1, <2>3, <2>4, <2>5, <2>6
<1>10. TagDirEnd(Cardinality(Loaded(t))) + TagBytes * Cardinality(A)
         # TagDirEnd(Cardinality(Loaded(t))) + TagBytes * Cardinality(B)
  BY <1>7, <1>8, <1>9
<1> QED BY <1>10 DEF WriteOffset, A, B

(* Two entries get one offset exactly when they name one object.               *)
LEMMA OffsetsTell ==
  ASSUME NEW t, NEW m \in Loaded(t), NEW n \in Loaded(t)
  PROVE  WriteOffset(t, m) = WriteOffset(t, n) <=> t[m].pTag = t[n].pTag
<1>1. ASSUME t[m].pTag = t[n].pTag PROVE WriteOffset(t, m) = WriteOffset(t, n)
  <2>1. WrittenBefore(t, m) = WrittenBefore(t, n) BY <1>1, Zenon DEF WrittenBefore
  <2> QED BY <2>1, Zenon DEF WriteOffset
<1>2. ASSUME t[m].pTag # t[n].pTag PROVE WriteOffset(t, m) # WriteOffset(t, n)
  <2>1. PICK k \in Loaded(t) : Leads(t, k) /\ t[k].pTag = t[m].pTag BY LeadOf
  <2>2. PICK l \in Loaded(t) : Leads(t, l) /\ t[l].pTag = t[n].pTag BY LeadOf
  <2>3. k # l /\ k \in Nat /\ l \in Nat BY <1>2, <2>1, <2>2 DEF Loaded, Nodes, NodeId
  <2>4. CASE k < l BY <2>1, <2>2, <2>4, LaterOffset
  <2>5. CASE l < k BY <2>1, <2>2, <2>5, LaterOffset
  <2> QED BY <2>3, <2>4, <2>5
<1> QED BY <1>1, <1>2

LEMMA WriteImage ==
  ASSUME TypeOK, NEW p \in Profile, NEW f \in IO, Write(p, f)
  PROVE  FaithfulImage(tags[p], file'[f])
<1> DEFINE t == tags[p]
           P == Loaded(t)
           w == WrittenFile(t, P)
<1>1. t \in Directory /\ P \subseteq NodeId BY DEF TypeOK, Directory, Loaded, Nodes
<1>2. file'[f] = w BY DEF Write, TypeOK
<1>3. \A n \in NodeId : w.dir[n] = IF n \in P THEN [sig |-> t[n].sig, off |-> WriteOffset(t, n)]
                                   ELSE NoEntry
  BY DEF WrittenFile
<1>4. \A n \in P : w.dir[n] # NoEntry
  <2> SUFFICES ASSUME NEW n \in P PROVE w.dir[n] # NoEntry OBVIOUS
  <2>1. n \in NodeId /\ w.dir[n] = [sig |-> t[n].sig, off |-> WriteOffset(t, n)] BY <1>1, <1>3
  <2>2. t[n].sig \in Sig BY <1>1, EntryType DEF Loaded, TagEntry
  <2>3. w.dir[n] \in DirEntry BY <2>1, <2>2, WriteOffsetInSlot, SlotIsOffset DEF DirEntry
  <2> QED BY <2>3, NullAssumption
<1>5. Nodes(w.dir) = P BY <1>1, <1>3, <1>4 DEF Nodes
<1>6. \A n \in P : w.dir[n].sig = t[n].sig /\ w.dir[n].off = WriteOffset(t, n) 
  <2> SUFFICES ASSUME NEW n \in P
               PROVE  w.dir[n].sig = t[n].sig /\ w.dir[n].off = WriteOffset(t, n)
    OBVIOUS
  <2>1. w.dir[n] = [sig |-> t[n].sig, off |-> WriteOffset(t, n)] BY <1>1, <1>3
  <2> HIDE DEF t, w
  <2> QED BY <2>1
<1>7. ASSUME NEW n \in P PROVE w.at[WriteOffset(t, n)] = data[t[n].pTag]
  <2> DEFINE x == WriteOffset(t, n)
             c == CHOOSE k \in P : WriteOffset(t, k) = x
  <2>1. x \in Slot BY WriteOffsetInSlot
  <2>2. c \in P /\ WriteOffset(t, c) = x BY <1>7
  <2>3. t[c].pTag = t[n].pTag BY <2>2, OffsetsTell
  <2>4. w.at[x] = data[t[c].pTag] BY <2>1, <2>2 DEF WrittenFile
  <2> QED BY <2>3, <2>4
<1> HIDE DEF w
<1> QED BY <1>2, <1>5, <1>6, <1>7, OffsetsTell DEF FaithfulImage

(* Whatever was done to a profile before, Write puts every loaded entry into    *)
(* the file with its signature and its object's payload, and shares an offset   *)
(* exactly where the directory shares an object (IccProfile.cpp:1021-1174).     *)
THEOREM WritesAreFaithful == Spec => WriteIsFaithful
<1>1. TypeOK /\ [Next]_vars =>
        [\A p \in Profile, f \in IO : Write(p, f) => FaithfulImage(tags[p], file'[f])]_vars
  BY WriteImage
<1> QED BY <1>1, InitType, NextType, PTL DEF Spec, WriteIsFaithful

-----------------------------------------------------------------------------
(* The careful client. *)

(* EntriesFaithful and OffsetsFaithful, one profile at a time. *)
FaithfulAt(p) ==
  /\ \A n \in Nodes(tags[p]) :
       IF tags[p][n].pTag # NoObj THEN data[tags[p][n].pTag] = tags[p][n].listed
       ELSE attachIO[p] # NoIO => ListedAt(attachIO[p], tags[p][n].off) = tags[p][n].listed
  /\ attachIO[p] # NoIO /\ Unloaded(tags[p]) # {} =>
       \A n \in Nodes(tags[p]) :
         tags[p][n].off \in Slot => ListedAt(attachIO[p], tags[p][n].off) = tags[p][n].listed

LEMMA FaithfulSplit ==
  (\A p \in Profile : FaithfulAt(p)) <=> EntriesFaithful /\ OffsetsFaithful
BY DEF FaithfulAt, EntriesFaithful, OffsetsFaithful

IOSound == IOOwned /\ \A p \in Profile : ~sharedIO[p]

CarefulInv ==
  /\ TypeOK
  /\ Owned
  /\ IOSound
  /\ \A p \in Profile : FaithfulAt(p)

LEMMA Facts ==
  ASSUME CarefulInv, NEW p \in Profile
  PROVE  /\ tags[p] \in Directory
         /\ vals[p] \in SUBSET Obj
         /\ \A o \in vals[p] : data[o] # NoData
         /\ \A n \in Nodes(tags[p]) : tags[p][n].pTag \in vals[p] \cup {NoObj}
         /\ attachIO[p] # NoIO => attachIO[p] \in open /\ p \in alive /\ attachIO[p] \in IO
         /\ FaithfulAt(p)
         /\ ~sharedIO[p]
BY DEF CarefulInv, TypeOK, Directory, Owned, EntriesOwned, IOSound, IOOwned
-----------------------------------------------------------------------------
(* An operation on p leaves every other profile faithful: it does not touch     *)
(* their objects, their directories or the files they are attached to.          *)
LEMMA OthersFaithful ==
  ASSUME CarefulInv, NEW p \in Profile, NEW q \in Profile, q # p, HeapFrame(p),
         tags'[q] = tags[q], attachIO'[q] = attachIO[q],
         \A f \in open : file'[f] = file[f]
  PROVE  FaithfulAt(q)'
<1>1. ASSUME NEW n \in Nodes(tags[q]), tags[q][n].pTag # NoObj
      PROVE  data'[tags[q][n].pTag] = data[tags[q][n].pTag]
  <2>1. tags[q][n].pTag \in vals[q] BY <1>1, Facts
  <2>2. tags[q][n].pTag \in Obj \ vals[p]
    BY <2>1, Facts DEF CarefulInv, Owned, OneOwner
  <2> QED BY <2>1, <2>2, Facts DEF HeapFrame
<1>2. ASSUME attachIO[q] # NoIO, NEW x
      PROVE  ListedAt(attachIO[q], x)' = ListedAt(attachIO[q], x)
  <2>1. file'[attachIO[q]] = file[attachIO[q]] BY <1>2, Facts
  <2> QED BY <2>1 DEF ListedAt
<1>3. FaithfulAt(q) BY Facts
<1>4. \A n \in Nodes(tags'[q]) :
        IF tags'[q][n].pTag # NoObj THEN data'[tags'[q][n].pTag] = tags'[q][n].listed
        ELSE attachIO'[q] # NoIO =>
               ListedAt(attachIO[q], tags[q][n].off)' = tags'[q][n].listed
  BY <1>1, <1>2, <1>3 DEF FaithfulAt
<1>5. attachIO'[q] # NoIO /\ Unloaded(tags'[q]) # {} =>
        \A n \in Nodes(tags'[q]) : tags'[q][n].off \in Slot =>
          ListedAt(attachIO[q], tags[q][n].off)' = tags'[q][n].listed
  BY <1>2, <1>3 DEF FaithfulAt
<1> QED BY <1>4, <1>5 DEF FaithfulAt

(* An empty directory is faithful. *)
LEMMA EmptyFaithful ==
  ASSUME NEW p \in Profile, tags'[p] = NoTags PROVE FaithfulAt(p)'
BY DEF FaithfulAt, Nodes, NoTags, Unloaded

(* Objects are loaded for entries of p that still waited for them. *)
LEMMA LoadFaithful ==
  ASSUME CarefulInv, NEW p \in Profile, NEW f \in IO, f = attachIO[p],
         NEW X \in SUBSET Slot, \A x \in X : CanRead(f, x),
         X # {} => Unloaded(tags[p]) # {},
         Load(p, f, X), UNCHANGED <<attachIO, file>>
  PROVE  FaithfulAt(p)'
<1>1. PICK a \in Allocs(X) :
        /\ tags' = [tags EXCEPT ![p] = Associated(@, X, a)]
        /\ data' = Constructed(data, X, a, file[f].at)
  BY DEF Load
<1>2. /\ a \in [X -> Obj] /\ \A x \in X : a[x] \in Free
      /\ \A x, y \in X : a[x] = a[y] => x = y
  BY AllocsType DEF Allocs
<1> DEFINE d == file[f].at
<1>3. data' = Constructed(data, X, a, d) BY <1>1
<1>4. X # {} => \A n \in Nodes(tags[p]) :
                  tags[p][n].off \in X => d[tags[p][n].off] = tags[p][n].listed
  BY Facts, NullAssumption DEF FaithfulAt, ListedAt
<1> HIDE DEF d
<1>6. Builds(data, X, a, d, data') BY <1>2, <1>3, ConstructedValues
<1>7. \A o \in vals[p] : data'[o] = data[o]
  <2>1. \A o \in vals[p] : o \in Obj /\ o \notin {a[x] : x \in X}
    BY <1>2, Facts DEF Free
  <2> QED BY <1>6, <2>1 DEF Builds
<1>8. \A x \in X : data'[a[x]] = d[x] /\ a[x] # NoObj
  BY <1>2, <1>6, NullAssumption DEF Builds
<1>9. tags'[p] = Associated(tags[p], X, a) BY <1>1 DEF CarefulInv, TypeOK
<1>10. ASSUME NEW n \in Nodes(tags'[p])
      PROVE  /\ n \in Nodes(tags[p])
             /\ tags'[p][n].off = tags[p][n].off /\ tags'[p][n].listed = tags[p][n].listed
             /\ tags'[p][n].pTag = IF tags[p][n].off \in X THEN a[tags[p][n].off]
                                                          ELSE tags[p][n].pTag
  <2>1. n \in Nodes(tags[p]) BY <1>9, <1>10 DEF Associated, Nodes
  <2>2. tags[p][n] \in TagEntry BY <2>1, Facts, EntryType
  <2> QED BY <1>9, <2>1, <2>2 DEF Associated, TagEntry, Nodes
<1>11. ASSUME NEW n \in Nodes(tags'[p])
      PROVE  IF tags'[p][n].pTag # NoObj THEN data'[tags'[p][n].pTag] = tags'[p][n].listed
             ELSE ListedAt(f, tags[p][n].off)' = tags'[p][n].listed
  <2>1. CASE tags[p][n].off \in X
    <3>1. X # {} BY <2>1
    <3>2. d[tags[p][n].off] = tags[p][n].listed BY <1>4, <1>10, <2>1, <3>1
    <3> QED BY <2>1, <3>2, <1>8, <1>10
  <2>2. CASE tags[p][n].off \notin X
    <3>1. tags'[p][n].pTag = tags[p][n].pTag BY <1>10, <2>2
    <3>2. tags[p][n].pTag # NoObj => data'[tags[p][n].pTag] = tags[p][n].listed
      BY <1>7, <1>10, Facts DEF FaithfulAt
    <3>3. tags[p][n].pTag = NoObj => ListedAt(f, tags[p][n].off) = tags[p][n].listed
      BY <1>10, Facts, NullAssumption DEF FaithfulAt
    <3> QED BY <1>10, <3>1, <3>2, <3>3 DEF ListedAt
  <2> QED BY <2>1, <2>2
<1>12. Unloaded(tags'[p]) # {} =>
         \A n \in Nodes(tags'[p]) : tags'[p][n].off \in Slot =>
           ListedAt(f, tags[p][n].off)' = tags'[p][n].listed
  <2>1. Unloaded(tags'[p]) \subseteq Unloaded(tags[p])
    BY <1>8, <1>10 DEF Unloaded, Loaded
  <2>2. Unloaded(tags[p]) # {} =>
         \A n \in Nodes(tags[p]) : tags[p][n].off \in Slot =>
           ListedAt(f, tags[p][n].off) = tags[p][n].listed
    BY Facts, NullAssumption DEF FaithfulAt
  <2> QED BY <2>1, <2>2, <1>10 DEF ListedAt
<1>13. attachIO'[p] = f OBVIOUS
<1> QED BY <1>11, <1>12, <1>13 DEF FaithfulAt

LEMMA FindTagFaithful ==
  ASSUME CarefulInv, NEW p \in Profile, NEW s \in Sig, FindTag(p, s)
  PROVE  FaithfulAt(p)'
<1>1. PICK n \in NodeId :
        /\ attachIO[p] \in open /\ n \in Unloaded(tags[p])
        /\ CanRead(attachIO[p], tags[p][n].off)
        /\ Load(p, attachIO[p], {tags[p][n].off})
        /\ UNCHANGED <<attachIO, file>>
  BY DEF FindTag
<1>2. attachIO[p] \in IO /\ {tags[p][n].off} \in SUBSET Slot
  BY <1>1 DEF CanRead, CarefulInv, TypeOK
<1>3. \A x \in {tags[p][n].off} : CanRead(attachIO[p], x) BY <1>1
<1>4. Unloaded(tags[p]) # {} BY <1>1
<1> QED BY <1>1, <1>2, <1>3, <1>4, LoadFaithful

LEMMA ReadTagsFaithful ==
  ASSUME CarefulInv, NEW p \in Profile, ReadTags(p, p)
  PROVE  FaithfulAt(p)'
<1>1. /\ attachIO[p] \in open
      /\ Load(p, attachIO[p], LoadSet(tags[p], attachIO[p]))
      /\ UNCHANGED <<attachIO, file>>
  BY DEF ReadTags
<1>2. attachIO[p] \in IO BY <1>1 DEF CarefulInv, TypeOK
<1>3. /\ LoadSet(tags[p], attachIO[p]) \in SUBSET Slot
      /\ \A x \in LoadSet(tags[p], attachIO[p]) : CanRead(attachIO[p], x)
  BY LoadSetReadable
<1>4. LoadSet(tags[p], attachIO[p]) # {} => Unloaded(tags[p]) # {} BY DEF LoadSet
<1> QED BY <1>1, <1>2, <1>3, <1>4, LoadFaithful

LEMMA ZeroNotSlot == 0 \notin Slot
<1> SUFFICES ASSUME NEW n \in 0 .. MaxTags, NEW k \in 0 .. MaxTags
             PROVE  132 + 12 * n + TagBytes * k > 0
  BY DEF Slot, TagDirEnd
<1>1. TagBytes * k \in Nat BY BoundAssumption
<1>2. n \in Nat BY BoundAssumption
<1> QED BY <1>1, <1>2

LEMMA AttachTagFaithful ==
  ASSUME CarefulInv, NEW p \in Profile, NEW s \in Sig, NEW o \in Obj, NEW d \in Data,
         AttachTag(p, s, o, d)
  PROVE  FaithfulAt(p)'
<1> DEFINE e == [sig |-> s, off |-> 0, pTag |-> o, listed |-> d]
<1>1. PICK n \in NodeId : IsBack(tags[p], n) /\ tags' = [tags EXCEPT ![p][n] = e]
  BY DEF AttachTag
<1>2. /\ tags'[p][n] = e /\ \A m \in NodeId \ {n} : tags'[p][m] = tags[p][m]
  BY <1>1 DEF CarefulInv, TypeOK
<1>3. /\ data'[o] = d
      /\ \A x \in vals[p] : data'[x] = data[x]
      /\ UNCHANGED <<attachIO, file>>
  BY Facts DEF AttachTag, CarefulInv, TypeOK
<1>4. e.off = 0 /\ e.pTag = o /\ e.listed = d /\ o # NoObj BY NullAssumption
<1> HIDE DEF e
<1>5. \A m \in Nodes(tags'[p]) \ {n} : m \in Nodes(tags[p]) BY <1>2 DEF Nodes
<1>6. ASSUME NEW m \in Nodes(tags'[p])
      PROVE  IF tags'[p][m].pTag # NoObj THEN data'[tags'[p][m].pTag] = tags'[p][m].listed
             ELSE attachIO'[p] # NoIO =>
                    ListedAt(attachIO[p], tags[p][m].off)' = tags'[p][m].listed
  <2>1. CASE m = n BY <2>1, <1>2, <1>3, <1>4
  <2>2. CASE m # n
    <3>1. m \in Nodes(tags[p]) /\ m \in NodeId BY <1>5, <2>2 DEF Nodes
    <3>2. tags'[p][m] = tags[p][m] BY <1>2, <2>2, <3>1
    <3>3. /\ tags[p][m].pTag \in vals[p] \cup {NoObj}
          /\ IF tags[p][m].pTag # NoObj THEN data[tags[p][m].pTag] = tags[p][m].listed
             ELSE attachIO[p] # NoIO => ListedAt(attachIO[p], tags[p][m].off) = tags[p][m].listed
      BY <3>1, Facts DEF FaithfulAt
    <3> QED BY <3>2, <3>3, <1>3 DEF ListedAt
  <2> QED BY <2>1, <2>2
<1>7. attachIO'[p] # NoIO /\ Unloaded(tags'[p]) # {} =>
        \A m \in Nodes(tags'[p]) :
          tags'[p][m].off \in Slot => ListedAt(attachIO[p], tags[p][m].off)' = tags'[p][m].listed
  <2>1. n \notin Unloaded(tags'[p]) BY <1>2, <1>4 DEF Unloaded, Loaded
  <2>2. Unloaded(tags'[p]) \subseteq Unloaded(tags[p])
    BY <2>1, <1>2, <1>5 DEF Unloaded, Loaded, Nodes
  <2>3. tags'[p][n].off \notin Slot BY <1>2, <1>4, ZeroNotSlot
  <2>4. attachIO[p] # NoIO /\ Unloaded(tags[p]) # {} =>
          \A m \in Nodes(tags[p]) :
            tags[p][m].off \in Slot => ListedAt(attachIO[p], tags[p][m].off) = tags[p][m].listed
    BY Facts DEF FaithfulAt
  <2>5. \A m \in Nodes(tags'[p]) \ {n} : tags'[p][m] = tags[p][m] BY <1>2 DEF Nodes
  <2> QED BY <2>2, <2>3, <2>4, <2>5, <1>3, <1>5 DEF ListedAt
<1> QED BY <1>6, <1>7 DEF FaithfulAt

LEMMA DeleteTagFaithful ==
  ASSUME CarefulInv, NEW p \in Profile, NEW s \in Sig, DeleteTag(p, s)
  PROVE  FaithfulAt(p)'
<1>1. PICK n \in NodeId :
        /\ tags' = [tags EXCEPT ![p] = Erased(tags[p], n)]
        /\ data' = Destroyed(data, Orphans(Erased(tags[p], n), tags[p][n].pTag))
        /\ UNCHANGED <<attachIO, file>>
  BY DEF DeleteTag
<1>2. /\ tags'[p] = Erased(tags[p], n)
      /\ \A m \in Nodes(tags'[p]) : m \in Nodes(tags[p]) /\ tags'[p][m] = tags[p][m]
  BY <1>1 DEF CarefulInv, TypeOK, Erased, Nodes
<1>3. \A m \in Nodes(tags'[p]) : tags'[p][m].pTag # NoObj =>
         data'[tags'[p][m].pTag] = data[tags'[p][m].pTag]
  <2>1. ASSUME NEW m \in Nodes(tags'[p]), tags'[p][m].pTag # NoObj
        PROVE  data'[tags'[p][m].pTag] = data[tags'[p][m].pTag]
    <3>1. tags'[p][m].pTag \in Obj BY <2>1, <1>2, Facts
    <3>2. tags'[p][m].pTag \notin Orphans(Erased(tags[p], n), tags[p][n].pTag)
      BY <2>1, <1>2 DEF Orphans
    <3> QED BY <3>1, <3>2, <1>1 DEF Destroyed
  <2> QED BY <2>1
<1>4. Unloaded(tags'[p]) \subseteq Unloaded(tags[p]) BY <1>2 DEF Unloaded, Loaded
<1>5. FaithfulAt(p) BY Facts
<1> QED BY <1>1, <1>2, <1>3, <1>4, <1>5 DEF FaithfulAt, ListedAt

LEMMA DetachFaithful ==
  ASSUME CarefulInv, NEW p \in Profile, Detach(p)
  PROVE  FaithfulAt(p)'
<1>1. attachIO'[p] = NoIO /\ UNCHANGED <<tags, data>> BY DEF Detach, CarefulInv, TypeOK
<1> QED BY <1>1, Facts DEF FaithfulAt
-----------------------------------------------------------------------------
LEMMA AttachFaithful ==
  ASSUME CarefulInv, NEW p \in Profile, NEW f \in IO, Attach(p, f)
  PROVE  FaithfulAt(p)'
<1>1. tags'[p] = ReadBasic(f) /\ attachIO'[p] = f /\ file' = file
  BY DEF Attach, CarefulInv, TypeOK
<1>2. \A n \in Nodes(ReadBasic(f)) :
        /\ ReadBasic(f)[n].pTag = NoObj
        /\ ReadBasic(f)[n].listed = ListedAt(f, ReadBasic(f)[n].off)
  BY DEF ReadBasic, Nodes
<1> QED BY <1>1, <1>2 DEF FaithfulAt, ListedAt

LEMMA ReadFaithful ==
  ASSUME CarefulInv, NEW p \in Profile, NEW f \in IO, IsNew(p), Read(p, f)
  PROVE  FaithfulAt(p)' /\ attachIO' = attachIO /\ open' = open
<1> DEFINE t == ReadBasic(f)
           X == LoadSet(t, f)
           d == file[f].at
<1>0. tags[p] = NoTags /\ attachIO[p] = NoIO /\ Nodes(tags[p]) = {}
  BY DEF IsNew, Nodes, NoTags
<1>1. PICK a \in Allocs(X) :
        /\ tags' = [tags EXCEPT ![p] = Associated(t, X, a)]
        /\ data' = Constructed(data, X, a, d)
  BY <1>0 DEF Read
<1>2. attachIO' = attachIO /\ open' = open
  BY <1>0 DEF Read, CarefulInv, TypeOK
<1>3. /\ a \in [X -> Obj] /\ \A x, y \in X : a[x] = a[y] => x = y
  BY AllocsType DEF Allocs
<1>4. /\ t \in Directory /\ X \subseteq Slot
      /\ \A n \in Nodes(t) : /\ t[n].pTag = NoObj
                             /\ t[n].off \in Slot => t[n].listed = d[t[n].off]
  BY ReadBasicType, LoadSetReadable DEF CarefulInv, ReadBasic, Nodes, ListedAt
<1>5. tags'[p] = Associated(t, X, a) BY <1>1 DEF CarefulInv, TypeOK
<1> HIDE DEF t, X, d
<1>6. Builds(data, X, a, d, data') BY <1>1, <1>3, ConstructedValues
<1>7. ASSUME NEW n \in Nodes(tags'[p]), tags'[p][n].pTag # NoObj
      PROVE  data'[tags'[p][n].pTag] = tags'[p][n].listed
  <2>1. n \in Nodes(t) BY <1>5, <1>7 DEF Associated, Nodes
  <2>2. t[n] \in TagEntry BY <2>1, <1>4, EntryType
  <2>3. t[n].off \in X /\ tags'[p][n].pTag = a[t[n].off] /\ tags'[p][n].listed = t[n].listed
    BY <1>4, <1>5, <1>7, <2>1, <2>2 DEF Associated, TagEntry, Nodes
  <2> QED BY <2>1, <2>3, <1>4, <1>6 DEF Builds
<1>8. attachIO'[p] = NoIO BY <1>0, <1>2
<1>9. FaithfulAt(p)' BY <1>7, <1>8 DEF FaithfulAt
<1> QED BY <1>2, <1>9

LEMMA WriteFaithful ==
  ASSUME CarefulInv, NEW p \in Profile, NEW f, Unloaded(tags[p]) = {}, WriteOrFail(p, f)
  PROVE  FaithfulAt(p)'
<1>a. WriteEffect(p, f) BY WriteShape DEF CarefulInv
<1>1. PICK P \in SUBSET Loaded(tags[p]), Z \in SUBSET Loaded(tags[p]) :
        /\ tags' = [tags EXCEPT ![p] = Placed(@, P, Z)]
        /\ UNCHANGED <<attachIO, data>>
  BY <1>a DEF WriteEffect
<1>2. ASSUME NEW n \in Nodes(tags'[p])
      PROVE  /\ n \in Loaded(tags[p])
             /\ tags'[p][n].pTag = tags[p][n].pTag
             /\ tags'[p][n].listed = tags[p][n].listed
  <2>1. n \in NodeId /\ tags'[p][n] = Placed(tags[p], P, Z)[n] /\ tags'[p][n] # NoEntry
    BY <1>1, <1>2 DEF Nodes, CarefulInv, TypeOK
  <2>2. n \in Nodes(tags[p]) BY <2>1 DEF Placed, Loaded, Nodes
  <2>3. tags[p][n] \in TagEntry BY <2>2, Facts, EntryType
  <2>4. n \in Loaded(tags[p]) BY <2>2 DEF Unloaded
  <2> QED BY <2>1, <2>3, <2>4 DEF Placed, TagEntry
<1>3. \A n \in Loaded(tags[p]) :
        tags[p][n].pTag # NoObj /\ data[tags[p][n].pTag] = tags[p][n].listed
  BY Facts DEF Loaded, FaithfulAt
<1>4. Unloaded(tags'[p]) = {} BY <1>2, <1>3 DEF Unloaded, Loaded
<1> QED BY <1>1, <1>2, <1>3, <1>4 DEF FaithfulAt

LEMMA RemappedEntries ==
  ASSUME NEW t \in Directory, NEW S \in SUBSET Obj, NEW a \in [S -> Obj],
         NEW n \in Nodes(Remapped(t, S, a)),
         \A m \in Nodes(t) : t[m].pTag \in S \cup {NoObj}
  PROVE  /\ n \in Nodes(t)
         /\ Remapped(t, S, a)[n].off = t[n].off
         /\ Remapped(t, S, a)[n].listed = t[n].listed
         /\ IF t[n].pTag # NoObj
              THEN t[n].pTag \in S /\ Remapped(t, S, a)[n].pTag = a[t[n].pTag]
              ELSE Remapped(t, S, a)[n].pTag = NoObj
<1>1. n \in NodeId /\ n \in Nodes(t) BY DEF Nodes, Remapped
<1>2. t[n] \in TagEntry BY <1>1, EntryType
<1>3. t[n].pTag \in S \cup {NoObj} BY <1>1
<1> QED BY <1>1, <1>2, <1>3, NullAssumption DEF Remapped, TagEntry

(* A copy of q without an IO object whose objects hold the payloads of q's.     *)
LEMMA DeepCopyFaithful ==
  ASSUME CarefulInv, NEW p \in Profile, NEW q \in Profile, NEW a \in [vals[q] -> Obj],
         tags'[p] = Remapped(tags[q], vals[q], a), attachIO'[p] = NoIO,
         \A o \in vals[q] : data'[a[o]] = data[o]
  PROVE  FaithfulAt(p)'
<1>1. \A n \in Nodes(tags[q]) : tags[q][n].pTag # NoObj => data[tags[q][n].pTag] = tags[q][n].listed
  BY Facts DEF FaithfulAt
<1>2. ASSUME NEW n \in Nodes(tags'[p]), tags'[p][n].pTag # NoObj
      PROVE  data'[tags'[p][n].pTag] = tags'[p][n].listed
  <2>1. tags[q] \in Directory /\ vals[q] \in SUBSET Obj
        /\ \A m \in Nodes(tags[q]) : tags[q][m].pTag \in vals[q] \cup {NoObj}
    BY Facts
  <2>2. /\ n \in Nodes(tags[q])
        /\ tags'[p][n].listed = tags[q][n].listed
        /\ IF tags[q][n].pTag # NoObj
             THEN tags[q][n].pTag \in vals[q] /\ tags'[p][n].pTag = a[tags[q][n].pTag]
             ELSE tags'[p][n].pTag = NoObj
    BY <2>1, RemappedEntries
  <2> QED BY <1>1, <1>2, <2>2
<1> QED BY <1>2 DEF FaithfulAt

LEMMA CopyFaithful ==
  ASSUME CarefulInv, NEW p \in Profile, NEW q \in Profile, Copy(p, q)
  PROVE  FaithfulAt(p)'
<1>1. PICK a \in Allocs(vals[q]) :
        /\ tags' = [tags EXCEPT ![p] = Remapped(tags[q], vals[q], a)]
        /\ data' = Constructed(data, vals[q], a, data)
  BY DEF Copy
<1>2. a \in [vals[q] -> Obj] /\ \A x, y \in vals[q] : a[x] = a[y] => x = y
  BY AllocsType DEF Allocs
<1>3. Builds(data, vals[q], a, data, data') BY <1>1, <1>2, ConstructedValues
<1>4. tags'[p] = Remapped(tags[q], vals[q], a) BY <1>1 DEF CarefulInv, TypeOK
<1>5. attachIO'[p] = NoIO BY Facts DEF Copy
<1>6. \A o \in vals[q] : data'[a[o]] = data[o] BY <1>3 DEF Builds
<1> QED BY <1>2, <1>4, <1>5, <1>6, DeepCopyFaithful

LEMMA AssignFaithful ==
  ASSUME CarefulInv, NEW p \in Profile, NEW q \in Profile, Assign(p, q)
  PROVE  FaithfulAt(p)'
<1> DEFINE heap == Destroyed(data, vals[p])
<1>1. PICK a \in [vals[q] -> Free \cup vals[p]] :
        /\ \A x, y \in vals[q] : a[x] = a[y] => x = y
        /\ tags' = [tags EXCEPT ![p] = Remapped(tags[q], vals[q], a)]
        /\ data' = Constructed(heap, vals[q], a, data)
  BY DEF Assign
<1>2. a \in [vals[q] -> Obj] BY Facts DEF Free
<1> HIDE DEF heap
<1>3. Builds(heap, vals[q], a, data, data') BY <1>1, <1>2, ConstructedValues
<1>4. tags'[p] = Remapped(tags[q], vals[q], a) BY <1>1 DEF CarefulInv, TypeOK
<1>5. attachIO'[p] = NoIO BY DEF Assign, CarefulInv, TypeOK
<1>6. \A o \in vals[q] : data'[a[o]] = data[o] BY <1>3 DEF Builds
<1> QED BY <1>2, <1>4, <1>5, <1>6, DeepCopyFaithful
-----------------------------------------------------------------------------
(* AddXform(CIccProfile &): a deep copy some of whose entries are loaded from   *)
(* q's file.                                                                    *)
LEMMA AddXformCopyFaithful ==
  ASSUME CarefulInv, NEW p \in Profile, NEW q \in Profile, AddXformCopy(p, q)
  PROVE  Owned' /\ HeapFrame(p) /\ FaithfulAt(p)'
<1>0. tags[q] \in Directory /\ vals[q] \in SUBSET Obj
      /\ \A n \in Nodes(tags[q]) : tags[q][n].pTag \in vals[q] \cup {NoObj}
  BY Facts
<1> DEFINE U == {tags[q][n].off : n \in Unloaded(tags[q])}
           d == file[attachIO[q]].at
<1>a. PICK X \in SUBSET {x \in U : attachIO[q] \in open /\ CanRead(attachIO[q], x)} :
        \E a \in Allocs(vals[q]), b \in Allocs(X) :
          /\ {a[o] : o \in vals[q]} \cap {b[x] : x \in X} = {}
          /\ tags' = [tags EXCEPT ![p] = Associated(Remapped(tags[q], vals[q], a), X, b)]
          /\ vals' = [vals EXCEPT ![p] = {a[o] : o \in vals[q]} \cup {b[x] : x \in X}]
          /\ data' = LET copied == Constructed(data, vals[q], a, data) IN
                     IF X = {} THEN copied ELSE Constructed(copied, X, b, d)
  BY DEF AddXformCopy
<1>1. PICK a \in Allocs(vals[q]), b \in Allocs(X) :
        /\ {a[o] : o \in vals[q]} \cap {b[x] : x \in X} = {}
        /\ tags' = [tags EXCEPT ![p] = Associated(Remapped(tags[q], vals[q], a), X, b)]
        /\ vals' = [vals EXCEPT ![p] = {a[o] : o \in vals[q]} \cup {b[x] : x \in X}]
        /\ data' = LET copied == Constructed(data, vals[q], a, data) IN
                   IF X = {} THEN copied ELSE Constructed(copied, X, b, d)
  BY <1>a
<1> DEFINE copied == Constructed(data, vals[q], a, data)
           new    == {a[o] : o \in vals[q]}
           red    == {b[x] : x \in X}
           t      == Remapped(tags[q], vals[q], a)
<1>2. /\ a \in [vals[q] -> Obj] /\ \A x, y \in vals[q] : a[x] = a[y] => x = y
      /\ b \in [X -> Obj] /\ \A x, y \in X : b[x] = b[y] => x = y
      /\ \A o \in vals[q] : a[o] \in Free
      /\ \A x \in X : b[x] \in Free
  BY AllocsType DEF Allocs
<1>3. /\ p \notin alive /\ alive' = alive \cup {p}
      /\ attachIO' = [attachIO EXCEPT ![p] = NoIO]
  BY DEF AddXformCopy, BorrowEnded
<1>4. attachIO'[p] = NoIO BY <1>3 DEF CarefulInv, TypeOK
<1>5. vals[p] = {}
  <2>1. \A o \in vals[p] : o \in Obj /\ data[o] # NoData BY Facts
  <2>2. \A o \in vals[p] : \E r \in alive : r = p
    BY <2>1 DEF CarefulInv, TypeOK, Owned, OneOwner
  <2> QED BY <2>2, <1>3
<1>6. /\ X \subseteq Slot /\ \A x \in X : d[x] # NoData
      /\ X # {} => attachIO[q] # NoIO /\ Unloaded(tags[q]) # {}
  <2>1. X # {} => attachIO[q] \in IO /\ Unloaded(tags[q]) # {} BY DEF CarefulInv, TypeOK
  <2> QED BY <2>1, NullAssumption DEF CanRead
<1>7. Builds(data, vals[q], a, data, copied) BY <1>2, ConstructedValues
<1>8. \A n \in Nodes(tags[q]) :
        /\ tags[q][n].pTag # NoObj => data[tags[q][n].pTag] = tags[q][n].listed
        /\ tags[q][n].off \in X => d[tags[q][n].off] = tags[q][n].listed
  BY <1>6, Facts DEF FaithfulAt, ListedAt
<1>9. t \in Directory BY <1>0, <1>2, RemappedType
<1>10. tags'[p] = Associated(t, X, b) /\ \A r \in Profile \ {p} : tags'[r] = tags[r]
  BY <1>1 DEF CarefulInv, TypeOK
<1>11. \A n \in Nodes(t) :
         /\ n \in Nodes(tags[q]) /\ t[n].off = tags[q][n].off /\ t[n].listed = tags[q][n].listed
         /\ IF tags[q][n].pTag # NoObj
              THEN tags[q][n].pTag \in vals[q] /\ t[n].pTag = a[tags[q][n].pTag]
              ELSE t[n].pTag = NoObj
  BY <1>0, <1>2, RemappedEntries
<1>12. new \cap red = {} /\ vals' = [vals EXCEPT ![p] = {} \cup (new \cup red)] BY <1>1
<1>13. data' = IF X = {} THEN copied ELSE Constructed(copied, X, b, d) BY <1>1
<1> HIDE DEF copied, d, t
<1>14. Builds(copied, X, b, d, data')
  <2>1. CASE X = {} BY <2>1, <1>13 DEF Builds
  <2>2. CASE X # {} BY <2>2, <1>2, <1>13, ConstructedValues
  <2> QED BY <2>1, <2>2
<1>15. /\ \A x \in X : data'[b[x]] = d[x]
       /\ \A o \in vals[q] : data'[a[o]] = data[o]
       /\ \A o \in Obj \ (new \cup red) : data'[o] = data[o]
  BY <1>2, <1>7, <1>12, <1>14 DEF Builds
<1>16. ASSUME NEW n \in Nodes(tags'[p])
       PROVE  /\ n \in Nodes(t) /\ tags'[p][n].listed = t[n].listed
              /\ tags'[p][n].pTag = IF t[n].off \in X THEN b[t[n].off] ELSE t[n].pTag
  <2>1. n \in Nodes(t) BY <1>10, <1>16 DEF Associated, Nodes
  <2>2. t[n] \in TagEntry BY <2>1, <1>9, EntryType
  <2> QED BY <1>10, <2>1, <2>2 DEF Associated, TagEntry, Nodes
<1>17. FaithfulAt(p)'
  <2>1. ASSUME NEW n \in Nodes(tags'[p]), tags'[p][n].pTag # NoObj
        PROVE  data'[tags'[p][n].pTag] = tags'[p][n].listed
    <3>1. CASE t[n].off \in X BY <3>1, <1>8, <1>11, <1>15, <1>16
    <3>2. CASE t[n].off \notin X BY <3>2, <2>1, <1>8, <1>11, <1>15, <1>16
    <3> QED BY <3>1, <3>2
  <2> QED BY <2>1, <1>4 DEF FaithfulAt
<1>18. OwnershipChange(p, {}, new \cup red)
  <2>1. \A n \in Nodes(tags'[p]) : tags'[p][n].pTag \in new \cup red \cup {NoObj}
    BY <1>11, <1>16
  <2>2. new \cup red \subseteq Obj /\ \A o \in new \cup red : data[o] = NoData
    BY <1>2 DEF Free
  <2>3. \A o \in new \cup red : data'[o] # NoData
    <3>1. \A o \in vals[q] : data[o] # NoData BY Facts
    <3> QED BY <3>1, <1>6, <1>15 DEF d
  <2> HIDE DEF new, red
  <2> QED BY <1>3, <1>5, <1>10, <1>12, <1>15, <2>1, <2>2, <2>3 DEF OwnershipChange
<1>19. Owned' /\ HeapFrame(p) BY <1>18, OwnershipStep DEF CarefulInv
<1> QED BY <1>17, <1>19
-----------------------------------------------------------------------------
(* Who closes what: the step leaves the IO objects alone, or p closes its own. *)
LEMMA SameIOSound ==
  ASSUME CarefulInv, alive \subseteq alive', UNCHANGED <<attachIO, open>>,
         \A p \in Profile : ~sharedIO'[p]
  PROVE  IOSound'
BY DEF CarefulInv, TypeOK, IOSound, IOOwned

LEMMA CloseIOSound ==
  ASSUME CarefulInv, NEW p \in Profile, alive \ {p} \subseteq alive',
         attachIO' = [attachIO EXCEPT ![p] = NoIO], open' = open \ ClosedBy(p),
         \A q \in Profile : ~sharedIO'[q]
  PROVE  IOSound'
<1>1. open' = open \ {attachIO[p]} BY Facts DEF ClosedBy
<1>2. /\ attachIO'[p] = NoIO
      /\ \A q \in Profile \ {p} : attachIO'[q] = attachIO[q]
  BY DEF CarefulInv, TypeOK
<1>3. \A q \in Profile : attachIO'[q] # NoIO => attachIO'[q] \in open' /\ q \in alive'
  BY <1>1, <1>2 DEF CarefulInv, IOSound, IOOwned
<1>4. ASSUME NEW f \in open' PROVE \E q \in alive' : attachIO'[q] = f /\ ~sharedIO'[q]
  <2>1. f \in open /\ f # attachIO[p] BY <1>1, <1>4
  <2>2. PICK q \in alive : attachIO[q] = f BY <2>1 DEF CarefulInv, IOSound, IOOwned
  <2>3. q \in Profile \ {p} BY <2>1, <2>2 DEF CarefulInv, TypeOK
  <2> QED BY <1>2, <2>2, <2>3
<1>5. \A q, r \in Profile : attachIO'[q] # NoIO /\ attachIO'[q] = attachIO'[r] => q = r
  BY <1>2 DEF CarefulInv, IOSound, IOOwned
<1> QED BY <1>3, <1>4, <1>5 DEF IOSound, IOOwned

LEMMA AttachIOSound ==
  ASSUME CarefulInv, NEW p \in Profile, NEW f \in IO, IsNew(p), Attach(p, f)
  PROVE  IOSound'
<1>1. Nodes(tags[p]) = {} /\ attachIO[p] = NoIO BY DEF IsNew, Nodes, NoTags
<1>2. /\ p \in alive /\ alive' = alive /\ f \notin open /\ open' = open \cup {f}
      /\ attachIO' = [attachIO EXCEPT ![p] = f] /\ sharedIO' = sharedIO
  BY <1>1 DEF Attach
<1>3. /\ attachIO'[p] = f
      /\ \A q \in Profile \ {p} : attachIO'[q] = attachIO[q] /\ attachIO'[q] # f
  BY <1>2, NullAssumption DEF CarefulInv, TypeOK, IOSound, IOOwned
<1>4. \A q \in Profile : attachIO'[q] # NoIO => attachIO'[q] \in open' /\ q \in alive'
  BY <1>2, <1>3 DEF CarefulInv, IOSound, IOOwned
<1>5. ASSUME NEW g \in open' PROVE \E q \in alive' : attachIO'[q] = g /\ ~sharedIO'[q]
  <2>1. CASE g = f BY <2>1, <1>2, <1>3, Facts
  <2>2. CASE g \in open
    <3>1. g \in IO BY <2>2 DEF CarefulInv, TypeOK
    <3>2. PICK q \in alive : attachIO[q] = g BY <2>2 DEF CarefulInv, IOSound, IOOwned
    <3>3. q \in Profile \ {p} BY <1>1, <3>1, <3>2, NullAssumption DEF CarefulInv, TypeOK
    <3> QED BY <1>2, <1>3, <3>2, <3>3, Facts
  <2> QED BY <1>2, <2>1, <2>2
<1>6. \A q, r \in Profile : attachIO'[q] # NoIO /\ attachIO'[q] = attachIO'[r] => q = r
  BY <1>3 DEF CarefulInv, IOSound, IOOwned
<1> QED BY <1>2, <1>4, <1>5, <1>6, Facts DEF IOSound, IOOwned
-----------------------------------------------------------------------------
(* What a careful step on p establishes. *)
Frame(p) ==
  /\ \A q \in Profile \ {p} : tags'[q] = tags[q] /\ attachIO'[q] = attachIO[q]
  /\ \A f \in open : file'[f] = file[f]

Sound(p) == Owned' /\ HeapFrame(p) /\ Frame(p) /\ FaithfulAt(p)' /\ IOSound'

LEMMA NewSound == ASSUME CarefulInv, NEW p \in Profile, New(p) PROVE Sound(p)
<1>1. Owned' /\ HeapFrame(p)
  BY DEF New, CarefulInv, Owned, EntriesOwned, OneOwner, Nodes, HeapFrame
<1>2. Frame(p) BY DEF New, Frame
<1>3. FaithfulAt(p)' BY Facts DEF New, FaithfulAt, ListedAt
<1>4. IOSound' BY Facts, SameIOSound DEF New, CarefulInv, TypeOK
<1> QED BY <1>1, <1>2, <1>3, <1>4 DEF Sound

(* ~CIccProfile, and Attach or Read that fail. *)
LEMMA CleanupSound ==
  ASSUME CarefulInv, NEW p \in Profile, Cleanup(p), alive \ {p} \subseteq alive',
         UNCHANGED <<sharedIO, file>>
  PROVE  Sound(p)
<1>1. Owned' /\ HeapFrame(p) BY CleanupOwned DEF CarefulInv
<1>2. Frame(p) BY DEF Cleanup, Frame, CarefulInv, TypeOK
<1>3. tags'[p] = NoTags BY DEF Cleanup, CarefulInv, TypeOK
<1>4. FaithfulAt(p)' BY <1>3, EmptyFaithful
<1>5. attachIO' = [attachIO EXCEPT ![p] = NoIO] /\ open' = open \ ClosedBy(p) BY DEF Cleanup
<1>6. \A q \in Profile : ~sharedIO'[q] BY Facts
<1>7. IOSound' BY <1>5, <1>6, CloseIOSound
<1> QED BY <1>1, <1>2, <1>4, <1>7 DEF Sound

LEMMA EditSound ==
  ASSUME CarefulInv, NEW p \in Profile, LoadOrEdit(p) \/ ReadTags(p, p) PROVE Sound(p)
<1>1. Owned' /\ HeapFrame(p) BY EditOwned, ReadTagsOwned DEF CarefulInv
<1>2. CASE ReadTags(p, p)
  <2>1. UNCHANGED <<alive, attachIO, sharedIO, file, open>>
        /\ tags' = [tags EXCEPT ![p] = tags'[p]]
    BY <1>2 DEF ReadTags, Load, CarefulInv, TypeOK
  <2>2. Frame(p) BY <2>1 DEF Frame, CarefulInv, TypeOK
  <2>3. IOSound' BY <2>1, Facts, SameIOSound
  <2> QED BY <1>1, <1>2, <2>2, <2>3, ReadTagsFaithful DEF Sound
<1>3. ASSUME NEW s \in Sig, FindTag(p, s) PROVE Sound(p)
  <2>1. UNCHANGED <<alive, attachIO, sharedIO, file, open>>
        /\ tags' = [tags EXCEPT ![p] = tags'[p]]
    BY <1>3 DEF FindTag, Load, CarefulInv, TypeOK
  <2>2. Frame(p) BY <2>1 DEF Frame, CarefulInv, TypeOK
  <2>3. IOSound' BY <2>1, Facts, SameIOSound
  <2> QED BY <1>1, <1>3, <2>2, <2>3, FindTagFaithful DEF Sound
<1>4. ASSUME NEW s \in Sig, NEW o \in Obj, NEW d \in Data, AttachTag(p, s, o, d)
      PROVE  Sound(p)
  <2>1. UNCHANGED <<alive, attachIO, sharedIO, file, open>>
        /\ \A q \in Profile \ {p} : tags'[q] = tags[q]
    BY <1>4 DEF AttachTag, CarefulInv, TypeOK
  <2>2. Frame(p) BY <2>1 DEF Frame
  <2>3. IOSound' BY <2>1, Facts, SameIOSound
  <2> QED BY <1>1, <1>4, <2>2, <2>3, AttachTagFaithful DEF Sound
<1>5. ASSUME NEW s \in Sig, DeleteTag(p, s) PROVE Sound(p)
  <2>1. UNCHANGED <<alive, attachIO, sharedIO, file, open>>
        /\ \A q \in Profile \ {p} : tags'[q] = tags[q]
    BY <1>5 DEF DeleteTag, CarefulInv, TypeOK
  <2>2. Frame(p) BY <2>1 DEF Frame
  <2>3. IOSound' BY <2>1, Facts, SameIOSound
  <2> QED BY <1>1, <1>5, <2>2, <2>3, DeleteTagFaithful DEF Sound
<1>6. CASE Detach(p)
  <2>1. Frame(p) BY <1>6 DEF Detach, Frame, CarefulInv, TypeOK
  <2>2. \A q \in Profile : ~sharedIO'[q] BY <1>6, Facts DEF Detach, CarefulInv, TypeOK
  <2>3. alive \ {p} \subseteq alive' /\ attachIO' = [attachIO EXCEPT ![p] = NoIO]
        /\ open' = open \ ClosedBy(p)
    BY <1>6 DEF Detach
  <2>4. IOSound' BY <2>2, <2>3, CloseIOSound
  <2> QED BY <1>1, <1>6, <2>1, <2>4, DetachFaithful DEF Sound
<1> QED BY <1>2, <1>3, <1>4, <1>5, <1>6 DEF LoadOrEdit

LEMMA AttachSound ==
  ASSUME CarefulInv, NEW p \in Profile, NEW f \in IO, IsNew(p),
         Attach(p, f) \/ AttachOrReadFails(p, f) \/ Read(p, f)
  PROVE  Sound(p)
<1>1. CASE Attach(p, f)
  <2>1. Owned' /\ HeapFrame(p) BY <1>1, AttachOwned DEF CarefulInv
  <2>2. Frame(p) BY <1>1 DEF Attach, Frame, CarefulInv, TypeOK
  <2> QED BY <1>1, <2>1, <2>2, AttachFaithful, AttachIOSound DEF Sound
<1>2. CASE AttachOrReadFails(p, f) BY <1>2, CleanupSound DEF AttachOrReadFails
<1>3. CASE Read(p, f)
  <2>1. Owned' /\ HeapFrame(p) BY <1>3, ReadOwned DEF CarefulInv
  <2>2. FaithfulAt(p)' /\ attachIO' = attachIO /\ open' = open BY <1>3, ReadFaithful
  <2>3. /\ alive' = alive /\ sharedIO' = sharedIO /\ file' = file
        /\ \A q \in Profile \ {p} : tags'[q] = tags[q]
    BY <1>3 DEF Read, CarefulInv, TypeOK
  <2>4. IOSound' BY <2>2, <2>3, Facts, SameIOSound
  <2> QED BY <2>1, <2>2, <2>3, <2>4 DEF Sound, Frame
<1> QED BY <1>1, <1>2, <1>3

LEMMA WriteSound ==
  ASSUME CarefulInv, NEW p \in Profile, NEW f \in Target, Unloaded(tags[p]) = {},
         WriteOrFail(p, f)
  PROVE  Sound(p)
<1>1. Owned' /\ HeapFrame(p) BY WriteOwned DEF CarefulInv
<1>2. f \notin open
  BY DEF WriteOrFail, Write, WriteFailsInHeader, WriteFailsInFirstPass, WriteFailsInTags, WriteFailsInLastPass
<1>3. WriteEffect(p, f) BY WriteShape DEF CarefulInv
<1>4. /\ UNCHANGED <<alive, attachIO, sharedIO, open>>
      /\ \A q \in Profile \ {p} : tags'[q] = tags[q]
      /\ \A g \in open : file'[g] = file[g]
  BY <1>2, <1>3 DEF WriteEffect, CarefulInv, TypeOK
<1>5. Frame(p) BY <1>4 DEF Frame
<1>6. IOSound' BY <1>4, Facts, SameIOSound
<1> QED BY <1>1, <1>5, <1>6, WriteFaithful DEF Sound

LEMMA CopiesSound ==
  ASSUME CarefulInv, NEW p \in Profile, NEW q \in Profile,
         Copy(p, q) \/ Assign(p, q) \/ AddXformCopy(p, q)
  PROVE  Sound(p)
<1>1. CASE Copy(p, q)
  <2>1. Owned' /\ HeapFrame(p) BY <1>1, CopyOwned DEF CarefulInv
  <2>2. Frame(p) BY <1>1 DEF Copy, Frame, CarefulInv, TypeOK
  <2>3. IOSound' BY <1>1, Facts, SameIOSound DEF Copy, CarefulInv, TypeOK
  <2> QED BY <1>1, <2>1, <2>2, <2>3, CopyFaithful DEF Sound
<1>2. CASE Assign(p, q)
  <2>1. Owned' /\ HeapFrame(p) BY <1>2, AssignOwned DEF CarefulInv
  <2>2. Frame(p) BY <1>2 DEF Assign, Frame, CarefulInv, TypeOK
  <2>3. /\ alive \ {p} \subseteq alive' /\ attachIO' = [attachIO EXCEPT ![p] = NoIO]
        /\ open' = open \ ClosedBy(p) /\ sharedIO' = sharedIO
    BY <1>2 DEF Assign
  <2>4. IOSound' BY <2>3, Facts, CloseIOSound
  <2> QED BY <1>2, <2>1, <2>2, <2>4, AssignFaithful DEF Sound
<1>3. CASE AddXformCopy(p, q)
  <2>1. /\ p \notin alive /\ alive' = alive \cup {p}
        /\ attachIO' = [attachIO EXCEPT ![p] = NoIO]
        /\ sharedIO' = [sharedIO EXCEPT ![p] = FALSE]
        /\ UNCHANGED <<file, open>>
        /\ \A r \in Profile \ {p} : tags'[r] = tags[r]
    BY <1>3 DEF AddXformCopy, BorrowEnded, CarefulInv, TypeOK
  <2>2. attachIO[p] = NoIO BY <2>1, Facts
  <2>3. attachIO' = attachIO BY <2>1, <2>2 DEF CarefulInv, TypeOK
  <2>4. \A r \in Profile : ~sharedIO'[r] BY <2>1, Facts DEF CarefulInv, TypeOK
  <2>5. IOSound' BY <2>1, <2>3, <2>4, SameIOSound
  <2>6. Frame(p) BY <2>1, <2>3 DEF Frame
  <2> QED BY <1>3, <2>5, <2>6, AddXformCopyFaithful DEF Sound
<1> QED BY <1>1, <1>2, <1>3
-----------------------------------------------------------------------------
LEMMA CarefulStep == CarefulInv /\ CarefulNext => CarefulInv'
<1> SUFFICES ASSUME CarefulInv, CarefulNext PROVE CarefulInv'
  OBVIOUS
<1>1. PICK p \in Profile :
        \/ New(p)
        \/ Delete(p)
        \/ LoadOrEdit(p)
        \/ ReadTags(p, p)
        \/ IsNew(p) /\ \E f \in IO : Attach(p, f) \/ AttachOrReadFails(p, f) \/ Read(p, f)
        \/ Unloaded(tags[p]) = {} /\ \E f \in Target : WriteOrFail(p, f)
        \/ \E q \in Profile : Copy(p, q) \/ Assign(p, q) \/ AddXformCopy(p, q)
  BY DEF CarefulNext
<1>2. TypeOK'
  <2>1. ASSUME NEW q \in Profile, AddXformCopy(p, q) PROVE TypeOK'
    BY <2>1, AddXformCopyType DEF CarefulInv
  <2>2. CASE Next BY <2>2, NextType DEF CarefulInv
  <2> QED BY <1>1, <2>1, <2>2 DEF Next
<1>3. Sound(p)
  <2>1. CASE Delete(p) BY <2>1, CleanupSound DEF Delete
  <2> QED BY <1>1, <2>1, NewSound, EditSound, AttachSound, WriteSound, CopiesSound
<1>4. ASSUME NEW q \in Profile \ {p} PROVE FaithfulAt(q)'
  BY <1>3, OthersFaithful DEF Sound, Frame
<1> QED BY <1>2, <1>3, <1>4 DEF Sound, CarefulInv

LEMMA CarefulInit == Init => CarefulInv
<1> SUFFICES ASSUME Init PROVE CarefulInv
  OBVIOUS
<1>1. TypeOK /\ Owned BY InitType, InitOwned
<1>2. IOSound BY DEF Init, IOSound, IOOwned
<1>3. \A p \in Profile : FaithfulAt(p) BY DEF Init, FaithfulAt, Nodes, NoTags, Unloaded
<1> QED BY <1>1, <1>2, <1>3 DEF CarefulInv

LEMMA CarefulInvariant == CarefulSpec => []CarefulInv
<1>1. CarefulInv /\ UNCHANGED vars => CarefulInv'
  <2> SUFFICES ASSUME CarefulInv, UNCHANGED vars PROVE CarefulInv'
    OBVIOUS
  <2>1. TypeOK' BY DEF vars, CarefulInv, TypeOK
  <2>2. Owned' BY DEF vars, CarefulInv, Owned, EntriesOwned, OneOwner
  <2>3. IOSound' BY DEF vars, CarefulInv, IOSound, IOOwned
  <2>4. \A p \in Profile : FaithfulAt(p)' BY DEF vars, CarefulInv, FaithfulAt, ListedAt
  <2> QED BY <2>1, <2>2, <2>3, <2>4 DEF CarefulInv
<1> QED BY <1>1, CarefulInit, CarefulStep, PTL DEF CarefulSpec

(* A careful client is always served the payload an entry was listed with.      *)
THEOREM CarefulEntriesFaithful == CarefulSpec => []EntriesFaithful
<1>1. CarefulInv => EntriesFaithful BY FaithfulSplit DEF CarefulInv
<1> QED BY <1>1, CarefulInvariant, PTL

(* A careful client's IO objects are closed exactly once, by the profile that   *)
(* owns them, and never used afterwards.                                        *)
THEOREM CarefulIOOwned == CarefulSpec => []IOOwned
<1>1. CarefulInv => IOOwned BY DEF CarefulInv, IOSound
<1> QED BY <1>1, CarefulInvariant, PTL

(* No two profiles of a careful client own one tag object, a copy that borrows  *)
(* its original's IO object included.                                           *)
THEOREM CarefulOneOwner == CarefulSpec => []OneOwner
<1>1. CarefulInv => OneOwner BY DEF CarefulInv, Owned
<1> QED BY <1>1, CarefulInvariant, PTL
=============================================================================
