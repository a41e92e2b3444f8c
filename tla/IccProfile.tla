----------------------------- MODULE IccProfile -----------------------------
(***************************************************************************)
(* The tag directory of CIccProfile (IccProfLib/IccProfile.cpp): which tag  *)
(* objects a profile owns, which directory entries name them, how entries   *)
(* are loaded lazily from an attached IO object, how a profile is written,  *)
(* copied, re-attached and destroyed, and who closes the IO object.         *)
(*                                                                         *)
(* m_Tags is a std::list whose nodes keep their address (GetTag hands the   *)
(* address out), so a profile's directory is a function on node numbers: a  *)
(* larger number is further down the list and an erased node is NoEntry.    *)
(* m_TagVals is a set of objects: the code never pushes one twice.          *)
(*                                                                         *)
(* What is abstracted: a tag's payload is a member of Data; every payload   *)
(* occupies TagBytes bytes of the file once aligned; an entry's size is     *)
(* implied by its offset (0 for an entry that has no place in a file); the  *)
(* header fields other than the file being an ICC file are left out.        *)
(***************************************************************************)
EXTENDS Naturals, FiniteSets

CONSTANTS
  Profile,      \* CIccProfile objects
  IO,           \* files, each opened through at most one CIccIO object at a time
  Target,       \* the files the client saves to
  Obj,          \* CIccTag objects (the bound on live tag objects)
  Sig,          \* tag signatures
  Data,         \* payloads of tags
  MaxTags,      \* bound on the nodes of a directory
  TagBytes,     \* bytes a payload occupies in a file
  InitFile,     \* the files before the program starts
  NoObj,        \* a null CIccTag pointer
  NoIO,         \* a null CIccIO pointer
  NoData,       \* no payload: a free object, or bytes CIccTag::Read refuses
  NoEntry       \* a node number that is not in a list

NodeId == 1 .. MaxTags

(* End of a directory of n entries: 128 header bytes, the count, the entries. *)
TagDirEnd(n) == 132 + 12 * n

Slot   == {TagDirEnd(n) + TagBytes * k : n \in 0 .. MaxTags, k \in 0 .. MaxTags}
Offset == {0} \cup Slot

Payload  == Data \cup {NoData}
DirEntry == [sig : Sig, off : Offset]

(* IccTagEntry.  "listed" is a history variable: the payload the entry stood  *)
(* for when it entered the directory.                                         *)
TagEntry == [sig : Sig, off : Offset, pTag : Obj \cup {NoObj}, listed : Payload]

(* icc: ReadBasic accepts the file; dir: its tag table; at: what CIccTag::Read *)
(* makes of the bytes at an offset.                                           *)
File == [icc : BOOLEAN,
         dir : [NodeId -> DirEntry \cup {NoEntry}],
         at  : [Slot -> Payload]]

ASSUME BoundAssumption == MaxTags \in Nat /\ TagBytes \in Nat \ {0}
ASSUME NullAssumption ==
  /\ NoObj \notin Obj
  /\ NoIO \notin IO
  /\ NoData \notin Data
  /\ NoEntry \notin DirEntry
  /\ NoEntry \notin TagEntry
ASSUME FileAssumption == InitFile \in [IO -> File] /\ Target \subseteq IO

VARIABLES
  alive,     \* profiles that exist
  tags,      \* m_Tags of each profile
  vals,      \* m_TagVals of each profile
  attachIO,  \* m_pAttachIO
  sharedIO,  \* m_bSharedIO
  data,      \* payload of each live tag object, NoData when it is free
  file,      \* contents of the files
  open       \* files a live CIccIO object holds open

vars == <<alive, tags, vals, attachIO, sharedIO, data, file, open>>

TypeOK ==
  /\ alive \in SUBSET Profile
  /\ tags \in [Profile -> [NodeId -> TagEntry \cup {NoEntry}]]
  /\ vals \in [Profile -> SUBSET Obj]
  /\ attachIO \in [Profile -> IO \cup {NoIO}]
  /\ sharedIO \in [Profile -> BOOLEAN]
  /\ data \in [Obj -> Payload]
  /\ file \in [IO -> File]
  /\ open \in SUBSET IO
-----------------------------------------------------------------------------
(* Reading the directory *)

NoTags == [n \in NodeId |-> NoEntry]

Nodes(t)    == {n \in NodeId : t[n] # NoEntry}
Loaded(t)   == {n \in Nodes(t) : t[n].pTag # NoObj}
Unloaded(t) == Nodes(t) \ Loaded(t)

(* GetTag(sig): the first node with the signature. *)
IsFirst(t, s, n) ==
  /\ n \in Nodes(t) /\ t[n].sig = s
  /\ \A m \in Nodes(t) : m < n => t[m].sig # s

HasTag(t, s) == \E n \in Nodes(t) : t[n].sig = s

(* The node push_back creates. *)
IsBack(t, n) ==
  /\ \A m \in Nodes(t) : m < n
  /\ n = 1 \/ n - 1 \in Nodes(t)

Free == {o \in Obj : data[o] = NoData}

(* Objects the allocator can return for the keys in X, one each. *)
Allocs(X) == {a \in [X -> Free] : \A x, y \in X : a[x] = a[y] => x = y}

(* The heap once the objects a[x] have been given the payloads d[x]. *)
Constructed(heap, X, a, d) ==
  [o \in Obj |-> IF \E x \in X : a[x] = o THEN d[CHOOSE x \in X : a[x] = o]
                                           ELSE heap[o]]

Destroyed(heap, S) == [o \in Obj |-> IF o \in S THEN NoData ELSE heap[o]]

(* Cleanup deletes the IO object unless it is shared. *)
ClosedBy(p) == IF sharedIO[p] THEN {} ELSE {attachIO[p]}
-----------------------------------------------------------------------------
(* LoadTag: an offset inside the header, data beyond the end of the file and a *)
(* payload CIccTag::Read refuses all fail.                                     *)
CanRead(f, off) == off \in Slot /\ file[f].at[off] # NoData

AssociatedRegardless(t, X, a) ==
  [n \in NodeId |-> IF n \in Unloaded(t)
                      THEN [t[n] EXCEPT !.pTag = a[CHOOSE x \in X : TRUE]] ELSE t[n]]

(* The directory after objects were read from the offsets X: the last loop of  *)
(* LoadTag points every entry with that offset at the new object.              *)
Associated(t, X, a) ==
  [n \in NodeId |-> IF n \in Nodes(t) /\ t[n].off \in X
                      THEN [t[n] EXCEPT !.pTag = a[t[n].off]] ELSE t[n]]

(* Read and ReadTags call LoadTag down the list and stop at the first failure. *)
Failing(t, f) == {n \in Unloaded(t) : ~CanRead(f, t[n].off)}
LoadSet(t, f) ==
  {t[n].off : n \in {u \in Unloaded(t) : \A m \in Failing(t, f) : u < m}}

(* The directory ReadBasic builds from a file, and the one it leaves in place. *)
ListedAt(f, off) == IF off \in Slot THEN file[f].at[off] ELSE NoData
ReadBasic(f) ==
  [n \in NodeId |->
     IF file[f].dir[n] = NoEntry THEN NoEntry
     ELSE [sig |-> file[f].dir[n].sig, off |-> file[f].dir[n].off,
           pTag |-> NoObj, listed |-> ListedAt(f, file[f].dir[n].off)]]
-----------------------------------------------------------------------------
(* Write: loaded entries only, in list order, each distinct object once. *)

Leads(t, n) ==
  n \in Loaded(t) /\ \A m \in Loaded(t) : m < n => t[m].pTag # t[n].pTag

WrittenBeforeAliasToo(t, n) == {m \in Loaded(t) : Leads(t, m) /\ m < n}

(* Objects written before the object of node n. *)
WrittenBefore(t, n) ==
  {m \in Loaded(t) : Leads(t, m) /\ \A k \in Loaded(t) : t[k].pTag = t[n].pTag => m < k}

WriteOffsetWithoutCount(t, n) ==
  128 + 12 * Cardinality(Loaded(t)) + TagBytes * Cardinality(WrittenBefore(t, n))

WriteOffset(t, n) ==
  TagDirEnd(Cardinality(Loaded(t))) + TagBytes * Cardinality(WrittenBefore(t, n))

(* Entries in P have their new place, the other loaded ones in Z offset zero. *)
Placed(t, P, Z) ==
  [n \in NodeId |-> IF n \in P THEN [t[n] EXCEPT !.off = WriteOffset(t, n)]
                    ELSE IF n \in Z THEN [t[n] EXCEPT !.off = 0] ELSE t[n]]

(* The file Write produces when the directory entries in P are final. *)
WrittenFile(t, P) ==
  [icc |-> TRUE,
   dir |-> [n \in NodeId |->
              IF n \in P THEN [sig |-> t[n].sig, off |-> WriteOffset(t, n)]
              ELSE IF n \in Loaded(t) THEN [sig |-> t[n].sig, off |-> 0]
              ELSE NoEntry],
   at  |-> [x \in Slot |->
              IF \E n \in Loaded(t) : WriteOffset(t, n) = x
                THEN data[t[CHOOSE n \in Loaded(t) : WriteOffset(t, n) = x].pTag]
                ELSE NoData]]

EmptyFile == [icc |-> FALSE, dir |-> NoTags, at |-> [x \in Slot |-> NoData]]
-----------------------------------------------------------------------------
(* Operations.  A primed profile field that an action does not mention keeps  *)
(* its value through EXCEPT.                                                  *)

Init ==
  /\ alive = {}
  /\ tags = [p \in Profile |-> NoTags]
  /\ vals = [p \in Profile |-> {}]
  /\ attachIO = [p \in Profile |-> NoIO]
  /\ sharedIO = [p \in Profile |-> FALSE]
  /\ data = [o \in Obj |-> NoData]
  /\ file = InitFile
  /\ open = {}

(* CIccProfile(): an empty profile without IO. *)
New(p) ==
  /\ p \notin alive
  /\ alive' = alive \cup {p}
  /\ sharedIO' = [sharedIO EXCEPT ![p] = FALSE]
  /\ UNCHANGED <<tags, vals, attachIO, data, file, open>>

CleanupForgettingTags(p) ==
  /\ tags' = [tags EXCEPT ![p] = NoTags]
  /\ vals' = [vals EXCEPT ![p] = {}]
  /\ attachIO' = [attachIO EXCEPT ![p] = NoIO]
  /\ data' = data
  /\ open' = open \ ClosedBy(p)

(* Cleanup: deletes the IO object unless it is shared, and every owned tag.   *)
(* m_bSharedIO keeps its value.                                               *)
Cleanup(p) ==
  /\ tags' = [tags EXCEPT ![p] = NoTags]
  /\ vals' = [vals EXCEPT ![p] = {}]
  /\ attachIO' = [attachIO EXCEPT ![p] = NoIO]
  /\ data' = Destroyed(data, vals[p])
  /\ open' = open \ ClosedBy(p)

(* ~CIccProfile *)
Delete(p) ==
  /\ p \in alive
  /\ alive' = alive \ {p}
  /\ Cleanup(p)
  /\ UNCHANGED <<sharedIO, file>>

(* Attach on a file the client has just opened.  Cleanup runs first only when *)
(* the directory is not empty.                                                *)
Attach(p, f) ==
  LET cleanup == Nodes(tags[p]) # {} IN
  /\ p \in alive /\ f \notin open
  /\ file[f].icc
  /\ tags' = [tags EXCEPT ![p] = ReadBasic(f)]
  /\ vals' = [vals EXCEPT ![p] = IF cleanup THEN {} ELSE @]
  /\ data' = IF cleanup THEN Destroyed(data, vals[p]) ELSE data
  /\ open' = (open \ (IF cleanup THEN ClosedBy(p) ELSE {})) \cup {f}
  /\ attachIO' = [attachIO EXCEPT ![p] = f]
  /\ UNCHANGED <<alive, sharedIO, file>>

(* Attach and Read on a file that is not a profile, Read on one with a tag    *)
(* that does not load: the profile ends up empty, the client closes the file. *)
AttachOrReadFails(p, f) ==
  /\ p \in alive /\ f \notin open
  /\ ~file[f].icc \/ Failing(ReadBasic(f), f) # {}
  /\ Cleanup(p)
  /\ UNCHANGED <<alive, sharedIO, file>>

(* Read: every tag is loaded and the IO object is not kept. *)
Read(p, f) ==
  LET cleanup == Nodes(tags[p]) # {}
      heap    == IF cleanup THEN Destroyed(data, vals[p]) ELSE data
      t       == ReadBasic(f)
      X       == LoadSet(t, f) IN
  /\ p \in alive /\ f \notin open
  /\ file[f].icc /\ Failing(t, f) = {}
  /\ \E a \in Allocs(X) :
       /\ tags' = [tags EXCEPT ![p] = Associated(t, X, a)]
       /\ vals' = [vals EXCEPT ![p] = (IF cleanup THEN {} ELSE @) \cup {a[x] : x \in X}]
       /\ data' = Constructed(heap, X, a, file[f].at)
  /\ open' = open \ (IF cleanup THEN ClosedBy(p) ELSE {})
  /\ attachIO' = [attachIO EXCEPT ![p] = IF cleanup THEN NoIO ELSE @]
  /\ UNCHANGED <<alive, sharedIO, file>>

(* Objects are read from the offsets X of file f into p's directory. *)
Load(p, f, X) ==
  \E a \in Allocs(X) :
    /\ tags' = [tags EXCEPT ![p] = Associated(@, X, a)]
    /\ vals' = [vals EXCEPT ![p] = @ \cup {a[x] : x \in X}]
    /\ data' = Constructed(data, X, a, file[f].at)

(* FindTag on an entry that is not loaded, while an IO object is attached.    *)
(* (On a loaded entry, or when the tag cannot be read, nothing changes.)      *)
FindTag(p, s) ==
  \E n \in NodeId :
    /\ p \in alive /\ attachIO[p] \in open
    /\ IsFirst(tags[p], s, n)
    /\ n \in Unloaded(tags[p])
    /\ CanRead(attachIO[p], tags[p][n].off)
    /\ Load(p, attachIO[p], {tags[p][n].off})
    /\ UNCHANGED <<alive, attachIO, sharedIO, file, open>>

(* ReadTags(q): q's IO object when it has one, else p's own; the entries before *)
(* the first one that does not load stay loaded.                                *)
ReadTags(p, q) ==
  LET f == IF attachIO[q] # NoIO THEN attachIO[q] ELSE attachIO[p] IN
  /\ p \in alive /\ q \in alive /\ f \in open
  /\ LoadSet(tags[p], f) # {}
  /\ Load(p, f, LoadSet(tags[p], f))
  /\ UNCHANGED <<alive, attachIO, sharedIO, file, open>>

(* AttachTag of an object the client has just made with payload d, or of one   *)
(* the profile owns already; refused when the signature is present.            *)
AttachTag(p, s, o, d) ==
  /\ p \in alive
  /\ o \in Free \cup vals[p]
  /\ o \in vals[p] => d = data[o]
  /\ ~HasTag(tags[p], s)
  /\ \E n \in NodeId :
       /\ IsBack(tags[p], n)
       /\ tags' = [tags EXCEPT ![p][n] = [sig |-> s, off |-> 0, pTag |-> o, listed |-> d]]
  /\ vals' = [vals EXCEPT ![p] = @ \cup {o}]
  /\ data' = [data EXCEPT ![o] = d]
  /\ UNCHANGED <<alive, attachIO, sharedIO, file, open>>

(* DeleteTag: the entry is erased, and the object with it when no other entry  *)
(* names it (DetachTag then finds no entry left to erase).                     *)
Erased(t, n) == [t EXCEPT ![n] = NoEntry]

OrphansIgnoringAliases(t, o) == IF o # NoObj THEN {o} ELSE {}

Orphans(t, o) == IF o # NoObj /\ \A m \in Nodes(t) : t[m].pTag # o THEN {o} ELSE {}

DeleteTag(p, s) ==
  \E n \in NodeId :
    LET t    == Erased(tags[p], n)
        dead == Orphans(t, tags[p][n].pTag) IN
    /\ p \in alive
    /\ IsFirst(tags[p], s, n)
    /\ tags' = [tags EXCEPT ![p] = t]
    /\ vals' = [vals EXCEPT ![p] = @ \ dead]
    /\ data' = Destroyed(data, dead)
    /\ UNCHANGED <<alive, attachIO, sharedIO, file, open>>

(* Detach: an own IO object is deleted, a shared one only forgotten. *)
Detach(p) ==
  /\ p \in alive
  /\ attachIO[p] # NoIO \/ sharedIO[p]
  /\ open' = open \ ClosedBy(p)
  /\ attachIO' = [attachIO EXCEPT ![p] = NoIO]
  /\ sharedIO' = [sharedIO EXCEPT ![p] = FALSE]
  /\ UNCHANGED <<alive, tags, vals, data, file>>

(* CopyAttach(q, true) borrows q's IO object; CopyAttach(nullptr) returns it. *)
CopyAttach(p, q) ==
  /\ p \in alive /\ q \in alive
  /\ attachIO' = [attachIO EXCEPT ![p] = attachIO[q]]
  /\ sharedIO' = [sharedIO EXCEPT ![p] = TRUE]
  /\ UNCHANGED <<alive, tags, vals, data, file, open>>

CopyAttachNull(p) ==
  /\ p \in alive
  /\ attachIO' = [attachIO EXCEPT ![p] = NoIO]
  /\ sharedIO' = [sharedIO EXCEPT ![p] = FALSE]
  /\ UNCHANGED <<alive, tags, vals, data, file, open>>

(* The directory of a copy of q whose objects are copied to a[o]. *)
Remapped(t, S, a) ==
  [n \in NodeId |-> IF n \in Nodes(t)
                      THEN [t[n] EXCEPT !.pTag = IF @ \in S THEN a[@] ELSE NoObj]
                      ELSE NoEntry]

(* CIccProfile(const CIccProfile &): deep copy, entries that shared an object   *)
(* share its copy, no IO.                                                       *)
Copy(p, q) ==
  /\ p \notin alive /\ q \in alive
  /\ alive' = alive \cup {p}
  /\ \E a \in Allocs(vals[q]) :
       /\ tags' = [tags EXCEPT ![p] = Remapped(tags[q], vals[q], a)]
       /\ vals' = [vals EXCEPT ![p] = {a[o] : o \in vals[q]}]
       /\ data' = Constructed(data, vals[q], a, data)
  /\ sharedIO' = [sharedIO EXCEPT ![p] = FALSE]
  /\ UNCHANGED <<attachIO, file, open>>

(* operator=: Cleanup, then the same copy; m_bSharedIO keeps its value. *)
Assign(p, q) ==
  /\ p \in alive /\ q \in alive /\ p # q
  /\ \E a \in [vals[q] -> Free \cup vals[p]] :
       /\ \A x, y \in vals[q] : a[x] = a[y] => x = y
       /\ tags' = [tags EXCEPT ![p] = Remapped(tags[q], vals[q], a)]
       /\ vals' = [vals EXCEPT ![p] = {a[o] : o \in vals[q]}]
       /\ data' = Constructed(Destroyed(data, vals[p]), vals[q], a, data)
  /\ attachIO' = [attachIO EXCEPT ![p] = NoIO]
  /\ open' = open \ ClosedBy(p)
  /\ UNCHANGED <<alive, sharedIO, file>>

BorrowKept(p, q)  == attachIO' = [attachIO EXCEPT ![p] = attachIO[q]]
BorrowEnded(p, q) == attachIO' = [attachIO EXCEPT ![p] = NoIO]

(* CIccCmm::AddXform(CIccProfile &): a copy borrows q's IO object while the     *)
(* transform loads the tags it needs, then gives it back (on an error the copy  *)
(* is deleted and nothing is left of it).                                       *)
AddXformCopy(p, q) ==
  LET U == {tags[q][n].off : n \in Unloaded(tags[q])} IN
  /\ p \notin alive /\ q \in alive
  /\ alive' = alive \cup {p}
  /\ \E X \in SUBSET {x \in U : attachIO[q] \in open /\ CanRead(attachIO[q], x)} :
     \E a \in Allocs(vals[q]), b \in Allocs(X) :
       LET new == {a[o] : o \in vals[q]}
           red == {b[x] : x \in X} IN
       /\ new \cap red = {}
       /\ tags' = [tags EXCEPT ![p] = Associated(Remapped(tags[q], vals[q], a), X, b)]
       /\ vals' = [vals EXCEPT ![p] = new \cup red]
       /\ data' = LET copied == Constructed(data, vals[q], a, data) IN
                  IF X = {} THEN copied
                  ELSE Constructed(copied, X, b, file[attachIO[q]].at)
  /\ BorrowEnded(p, q)
  /\ sharedIO' = [sharedIO EXCEPT ![p] = FALSE]
  /\ UNCHANGED <<file, open>>

(* SaveIccProfile: Write to a truncated file.  The directory of the profile in  *)
(* memory takes the new offsets.                                                *)
Write(p, f) ==
  /\ p \in alive /\ f \notin open
  /\ tags' = [tags EXCEPT ![p] = Placed(@, Loaded(@), {})]
  /\ file' = [file EXCEPT ![f] = WrittenFile(tags[p], Loaded(tags[p]))]
  /\ UNCHANGED <<alive, vals, attachIO, sharedIO, data, open>>

(* Write fails in the header or the count: no entry has been touched yet.  (In   *)
(* the header again, for the size or the ID, it leaves what Write leaves.)      *)
WriteFailsInHeader(p, f) ==
  /\ p \in alive /\ f \notin open
  /\ file' = [file EXCEPT ![f] = EmptyFile]
  /\ UNCHANGED <<alive, tags, vals, attachIO, sharedIO, data, open>>

(* Write fails while it zeroes the directory entries up to node k: the file is  *)
(* shorter than its count of entries, so ReadBasic refuses it.                  *)
WriteFailsInFirstPass(p, f) ==
  \E k \in Loaded(tags[p]) :
    /\ p \in alive /\ f \notin open
    /\ tags' = [tags EXCEPT ![p] = Placed(@, {}, {n \in Loaded(@) : n <= k})]
    /\ file' = [file EXCEPT ![f] = EmptyFile]
    /\ UNCHANGED <<alive, vals, attachIO, sharedIO, data, open>>

(* Write fails while it writes the tag data of node k: every loaded entry is    *)
(* zeroed and those up to k have their offset; the file's directory is zero.    *)
WriteFailsInTags(p, f) ==
  \E k \in Loaded(tags[p]) :
    /\ p \in alive /\ f \notin open
    /\ Leads(tags[p], k)
    /\ tags' = [tags EXCEPT ![p] = Placed(@, {n \in Loaded(@) : n <= k}, Loaded(@))]
    /\ file' = [file EXCEPT ![f] = [WrittenFile(tags[p], {}) EXCEPT !.at = EmptyFile.at]]
    /\ UNCHANGED <<alive, vals, attachIO, sharedIO, data, open>>

(* Write fails while it rewrites the directory: k and later entries of the file *)
(* keep offset zero.                                                            *)
WriteFailsInLastPass(p, f) ==
  \E k \in Loaded(tags[p]) :
    /\ p \in alive /\ f \notin open
    /\ tags' = [tags EXCEPT ![p] = Placed(@, Loaded(@), {})]
    /\ file' = [file EXCEPT ![f] = WrittenFile(tags[p], {n \in Loaded(tags[p]) : n < k})]
    /\ UNCHANGED <<alive, vals, attachIO, sharedIO, data, open>>
-----------------------------------------------------------------------------
(* Clients.  Next calls the public operations in any order.  CarefulNext keeps  *)
(* the three habits the repository's own callers have: a profile is attached or *)
(* read into only when it is new (OpenIccProfile, ReadIccProfile), it is written *)
(* only when every tag is loaded (iccTiffDump: ReadTags && SaveIccProfile; the  *)
(* profiles the other tools build have no IO), and a borrowed IO object is given *)
(* back at once (AddXform).                                                     *)

LoadOrEdit(p) ==
  \/ \E s \in Sig : FindTag(p, s)
  \/ \E s \in Sig, o \in Obj, d \in Data : AttachTag(p, s, o, d)
  \/ \E s \in Sig : DeleteTag(p, s)
  \/ Detach(p)

WriteOrFail(p, f) ==
  \/ Write(p, f)
  \/ WriteFailsInHeader(p, f)
  \/ WriteFailsInFirstPass(p, f)
  \/ WriteFailsInTags(p, f)
  \/ WriteFailsInLastPass(p, f)

Next ==
  \E p \in Profile :
    \/ New(p)
    \/ Delete(p)
    \/ LoadOrEdit(p)
    \/ CopyAttachNull(p)
    \/ \E f \in IO : Attach(p, f) \/ AttachOrReadFails(p, f) \/ Read(p, f)
    \/ \E f \in Target : WriteOrFail(p, f)
    \/ \E q \in Profile : ReadTags(p, q) \/ CopyAttach(p, q) \/ Copy(p, q) \/ Assign(p, q)

IsNew(p)  == tags[p] = NoTags /\ vals[p] = {} /\ attachIO[p] = NoIO

CarefulNext ==
  \E p \in Profile :
    \/ New(p)
    \/ Delete(p)
    \/ LoadOrEdit(p)
    \/ ReadTags(p, p)
    \/ IsNew(p) /\ \E f \in IO : Attach(p, f) \/ AttachOrReadFails(p, f) \/ Read(p, f)
    \/ Unloaded(tags[p]) = {} /\ \E f \in Target : WriteOrFail(p, f)
    \/ \E q \in Profile : Copy(p, q) \/ Assign(p, q) \/ AddXformCopy(p, q)

Spec        == Init /\ [][Next]_vars
CarefulSpec == Init /\ [][CarefulNext]_vars
-----------------------------------------------------------------------------
(* Properties *)

(* An entry never names an object its profile does not own, and only objects   *)
(* that have not been deleted are owned: no call sequence leaves a dangling     *)
(* pTag (LoadTag's aliasing loop, DeleteTag of one alias, Cleanup, copies).     *)
EntriesOwned ==
  \A p \in Profile :
    /\ \A n \in Nodes(tags[p]) : tags[p][n].pTag \in vals[p] \cup {NoObj}
    /\ \A o \in vals[p] : data[o] # NoData

(* Every live tag object is owned by exactly one profile, which exists: nothing *)
(* is leaked, and nothing is deleted by two destructors (copies are deep).      *)
OneOwner ==
  /\ \A o \in Obj : data[o] # NoData => \E p \in alive : o \in vals[p]
  /\ \A p, q \in Profile : vals[p] \cap vals[q] # {} => p = q

(* A file Write finished is a faithful image of the loaded part of the          *)
(* directory: the same signatures, the payload of each entry's object at its    *)
(* offset, and one offset for two entries exactly when they share an object.    *)
FaithfulImage(t, f) ==
  /\ Nodes(f.dir) = Loaded(t)
  /\ \A n \in Loaded(t) : /\ f.dir[n].sig = t[n].sig
                          /\ f.at[f.dir[n].off] = data[t[n].pTag]
  /\ \A m, n \in Loaded(t) : f.dir[m].off = f.dir[n].off <=> t[m].pTag = t[n].pTag

WriteIsFaithful ==
  [][\A p \in Profile, f \in IO : Write(p, f) => FaithfulImage(tags[p], file'[f])]_vars

(* A loaded entry serves the payload it was listed with, and an entry still to  *)
(* be loaded names the bytes it was listed with in the attached file.           *)
EntriesFaithful ==
  \A p \in Profile : \A n \in Nodes(tags[p]) :
    LET e == tags[p][n] IN
    IF e.pTag # NoObj THEN data[e.pTag] = e.listed
    ELSE attachIO[p] # NoIO => ListedAt(attachIO[p], e.off) = e.listed

(* What makes it inductive: while an entry is still to be loaded, every entry   *)
(* with a place in a file has it in the attached file.                          *)
OffsetsFaithful ==
  \A p \in Profile : attachIO[p] # NoIO /\ Unloaded(tags[p]) # {} =>
    \A n \in Nodes(tags[p]) :
      tags[p][n].off \in Slot => ListedAt(attachIO[p], tags[p][n].off) = tags[p][n].listed

(* An attached IO object is open, and an open one is attached to exactly one    *)
(* profile that will close it: neither a use after close nor a leak.            *)
IOOwned ==
  /\ \A p \in Profile : attachIO[p] # NoIO => attachIO[p] \in open /\ p \in alive
  /\ \A f \in open : \E p \in alive : attachIO[p] = f /\ ~sharedIO[p]
  /\ \A p, q \in Profile : attachIO[p] # NoIO /\ attachIO[p] = attachIO[q] => p = q
=============================================================================
