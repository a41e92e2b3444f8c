------------------------------ MODULE MruCache ------------------------------
(***************************************************************************)
(* CIccMruCache and its only user, CIccApplyMruCmm (IccProfLib/IccCmm.cpp): *)
(* a cache of the most recently used pixels in front of a CMM.  The cells   *)
(* of m_cache form a singly linked list from m_pFirst; Apply walks it with  *)
(* two trailing pointers, moves a hit to the front, and on a miss takes the *)
(* next unused cell or, when all are used, cuts the last one off and puts   *)
(* it in front.  CIccApplyMruCmm then lets the wrapped CMM compute the      *)
(* pixel and stores the result with Update.  The function for many pixels   *)
(* is the same body in a loop: one request after another.                   *)
(*                                                                         *)
(* A pixel is a value, its samples are not modelled; a cell is its number   *)
(* and the NULL pointer is 0.                                               *)
(***************************************************************************)
EXTENDS Naturals, Sequences

CONSTANTS
  Pixel,       \* source pixels
  Result,      \* destination pixels
  Transform,   \* what the wrapped CMM makes of each pixel
  CacheSize,   \* nCacheSize of CIccMruCmm::Attach, which refuses only 0
  CanFail,     \* whether the wrapped CMM's Apply may return an error
  NoPixel,     \* a source field that was never written
  NoResult     \* a destination field or buffer that was never written

Null == 0
Cell == 1 .. CacheSize
Link == {Null} \cup Cell

ASSUME SizeAssumption == CacheSize \in Nat \ {0}
ASSUME CmmAssumption ==
  /\ Transform \in [Pixel -> Result]
  /\ CanFail \in BOOLEAN
  /\ NoPixel \notin Pixel
  /\ NoResult \notin Result

VARIABLES
  first,   \* m_pFirst
  next,    \* pNext of each cell
  src,     \* the source half of each cell's pPixelData
  dst,     \* the destination half
  pc,      \* "idle", "walk" (the loop of Apply) or "compute" (after a miss)
  arg,     \* SrcPixel of the current or latest request
  ptr, prev, last, i,   \* locals of Apply; i counts up to CacheSize
  out,     \* content of DstPixel
  order    \* history: the cells by recency, as the list ought to hold them

list == <<first, next, src, dst, order>>
local == <<ptr, prev, last, i>>
vars == <<first, next, src, dst, pc, arg, ptr, prev, last, i, out, order>>

TypeOK ==
  /\ first \in Link
  /\ next \in [Cell -> Link]
  /\ src \in [Cell -> Pixel \cup {NoPixel}]
  /\ dst \in [Cell -> Result \cup {NoResult}]
  /\ pc \in {"idle", "walk", "compute"}
  /\ arg \in Pixel \cup {NoPixel}
  /\ ptr \in Link /\ prev \in Link /\ last \in Link
  /\ i \in 0 .. CacheSize
  /\ out \in Result \cup {NoResult}
  /\ order \in Seq(Cell)

(* CIccMruCache::Init: no cell is linked yet. *)
Init ==
  /\ first = Null
  /\ next = [c \in Cell |-> Null]
  /\ src = [c \in Cell |-> NoPixel]
  /\ dst = [c \in Cell |-> NoResult]
  /\ pc = "idle" /\ arg = NoPixel
  /\ ptr = Null /\ prev = Null /\ last = Null /\ i = 0
  /\ out = NoResult
  /\ order = <<>>

RequestPastFirst(x) ==
  /\ pc = "idle"
  /\ pc' = "walk"
  /\ arg' = x
  /\ ptr' = IF first = Null THEN Null ELSE next[first]
  /\ prev' = Null /\ last' = first
  /\ i' = IF first = Null THEN 0 ELSE 1
  /\ UNCHANGED <<first, next, src, dst, out, order>>

(* The client calls CIccApplyMruCmm::Apply, which enters the loop. *)
Request(x) ==
  /\ pc = "idle"
  /\ pc' = "walk"
  /\ arg' = x
  /\ ptr' = first /\ prev' = Null /\ last' = Null /\ i' = 0
  /\ UNCHANGED <<first, next, src, dst, out, order>>

(* The cell holds another pixel: on to the next one. *)
WalkOn ==
  /\ pc = "walk" /\ ptr # Null
  /\ src[ptr] # arg
  /\ prev' = last
  /\ last' = ptr
  /\ ptr' = next[ptr]
  /\ i' = IF i < CacheSize THEN i + 1 ELSE i
  /\ UNCHANGED <<first, next, src, dst, pc, arg, out, order>>

(* The k-th cell moved to the front. *)
Fronted(c, k) ==
  [j \in 1 .. Len(order) |->
     IF j = 1 THEN c ELSE IF j <= k THEN order[j - 1] ELSE order[j]]

HitInPlace ==
  /\ pc = "walk" /\ ptr # Null
  /\ src[ptr] = arg
  /\ pc' = "idle"
  /\ out' = dst[ptr]
  /\ UNCHANGED <<first, next, src, dst, arg, local, order>>

Hit ==
  /\ pc = "walk" /\ ptr # Null
  /\ src[ptr] = arg
  /\ pc' = "idle"
  /\ out' = dst[ptr]
  /\ next' = IF ptr = first THEN next
             ELSE [next EXCEPT ![last] = next[ptr], ![ptr] = first]
  /\ first' = ptr
  /\ order' = Fronted(ptr, i + 1)
  /\ UNCHANGED <<src, dst, arg, local>>

(* The list ended with a cell of m_cache still unused: m_cache[i]. *)
Insert ==
  /\ pc = "walk" /\ ptr = Null /\ i < CacheSize
  /\ pc' = "compute"
  /\ next' = IF first = Null THEN next ELSE [next EXCEPT ![i + 1] = first]
  /\ first' = i + 1
  /\ src' = [src EXCEPT ![i + 1] = arg]
  /\ order' = <<i + 1>> \o order
  /\ UNCHANGED <<dst, arg, local, out>>

EvictWithoutCut ==
  /\ pc = "walk" /\ ptr = Null /\ i = CacheSize
  /\ pc' = "compute"
  /\ next' = [next EXCEPT ![last] = first]
  /\ first' = last
  /\ src' = [src EXCEPT ![last] = arg]
  /\ order' = Fronted(last, CacheSize)
  /\ UNCHANGED <<dst, arg, local, out>>

(* All cells are used: the last one is cut off and put in front. *)
Evict ==
  /\ pc = "walk" /\ ptr = Null /\ i = CacheSize
  /\ pc' = "compute"
  /\ next' = LET cut == IF prev = Null THEN next ELSE [next EXCEPT ![prev] = Null]
             IN [cut EXCEPT ![last] = first]
  /\ first' = last
  /\ src' = [src EXCEPT ![last] = arg]
  /\ order' = Fronted(last, CacheSize)
  /\ UNCHANGED <<dst, arg, local, out>>

ComputeIntoLast ==
  /\ pc = "compute"
  /\ pc' = "idle"
  /\ \/ out' = Transform[arg]
     \/ CanFail /\ out' = out
  /\ dst' = [dst EXCEPT ![IF last = Null THEN first ELSE last] = out']
  /\ UNCHANGED <<first, next, src, arg, local, order>>

(* The wrapped CMM's Apply writes DstPixel, or fails and leaves it; its      *)
(* status is dropped, Update stores DstPixel, and the request returns Ok.    *)
Compute ==
  /\ pc = "compute"
  /\ pc' = "idle"
  /\ \/ out' = Transform[arg]
     \/ CanFail /\ out' = out
  /\ dst' = [dst EXCEPT ![first] = out']
  /\ UNCHANGED <<first, next, src, arg, local, order>>

Serve == WalkOn \/ Hit \/ Insert \/ Evict \/ Compute

Next == (\E x \in Pixel : Request(x)) \/ Serve

(* A request that was made runs on: the calling thread is not suspended. *)
Spec == Init /\ [][Next]_vars /\ WF_vars(Serve)

-----------------------------------------------------------------------------
(* The linked list is exactly the cells in use, by recency: each points to   *)
(* the next, the last one points nowhere, none is listed twice, and the used *)
(* cells are the first ones of m_cache.  A cut forgotten in Evict makes a    *)
(* cycle; a wrong trailing pointer loses cells (Apply, IccCmm.cpp).          *)
ListSound ==
  /\ first = IF order = <<>> THEN Null ELSE order[1]
  /\ \A k \in 1 .. Len(order) :
       next[order[k]] = IF k = Len(order) THEN Null ELSE order[k + 1]
  /\ {order[k] : k \in 1 .. Len(order)} = 1 .. Len(order)
  /\ \A c \in Cell : c > Len(order) => next[c] = Null

(* No pixel occupies two cells, so a miss is a real miss and an eviction     *)
(* never leaves a second, older answer behind (Apply, IccCmm.cpp).           *)
NoDuplicates ==
  \A j, k \in 1 .. Len(order) : src[order[j]] = src[order[k]] => j = k

(* Every cell holds the transform of its own pixel, except the front cell    *)
(* between the miss that claimed it and the Update that fills it.            *)
CacheCoherent ==
  \A k \in 1 .. Len(order) :
    \/ k = 1 /\ pc = "compute"
    \/ dst[order[k]] = Transform[src[order[k]]]

(* CIccMruCache::Apply answers whether the pixel was found: every request     *)
(* returns, whatever was asked before.                                       *)
ApplyReturns == pc = "walk" ~> pc = "idle"

(* The list of cells implements the cache of recent pixels.                  *)
Recent == INSTANCE RecentPixels WITH
  Capacity <- CacheSize,
  recent <- [k \in 1 .. Len(order) |-> src[order[k]]],
  phase <- IF pc = "walk" THEN "asked" ELSE IF pc = "compute" THEN "missed" ELSE pc,
  asked <- arg,
  answer <- out

(* Every behaviour of the cache is one of RecentPixels: the least recent     *)
(* pixel is the one forgotten, and only when the cache is full.              *)
RefinesRecentPixels == Recent!Spec

(* Its safety half: every step of the cache is one of RecentPixels or none.  *)
StepsAreRecentPixels == Recent!Init /\ [][Recent!Next]_(Recent!recentVars)
=============================================================================
