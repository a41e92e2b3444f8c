-------------------------- MODULE MruCache_proofs --------------------------
(***************************************************************************)
(* Proofs about MruCache for every set of pixels and every cache of at      *)
(* least two cells.  (With one cell the theorems are false: TLC's run       *)
(* mru_one_cell shows the list closing on itself.)                          *)
(*                                                                         *)
(* The walk's trailing pointers are what makes ListSound inductive: Walking *)
(* says where in the list ptr, last and prev stand and that no cell passed  *)
(* so far holds the pixel asked for.                                        *)
(***************************************************************************)
EXTENDS MruCache, SequenceTheorems, TLAPS

Pos == 1 .. Len(order)

(* The pixels of listed cells are real ones, and a claimed front cell holds the *)
(* pixel of the current request.                                               *)
Filled ==
  /\ Len(order) <= CacheSize
  /\ \A k \in Pos : src[order[k]] \in Pixel
  /\ pc # "idle" => arg \in Pixel
  /\ pc = "compute" => order # <<>> /\ src[order[1]] = arg

(* The walk stands behind the i-th listed cell and has not met arg. *)
Walking ==
  pc = "walk" =>
    /\ i <= Len(order)
    /\ ptr = IF i = Len(order) THEN Null ELSE order[i + 1]
    /\ last = IF i = 0 THEN Null ELSE order[i]
    /\ prev = IF i < 2 THEN Null ELSE order[i - 1]
    /\ \A k \in 1 .. i : src[order[k]] # arg

IInv == TypeOK /\ ListSound /\ NoDuplicates /\ Filled /\ Walking

-----------------------------------------------------------------------------
(* The list after a cell has been moved to the front (Hit and Evict): the same  *)
(* length, the same cells, the first k - 1 one place further back.              *)
LEMMA FrontedIs ==
  ASSUME NEW k \in 1 .. Len(order), order \in Seq(Cell)
  PROVE  /\ Fronted(order[k], k) \in Seq(Cell)
         /\ Len(Fronted(order[k], k)) = Len(order)
         /\ \A j \in 1 .. Len(order) :
              Fronted(order[k], k)[j] =
                IF j = 1 THEN order[k] ELSE IF j <= k THEN order[j - 1] ELSE order[j]
  <1> DEFINE f == Fronted(order[k], k)
  <1>1. Len(order) \in Nat /\ \A j \in 1 .. Len(order) : order[j] \in Cell
    OBVIOUS
  <1>2. f \in [1 .. Len(order) -> Cell]
    BY <1>1 DEF Fronted
  <1>3. f \in Seq(Cell) /\ Len(f) = Len(order)
    BY <1>1, <1>2
  <1> QED BY <1>3 DEF Fronted

(* The list after a cell has been put in front of it (Insert). *)
LEMMA ConsIs ==
  ASSUME NEW c \in Cell, order \in Seq(Cell)
  PROVE  /\ <<c>> \o order \in Seq(Cell)
         /\ Len(<<c>> \o order) = Len(order) + 1
         /\ \A j \in 1 .. Len(order) + 1 :
              (<<c>> \o order)[j] = IF j = 1 THEN c ELSE order[j - 1]
  OBVIOUS

(* The initial cache is sound. *)
LEMMA InitSound == Init => IInv
  <1> SUFFICES ASSUME Init PROVE IInv
    OBVIOUS
  <1> USE SizeAssumption DEF Init
  <1>1. TypeOK
    BY DEF TypeOK, Link, Cell, Null
  <1>2. ListSound
    BY DEF ListSound, Cell, Null
  <1>3. NoDuplicates /\ Filled /\ Walking
    BY DEF NoDuplicates, Filled, Walking, Pos
  <1> QED BY <1>1, <1>2, <1>3 DEF IInv

(* A request starts its walk before the first cell. *)
LEMMA RequestSound ==
  ASSUME NEW x \in Pixel, IInv, Request(x)
  PROVE  IInv'
  <1> USE SizeAssumption DEF IInv, Request, Null
  <1>1. TypeOK'
    BY DEF TypeOK, Link
  <1>2. ListSound' /\ NoDuplicates'
    BY DEF ListSound, NoDuplicates
  <1>3. Filled'
    BY DEF Filled, Pos
  <1>4. Walking'
    BY DEF Walking, ListSound, TypeOK
  <1> QED BY <1>1, <1>2, <1>3, <1>4

(* One step of the walk passes one cell. *)
LEMMA WalkOnSound ==
  ASSUME IInv, WalkOn
  PROVE  IInv'
  <1> USE SizeAssumption DEF IInv, WalkOn
  <1>1. /\ Len(order) \in Nat /\ i \in Nat /\ CacheSize \in Nat
        /\ i < Len(order) /\ ptr = order[i + 1]
        /\ i < CacheSize /\ order[i + 1] \in Cell
    BY DEF Walking, TypeOK, Filled, Null
  <1>2. TypeOK'
    BY <1>1 DEF TypeOK, Link
  <1>3. ListSound' /\ NoDuplicates' /\ Filled'
    BY DEF ListSound, NoDuplicates, Filled, Pos
  <1>4. ptr' = IF i + 1 = Len(order) THEN Null ELSE order[i + 2]
    BY <1>1 DEF ListSound
  <1>5. prev' = IF i + 1 < 2 THEN Null ELSE order[i]
    BY <1>1 DEF Walking
  <1>6. \A k \in 1 .. i + 1 : src[order[k]] # arg
    BY <1>1 DEF Walking
  <1>7. Walking'
    BY <1>1, <1>4, <1>5, <1>6 DEF Walking
  <1> QED BY <1>2, <1>3, <1>7

(* The vocabulary of a move to the front: nx links the n cells of o in order, q *)
(* is o with its k-th cell in front, and ny is nx relinked for it.              *)
Distinct(n, o)  == \A j, m \in 1 .. n : o[j] = o[m] => j = m
Chained(n, o, nx) == \A j \in 1 .. n : nx[o[j]] = IF j = n THEN Null ELSE o[j + 1]
MovedTo(n, k, o, q) ==
  \A j \in 1 .. n : q[j] = IF j = 1 THEN o[k] ELSE IF j <= k THEN o[j - 1] ELSE o[j]
Relink(n, k, o, nx) ==
  IF k = 1 THEN nx
  ELSE [nx EXCEPT ![o[k - 1]] = IF k = n THEN Null ELSE o[k + 1], ![o[k]] = o[1]]
SameCells(n, o, q) ==
  /\ \A j \in 1 .. n : \E m \in 1 .. n : q[j] = o[m]
  /\ \A m \in 1 .. n : \E j \in 1 .. n : q[j] = o[m]
OthersKept(n, o, nx, ny) ==
  \A c \in Cell : (\A j \in 1 .. n : o[j] # c) => ny[c] = nx[c]

(* Relinking, in Hit and (with k = n) in Evict: the list reads in the new order, *)
(* holds the same cells, and other cells keep their links.                      *)
LEMMA Relinked ==
  ASSUME NEW n \in Nat, NEW k \in 1 .. n,
         NEW o \in [1 .. n -> Cell], NEW q \in [1 .. n -> Cell],
         NEW nx \in [Cell -> Link], NEW ny,
         Distinct(n, o), Chained(n, o, nx), MovedTo(n, k, o, q), ny = Relink(n, k, o, nx)
  PROVE  /\ Chained(n, q, ny)
         /\ SameCells(n, o, q)
         /\ OthersKept(n, o, nx, ny)
         /\ ny \in [Cell -> Link]
  <1> USE DEF Distinct, Chained, MovedTo, Relink, SameCells, OthersKept
  <1>1. CASE k = 1
    <2>1. \A j \in 1 .. n : q[j] = o[j]
      BY <1>1
    <2> QED BY <1>1, <2>1
  <1>2. CASE k > 1
    <2>1. /\ k - 1 \in 1 .. n /\ 1 \in 1 .. n
          /\ o[k - 1] \in Cell /\ o[k] \in Cell /\ o[1] \in Link
          /\ o[k - 1] # o[k]
          /\ (IF k = n THEN Null ELSE o[k + 1]) \in Link
      BY <1>2 DEF Link
    <2>2. /\ ny[o[k]] = o[1]
          /\ ny[o[k - 1]] = IF k = n THEN Null ELSE o[k + 1]
          /\ ny \in [Cell -> Link]
          /\ \A c \in Cell : c # o[k] /\ c # o[k - 1] => ny[c] = nx[c]
      BY <1>2, <2>1
    <2>3. \A j \in 1 .. n : j # k /\ j # k - 1 => ny[o[j]] = IF j = n THEN Null ELSE o[j + 1]
      <3> SUFFICES ASSUME NEW j \in 1 .. n, j # k, j # k - 1
                   PROVE  ny[o[j]] = IF j = n THEN Null ELSE o[j + 1]
        OBVIOUS
      <3>1. o[j] # o[k] /\ o[j] # o[k - 1] /\ o[j] \in Cell
        BY <2>1
      <3> QED BY <2>2, <3>1
    <2>4. ASSUME NEW j \in 1 .. n
          PROVE  ny[q[j]] = IF j = n THEN Null ELSE q[j + 1]
      <3>1. CASE j = 1
        <4>1. q[j] = o[k] /\ j # n /\ q[j + 1] = o[1]
          BY <1>2, <3>1
        <4> QED BY <2>2, <4>1
      <3>2. CASE j > 1 /\ j < k
        <4>1. q[j] = o[j - 1] /\ q[j + 1] = o[j] /\ j # n /\ j - 1 \in 1 .. n
          BY <3>2
        <4>2. j - 1 # k /\ j - 1 # k - 1 /\ j - 1 # n /\ (j - 1) + 1 = j
          BY <3>2
        <4> QED BY <2>3, <4>1, <4>2
      <3>3. CASE j = k
        <4>1. q[j] = o[k - 1]
          BY <1>2, <3>3
        <4>2. k # n => q[j + 1] = o[k + 1]
          BY <1>2, <3>3
        <4> QED BY <2>2, <3>3, <4>1, <4>2
      <3>4. CASE j > k
        <4>1. q[j] = o[j] /\ (j # n => q[j + 1] = o[j + 1])
          BY <1>2, <3>4
        <4> QED BY <2>3, <3>4, <4>1
      <3> QED BY <3>1, <3>2, <3>3, <3>4
    <2>5. /\ \A j \in 1 .. n : \E m \in 1 .. n : q[j] = o[m]
          /\ \A m \in 1 .. n : \E j \in 1 .. n : q[j] = o[m]
      <3>1. \A j \in 1 .. n : \E m \in 1 .. n : q[j] = o[m]
        BY <1>2, <2>1
      <3>2. ASSUME NEW m \in 1 .. n
            PROVE  \E j \in 1 .. n : q[j] = o[m]
        <4>1. CASE m = k
          BY <2>1, <4>1
        <4>2. CASE m < k
          <5>1. m + 1 \in 1 .. n /\ q[m + 1] = o[m]
            BY <4>2
          <5> QED BY <5>1
        <4>3. CASE m > k
          <5>1. q[m] = o[m]
            BY <1>2, <4>3
          <5> QED BY <5>1
        <4> QED BY <4>1, <4>2, <4>3
      <3> QED BY <3>1, <3>2
    <2>6. \A c \in Cell : (\A j \in 1 .. n : o[j] # c) => ny[c] = nx[c]
      BY <2>1, <2>2
    <2> QED BY <2>2, <2>4, <2>5, <2>6
  <1>3. k = 1 \/ k > 1
    OBVIOUS
  <1> QED BY <1>1, <1>2, <1>3, Zenon

(* A list of the same cells still uses the first n of m_cache. *)
LEMMA Renumbered ==
  ASSUME NEW n \in Nat, NEW o, NEW q, SameCells(n, o, q),
         {o[j] : j \in 1 .. n} = 1 .. n
  PROVE  {q[j] : j \in 1 .. n} = 1 .. n
  <1>1. \A j \in 1 .. n : o[j] \in 1 .. n
    OBVIOUS
  <1>2. \A j \in 1 .. n : q[j] \in 1 .. n
    BY <1>1 DEF SameCells
  <1>3. ASSUME NEW c \in 1 .. n
        PROVE  \E j \in 1 .. n : q[j] = c
    <2>1. PICK m \in 1 .. n : o[m] = c
      OBVIOUS
    <2> QED BY <2>1 DEF SameCells
  <1> QED BY <1>2, <1>3

(* The same move for what the cells hold: v (the pixel of the k-th cell) in     *)
(* front of pixels that differ from each other and, but for the k-th, from v.   *)
LEMMA NothingTwice ==
  ASSUME NEW n \in Nat, NEW k \in 1 .. n, NEW a, NEW b, NEW v,
         \A j, m \in 1 .. n : a[j] = a[m] => j = m,
         \A j \in 1 .. n : j # k => a[j] # v,
         \A j \in 1 .. n : b[j] = IF j = 1 THEN v ELSE IF j <= k THEN a[j - 1] ELSE a[j]
  PROVE  \A j, m \in 1 .. n : b[j] = b[m] => j = m
  <1>1. ASSUME NEW j \in 1 .. n
        PROVE  \/ j = 1 /\ b[j] = v
               \/ j > 1 /\ j <= k /\ j - 1 \in 1 .. n /\ j - 1 # k /\ b[j] = a[j - 1]
               \/ j > 1 /\ j > k /\ b[j] = a[j]
    OBVIOUS
  <1> QED BY <1>1

(* A hit moves its cell to the front and loses none. *)
LEMMA HitSound ==
  ASSUME IInv, Hit
  PROVE  IInv'
  <1> USE SizeAssumption DEF IInv
  <1> DEFINE n == Len(order)
  <1>1. /\ n \in Nat /\ i \in Nat /\ CacheSize \in Nat
        /\ i + 1 \in 1 .. n /\ ptr = order[i + 1] /\ n <= CacheSize
        /\ order \in Seq(Cell) /\ order \in [1 .. n -> Cell]
        /\ \A j \in 1 .. n : order[j] \in Cell
    BY DEF Hit, Walking, TypeOK, Filled, Null
  <1> HIDE DEF n
  <1>2. PICK k \in 1 .. n : k = i + 1
    BY <1>1
  <1>3. ptr = order[k] /\ (k > 1 => last = order[k - 1])
    BY <1>1, <1>2 DEF Walking, Hit
  <1>4. \A j, m \in 1 .. n : order[j] = order[m] => j = m
    BY DEF NoDuplicates, n
  <1>5. /\ order' \in Seq(Cell) /\ Len(order') = n
        /\ \A j \in 1 .. n :
             order'[j] = IF j = 1 THEN order[k]
                         ELSE IF j <= k THEN order[j - 1] ELSE order[j]
    BY <1>1, <1>2, <1>3, FrontedIs DEF Hit, n
  <1>6. order' \in [1 .. n -> Cell]
    BY <1>5
  <1>7. /\ next \in [Cell -> Link]
        /\ \A j \in 1 .. n : next[order[j]] = IF j = n THEN Null ELSE order[j + 1]
        /\ {order[j] : j \in 1 .. n} = 1 .. n
        /\ \A c \in Cell : c > n => next[c] = Null
        /\ first = order[1]
    <2>1. order # <<>>
      BY <1>1 DEF n
    <2> QED BY <2>1 DEF ListSound, TypeOK, n
  <1>8. ptr = first <=> k = 1
    BY <1>1, <1>3, <1>4, <1>7
  <1>9. next' = IF k = 1 THEN next
                ELSE [next EXCEPT ![order[k - 1]] = IF k = n THEN Null ELSE order[k + 1],
                                  ![order[k]] = order[1]]
    <2>1. CASE k = 1
      BY <1>8, <2>1 DEF Hit
    <2>2. CASE k # 1
      <3>1. next' = [next EXCEPT ![last] = next[ptr], ![ptr] = first]
        BY <1>8, <2>2 DEF Hit
      <3>2. last = order[k - 1] /\ next[ptr] = IF k = n THEN Null ELSE order[k + 1]
        BY <1>1, <1>3, <1>7, <2>2
      <3> QED BY <1>3, <1>7, <2>2, <3>1, <3>2
    <2> QED BY <2>1, <2>2
  <1>10. /\ \A j \in 1 .. n : next'[order'[j]] = IF j = n THEN Null ELSE order'[j + 1]
         /\ SameCells(n, order, order')
         /\ \A c \in Cell : (\A j \in 1 .. n : order[j] # c) => next'[c] = next[c]
         /\ next' \in [Cell -> Link]
    <2>1. Distinct(n, order) /\ Chained(n, order, next) /\ MovedTo(n, k, order, order')
      BY <1>4, <1>5, <1>7 DEF Distinct, Chained, MovedTo
    <2>2. next' = Relink(n, k, order, next)
      BY <1>9 DEF Relink
    <2>3. /\ Chained(n, order', next') /\ SameCells(n, order, order')
          /\ OthersKept(n, order, next, next') /\ next' \in [Cell -> Link]
      BY <1>1, <1>2, <1>6, <1>7, <2>1, <2>2, Relinked
    <2> QED BY <2>3 DEF Chained, OthersKept
  <1>11. TypeOK'
    BY <1>1, <1>3, <1>5, <1>10 DEF TypeOK, Hit, Link, local
  <1>12. ListSound'
    <2>1. first' = order'[1] /\ order' # <<>>
      BY <1>1, <1>3, <1>5 DEF Hit
    <2>2. \A c \in Cell : c > n => next'[c] = Null
      <3>1. \A c \in Cell : c > n => \A j \in 1 .. n : order[j] # c
        <4>1. \A j \in 1 .. n : order[j] \in 1 .. n
          BY <1>7
        <4> QED BY <1>1, <4>1 DEF Cell
      <3> QED BY <1>7, <1>10, <3>1
    <2>3. {order'[j] : j \in 1 .. n} = 1 .. n
      <3>1. n \in Nat
        BY <1>1
      <3>2. SameCells(n, order, order')
        BY <1>10
      <3>3. {order[j] : j \in 1 .. n} = 1 .. n
        BY <1>7
      <3> QED BY <3>1, <3>2, <3>3, Renumbered
    <2> QED BY <1>5, <1>10, <2>1, <2>2, <2>3 DEF ListSound
  <1>13. NoDuplicates'
    <2> DEFINE a == [j \in 1 .. n |-> src[order[j]]]
               b == [j \in 1 .. n |-> src[order'[j]]]
    <2>1. \A j, m \in 1 .. n : a[j] = a[m] => j = m
      BY DEF NoDuplicates, n
    <2>2. \A j \in 1 .. n : j # k => a[j] # a[k]
      BY <2>1
    <2>3. \A j \in 1 .. n : b[j] = IF j = 1 THEN a[k] ELSE IF j <= k THEN a[j - 1] ELSE a[j]
      BY <1>1, <1>5
    <2> HIDE DEF a, b
    <2>4. \A j, m \in 1 .. n : b[j] = b[m] => j = m
      BY <1>1, <2>1, <2>2, <2>3, NothingTwice
    <2> QED BY <1>5, <2>4 DEF NoDuplicates, Hit, b
  <1>14. Filled'
    <2>1. \A j \in 1 .. n : src[order'[j]] \in Pixel
      BY <1>10 DEF Filled, Pos, SameCells, n
    <2> QED BY <1>1, <1>5, <2>1 DEF Filled, Pos, Hit
  <1>15. Walking'
    BY DEF Walking, Hit
  <1> QED BY <1>11, <1>12, <1>13, <1>14, <1>15

(* A walk that reaches NULL has passed every listed cell. *)
LEMMA WalkEnds ==
  ASSUME IInv, pc = "walk", ptr = Null
  PROVE  i = Len(order) /\ i \in Nat /\ (i = CacheSize => last = order[i])
  <1> USE SizeAssumption DEF IInv
  <1>1. order \in Seq(Cell) /\ Len(order) \in Nat /\ \A j \in 1 .. Len(order) : order[j] \in Cell
    BY DEF TypeOK
  <1>2. i = Len(order)
    BY <1>1 DEF Walking, TypeOK, Filled, Null, Cell
  <1> QED BY <1>1, <1>2 DEF Walking

(* An eviction cuts the last cell off and moves it to the front, with the new  *)
(* pixel.  It needs the cell before it, hence a second cell.                   *)
LEMMA EvictSound ==
  ASSUME IInv, Evict, CacheSize > 1
  PROVE  IInv'
  <1> USE SizeAssumption DEF IInv
  <1> DEFINE n == Len(order)
  <1>1. /\ n \in Nat /\ i = n /\ n = CacheSize /\ n > 1
        /\ last = order[n] /\ prev = order[n - 1]
        /\ order \in Seq(Cell) /\ order \in [1 .. n -> Cell]
        /\ \A j \in 1 .. n : order[j] \in Cell
    <2>1. order \in Seq(Cell) /\ Len(order) \in Nat /\ \A j \in 1 .. Len(order) : order[j] \in Cell
      BY DEF TypeOK
    <2>2. i = Len(order) /\ Len(order) = CacheSize
      BY WalkEnds DEF Evict
    <2>3. last = order[n] /\ prev = order[n - 1]
      BY <2>1, <2>2 DEF Evict, Walking
    <2>4. order \in [1 .. n -> Cell]
      BY <2>1
    <2> QED BY <2>1, <2>2, <2>3, <2>4
  <1> HIDE DEF n
  <1>2. n \in 1 .. n /\ n - 1 \in 1 .. n /\ 1 \in 1 .. n
    BY <1>1
  <1>3. /\ arg \in Pixel
        /\ \A j \in 1 .. n : src[order[j]] # arg /\ src[order[j]] \in Pixel
    BY <1>1 DEF Evict, Filled, Walking, Pos, n
  <1>4. \A j, m \in 1 .. n : order[j] = order[m] => j = m
    BY DEF NoDuplicates, n
  <1>5. /\ order' \in Seq(Cell) /\ Len(order') = n
        /\ \A j \in 1 .. n :
             order'[j] = IF j = 1 THEN order[n]
                         ELSE IF j <= n THEN order[j - 1] ELSE order[j]
    BY <1>1, <1>2, FrontedIs DEF Evict, n
  <1>6. order' \in [1 .. n -> Cell]
    BY <1>5
  <1>7. /\ next \in [Cell -> Link]
        /\ \A j \in 1 .. n : next[order[j]] = IF j = n THEN Null ELSE order[j + 1]
        /\ {order[j] : j \in 1 .. n} = 1 .. n
        /\ \A c \in Cell : c > n => next[c] = Null
        /\ first = order[1]
    <2>1. order # <<>>
      BY <1>1 DEF n
    <2> QED BY <2>1 DEF ListSound, TypeOK, n
  <1>8. next' = [next EXCEPT ![order[n - 1]] = Null, ![order[n]] = order[1]]
    <2>1. prev # Null
      BY <1>1, <1>2 DEF Cell, Null
    <2> QED BY <1>1, <1>7, <2>1 DEF Evict
  <1>9. /\ Chained(n, order', next') /\ SameCells(n, order, order')
        /\ OthersKept(n, order, next, next') /\ next' \in [Cell -> Link]
    <2>1. Distinct(n, order) /\ Chained(n, order, next) /\ MovedTo(n, n, order, order')
      BY <1>4, <1>5, <1>7 DEF Distinct, Chained, MovedTo
    <2>2. next' = Relink(n, n, order, next)
      BY <1>1, <1>8 DEF Relink
    <2> QED BY <1>1, <1>2, <1>6, <1>7, <2>1, <2>2, Relinked
  <1>10. /\ src' = [src EXCEPT ![order[n]] = arg]
         /\ src \in [Cell -> Pixel \cup {NoPixel}]
    BY <1>1 DEF Evict, TypeOK
  <1>11. TypeOK'
    <2>1. src' \in [Cell -> Pixel \cup {NoPixel}]
      BY <1>3, <1>10
    <2>2. first' \in Link
      BY <1>1, <1>2 DEF Evict, Link
    <2> QED BY <1>5, <1>9, <2>1, <2>2 DEF TypeOK, Evict, local
  <1>12. ListSound'
    <2>1. first' = order'[1] /\ order' # <<>>
      BY <1>1, <1>2, <1>5 DEF Evict
    <2>2. \A c \in Cell : c > n => next'[c] = Null
      BY <1>1 DEF Cell
    <2>3. {order'[j] : j \in 1 .. n} = 1 .. n
      <3>1. n \in Nat
        BY <1>1
      <3>2. SameCells(n, order, order')
        BY <1>9
      <3>3. {order[j] : j \in 1 .. n} = 1 .. n
        BY <1>7
      <3> QED BY <3>1, <3>2, <3>3, Renumbered
    <2> QED BY <1>5, <1>9, <2>1, <2>2, <2>3 DEF ListSound, Chained
  <1>13. /\ src'[order[n]] = arg
         /\ \A j \in 1 .. n : j # n => src'[order[j]] = src[order[j]]
    BY <1>1, <1>2, <1>4, <1>10
  <1>14. NoDuplicates'
    <2> DEFINE a == [j \in 1 .. n |-> src[order[j]]]
               b == [j \in 1 .. n |-> src'[order'[j]]]
    <2>1. \A j, m \in 1 .. n : a[j] = a[m] => j = m
      BY DEF NoDuplicates, n
    <2>2. \A j \in 1 .. n : j # n => a[j] # arg
      BY <1>3
    <2>3. \A j \in 1 .. n : b[j] = IF j = 1 THEN arg ELSE IF j <= n THEN a[j - 1] ELSE a[j]
      <3> SUFFICES ASSUME NEW j \in 1 .. n
                   PROVE  b[j] = IF j = 1 THEN arg ELSE a[j - 1]
        BY <1>1
      <3>1. CASE j = 1
        BY <1>1, <1>5, <1>13, <3>1
      <3>2. CASE j # 1
        <4>1. j - 1 \in 1 .. n /\ j - 1 # n /\ order'[j] = order[j - 1]
          BY <1>1, <1>5, <3>2
        <4>2. a[j - 1] = src[order[j - 1]] /\ b[j] = src'[order'[j]]
          BY <4>1
        <4> QED BY <1>13, <3>2, <4>1, <4>2
      <3> QED BY <3>1, <3>2
    <2> HIDE DEF a, b
    <2>4. \A j, m \in 1 .. n : b[j] = b[m] => j = m
      BY <1>1, <1>2, <2>1, <2>2, <2>3, NothingTwice
    <2> QED BY <1>5, <2>4 DEF NoDuplicates, b
  <1>15. Filled'
    <2>1. \A j \in 1 .. n : src'[order[j]] \in Pixel
      BY <1>3, <1>13
    <2>2. \A j \in 1 .. n : src'[order'[j]] \in Pixel
      BY <1>9, <2>1 DEF SameCells
    <2>3. order' # <<>> /\ src'[order'[1]] = arg /\ arg' = arg /\ n <= CacheSize
      BY <1>1, <1>2, <1>5, <1>13 DEF Evict
    <2> QED BY <1>3, <1>5, <2>2, <2>3 DEF Filled, Pos
  <1>16. Walking'
    BY DEF Walking, Evict
  <1> QED BY <1>11, <1>12, <1>14, <1>15, <1>16

(* An insertion takes the first unused cell and links it in front. *)
LEMMA InsertSound ==
  ASSUME IInv, Insert
  PROVE  IInv'
  <1> USE SizeAssumption DEF IInv
  <1> DEFINE n == Len(order)
             c == n + 1
  <1>1. /\ n \in Nat /\ i = n /\ n < CacheSize
        /\ order \in Seq(Cell)
        /\ \A j \in 1 .. n : order[j] \in Cell
    <2>1. order \in Seq(Cell) /\ Len(order) \in Nat /\ \A j \in 1 .. Len(order) : order[j] \in Cell
      BY DEF TypeOK
    <2>2. i = Len(order)
      BY WalkEnds DEF Insert
    <2> QED BY <2>1, <2>2 DEF Insert
  <1> HIDE DEF n
  <1>2. c \in Cell
    BY <1>1 DEF Cell
  <1>3. /\ arg \in Pixel
        /\ \A j \in 1 .. n : src[order[j]] # arg /\ src[order[j]] \in Pixel
    BY <1>1 DEF Insert, Filled, Walking, Pos, n
  <1>4. /\ order' \in Seq(Cell) /\ Len(order') = n + 1
        /\ \A j \in 1 .. n + 1 : order'[j] = IF j = 1 THEN c ELSE order[j - 1]
    BY <1>1, <1>2, ConsIs DEF Insert, n
  <1>5. /\ next \in [Cell -> Link]
        /\ \A j \in 1 .. n : next[order[j]] = IF j = n THEN Null ELSE order[j + 1]
        /\ {order[j] : j \in 1 .. n} = 1 .. n
        /\ \A d \in Cell : d > n => next[d] = Null
        /\ first = IF n = 0 THEN Null ELSE order[1]
    <2>1. order = <<>> <=> n = 0
      BY <1>1 DEF n
    <2> QED BY <2>1 DEF ListSound, TypeOK, n
  <1>6. \A j \in 1 .. n : order[j] # c
    <2>1. \A j \in 1 .. n : order[j] \in 1 .. n
      BY <1>5
    <2> QED BY <1>1, <2>1
  <1>7. /\ next'[c] = IF n = 0 THEN Null ELSE order[1]
        /\ \A d \in Cell : d # c => next'[d] = next[d]
        /\ next' \in [Cell -> Link]
    <2>1. first = Null <=> n = 0
      BY <1>1, <1>5 DEF Cell, Null
    <2>2. CASE n = 0
      <3>1. next' = next
        BY <2>1, <2>2 DEF Insert
      <3>2. c > n
        BY <1>1
      <3> QED BY <1>2, <1>5, <2>2, <3>1, <3>2
    <2>3. CASE n # 0
      <3>1. next' = [next EXCEPT ![c] = order[1]] /\ order[1] \in Link
        BY <1>1, <1>5, <2>1, <2>3 DEF Insert, Link
      <3> QED BY <1>2, <1>5, <2>3, <3>1
    <2> QED BY <2>2, <2>3
  <1>8. /\ src'[c] = arg
        /\ \A j \in 1 .. n : src'[order[j]] = src[order[j]]
        /\ src' \in [Cell -> Pixel \cup {NoPixel}]
    <2>1. src' = [src EXCEPT ![c] = arg] /\ src \in [Cell -> Pixel \cup {NoPixel}]
      BY <1>1 DEF Insert, TypeOK
    <2> QED BY <1>1, <1>2, <1>3, <1>6, <2>1
  <1>9. TypeOK'
    <2>1. first' \in Link
      BY <1>1, <1>2 DEF Insert, Link
    <2> QED BY <1>4, <1>7, <1>8, <2>1 DEF TypeOK, Insert, local
  <1>10. ListSound'
    <2>1. first' = order'[1] /\ order' # <<>>
      BY <1>1, <1>4 DEF Insert
    <2>2. ASSUME NEW j \in 1 .. n + 1
          PROVE  next'[order'[j]] = IF j = n + 1 THEN Null ELSE order'[j + 1]
      <3>1. CASE j = 1
        BY <1>1, <1>4, <1>7, <3>1
      <3>2. CASE j # 1
        <4>1. j - 1 \in 1 .. n /\ order'[j] = order[j - 1]
          BY <1>1, <1>4, <3>2
        <4>2. next'[order[j - 1]] = next[order[j - 1]]
          BY <1>1, <1>6, <1>7, <4>1
        <4>3. j # n + 1 => order'[j + 1] = order[j]
          BY <1>1, <1>4, <3>2
        <4> QED BY <1>1, <1>5, <4>1, <4>2, <4>3
      <3> QED BY <3>1, <3>2
    <2>3. {order'[j] : j \in 1 .. n + 1} = 1 .. n + 1
      <3>1. \A j \in 1 .. n : order[j] \in 1 .. n
        BY <1>5
      <3>2. ASSUME NEW j \in 1 .. n + 1
            PROVE  order'[j] \in 1 .. n + 1
        <4>1. CASE j = 1
          BY <1>1, <1>4, <4>1
        <4>2. CASE j # 1
          <5>1. j - 1 \in 1 .. n /\ order'[j] = order[j - 1]
            BY <1>1, <1>4, <4>2
          <5> QED BY <1>1, <3>1, <5>1
        <4> QED BY <4>1, <4>2
      <3>3. ASSUME NEW d \in 1 .. n + 1
            PROVE  \E j \in 1 .. n + 1 : order'[j] = d
        <4>1. CASE d = n + 1
          BY <1>1, <1>4, <4>1
        <4>2. CASE d # n + 1
          <5>1. d \in 1 .. n
            BY <1>1, <4>2
          <5>2. PICK j \in 1 .. n : order[j] = d
            BY <1>5, <5>1
          <5>3. j + 1 \in 1 .. n + 1 /\ order'[j + 1] = order[j]
            BY <1>1, <1>4
          <5> QED BY <5>2, <5>3
        <4> QED BY <4>1, <4>2
      <3> QED BY <3>2, <3>3
    <2>4. \A d \in Cell : d > n + 1 => next'[d] = Null
      BY <1>1, <1>5, <1>7 DEF Cell
    <2> QED BY <1>4, <2>1, <2>2, <2>3, <2>4 DEF ListSound
  <1>11. ASSUME NEW j \in 1 .. n + 1
         PROVE  \/ j = 1 /\ src'[order'[j]] = arg
                \/ j # 1 /\ j - 1 \in 1 .. n /\ src'[order'[j]] = src[order[j - 1]]
    <2>1. CASE j = 1
      BY <1>1, <1>4, <1>8, <2>1
    <2>2. CASE j # 1
      <3>1. j - 1 \in 1 .. n /\ order'[j] = order[j - 1]
        BY <1>1, <1>4, <2>2
      <3> QED BY <1>8, <2>2, <3>1
    <2> QED BY <2>1, <2>2
  <1>12. NoDuplicates'
    <2>1. \A j, m \in 1 .. n : src[order[j]] = src[order[m]] => j = m
      BY DEF NoDuplicates, n
    <2>2. ASSUME NEW j \in 1 .. n + 1, NEW m \in 1 .. n + 1, src'[order'[j]] = src'[order'[m]]
          PROVE  j = m
      <3>1. CASE j = 1 \/ m = 1
        BY <1>3, <1>11, <2>2, <3>1
      <3>2. CASE j # 1 /\ m # 1
        <4>1. j - 1 \in 1 .. n /\ m - 1 \in 1 .. n /\ src[order[j - 1]] = src[order[m - 1]]
          BY <1>11, <2>2, <3>2
        <4>2. j - 1 = m - 1
          BY <2>1, <4>1
        <4> QED BY <1>1, <4>2
      <3> QED BY <3>1, <3>2
    <2> QED BY <1>4, <2>2 DEF NoDuplicates
  <1>13. Filled'
    <2>1. \A j \in 1 .. n + 1 : src'[order'[j]] \in Pixel
      BY <1>3, <1>11
    <2>2. order' # <<>> /\ src'[order'[1]] = arg /\ arg' = arg /\ n + 1 <= CacheSize
      BY <1>1, <1>4, <1>8 DEF Insert
    <2> QED BY <1>3, <1>4, <2>1, <2>2 DEF Filled, Pos
  <1>14. Walking'
    BY DEF Walking, Insert
  <1> QED BY <1>9, <1>10, <1>12, <1>13, <1>14

(* Filling the claimed cell changes no link and no pixel. *)
LEMMA ComputeSound ==
  ASSUME IInv, Compute
  PROVE  IInv'
  <1> USE SizeAssumption, CmmAssumption DEF IInv, Compute, local
  <1>1. out' \in Result \cup {NoResult}
    BY DEF TypeOK, Filled
  <1>2. TypeOK'
    BY <1>1 DEF TypeOK
  <1>3. ListSound' /\ NoDuplicates'
    BY DEF ListSound, NoDuplicates
  <1>4. Filled' /\ Walking'
    BY DEF Filled, Walking, Pos
  <1> QED BY <1>2, <1>3, <1>4

(* The inductive invariant holds in every state of a cache of two or more cells. *)
THEOREM CacheSound == CacheSize > 1 => (Spec => []IInv)
  <1> SUFFICES ASSUME CacheSize > 1 PROVE Spec => []IInv
    OBVIOUS
  <1>1. ASSUME IInv, [Next]_vars
        PROVE  IInv'
    <2>1. ASSUME NEW x \in Pixel, Request(x) PROVE IInv'
      BY <1>1, <2>1, RequestSound
    <2>2. CASE UNCHANGED vars
      BY <1>1, <2>2 DEF vars, IInv, TypeOK, ListSound, NoDuplicates, Filled, Walking, Pos
    <2> QED BY <1>1, <2>1, <2>2, WalkOnSound, HitSound, InsertSound, EvictSound, ComputeSound
            DEF Next, Serve
  <1> QED BY <1>1, InitSound, PTL DEF Spec

(* Apply, IccCmm.cpp: with two or more cells the list never closes on itself    *)
(* and loses no cell, whatever is asked and whatever the wrapped CMM returns.    *)
THEOREM ListAlwaysSound == CacheSize > 1 => (Spec => []ListSound)
  BY CacheSound, PTL DEF IInv

(* Apply, IccCmm.cpp: no pixel is ever cached twice. *)
THEOREM PixelsCachedOnce == CacheSize > 1 => (Spec => []NoDuplicates)
  BY CacheSound, PTL DEF IInv

(* Every variable keeps its type, the walk's counter included. *)
THEOREM TypeCorrect == CacheSize > 1 => (Spec => []TypeOK)
  BY CacheSound, PTL DEF IInv

-----------------------------------------------------------------------------
(* With a wrapped CMM that never fails, every cell is coherent and the cache is *)
(* one of RecentPixels step by step.                                           *)

(* An answer is computed once: a listed cell is coherent from its Update on. *)
LEMMA CoherentStep ==
  ASSUME CacheSize > 1, CanFail = FALSE, IInv, IInv', CacheCoherent, [Next]_vars
  PROVE  CacheCoherent'
  <1> USE SizeAssumption
  <1> DEFINE n == Len(order)
             Ok(k) == (k = 1 /\ pc = "compute") \/ dst[order[k]] = Transform[src[order[k]]]
  <1>1. /\ n \in Nat /\ order \in Seq(Cell) /\ \A j \in 1 .. n : order[j] \in Cell
        /\ \A j, k \in 1 .. n : order[j] = order[k] => j = k
    BY DEF IInv, TypeOK, NoDuplicates
  <1>2. \A k \in 1 .. n : Ok(k)
    BY DEF CacheCoherent
  <1>3. ASSUME NEW x \in Pixel, Request(x) PROVE CacheCoherent'
    BY <1>3 DEF CacheCoherent, Request
  <1>4. CASE WalkOn
    BY <1>4 DEF CacheCoherent, WalkOn
  <1>5. CASE Hit
    <2>1. i + 1 \in 1 .. n /\ ptr = order[i + 1] /\ i \in Nat
      BY <1>1, <1>5 DEF Hit, IInv, Walking, TypeOK, Null
    <2>2. /\ Len(order') = n
          /\ \A j \in 1 .. n : \E m \in 1 .. n : order'[j] = order[m]
      <3>1. \A j \in 1 .. n :
              order'[j] = IF j = 1 THEN order[i + 1]
                          ELSE IF j <= i + 1 THEN order[j - 1] ELSE order[j]
        BY <1>1, <1>5, <2>1, FrontedIs DEF Hit
      <3>2. Len(order') = n
        BY <1>1, <1>5, <2>1, FrontedIs DEF Hit
      <3> QED BY <1>1, <2>1, <3>1, <3>2
    <2>3. \A m \in 1 .. n : dst[order[m]] = Transform[src[order[m]]]
      BY <1>2, <1>5 DEF Hit
    <2> QED BY <1>5, <2>2, <2>3 DEF CacheCoherent, Hit
  <1>6. CASE Insert
    <2>1. /\ \A j \in 1 .. n : dst[order[j]] = Transform[src[order[j]]]
          /\ pc' = "compute" /\ dst' = dst
          /\ src' = [src EXCEPT ![i + 1] = arg]
      BY <1>2, <1>6 DEF Insert
    <2>2. i = n /\ i + 1 \in Cell
      BY <1>1, <1>6, WalkEnds DEF Insert, Cell
    <2>3. /\ Len(order') = n + 1
          /\ \A j \in 1 .. n + 1 : order'[j] = IF j = 1 THEN i + 1 ELSE order[j - 1]
      BY <1>1, <1>6, <2>2, ConsIs DEF Insert
    <2>4. \A j \in 1 .. n : order[j] # i + 1
      <3>1. \A j \in 1 .. n : order[j] \in 1 .. n
        BY DEF IInv, ListSound
      <3> QED BY <1>1, <2>2, <3>1
    <2>5. src \in [Cell -> Pixel \cup {NoPixel}]
      BY DEF IInv, TypeOK
    <2>6. \A j \in 1 .. n : dst'[order[j]] = Transform[src'[order[j]]]
      BY <1>1, <2>1, <2>2, <2>4, <2>5
    <2>7. ASSUME NEW j \in 1 .. n + 1, j # 1
          PROVE  dst'[order'[j]] = Transform[src'[order'[j]]]
      <3>1. j - 1 \in 1 .. n /\ order'[j] = order[j - 1]
        BY <1>1, <2>3, <2>7
      <3> QED BY <2>6, <3>1
    <2> QED BY <2>1, <2>3, <2>7 DEF CacheCoherent
  <1>7. CASE Evict
    <2>1. /\ \A j \in 1 .. n : dst[order[j]] = Transform[src[order[j]]]
          /\ pc' = "compute" /\ dst' = dst
          /\ src' = [src EXCEPT ![last] = arg]
      BY <1>2, <1>7 DEF Evict
    <2>2. n = CacheSize /\ last = order[n] /\ n \in 1 .. n /\ n > 1
      BY <1>1, <1>7, WalkEnds DEF Evict
    <2>3. /\ Len(order') = n
          /\ \A j \in 1 .. n : order'[j] = IF j = 1 THEN order[n]
                                           ELSE IF j <= n THEN order[j - 1] ELSE order[j]
      BY <1>1, <1>7, <2>2, FrontedIs DEF Evict
    <2>4. src \in [Cell -> Pixel \cup {NoPixel}]
      BY DEF IInv, TypeOK
    <2>5. \A j \in 1 .. n : j # n => dst'[order[j]] = Transform[src'[order[j]]]
      BY <1>1, <2>1, <2>2, <2>4
    <2>6. ASSUME NEW j \in 1 .. n, j # 1
          PROVE  dst'[order'[j]] = Transform[src'[order'[j]]]
      <3>1. j - 1 \in 1 .. n /\ j - 1 # n /\ order'[j] = order[j - 1]
        BY <1>1, <2>3, <2>6
      <3> QED BY <2>5, <3>1
    <2> QED BY <2>1, <2>3, <2>6 DEF CacheCoherent
  <1>8. CASE Compute
    <2>1. order # <<>> /\ src[order[1]] = arg /\ first = order[1] /\ 1 \in 1 .. n
      BY <1>1, <1>8 DEF Compute, IInv, Filled, ListSound
    <2>2. dst' = [dst EXCEPT ![order[1]] = Transform[arg]] /\ src' = src /\ order' = order
      BY <1>8, <2>1 DEF Compute
    <2>3. dst \in [Cell -> Result \cup {NoResult}]
      BY DEF IInv, TypeOK
    <2>4. dst'[order[1]] = Transform[src[order[1]]]
      BY <1>1, <2>1, <2>2, <2>3
    <2>5. \A k \in 1 .. n : k # 1 => dst'[order[k]] = Transform[src[order[k]]]
      BY <1>1, <1>2, <2>1, <2>2, <2>3
    <2> QED BY <2>2, <2>4, <2>5 DEF CacheCoherent
  <1>9. CASE UNCHANGED vars
    BY <1>9 DEF vars, CacheCoherent
  <1> QED BY <1>3, <1>4, <1>5, <1>6, <1>7, <1>8, <1>9 DEF Next, Serve

(* CIccApplyMruCmm::Apply: a cell in the list holds the transform of its own     *)
(* pixel, so no eviction and no reordering ever pairs a pixel with a result of    *)
(* another one.                                                                 *)
THEOREM CacheAlwaysCoherent ==
  CacheSize > 1 /\ CanFail = FALSE => (Spec => []CacheCoherent)
  <1> SUFFICES ASSUME CacheSize > 1, CanFail = FALSE PROVE Spec => []CacheCoherent
    OBVIOUS
  <1>1. Init => CacheCoherent
    BY DEF Init, CacheCoherent
  <1>2. IInv /\ IInv' /\ CacheCoherent /\ [Next]_vars => CacheCoherent'
    BY CoherentStep
  <1>3. Spec => []IInv
    BY CacheSound
  <1> QED BY <1>1, <1>2, <1>3, PTL DEF Spec

(* A step of the cache is a step of RecentPixels or changes nothing it shows. *)
LEMMA StepRefines ==
  ASSUME CacheSize > 1, CanFail = FALSE, IInv, IInv', CacheCoherent, [Next]_vars
  PROVE  [Recent!Next]_(Recent!recentVars)
  <1> USE SizeAssumption
  <1> DEFINE n == Len(order)
             shown == [k \in 1 .. Len(order) |-> src[order[k]]]
             phase == IF pc = "walk" THEN "asked" ELSE IF pc = "compute" THEN "missed" ELSE pc
  <1>1. /\ n \in Nat /\ order \in Seq(Cell) /\ \A j \in 1 .. n : order[j] \in Cell
        /\ \A j, k \in 1 .. n : order[j] = order[k] => j = k
        /\ src \in [Cell -> Pixel \cup {NoPixel}] /\ shown \in Seq(Pixel) /\ Len(shown) = n
    <2>1. /\ n \in Nat /\ order \in Seq(Cell) /\ \A j \in 1 .. n : order[j] \in Cell
          /\ src \in [Cell -> Pixel \cup {NoPixel}]
      BY DEF IInv, TypeOK
    <2>2. \A j, k \in 1 .. n : order[j] = order[k] => j = k
      BY DEF IInv, NoDuplicates
    <2>3. shown \in [1 .. n -> Pixel]
      BY DEF IInv, Filled, Pos
    <2> QED BY <2>1, <2>2, <2>3
  <1>2. ASSUME NEW x \in Pixel, Request(x) PROVE Recent!Ask(x)
    BY <1>2 DEF Request, Recent!Ask
  <1>3. CASE WalkOn
    BY <1>3 DEF WalkOn, Recent!recentVars
  <1>4. CASE Hit
    <2>1. i + 1 \in 1 .. n /\ ptr = order[i + 1] /\ i \in Nat
      BY <1>1, <1>4 DEF Hit, IInv, Walking, TypeOK, Null
    <2>2. /\ Len(order') = n
          /\ \A j \in 1 .. n :
               order'[j] = IF j = 1 THEN order[i + 1]
                           ELSE IF j <= i + 1 THEN order[j - 1] ELSE order[j]
      BY <1>1, <1>4, <2>1, FrontedIs DEF Hit
    <2>3. /\ shown[i + 1] = arg /\ src' = src /\ arg' = arg
          /\ dst[order[i + 1]] = Transform[arg]
      BY <1>4, <2>1 DEF Hit, CacheCoherent
    <2>4. shown' = [j \in 1 .. Len(shown) |->
                      IF j = 1 THEN arg
                      ELSE IF j <= i + 1 THEN shown[j - 1] ELSE shown[j]]
      <3>1. shown' = [j \in 1 .. n |-> src[order'[j]]]
        BY <2>2, <2>3
      <3>2. \A j \in 1 .. n : src[order'[j]] =
              IF j = 1 THEN arg ELSE IF j <= i + 1 THEN shown[j - 1] ELSE shown[j]
        BY <1>1, <2>1, <2>2, <2>3
      <3>3. [j \in 1 .. n |-> src[order'[j]]] =
              [j \in 1 .. n |-> IF j = 1 THEN arg
                                ELSE IF j <= i + 1 THEN shown[j - 1] ELSE shown[j]]
        BY <3>2
      <3>4. Len(shown) = n
        BY <1>1
      <3> HIDE DEF shown
      <3> QED BY <3>1, <3>3, <3>4
    <2>5. phase = "asked" /\ phase' = "idle" /\ out' = Transform[arg]
      BY <1>4, <2>1, <2>3 DEF Hit
    <2>6. \E k \in 1 .. Len(shown) :
            /\ shown[k] = arg
            /\ shown' = [j \in 1 .. Len(shown) |->
                           IF j = 1 THEN arg ELSE IF j <= k THEN shown[j - 1] ELSE shown[j]]
      BY <1>1, <2>1, <2>3, <2>4
    <2> QED BY <2>3, <2>5, <2>6 DEF Recent!Next, Recent!Recall
  <1>5. CASE Insert
    <2>1. i = n /\ i < CacheSize /\ i + 1 \in Cell
      BY <1>1, <1>5, WalkEnds DEF Insert, Cell
    <2>2. /\ Len(order') = n + 1
          /\ \A j \in 1 .. n + 1 : order'[j] = IF j = 1 THEN i + 1 ELSE order[j - 1]
      BY <1>1, <1>5, <2>1, ConsIs DEF Insert
    <2>3. \A j \in 1 .. n : order[j] # i + 1
      <3>1. \A j \in 1 .. n : order[j] \in 1 .. n
        BY DEF IInv, ListSound
      <3> QED BY <1>1, <2>1, <3>1
    <2>4. src' = [src EXCEPT ![i + 1] = arg] /\ arg' = arg /\ out' = out
      BY <1>5 DEF Insert
    <2>5. shown' = [j \in 1 .. Len(shown) + 1 |-> IF j = 1 THEN arg ELSE shown[j - 1]]
      <3>1. ASSUME NEW j \in 1 .. n + 1
            PROVE  src'[order'[j]] = IF j = 1 THEN arg ELSE shown[j - 1]
        <4>1. CASE j = 1
          BY <1>1, <2>1, <2>2, <2>4, <4>1
        <4>2. CASE j # 1
          <5>1. j - 1 \in 1 .. n /\ order'[j] = order[j - 1]
            BY <1>1, <2>2, <4>2
          <5>2. src'[order[j - 1]] = src[order[j - 1]] /\ shown[j - 1] = src[order[j - 1]]
            BY <1>1, <2>1, <2>3, <2>4, <5>1
          <5> QED BY <4>2, <5>1, <5>2
        <4> QED BY <4>1, <4>2
      <3>2. shown' = [j \in 1 .. n + 1 |-> src'[order'[j]]]
        BY <2>2
      <3> QED BY <1>1, <3>1, <3>2
    <2>6. arg \notin {shown[k] : k \in 1 .. Len(shown)}
      BY <1>1, <1>5, <2>1 DEF IInv, Walking, Insert
    <2>7. phase = "asked" /\ phase' = "missed"
      BY <1>5 DEF Insert
    <2>8. shown' = LET kept == IF Len(shown) < CacheSize THEN Len(shown) + 1 ELSE CacheSize
                   IN [j \in 1 .. kept |-> IF j = 1 THEN arg ELSE shown[j - 1]]
      BY <1>1, <2>1, <2>5
    <2> QED BY <2>4, <2>6, <2>7, <2>8 DEF Recent!Next, Recent!Miss, Recent!Remembered
  <1>6. CASE Evict
    <2>1. i = n /\ n = CacheSize /\ last = order[n] /\ n \in 1 .. n /\ n > 1
      <3>1. pc = "walk" /\ ptr = Null /\ i = CacheSize
        BY <1>6 DEF Evict
      <3>2. i = n /\ last = order[i]
        BY <3>1, WalkEnds
      <3> QED BY <3>1, <3>2
    <2>2. /\ Len(order') = n
          /\ \A j \in 1 .. n : order'[j] = IF j = 1 THEN order[n]
                                           ELSE IF j <= n THEN order[j - 1] ELSE order[j]
      BY <1>1, <1>6, <2>1, FrontedIs DEF Evict
    <2>3. src' = [src EXCEPT ![last] = arg] /\ arg' = arg /\ out' = out
      BY <1>6 DEF Evict
    <2>4. shown' = [j \in 1 .. CacheSize |-> IF j = 1 THEN arg ELSE shown[j - 1]]
      <3>1. ASSUME NEW j \in 1 .. n
            PROVE  src'[order'[j]] = IF j = 1 THEN arg ELSE shown[j - 1]
        <4>1. CASE j = 1
          BY <1>1, <2>1, <2>2, <2>3, <4>1
        <4>2. CASE j # 1
          <5>1. j - 1 \in 1 .. n /\ j - 1 # n /\ order'[j] = order[j - 1]
            BY <1>1, <2>2, <4>2
          <5>2. src'[order[j - 1]] = src[order[j - 1]] /\ shown[j - 1] = src[order[j - 1]]
            BY <1>1, <2>1, <2>3, <5>1
          <5> QED BY <4>2, <5>1, <5>2
        <4> QED BY <4>1, <4>2
      <3>2. shown' = [j \in 1 .. n |-> src'[order'[j]]]
        BY <2>2
      <3> QED BY <1>1, <2>1, <3>1, <3>2
    <2>5. arg \notin {shown[k] : k \in 1 .. Len(shown)}
      BY <1>1, <1>6, <2>1 DEF IInv, Walking, Evict
    <2>6. phase = "asked" /\ phase' = "missed"
      BY <1>6 DEF Evict
    <2>7. shown' = LET kept == IF Len(shown) < CacheSize THEN Len(shown) + 1 ELSE CacheSize
                   IN [j \in 1 .. kept |-> IF j = 1 THEN arg ELSE shown[j - 1]]
      <3>1. ~(Len(shown) < CacheSize)
        BY <1>1, <2>1
      <3> QED BY <2>4, <3>1
    <2> QED BY <2>3, <2>5, <2>6, <2>7 DEF Recent!Next, Recent!Miss, Recent!Remembered
  <1>7. CASE Compute
    <2>1. phase = "missed" /\ phase' = "idle" /\ out' = Transform[arg] /\ shown' = shown /\ arg' = arg
      BY <1>7 DEF Compute
    <2> QED BY <2>1 DEF Recent!Next, Recent!Finish
  <1>8. CASE UNCHANGED vars
    BY <1>8 DEF vars, Recent!recentVars
  <1> QED BY <1>2, <1>3, <1>4, <1>5, <1>6, <1>7, <1>8 DEF Next, Serve, Recent!Next

(* CIccMruCache and CIccApplyMruCmm implement the cache of recent pixels: the     *)
(* pixel forgotten is always the least recent one of a full cache, and every      *)
(* answer, remembered or computed, is the transform of the pixel asked for.       *)
THEOREM ImplementsRecentPixels ==
  CacheSize > 1 /\ CanFail = FALSE => (Spec => StepsAreRecentPixels)
  <1> SUFFICES ASSUME CacheSize > 1, CanFail = FALSE PROVE Spec => StepsAreRecentPixels
    OBVIOUS
  <1>1. Init => Recent!Init
    BY DEF Init, Recent!Init
  <1>2. IInv /\ IInv' /\ CacheCoherent /\ [Next]_vars => [Recent!Next]_(Recent!recentVars)
    BY StepRefines
  <1>3. Spec => []IInv
    BY CacheSound
  <1>4. Spec => []CacheCoherent
    BY CacheAlwaysCoherent
  <1> QED BY <1>1, <1>2, <1>3, <1>4, PTL DEF Spec, StepsAreRecentPixels
=============================================================================
