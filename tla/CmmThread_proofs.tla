-------------------------- MODULE CmmThread_proofs --------------------------
(***************************************************************************)
(* Theorems about CmmThread, for every number of threads, pixels and        *)
(* samples and every chunk size: what Apply returns and when, and, as long   *)
(* as no address exceeds 32 bits, that it converts every pixel exactly once. *)
(***************************************************************************)
EXTENDS CmmThread, TLAPS

-----------------------------------------------------------------------------
(* Arithmetic *)

LEMMA ProductMonotone ==
  ASSUME NEW m \in Nat, NEW n \in Nat, NEW k \in Nat, m <= n
  PROVE  m * k <= n * k
<1>1. n * k = m * k + (n - m) * k  BY SMT
<1>2. (n - m) * k \in Nat  BY SMT
<1> QED  BY <1>1, <1>2, SMT

LEMMA ProductStrict ==
  ASSUME NEW m \in Nat, NEW n \in Nat, NEW k \in Nat \ {0}, m * k < n * k
  PROVE  m < n
<1>1. n <= m => n * k <= m * k  BY ProductMonotone
<1> QED  BY <1>1, SMT

(* A number is its quotient times the divisor and a rest, in one way.        *)
LEMMA Division ==
  ASSUME NEW x \in Nat, NEW d \in Nat \ {0}
  PROVE  /\ x \div d \in Nat /\ (x % d) \in 0 .. d - 1
         /\ x = (x \div d) * d + (x % d)
  BY SMT

LEMMA DivisionUnique ==
  ASSUME NEW q \in Nat, NEW d \in Nat \ {0}, NEW r \in 0 .. d - 1
  PROVE  (q * d + r) \div d = q /\ ((q * d + r) % d) = r
<1> DEFINE x == q * d + r
<1>1. x \in Nat /\ x = q * d + r BY SMT
<1> HIDE DEF x
<1>2. x \div d \in Nat /\ (x % d) \in 0 .. d - 1 /\ x = (x \div d) * d + (x % d)
  BY <1>1, Division
<1>3. q * d < ((x \div d) + 1) * d /\ (x \div d) * d < (q + 1) * d
  BY <1>1, <1>2, SMT
<1>4. q < (x \div d) + 1 /\ x \div d < q + 1
  BY <1>2, <1>3, ProductStrict
<1>5. x \div d = q BY <1>2, <1>4, SMT
<1>6. (x % d) = r BY <1>1, <1>2, <1>5, SMT
<1> QED  BY <1>5, <1>6 DEF x

(* The samples of the pixels q to q + n - 1 lie together.                    *)
LEMMA SamplesOfPixels ==
  ASSUME NEW x \in Nat, NEW d \in Nat \ {0}, NEW q \in Nat, NEW n \in Nat
  PROVE  /\ x \in q * d .. q * d + n * d - 1 <=> x \div d \in q .. q + n - 1
         /\ x \div d >= q =>
              (x - q * d) \div d = x \div d - q /\ ((x - q * d) % d) = (x % d)
<1> DEFINE p == x \div d
           s == x % d
<1>1. p \in Nat /\ s \in 0 .. d - 1 /\ x = p * d + s  BY Division
<1> HIDE DEF p, s
<1>2. ASSUME p >= q
      PROVE  x >= q * d /\ (x - q * d) \div d = p - q /\ ((x - q * d) % d) = s
  <2>1. p - q \in Nat /\ x - q * d = (p - q) * d + s  BY <1>1, <1>2, SMT
  <2>2. (p - q) * d \in Nat  BY <2>1, SMT
  <2>3. x >= q * d  BY <1>1, <2>1, <2>2, SMT
  <2> QED  BY <1>1, <2>1, <2>3, DivisionUnique
<1>3. ASSUME x >= q * d PROVE p >= q
  <2>1. q * d < (p + 1) * d  BY <1>1, <1>3, SMT
  <2>2. q < p + 1  BY <1>1, <2>1, ProductStrict
  <2> QED  BY <1>1, <2>2, SMT
<1>4. ASSUME p < q + n PROVE x < q * d + n * d
  <2>1. (p + 1) * d <= (q + n) * d  BY <1>1, <1>4, ProductMonotone
  <2> QED  BY <1>1, <2>1, SMT
<1>5. ASSUME x < q * d + n * d PROVE p < q + n
  <2>1. p * d < (q + n) * d  BY <1>1, <1>5, SMT
  <2> QED  BY <1>1, <2>1, ProductStrict
<1>6. q * d \in Nat /\ n * d \in Nat  BY SMT
<1>7. x \in q * d .. q * d + n * d - 1 <=> p \in q .. q + n - 1
  BY <1>1, <1>2, <1>3, <1>4, <1>5, <1>6, SMT
<1> QED  BY <1>2, <1>7 DEF p, s
-----------------------------------------------------------------------------
(* Control: who runs, what was returned.  Nothing is assumed here.           *)

(* The strips of the call at hand whose Apply was entered.                   *)
Launched(w) ==
  \/ main \in {"launch", "unwind"} /\ w < t
  \/ main \in {"own", "collect"} /\ w <= t

ControlTypes ==
  /\ pc \in [Worker -> {"idle", "called", "chunk", "compute", "done", "fault"}]
  /\ status \in [Worker -> {"Ok", "AllocErr"}]
  /\ scratch \in [Worker -> {"none", "some", "all"}]
  /\ main \in {"idle", "launch", "own", "collect", "unwind"}
  /\ nPixels \in 0 .. MaxPixels
  /\ nActive \in 1 .. nThreads
  /\ t \in 0 .. nActive - 1 /\ i \in 0 .. nActive - 1
  /\ rv \in {"none", "Ok", "AllocErr", "thrown"}

(* What the caller has collected so far.                                     *)
Collected ==
  /\ pc[t] = "done" /\ \A w \in Worker : w < i => pc[w] = "done"
  /\ rv \in {"Ok", "AllocErr"}
  /\ rv = "Ok" <=> status[t] = "Ok" /\ \A w \in Worker : w < i => status[w] = "Ok"

ControlInv ==
  /\ ControlTypes
  /\ \A w \in Worker : Running(w) => Launched(w)
  /\ \A w \in Worker : Launched(w) => pc[w] # "idle"
  /\ main \in {"own", "collect"} => t = nActive - 1
  /\ main \in {"launch", "own"} => i = 0
  /\ main = "collect" => Collected
  /\ main = "idle" => rv # "none"
  /\ StatusHonest

LEMMA Sizes ==
  /\ nThreads \in Nat \ {0} /\ MaxPixels \in Nat /\ Word \in Nat \ {0}
  /\ nSrcSamples \in Nat \ {0} /\ nDstSamples \in Nat \ {0} /\ ChunkSize \in Nat \ {0}
  /\ Worker = 0 .. nThreads - 1 /\ 0 \in Worker
BY SizeAssumption DEF Worker

LEMMA ActiveInRange ==
  ASSUME NEW n \in 1 .. MaxPixels
  PROVE  Active(n) \in 1 .. nThreads
<1>1. Word \div 2 \in Nat BY Sizes, SMT
<1> QED BY <1>1, Sizes DEF Active

LEMMA InitControl == Init => ControlInv
<1> SUFFICES ASSUME Init PROVE ControlInv OBVIOUS
<1> USE Sizes
<1>1. ControlTypes BY DEF Init, ApplyInit, ControlTypes
<1>2. \A w \in Worker : ~Running(w) BY DEF Init, ApplyInit, Running
<1>3. \A w \in Worker : ~Launched(w) BY DEF Init, Launched
<1> QED BY <1>1, <1>2, <1>3 DEF Init, ControlInv, StatusHonest

(* A strip's step changes its own pc, from where it runs, and its status only *)
(* when it is done.                                                          *)
LEMMA WorkControl ==
  ASSUME ControlTypes, NEW w \in Worker, Work(w)
  PROVE  /\ Running(w) /\ pc[w] # "fault"
         /\ \E c \in {"chunk", "compute", "done", "fault"} : pc' = [pc EXCEPT ![w] = c]
         /\ \/ UNCHANGED status
            \/ \E s \in {"Ok", "AllocErr"} : status' = [status EXCEPT ![w] = s]
         /\ scratch' \in [Worker -> {"none", "some", "all"}]
<1> USE SwitchAssumption DEF ControlTypes
<1>1. CASE Enter(w) BY <1>1 DEF Enter, Running
<1>2. CASE AllocFails(w)
  <2>1. PICK left \in AllocOutcomes : scratch' = [scratch EXCEPT ![Scratch(w)] = left]
    BY <1>2 DEF AllocFails
  <2>2. left \in {"none", "some", "all"} OBVIOUS
  <2> QED BY <1>2, <2>1, <2>2 DEF AllocFails, Running
<1>3. CASE ReadChunk(w) BY <1>3 DEF ReadChunk, Running
<1>4. CASE UseMissingBuffer(w) BY <1>4 DEF UseMissingBuffer, Running
<1>5. CASE WriteChunk(w) BY <1>5 DEF WriteChunk, Running
<1>6. CASE Finish(w) BY <1>6 DEF Finish, Running
<1> QED BY <1>1, <1>2, <1>3, <1>4, <1>5, <1>6 DEF Work

LEMMA StripControl ==
  ASSUME ControlInv, NEW v \in Worker, Strip(v)
  PROVE  ControlInv'
<1>1. ControlTypes BY DEF ControlInv
<1>2. Running(v) /\ Launched(v) /\ main # "idle"
  BY <1>1, WorkControl DEF ControlInv, Strip, Launched
<1>3. PICK c \in {"chunk", "compute", "done", "fault"} : pc' = [pc EXCEPT ![v] = c]
  BY <1>1, WorkControl DEF Strip
<1>4. \A w \in Worker : w # v => pc'[w] = pc[w] /\ status'[w] = status[w]
  BY <1>1, <1>3, WorkControl DEF Strip, ControlTypes
<1>5. ControlTypes'
  BY <1>1, <1>3, WorkControl DEF Strip, ControlTypes, mainVars
<1>6. UNCHANGED <<main, nPixels, nActive, t, i, rv>> /\ \A w \in Worker : Launched(w)' <=> Launched(w)
  BY DEF Strip, mainVars, Launched
<1>7. \A w \in Worker : Running(w)' => Launched(w)'
  BY <1>2, <1>4, <1>6 DEF ControlInv, Running
<1>8. \A w \in Worker : Launched(w)' => pc'[w] # "idle"
  BY <1>1, <1>3, <1>4, <1>6 DEF ControlInv, ControlTypes
<1>9. ASSUME main = "collect" PROVE Collected'
  <2>1. Collected /\ pc[v] # "done" BY <1>2, <1>9 DEF ControlInv, Running
  <2>2. t \in Worker BY <1>1, Sizes DEF ControlTypes
  <2>3. t # v /\ \A w \in Worker : w < i => w # v BY <2>1 DEF Collected
  <2> QED BY <1>4, <1>6, <2>1, <2>2, <2>3 DEF Collected
<1> QED BY <1>2, <1>5, <1>6, <1>7, <1>8, <1>9 DEF ControlInv, StatusHonest

(* Apply of object k is called: it runs, the others are as they were.        *)
LEMMA CallControl ==
  ASSUME ControlTypes, NEW k \in Worker, NEW n, CallStrip(k, n)
  PROVE  /\ pc' = [pc EXCEPT ![k] = "called"] /\ ~Running(k)
         /\ pc' \in [Worker -> {"idle", "called", "chunk", "compute", "done", "fault"}]
         /\ UNCHANGED <<status, scratch>>
BY DEF CallStrip, Call, ControlTypes

LEMMA RequestControl ==
  ASSUME ControlInv, NEW n \in 0 .. MaxPixels, Request(n)
  PROVE  ControlInv'
<1>1. ControlTypes' BY Sizes, ActiveInRange DEF Request, ControlInv, ControlTypes
<1>2. \A w \in Worker : ~Running(w) BY DEF ControlInv, Request, Launched
<1>3. \A w \in Worker : ~Running(w)' /\ ~Launched(w)'
  BY <1>2, Sizes DEF Request, Running, Launched
<1> QED BY <1>1, <1>3 DEF ControlInv, Request, StatusHonest

LEMMA LaunchControl ==
  ASSUME ControlInv, Launch
  PROVE  ControlInv'
<1>1. ControlTypes /\ t \in Worker BY Sizes DEF ControlInv, ControlTypes
<1>2. CallStrip(t, StripCount(t)) BY DEF Launch
<1>3. ControlTypes' BY <1>1, <1>2, CallControl, Sizes DEF Launch, ControlTypes
<1>4. \A w \in Worker : Launched(w)' <=> Launched(w) \/ w = t
  BY <1>1, Sizes DEF Launch, Launched, ControlTypes
<1>5. \A w \in Worker : (Running(w)' => Launched(w)') /\ (Launched(w)' => pc'[w] # "idle")
  BY <1>1, <1>2, <1>4, CallControl DEF ControlInv, ControlTypes, Running
<1> QED BY <1>3, <1>5 DEF ControlInv, Launch, StatusHonest

LEMMA OwnStripControl ==
  ASSUME ControlInv, OwnStrip
  PROVE  ControlInv'
<1>1. ControlTypes /\ t \in Worker BY Sizes DEF ControlInv, ControlTypes
<1>2. CallStrip(t, nPixels - offset) BY DEF OwnStrip
<1>3. ControlTypes' BY <1>1, <1>2, CallControl, Sizes DEF OwnStrip, ControlTypes
<1>4. \A w \in Worker : Launched(w)' <=> Launched(w) \/ w = t
  BY <1>1, Sizes DEF OwnStrip, Launched, ControlTypes
<1>5. \A w \in Worker : (Running(w)' => Launched(w)') /\ (Launched(w)' => pc'[w] # "idle")
  BY <1>1, <1>2, <1>4, CallControl DEF ControlInv, ControlTypes, Running
<1> QED BY <1>3, <1>5 DEF ControlInv, OwnStrip, StatusHonest

(* The caller's other steps change nothing of a strip.                       *)
LEMMA CallerControl ==
  ASSUME ControlInv, OwnStripDone \/ Collect \/ Return \/ LaunchThrows \/ Unwound
  PROVE  ControlInv'
<1> USE DEF applyVars
<1>1. ControlTypes /\ t \in Worker /\ i \in Worker BY Sizes DEF ControlInv, ControlTypes
<1>2. \A w \in Worker : Running(w)' <=> Running(w)
  BY DEF OwnStripDone, Collect, Return, LaunchThrows, Unwound, Running
<1>3. CASE OwnStripDone
  <2>1. ControlTypes' BY <1>1, <1>3 DEF OwnStripDone, ControlTypes
  <2>2. \A w \in Worker : Launched(w)' <=> Launched(w)
    BY <1>3 DEF OwnStripDone, Launched
  <2>3. \A w \in Worker : ~(w < i) BY <1>3, Sizes DEF ControlInv, OwnStripDone
  <2>4. Collected' BY <1>1, <1>3, <2>3 DEF OwnStripDone, Collected, ControlTypes
  <2> QED BY <1>2, <1>3, <2>1, <2>2, <2>4 DEF ControlInv, OwnStripDone, StatusHonest
<1>4. CASE Collect
  <2>1. ControlTypes' BY <1>1, <1>4, Sizes DEF Collect, ControlTypes
  <2>2. \A w \in Worker : Launched(w)' <=> Launched(w)
    BY <1>4 DEF Collect, Launched
  <2>3. \A w \in Worker : w < i' <=> w < i \/ w = i
    BY <1>1, <1>4, Sizes DEF Collect, ControlTypes
  <2>4. Collected BY <1>4 DEF ControlInv, Collect
  <2>5. Collected' BY <1>1, <1>4, <2>3, <2>4 DEF Collect, Collected, ControlTypes
  <2> QED BY <1>2, <1>4, <2>1, <2>2, <2>5 DEF ControlInv, Collect, StatusHonest
<1>5. CASE Return
  <2>1. ControlTypes' /\ Collected /\ t = i
    BY <1>1, <1>5 DEF Return, ControlTypes, ControlInv
  <2>2. \A w \in Worker : ~Running(w)
    <3> SUFFICES ASSUME NEW w \in Worker, Running(w) PROVE FALSE OBVIOUS
    <3>1. w <= t BY <1>5 DEF ControlInv, Launched, Return
    <3>2. w < i \/ w = t BY <1>1, <2>1, <3>1, Sizes
    <3> QED BY <2>1, <3>2 DEF Collected, Running
  <2>3. \A w \in Worker : ~Launched(w)' BY <1>5 DEF Return, Launched
  <2>4. \A w \in Worker : w < nActive <=> w < i \/ w = t
    BY <1>1, <1>5, <2>1, Sizes DEF Return, ControlTypes
  <2>5. rv = "Ok" <=> \A w \in Worker : w < nActive => status[w] = "Ok"
    BY <1>1, <2>1, <2>4 DEF Collected
  <2>6. StatusHonest' BY <1>5, <2>5 DEF Return, StatusHonest
  <2>7. rv' # "none" BY <1>5, <2>1 DEF Return, Collected
  <2> QED BY <1>2, <1>5, <2>1, <2>2, <2>3, <2>6, <2>7 DEF ControlInv, Return
<1>6. CASE LaunchThrows
  <2>1. ControlTypes' BY <1>1, <1>6 DEF LaunchThrows, ControlTypes
  <2>2. \A w \in Worker : Launched(w)' <=> Launched(w)
    BY <1>6 DEF LaunchThrows, Launched
  <2> QED BY <1>2, <1>6, <2>1, <2>2 DEF ControlInv, LaunchThrows, StatusHonest
<1>7. CASE Unwound
  <2>1. ControlTypes' BY <1>1, <1>7 DEF Unwound, ControlTypes
  <2>2. \A w \in Worker : ~Running(w)
    BY <1>7 DEF ControlInv, Unwound, Launched, Running
  <2>3. \A w \in Worker : ~Launched(w)' BY <1>7 DEF Unwound, Launched
  <2> QED BY <1>2, <1>7, <2>1, <2>2, <2>3 DEF ControlInv, Unwound, StatusHonest
<1> QED BY <1>3, <1>4, <1>5, <1>6, <1>7

LEMMA NextControl == ControlInv /\ [Next]_vars => ControlInv'
<1> SUFFICES ASSUME ControlInv, [Next]_vars PROVE ControlInv' OBVIOUS
<1>1. CASE UNCHANGED vars
  BY <1>1 DEF vars, ControlInv, ControlTypes, Launched, Running, Collected, StatusHonest
<1>2. CASE Next
  BY <1>2, RequestControl, LaunchControl, OwnStripControl, CallerControl, StripControl
  DEF Next, Caller
<1> QED BY <1>1, <1>2

(* No strip works on after Apply has returned or thrown, when the client may *)
(* free its buffers (IccCmmThread.cpp:173-205).                              *)
THEOREM NoStripAfterReturn == Spec => []NoStrayStrip
<1>1. ControlInv => NoStrayStrip BY DEF ControlInv, NoStrayStrip, Launched
<1> QED BY InitControl, NextControl, <1>1, PTL DEF Spec

(* A call is Ok exactly when every strip of it was, whichever fails and in   *)
(* whatever order they end (IccCmmThread.cpp:198-205).                       *)
THEOREM StatusAlwaysHonest == Spec => []StatusHonest
<1>1. ControlInv => StatusHonest BY DEF ControlInv
<1> QED BY InitControl, NextControl, <1>1, PTL DEF Spec
-----------------------------------------------------------------------------
(* Strips *)

(* The first pixel of strip k of n pixels in a strips.                       *)
StripAt(n, a, k) == k * (n \div a) + IF k < (n % a) THEN k ELSE (n % a)
StripSize(n, a, k) == n \div a + IF k < (n % a) THEN 1 ELSE 0

LEMMA StripsFollow ==
  ASSUME NEW n \in Nat, NEW a \in Nat \ {0}, NEW k \in Nat
  PROVE  /\ StripAt(n, a, k) \in Nat /\ StripSize(n, a, k) \in Nat
         /\ StripAt(n, a, k + 1) = StripAt(n, a, k) + StripSize(n, a, k)
<1> DEFINE b == n \div a
           e == n % a
<1>1. b \in Nat /\ e \in 0 .. a - 1 BY Division
<1> HIDE DEF b, e
<1>2. (k + 1) * b = k * b + b /\ k * b \in Nat BY <1>1, SMT
<1>3. StripAt(n, a, k) = k * b + (IF k < e THEN k ELSE e)
  BY DEF StripAt, b, e
<1>4. StripAt(n, a, k + 1) = (k + 1) * b + (IF k + 1 < e THEN k + 1 ELSE e)
  BY DEF StripAt, b, e
<1>5. StripSize(n, a, k) = b + (IF k < e THEN 1 ELSE 0)
  BY DEF StripSize, b, e
<1> QED BY <1>1, <1>2, <1>3, <1>4, <1>5, SMT

LEMMA StripsOrdered ==
  ASSUME NEW n \in Nat, NEW a \in Nat \ {0}, NEW v \in Nat, NEW w \in Nat, v <= w
  PROVE  StripAt(n, a, v) <= StripAt(n, a, w)
<1> DEFINE b == n \div a
           e == n % a
<1>1. b \in Nat /\ e \in 0 .. a - 1 BY Division
<1> HIDE DEF b, e
<1>2. v * b <= w * b /\ v * b \in Nat /\ w * b \in Nat BY <1>1, ProductMonotone, SMT
<1>3. StripAt(n, a, v) = v * b + (IF v < e THEN v ELSE e)
  BY DEF StripAt, b, e
<1>4. StripAt(n, a, w) = w * b + (IF w < e THEN w ELSE e)
  BY DEF StripAt, b, e
<1> QED BY <1>1, <1>2, <1>3, <1>4, SMT

(* The strips end where the pixels end.                                      *)
LEMMA StripsEnd ==
  ASSUME NEW n \in Nat, NEW a \in Nat \ {0}
  PROVE  StripAt(n, a, 0) = 0 /\ StripAt(n, a, a) = n
<1> DEFINE b == n \div a
           e == n % a
<1>1. b \in Nat /\ e \in 0 .. a - 1 /\ n = b * a + e BY Division
<1> HIDE DEF b, e
<1>2. a * b = b * a /\ 0 * b = 0 BY <1>1, SMT
<1>3. /\ StripAt(n, a, 0) = 0 * b + (IF 0 < e THEN 0 ELSE e)
      /\ StripAt(n, a, a) = a * b + (IF a < e THEN a ELSE e)
  BY DEF StripAt, b, e
<1> QED BY <1>1, <1>2, <1>3, SMT

First(k) == StripAt(nPixels, nActive, k)

LEMMA Strips ==
  ASSUME nPixels \in Nat, nActive \in Nat \ {0}, NEW k \in 0 .. nActive - 1
  PROVE  /\ First(k) \in Nat /\ StripCount(k) \in Nat
         /\ First(k + 1) = First(k) + StripCount(k)
         /\ First(k + 1) <= nPixels
         /\ k = nActive - 1 => First(k) + StripCount(k) = nPixels
         /\ First(0) = 0
         /\ \A v \in Nat : v < k => First(v) + StripCount(v) <= First(k)
<1> DEFINE n == nPixels
           a == nActive
<1>1. \A v \in Nat : /\ StripAt(n, a, v) \in Nat /\ StripSize(n, a, v) \in Nat
                     /\ StripAt(n, a, v + 1) = StripAt(n, a, v) + StripSize(n, a, v)
  BY StripsFollow
<1>2. \A v : StripSize(n, a, v) = StripCount(v)
  BY DEF StripSize, StripCount
<1>3. StripAt(n, a, 0) = 0 /\ StripAt(n, a, a) = n BY StripsEnd
<1>4. StripAt(n, a, k + 1) <= StripAt(n, a, a) BY StripsOrdered
<1>5. \A v \in Nat : v < k => StripAt(n, a, v + 1) <= StripAt(n, a, k)
  <2> SUFFICES ASSUME NEW v \in Nat, v < k PROVE StripAt(n, a, v + 1) <= StripAt(n, a, k)
    OBVIOUS
  <2>1. v + 1 \in Nat /\ k \in Nat /\ v + 1 <= k OBVIOUS
  <2> QED BY <2>1, StripsOrdered
<1>6. k \in Nat /\ (k = a - 1 => k + 1 = a) OBVIOUS
<1>7. \A v \in Nat : /\ First(v) \in Nat /\ StripCount(v) \in Nat
                     /\ First(v + 1) = First(v) + StripCount(v)
  BY <1>1, <1>2 DEF First
<1>8. First(k + 1) <= nPixels /\ First(0) = 0 /\ (k = a - 1 => First(k + 1) = nPixels)
  BY <1>3, <1>4, <1>6 DEF First
<1>9. \A v \in Nat : v < k => First(v) + StripCount(v) <= First(k)
  BY <1>5, <1>7 DEF First
<1> QED BY <1>6, <1>7, <1>8, <1>9

-----------------------------------------------------------------------------
(* Data.  No address exceeds the width it is computed in, and no two workers *)
(* share their buffers: they are apply objects of a CMM without a cache.     *)

NoWrap ==
  /\ MaxPixels * nSrcSamples < Word /\ MaxPixels * nDstSamples < Word
  /\ ~SharedScratch

LEMMA TimesIsProduct ==
  ASSUME NoWrap, NEW n \in 0 .. MaxPixels
  PROVE  /\ Times(n, nSrcSamples) = n * nSrcSamples
         /\ Times(n, nDstSamples) = n * nDstSamples
<1>1. n * nSrcSamples <= MaxPixels * nSrcSamples /\ n * nDstSamples <= MaxPixels * nDstSamples
  BY Sizes, ProductMonotone
<1>2. n * nSrcSamples \in 0 .. Word - 1 /\ n * nDstSamples \in 0 .. Word - 1
  BY <1>1, Sizes, SMT DEF NoWrap
<1>3. \A x \in 0 .. Word - 1 : (x % Word) = x BY Sizes, SMT
<1> QED BY <1>2, <1>3 DEF Times

(* A pixel is converted when its strip has come past it.                     *)
Done(p) == \E w \in Worker : Launched(w) /\ p \in First(w) .. First(w) + at[w] - 1

Pixel(x) == x \div nDstSamples

(* The destination holds the converted pixels and is untouched elsewhere.    *)
Image ==
  [x \in DstAddr |-> IF Done(Pixel(x)) THEN <<Pixel(x) * nSrcSamples, (x % nDstSamples)>>
                     ELSE Unwritten]

(* The next pixel of strip w.                                                *)
Place(w) == First(w) + at[w]

StripInv(w) ==
  /\ job[w] = [src |-> First(w) * nSrcSamples, dst |-> First(w) * nDstSamples,
               count |-> StripCount(w)]
  /\ at[w] <= StripCount(w)
  /\ pc[w] = "compute" => /\ at[w] < StripCount(w)
                          /\ buf[w] = [k \in 1 .. Chunk(w) |-> (Place(w) + k - 1) * nSrcSamples]
  /\ pc[w] = "done" /\ status[w] = "Ok" => at[w] = StripCount(w)

DataTypes ==
  /\ job \in [Worker -> Jobs] /\ at \in [Worker -> Nat]
  /\ buf \in [Worker -> Seq(SrcAddr)] /\ \A w \in Worker : Len(buf[w]) <= ChunkSize
  /\ dst \in [DstAddr -> Written \cup {Unwritten}]
  /\ offset \in 0 .. MaxPixels

(* The strips of the caller and those already collected are converted.       *)
CollectedDone ==
  rv = "Ok" =>
    \A p \in 0 .. nPixels - 1 : p < First(i) \/ First(t) <= p => Done(p)

DataInv ==
  /\ DataTypes
  /\ main # "idle" => dst = Image
  /\ main = "launch" => offset = First(t)
  /\ \A w \in Worker : Launched(w) => StripInv(w)
  /\ main = "collect" => CollectedDone
  /\ Converted
LEMMA Addresses ==
  /\ \A x \in DstAddr : /\ x \in Nat /\ Pixel(x) \in 0 .. MaxPixels - 1
                        /\ (x % nDstSamples) \in 0 .. nDstSamples - 1
  /\ \A p \in 0 .. MaxPixels - 1, s \in 0 .. nDstSamples - 1 :
       /\ p * nDstSamples + s \in DstAddr
       /\ Pixel(p * nDstSamples + s) = p
       /\ ((p * nDstSamples + s) % nDstSamples) = s
  /\ \A p \in 0 .. MaxPixels - 1 : p * nSrcSamples \in SrcAddr
<1>1. ASSUME NEW x \in DstAddr
      PROVE  /\ x \in Nat /\ Pixel(x) \in 0 .. MaxPixels - 1
             /\ (x % nDstSamples) \in 0 .. nDstSamples - 1
  <2>1. MaxPixels * nDstSamples \in Nat BY Sizes, SMT
  <2>2. x \in Nat /\ x < MaxPixels * nDstSamples BY <2>1 DEF DstAddr
  <2>3. /\ Pixel(x) \in Nat /\ (x % nDstSamples) \in 0 .. nDstSamples - 1
        /\ x = Pixel(x) * nDstSamples + (x % nDstSamples)
    BY <2>2, Sizes, Division DEF Pixel
  <2>4. Pixel(x) * nDstSamples <= x BY <2>3, Sizes, SMT
  <2>5. Pixel(x) * nDstSamples < MaxPixels * nDstSamples
    BY <2>1, <2>2, <2>3, <2>4, Sizes, SMT
  <2>6. Pixel(x) < MaxPixels BY <2>3, <2>5, Sizes, ProductStrict
  <2> QED BY <2>2, <2>3, <2>6, Sizes
<1>2. ASSUME NEW p \in 0 .. MaxPixels - 1, NEW s \in 0 .. nDstSamples - 1
      PROVE  /\ p * nDstSamples + s \in DstAddr
             /\ Pixel(p * nDstSamples + s) = p
             /\ ((p * nDstSamples + s) % nDstSamples) = s
  <2>1. (p + 1) * nDstSamples <= MaxPixels * nDstSamples
    BY Sizes, ProductMonotone
  <2>2. p * nDstSamples + s \in 0 .. MaxPixels * nDstSamples - 1
    BY <2>1, Sizes, SMT
  <2> QED BY <2>2, Sizes, DivisionUnique DEF DstAddr, Pixel
<1>3. ASSUME NEW p \in 0 .. MaxPixels - 1
      PROVE  p * nSrcSamples \in SrcAddr
  <2>1. (p + 1) * nSrcSamples <= MaxPixels * nSrcSamples
    BY Sizes, ProductMonotone
  <2>2. p * nSrcSamples \in 0 .. MaxPixels * nSrcSamples - 1
    BY <2>1, Sizes, SMT
  <2> QED BY <2>2 DEF SrcAddr
<1> QED BY <1>1, <1>2, <1>3

LEMMA ImageType == Image \in [DstAddr -> Written \cup {Unwritten}]
<1>1. ASSUME NEW x \in DstAddr
      PROVE  <<Pixel(x) * nSrcSamples, (x % nDstSamples)>> \in Written
  BY Addresses DEF Written
<1> QED BY <1>1 DEF Image

(* Where a launched strip is, and what it reads and writes.                  *)
LEMMA StripFacts ==
  ASSUME NoWrap, ControlInv, DataInv, NEW w \in Worker, Launched(w)
  PROVE  /\ w \in 0 .. nActive - 1 /\ main # "idle"
         /\ First(w) \in Nat /\ StripCount(w) \in Nat /\ at[w] \in 0 .. StripCount(w)
         /\ Place(w) \in Nat /\ Place(w) <= First(w) + StripCount(w)
         /\ First(w) + StripCount(w) <= nPixels
         /\ job[w].count = StripCount(w)
         /\ SrcStart(w) = Place(w) * nSrcSamples
         /\ DstStart(w) = Place(w) * nDstSamples
         /\ at[w] < StripCount(w) =>
              /\ Chunk(w) \in 1 .. ChunkSize
              /\ Place(w) + Chunk(w) <= First(w) + StripCount(w)
<1>1. ControlTypes /\ DataTypes BY DEF ControlInv, DataInv
<1>2. w \in 0 .. nActive - 1 /\ main # "idle"
  BY <1>1, Sizes DEF Launched, ControlInv, ControlTypes
<1>3. nPixels \in Nat /\ nActive \in Nat \ {0} /\ nPixels <= MaxPixels
  BY <1>1, Sizes DEF ControlTypes
<1>4. /\ First(w) \in Nat /\ StripCount(w) \in Nat
      /\ First(w) + StripCount(w) <= nPixels
  BY <1>2, <1>3, Strips
<1>5. StripInv(w) BY DEF DataInv
<1>6. at[w] \in 0 .. StripCount(w) BY <1>1, <1>4, <1>5 DEF DataTypes, StripInv
<1>7. /\ job[w].src = First(w) * nSrcSamples /\ job[w].dst = First(w) * nDstSamples
      /\ job[w].count = StripCount(w)
  BY <1>5 DEF StripInv
<1>8. at[w] \in 0 .. MaxPixels BY <1>3, <1>4, <1>6, Sizes
<1>9. SrcStart(w) = Place(w) * nSrcSamples /\ DstStart(w) = Place(w) * nDstSamples
  <2>1. SrcStart(w) = First(w) * nSrcSamples + at[w] * nSrcSamples
    BY <1>7, <1>8, TimesIsProduct DEF SrcStart
  <2>2. DstStart(w) = First(w) * nDstSamples + at[w] * nDstSamples
    BY <1>7, <1>8, TimesIsProduct DEF DstStart
  <2>3. \A m, n, k \in Nat : m * k + n * k = (m + n) * k BY SMT
  <2> QED BY <1>4, <1>6, <2>1, <2>2, <2>3, Sizes DEF Place
<1>10. Place(w) \in Nat /\ Place(w) <= First(w) + StripCount(w)
  BY <1>4, <1>6 DEF Place
<1>11. ASSUME at[w] < StripCount(w)
       PROVE  /\ Chunk(w) \in 1 .. ChunkSize
              /\ Place(w) + Chunk(w) <= First(w) + StripCount(w)
  BY <1>4, <1>6, <1>7, <1>11, Sizes DEF Chunk, Place
<1> QED BY <1>2, <1>4, <1>6, <1>7, <1>9, <1>10, <1>11

(* Strips that are both launched never overlap: a pixel of one that was not  *)
(* reached is not converted by another.                                      *)
LEMMA NotYetDone ==
  ASSUME NoWrap, ControlInv, DataInv, NEW w \in Worker, Launched(w),
         NEW p \in Place(w) .. First(w) + StripCount(w) - 1
  PROVE  ~Done(p)
<1> SUFFICES ASSUME NEW v \in Worker, Launched(v), p \in First(v) .. First(v) + at[v] - 1
             PROVE  FALSE
  BY DEF Done
<1>1. nPixels \in Nat /\ nActive \in Nat \ {0} BY Sizes DEF ControlInv, ControlTypes
<1>2. /\ v \in 0 .. nActive - 1 /\ w \in 0 .. nActive - 1
      /\ First(v) \in Nat /\ First(w) \in Nat /\ StripCount(w) \in Nat /\ StripCount(v) \in Nat
      /\ at[v] \in 0 .. StripCount(v) /\ at[w] \in 0 .. StripCount(w)
  BY StripFacts
<1>3. CASE v = w BY <1>2, <1>3 DEF Place
<1>4. CASE v < w
  <2>1. First(v) + StripCount(v) <= First(w) BY <1>1, <1>2, <1>4, Strips
  <2> QED BY <1>2, <2>1 DEF Place
<1>5. CASE w < v
  <2>1. First(w) + StripCount(w) <= First(v) BY <1>1, <1>2, <1>5, Strips
  <2> QED BY <1>2, <2>1 DEF Place
<1> QED BY <1>2, <1>3, <1>4, <1>5

LEMMA Listed ==
  ASSUME NEW S, NEW n \in Nat, NEW f \in [1 .. n -> S]
  PROVE  f \in Seq(S) /\ Len(f) = n
OBVIOUS

(* A strip's step changes its own entries only, and takes none back.         *)
LEMMA StripFrame ==
  ASSUME ControlInv, DataInv, NEW v \in Worker, Strip(v), DataTypes',
         at[v] <= at'[v], StripInv(v)', dst' = Image',
         \A w \in Worker \ {v} : at'[w] = at[w] /\ buf'[w] = buf[w]
  PROVE  DataInv'
<1>1. ControlTypes /\ DataTypes BY DEF ControlInv, DataInv
<1>2. Running(v) /\ Launched(v) /\ main # "idle"
  BY <1>1, WorkControl DEF ControlInv, Strip, Launched
<1>3. /\ UNCHANGED <<main, nPixels, nActive, t, offset, i, rv>>
      /\ \A w \in Worker : Launched(w)' <=> Launched(w)
      /\ \A k : First(k)' = First(k) /\ StripCount(k)' = StripCount(k)
  BY DEF Strip, mainVars, Launched, First, StripCount
<1>4. UNCHANGED job
  BY DEF Strip, Work, Enter, AllocFails, ReadChunk, UseMissingBuffer, WriteChunk, Finish
<1>5. \A w \in Worker \ {v} : pc'[w] = pc[w] /\ status'[w] = status[w]
  BY <1>1, WorkControl DEF Strip, ControlTypes
<1>6. ASSUME NEW w \in Worker, Launched(w)' PROVE StripInv(w)'
  <2>1. CASE w = v BY <2>1
  <2>2. CASE w # v
    <3>1. StripInv(w) BY <1>3, <1>6 DEF DataInv
    <3>2. at'[w] = at[w] /\ buf'[w] = buf[w] /\ pc'[w] = pc[w] /\ status'[w] = status[w]
      BY <1>5, <2>2
    <3>3. Chunk(w)' = Chunk(w) /\ Place(w)' = Place(w)
      BY <1>3, <1>4, <3>2 DEF Chunk, Place
    <3> QED BY <1>3, <1>4, <3>1, <3>2, <3>3 DEF StripInv
  <2> QED BY <2>1, <2>2
<1>7. ASSUME NEW p, Done(p) PROVE Done(p)'
  <2>1. PICK w \in Worker : Launched(w) /\ p \in First(w) .. First(w) + at[w] - 1
    BY <1>7 DEF Done
  <2>2. at[w] \in Nat /\ at'[w] \in Nat /\ at[w] <= at'[w]
    <3>1. at \in [Worker -> Nat] /\ at' \in [Worker -> Nat] BY <1>1 DEF DataTypes
    <3> QED BY <3>1
  <2>3. w \in 0 .. nActive - 1 /\ nActive \in Nat \ {0} /\ nPixels \in Nat
    BY <1>1, <2>1, Sizes DEF Launched, ControlInv, ControlTypes
  <2>4. First(w) \in Nat BY <2>3, Strips
  <2>5. p \in First(w) .. First(w) + at'[w] - 1 BY <2>1, <2>2, <2>4
  <2> QED BY <1>3, <2>1, <2>5 DEF Done
<1>8. main = "collect" => CollectedDone' BY <1>3, <1>7 DEF DataInv, CollectedDone
<1>9. Converted' BY <1>2, <1>3 DEF Converted
<1> QED BY <1>3, <1>6, <1>8, <1>9 DEF DataInv

LEMMA SameImage ==
  ASSUME UNCHANGED at, \A w \in Worker : Launched(w)' <=> Launched(w),
         \A k : First(k)' = First(k)
  PROVE  Image' = Image
BY DEF Image, Done

(* The steps that write nothing.                                             *)
LEMMA QuietStripData ==
  ASSUME NoWrap, ControlInv, DataInv, NEW v \in Worker, Strip(v), ~WriteChunk(v)
  PROVE  DataInv'
<1>1. ControlTypes /\ DataTypes BY DEF ControlInv, DataInv
<1>2. Running(v) /\ Launched(v) /\ main # "idle"
  BY <1>1, WorkControl DEF ControlInv, Strip, Launched
<1>3. /\ UNCHANGED <<main, nPixels, nActive, t, offset, i, rv>>
      /\ \A w \in Worker : Launched(w)' <=> Launched(w)
      /\ \A k : First(k)' = First(k) /\ StripCount(k)' = StripCount(k)
  BY DEF Strip, mainVars, Launched, First, StripCount
<1>4. UNCHANGED <<job, at, dst>>
  BY DEF Strip, Work, Enter, AllocFails, ReadChunk, UseMissingBuffer, WriteChunk, Finish
<1>5. dst' = Image' BY <1>2, <1>3, <1>4, SameImage DEF DataInv
<1>6. StripInv(v) BY <1>2 DEF DataInv
<1>7. Scratch(v) = v BY DEF NoWrap, Scratch
<1>8. Chunk(v)' = Chunk(v) /\ Place(v)' = Place(v)
  BY <1>3, <1>4 DEF Chunk, Place
<1>9. CASE ReadChunk(v)
  <2>1. pc' = [pc EXCEPT ![v] = "compute"] /\ at[v] < job[v].count /\ UNCHANGED status
    BY <1>9 DEF ReadChunk
  <2>2. buf' = [buf EXCEPT ![v] = [k \in 1 .. Chunk(v) |-> SrcStart(v) + (k - 1) * nSrcSamples]]
    BY <1>7, <1>9 DEF ReadChunk
  <2>3. /\ at[v] < StripCount(v) /\ SrcStart(v) = Place(v) * nSrcSamples
        /\ Place(v) \in Nat /\ Chunk(v) \in 1 .. ChunkSize
        /\ Place(v) + Chunk(v) <= nPixels
    BY <1>1, <1>2, <2>1, StripFacts, Sizes DEF ControlTypes
  <2>4. ASSUME NEW k \in 1 .. Chunk(v)
        PROVE  /\ SrcStart(v) + (k - 1) * nSrcSamples = (Place(v) + k - 1) * nSrcSamples
               /\ (Place(v) + k - 1) * nSrcSamples \in SrcAddr
    <3>1. Place(v) + k - 1 \in 0 .. MaxPixels - 1
      BY <1>1, <2>3, Sizes DEF ControlTypes
    <3>2. (Place(v) + k - 1) * nSrcSamples = Place(v) * nSrcSamples + (k - 1) * nSrcSamples
      BY <2>3, Sizes, SMT
    <3> QED BY <2>3, <3>1, <3>2, Addresses
  <2> DEFINE read == [k \in 1 .. Chunk(v) |-> (Place(v) + k - 1) * nSrcSamples]
  <2>5. buf' = [buf EXCEPT ![v] = read] BY <2>2, <2>4
  <2>6. read \in Seq(SrcAddr) /\ Len(read) = Chunk(v)
    <3>1. Chunk(v) \in Nat /\ read \in [1 .. Chunk(v) -> SrcAddr] BY <2>3, <2>4, Sizes
    <3> QED BY <3>1, Listed
  <2>7. buf' \in [Worker -> Seq(SrcAddr)] /\ buf'[v] = read /\ \A w \in Worker \ {v} : buf'[w] = buf[w]
    BY <1>1, <2>5, <2>6 DEF DataTypes
  <2>. HIDE DEF read
  <2>8. DataTypes'
    <3>1. ASSUME NEW w \in Worker PROVE Len(buf'[w]) <= ChunkSize
      <4>1. CASE w = v BY <2>3, <2>6, <2>7, <4>1, Sizes
      <4>2. CASE w # v
        <5>1. buf'[w] = buf[w] /\ Len(buf[w]) <= ChunkSize BY <1>1, <2>7, <4>2 DEF DataTypes
        <5> QED BY <5>1
      <4> QED BY <4>1, <4>2
    <3> QED BY <1>1, <1>3, <1>4, <2>7, <3>1 DEF DataTypes
  <2>9. StripInv(v)'
    BY <1>1, <1>3, <1>4, <1>6, <1>8, <2>1, <2>3, <2>7 DEF StripInv, ControlTypes, read
  <2>10. at[v] <= at'[v] /\ \A w \in Worker \ {v} : at'[w] = at[w] /\ buf'[w] = buf[w]
    <3>1. at[v] \in Nat BY <1>1 DEF DataTypes
    <3> QED BY <1>4, <2>7, <3>1
  <2> QED BY <1>5, <2>8, <2>9, <2>10, StripFrame
<1>10. CASE ~ReadChunk(v)
  <2>1. UNCHANGED buf
    BY <1>10 DEF Strip, Work, Enter, AllocFails, UseMissingBuffer, Finish
  <2>2. DataTypes' BY <1>1, <1>3, <1>4, <2>1 DEF DataTypes
  <2>3. /\ pc'[v] # "compute"
        /\ pc'[v] = "done" /\ status'[v] = "Ok" => at[v] >= job[v].count
    BY <1>1, <1>10 DEF Strip, Work, Enter, AllocFails, UseMissingBuffer, Finish, ControlTypes
  <2>4. at[v] <= job[v].count /\ at[v] \in Nat /\ job[v].count \in Nat /\ job[v].count = StripCount(v)
    BY <1>1, <1>6 DEF DataTypes, Jobs, StripInv
  <2>5. pc'[v] = "done" /\ status'[v] = "Ok" => at[v] = StripCount(v) BY <2>3, <2>4
  <2>6. StripInv(v)' BY <1>3, <1>4, <1>6, <2>3, <2>5 DEF StripInv
  <2> QED BY <1>1, <1>4, <1>5, <2>1, <2>2, <2>4, <2>6, StripFrame
<1> QED BY <1>9, <1>10

(* What WriteChunk writes: the samples of the chunk's pixels.                *)
LEMMA ChunkWritten ==
  ASSUME NoWrap, ControlInv, DataInv, NEW v \in Worker, Strip(v), WriteChunk(v)
  PROVE  dst' = [x \in DstAddr |->
                   IF Pixel(x) \in Place(v) .. Place(v) + Chunk(v) - 1
                   THEN <<Pixel(x) * nSrcSamples, (x % nDstSamples)>> ELSE dst[x]]
<1> DEFINE q == Place(v)
           c == Chunk(v)
<1>1. ControlTypes /\ DataTypes BY DEF ControlInv, DataInv
<1>2. Launched(v) BY <1>1, WorkControl DEF ControlInv, Strip
<1>3. /\ at[v] < StripCount(v)
      /\ buf[v] = [k \in 1 .. c |-> (q + k - 1) * nSrcSamples]
  BY <1>2 DEF DataInv, StripInv, WriteChunk
<1>4. q \in Nat /\ c \in Nat /\ DstStart(v) = q * nDstSamples
  BY <1>2, <1>3, StripFacts, Sizes
<1>5. Scratch(v) = v BY DEF NoWrap, Scratch
<1>6. dst' = [x \in DstAddr |->
                IF x \in q * nDstSamples .. q * nDstSamples + c * nDstSamples - 1
                THEN <<buf[v][(x - q * nDstSamples) \div nDstSamples + 1],
                       ((x - q * nDstSamples) % nDstSamples)>>
                ELSE dst[x]]
  BY <1>4, <1>5 DEF WriteChunk
<1> HIDE DEF q, c
<1>7. ASSUME NEW x \in DstAddr
      PROVE  /\ x \in q * nDstSamples .. q * nDstSamples + c * nDstSamples - 1
                  <=> Pixel(x) \in q .. q + c - 1
             /\ Pixel(x) \in q .. q + c - 1 =>
                  /\ buf[v][(x - q * nDstSamples) \div nDstSamples + 1] = Pixel(x) * nSrcSamples
                  /\ ((x - q * nDstSamples) % nDstSamples) = (x % nDstSamples)
  <2>1. x \in Nat /\ Pixel(x) \in Nat BY Addresses
  <2>2. /\ x \in q * nDstSamples .. q * nDstSamples + c * nDstSamples - 1
             <=> Pixel(x) \in q .. q + c - 1
        /\ Pixel(x) >= q =>
             /\ (x - q * nDstSamples) \div nDstSamples = Pixel(x) - q
             /\ ((x - q * nDstSamples) % nDstSamples) = (x % nDstSamples)
    BY <1>4, <2>1, Sizes, SamplesOfPixels DEF Pixel
  <2>3. ASSUME Pixel(x) \in q .. q + c - 1
        PROVE  buf[v][Pixel(x) - q + 1] = Pixel(x) * nSrcSamples
    <3>1. Pixel(x) - q + 1 \in 1 .. c /\ q + (Pixel(x) - q + 1) - 1 = Pixel(x)
      BY <1>4, <2>1, <2>3
    <3> QED BY <1>3, <3>1
  <2> QED BY <1>4, <2>1, <2>2, <2>3
<1>8. \A x \in DstAddr :
        (IF x \in q * nDstSamples .. q * nDstSamples + c * nDstSamples - 1
         THEN <<buf[v][(x - q * nDstSamples) \div nDstSamples + 1],
                ((x - q * nDstSamples) % nDstSamples)>> ELSE dst[x])
        = IF Pixel(x) \in q .. q + c - 1
          THEN <<Pixel(x) * nSrcSamples, (x % nDstSamples)>> ELSE dst[x]
  BY <1>7, Zenon
<1> QED BY <1>6, <1>8, Zenon DEF q, c

LEMMA WriteChunkData ==
  ASSUME NoWrap, ControlInv, DataInv, NEW v \in Worker, Strip(v), WriteChunk(v)
  PROVE  DataInv'
<1>1. ControlTypes /\ DataTypes BY DEF ControlInv, DataInv
<1>2. Launched(v) BY <1>1, WorkControl DEF ControlInv, Strip
<1>3. /\ UNCHANGED <<main, nPixels, nActive, t, offset, i, rv>>
      /\ \A w \in Worker : Launched(w)' <=> Launched(w)
      /\ \A k : First(k)' = First(k) /\ StripCount(k)' = StripCount(k)
  BY DEF Strip, mainVars, Launched, First, StripCount
<1>4. /\ UNCHANGED <<job, buf, status>> /\ pc' = [pc EXCEPT ![v] = "chunk"]
      /\ at' = [at EXCEPT ![v] = at[v] + Chunk(v)]
  BY DEF WriteChunk
<1>5. StripInv(v) /\ at[v] < StripCount(v) BY <1>2 DEF DataInv, StripInv, WriteChunk
<1>6. /\ Chunk(v) \in Nat /\ Place(v) + Chunk(v) <= First(v) + StripCount(v)
      /\ First(v) \in Nat /\ StripCount(v) \in Nat /\ Place(v) \in Nat /\ at[v] \in Nat
  BY <1>2, <1>5, StripFacts, Sizes
<1>7. /\ at'[v] = at[v] + Chunk(v) /\ at' \in [Worker -> Nat]
      /\ \A w \in Worker \ {v} : at'[w] = at[w]
  <2>1. at \in [Worker -> Nat] BY <1>1 DEF DataTypes
  <2> QED BY <1>4, <1>6, <2>1
<1>8. ASSUME NEW p
      PROVE  Done(p)' <=> Done(p) \/ p \in Place(v) .. Place(v) + Chunk(v) - 1
  <2>1. First(v) .. First(v) + at'[v] - 1
          = (First(v) .. First(v) + at[v] - 1) \cup (Place(v) .. Place(v) + Chunk(v) - 1)
    BY <1>6, <1>7 DEF Place
  <2>2. \A w \in Worker \ {v} :
          First(w)' .. First(w)' + at'[w] - 1 = First(w) .. First(w) + at[w] - 1
    BY <1>3, <1>7
  <2> QED BY <1>2, <1>3, <2>1, <2>2 DEF Done
<1>9. dst' = Image'
  <2>1. dst = Image BY <1>2 DEF DataInv, Launched
  <2>2. \A x \in DstAddr :
          (IF Pixel(x) \in Place(v) .. Place(v) + Chunk(v) - 1
           THEN <<Pixel(x) * nSrcSamples, (x % nDstSamples)>> ELSE dst[x])
          = IF Done(Pixel(x))' THEN <<Pixel(x) * nSrcSamples, (x % nDstSamples)>> ELSE Unwritten
    BY <1>8, <2>1, Zenon DEF Image
  <2> QED BY <2>2, ChunkWritten, Zenon DEF Image
<1>10. dst' \in [DstAddr -> Written \cup {Unwritten}]
  <2>1. Image' \in [DstAddr -> Written \cup {Unwritten}]
    <3>1. ASSUME NEW x \in DstAddr
          PROVE  <<Pixel(x) * nSrcSamples, (x % nDstSamples)>> \in Written
      BY Addresses DEF Written
    <3> QED BY <3>1 DEF Image
  <2> QED BY <1>9, <2>1
<1>11. DataTypes' BY <1>1, <1>3, <1>4, <1>7, <1>10 DEF DataTypes
<1>12. StripInv(v)'
  <2>1. pc'[v] = "chunk" BY <1>1, <1>4 DEF ControlTypes
  <2>2. at'[v] <= StripCount(v) BY <1>6, <1>7 DEF Place
  <2> QED BY <1>3, <1>4, <1>5, <2>1, <2>2 DEF StripInv
<1>13. at[v] <= at'[v] BY <1>6, <1>7
<1> QED BY <1>4, <1>7, <1>9, <1>11, <1>12, <1>13, StripFrame

LEMMA InitData == Init => DataInv
<1> SUFFICES ASSUME Init PROVE DataInv OBVIOUS
<1>1. DataTypes
  <2>1. /\ job \in [Worker -> Jobs] /\ at \in [Worker -> Nat] /\ offset \in 0 .. MaxPixels
        /\ dst \in [DstAddr -> Written \cup {Unwritten}]
    BY Sizes DEF Init, ApplyInit, Jobs
  <2>2. buf = [w \in Worker |-> <<>>] BY DEF Init, ApplyInit
  <2>3. <<>> \in Seq(SrcAddr) /\ Len(<<>>) = 0 OBVIOUS
  <2>4. buf \in [Worker -> Seq(SrcAddr)] /\ \A w \in Worker : Len(buf[w]) <= ChunkSize
    BY <2>2, <2>3, Sizes
  <2> QED BY <2>1, <2>4 DEF DataTypes
<1>2. \A w \in Worker : ~Launched(w) BY DEF Init, Launched
<1>3. Converted BY Sizes DEF Init, Converted, ConvertedFrom
<1> QED BY <1>1, <1>2, <1>3 DEF Init, DataInv

LEMMA RequestData ==
  ASSUME ControlInv, DataInv, NEW n \in 0 .. MaxPixels, Request(n)
  PROVE  DataInv'
<1>1. \A w \in Worker : ~Launched(w)' BY Sizes DEF Request, Launched
<1>2. dst' = Image' BY <1>1 DEF Request, Image, Done
<1>3. DataTypes' BY Sizes DEF DataInv, DataTypes, Request
<1>4. ASSUME main' = "launch" PROVE offset' = First(t)'
  <2>1. nPixels' \in Nat /\ nActive' \in Nat \ {0} /\ t' = 0 /\ offset' = 0
    BY <1>4, Sizes, ActiveInRange DEF Request
  <2> QED BY <2>1, StripsEnd DEF First
<1>5. Converted' BY Sizes DEF Request, Converted, ConvertedFrom
<1>6. main' # "collect" BY DEF Request
<1> QED BY <1>1, <1>2, <1>3, <1>4, <1>5, <1>6 DEF DataInv

(* Apply of the next strip is called: nothing of it is converted yet.        *)
LEMMA CallStripData ==
  ASSUME NoWrap, ControlInv, DataInv, main = "launch",
         CallStrip(t, StripCount(t)), UNCHANGED <<dst, nPixels, nActive>>,
         main' \in {"launch", "own"},
         \A w \in Worker : Launched(w)' <=> Launched(w) \/ w = t
  PROVE  /\ job' \in [Worker -> Jobs] /\ at' \in [Worker -> Nat] /\ UNCHANGED buf
         /\ dst' = Image'
         /\ \A w \in Worker : Launched(w)' => StripInv(w)'
<1>1. ControlTypes /\ DataTypes /\ t \in Worker
  BY Sizes DEF ControlInv, ControlTypes, DataInv
<1>2. /\ nPixels \in Nat /\ nPixels <= MaxPixels /\ nActive \in Nat \ {0}
      /\ t \in 0 .. nActive - 1
  BY <1>1, Sizes DEF ControlTypes
<1>3. First(t) \in Nat /\ StripCount(t) \in Nat /\ First(t) + StripCount(t) <= nPixels
  BY <1>2, Strips
<1>4. \A k : First(k)' = First(k) /\ StripCount(k)' = StripCount(k) BY DEF First, StripCount
<1>5. /\ Times(offset, nSrcSamples) = First(t) * nSrcSamples
      /\ Times(offset, nDstSamples) = First(t) * nDstSamples
  BY <1>2, <1>3, Sizes, TimesIsProduct DEF DataInv
<1> DEFINE new == [src |-> First(t) * nSrcSamples, dst |-> First(t) * nDstSamples,
                   count |-> StripCount(t)]
<1>6. /\ job' = [job EXCEPT ![t] = new] /\ at' = [at EXCEPT ![t] = 0]
      /\ pc' = [pc EXCEPT ![t] = "called"] /\ UNCHANGED <<buf, status>>
  BY <1>5 DEF CallStrip, Call
<1>7. new \in Jobs
  <2>1. First(t) * nSrcSamples \in Nat /\ First(t) * nDstSamples \in Nat
    BY <1>3, Sizes, SMT
  <2> QED BY <1>3, <2>1 DEF Jobs
<1> HIDE DEF new
<1>8. job' \in [Worker -> Jobs] /\ at' \in [Worker -> Nat]
  BY <1>1, <1>6, <1>7 DEF DataTypes
<1>9. /\ job'[t] = new /\ at'[t] = 0 /\ pc'[t] = "called"
      /\ \A w \in Worker \ {t} :
           job'[w] = job[w] /\ at'[w] = at[w] /\ pc'[w] = pc[w] /\ buf'[w] = buf[w]
             /\ status'[w] = status[w]
  BY <1>1, <1>6 DEF ControlTypes, DataTypes
<1>10. ASSUME NEW w \in Worker, Launched(w)' PROVE StripInv(w)'
  <2>1. CASE w = t BY <1>3, <1>4, <1>9, <2>1 DEF StripInv, new
  <2>2. CASE w # t
    <3>1. StripInv(w) BY <1>10, <2>2 DEF DataInv
    <3>2. Chunk(w)' = Chunk(w) /\ Place(w)' = Place(w)
      BY <1>4, <1>9, <2>2 DEF Chunk, Place
    <3> QED BY <1>4, <1>9, <2>2, <3>1, <3>2 DEF StripInv
  <2> QED BY <2>1, <2>2
<1>11. ~Launched(t) BY <1>2 DEF Launched
<1>12. ASSUME NEW p PROVE Done(p)' <=> Done(p)
  <2>1. ASSUME NEW w \in Worker
        PROVE  (Launched(w) /\ p \in First(w) .. First(w) + at[w] - 1)'
                 <=> Launched(w) /\ p \in First(w) .. First(w) + at[w] - 1
    <3>1. CASE w = t
      <4>1. at'[w] = 0 /\ First(w)' = First(w) /\ First(w) \in Nat /\ ~Launched(w)
        BY <1>3, <1>4, <1>9, <1>11, <3>1
      <4> QED BY <4>1
    <3>2. CASE w # t
      <4>1. at'[w] = at[w] /\ First(w)' = First(w) /\ (Launched(w)' <=> Launched(w))
        BY <1>4, <1>9, <3>2
      <4> QED BY <4>1
    <3> QED BY <3>1, <3>2
  <2> QED BY <2>1 DEF Done
<1>13. dst' = Image'
  <2>1. dst = Image BY DEF DataInv
  <2> QED BY <1>12, <2>1 DEF Image
<1> QED BY <1>6, <1>8, <1>10, <1>13

LEMMA LaunchData ==
  ASSUME NoWrap, ControlInv, DataInv, Launch
  PROVE  DataInv'
<1>1. ControlTypes /\ DataTypes /\ t \in Worker
  BY Sizes DEF ControlInv, ControlTypes, DataInv
<1>2. /\ nPixels \in Nat /\ nPixels <= MaxPixels /\ nActive \in Nat \ {0}
      /\ t \in 0 .. nActive - 1 /\ t + 1 \in 0 .. nActive - 1
  BY <1>1, Sizes DEF ControlTypes, Launch
<1>3. \A w \in Worker : Launched(w)' <=> Launched(w) \/ w = t
  BY <1>1, Sizes DEF Launch, Launched, ControlTypes
<1>4. /\ job' \in [Worker -> Jobs] /\ at' \in [Worker -> Nat] /\ UNCHANGED buf
      /\ dst' = Image' /\ \A w \in Worker : Launched(w)' => StripInv(w)'
  BY <1>3, CallStripData DEF Launch
<1>5. offset' = First(t + 1) /\ First(t + 1) \in 0 .. MaxPixels
  BY <1>2, Strips, Sizes DEF Launch, DataInv
<1>6. offset' = First(t)' /\ main' = "launch" BY <1>5 DEF Launch, First
<1>7. DataTypes' BY <1>1, <1>4, <1>5 DEF DataTypes, Launch
<1>8. Converted' BY <1>6 DEF Converted
<1> QED BY <1>4, <1>6, <1>7, <1>8 DEF DataInv

LEMMA OwnStripData ==
  ASSUME NoWrap, ControlInv, DataInv, OwnStrip
  PROVE  DataInv'
<1>1. ControlTypes /\ DataTypes /\ t \in Worker
  BY Sizes DEF ControlInv, ControlTypes, DataInv
<1>2. nPixels \in Nat /\ nActive \in Nat \ {0} /\ t = nActive - 1 /\ t \in 0 .. nActive - 1
  BY <1>1, Sizes DEF ControlTypes, OwnStrip
<1>3. \A w \in Worker : Launched(w)' <=> Launched(w) \/ w = t
  BY <1>1, Sizes DEF OwnStrip, Launched, ControlTypes
<1>4. nPixels - offset = StripCount(t)
  <2>1. offset = First(t) BY DEF DataInv, OwnStrip
  <2>2. First(t) \in Nat /\ StripCount(t) \in Nat /\ First(t) + StripCount(t) = nPixels
    BY <1>2, Strips
  <2> QED BY <2>1, <2>2
<1>5. /\ job' \in [Worker -> Jobs] /\ at' \in [Worker -> Nat] /\ UNCHANGED buf
      /\ dst' = Image' /\ \A w \in Worker : Launched(w)' => StripInv(w)'
  BY <1>3, <1>4, CallStripData DEF OwnStrip
<1>6. DataTypes' BY <1>1, <1>5 DEF DataTypes, OwnStrip
<1> QED BY <1>5, <1>6 DEF DataInv, OwnStrip, Converted

LEMMA CallerData ==
  ASSUME NoWrap, ControlInv, DataInv,
         OwnStripDone \/ Collect \/ Return \/ LaunchThrows \/ Unwound
  PROVE  DataInv'
<1>1. ControlTypes /\ DataTypes /\ t \in Worker /\ i \in Worker
  BY Sizes DEF ControlInv, ControlTypes, DataInv
<1>2. /\ nPixels \in Nat /\ nPixels <= MaxPixels /\ nActive \in Nat \ {0}
      /\ t \in 0 .. nActive - 1 /\ i \in 0 .. nActive - 1
  BY <1>1, Sizes DEF ControlTypes
<1>3. /\ UNCHANGED <<dst, buf, job, at, pc, status, nPixels, nActive, t, offset>>
      /\ main # "idle"
  BY DEF OwnStripDone, Collect, Return, LaunchThrows, Unwound, applyVars
<1>4. /\ \A k : First(k)' = First(k) /\ StripCount(k)' = StripCount(k)
      /\ \A w \in Worker : Place(w)' = Place(w) /\ Chunk(w)' = Chunk(w)
  BY <1>3 DEF First, StripCount, Place, Chunk
<1>5. DataTypes' BY <1>1, <1>3 DEF DataTypes
<1>6. ASSUME NEW w \in Worker, StripInv(w) PROVE StripInv(w)'
  BY <1>3, <1>4, <1>6 DEF StripInv
(* While the same strips are launched, the same pixels are done.             *)
<1>7. ASSUME main' # "idle"
      PROVE  /\ \A w \in Worker : Launched(w)' <=> Launched(w)
             /\ dst' = Image' /\ \A w \in Worker : Launched(w)' => StripInv(w)'
             /\ \A p : Done(p)' <=> Done(p)
  <2>1. \A w \in Worker : Launched(w)' <=> Launched(w)
    BY <1>3, <1>7 DEF Launched, OwnStripDone, Collect, Return, LaunchThrows, Unwound
  <2>2. dst' = Image' BY <1>3, <1>4, <2>1, SameImage DEF DataInv
  <2>3. \A p : Done(p)' <=> Done(p) BY <1>3, <1>4, <2>1 DEF Done
  <2> QED BY <1>6, <2>1, <2>2, <2>3 DEF DataInv
(* A strip that ended well has come past all of its pixels.                  *)
<1>8. ASSUME NEW w \in Worker, Launched(w), pc[w] = "done", status[w] = "Ok",
             NEW p \in First(w) .. First(w) + StripCount(w) - 1
      PROVE  Done(p)
  <2>1. at[w] = StripCount(w) BY <1>8 DEF DataInv, StripInv
  <2> QED BY <1>8, <2>1 DEF Done
<1>9. CASE OwnStripDone
  <2>1. main' = "collect" /\ rv' = status[t] /\ i' = 0 /\ t = nActive - 1 /\ pc[t] = "done"
    BY <1>9 DEF OwnStripDone, ControlInv
  <2>2. Launched(t) BY <1>2, <1>9 DEF OwnStripDone, Launched
  <2>3. /\ First(0) = 0 /\ First(t) \in Nat /\ StripCount(t) \in Nat
        /\ First(t) + StripCount(t) = nPixels
    BY <1>2, <2>1, Strips
  <2>4. CollectedDone'
    <3> SUFFICES ASSUME rv' = "Ok", NEW p \in 0 .. nPixels - 1,
                        p < First(0) \/ First(t) <= p
                 PROVE  Done(p)
      BY <1>3, <1>4, <1>7, <2>1 DEF CollectedDone
    <3>1. p \in First(t) .. First(t) + StripCount(t) - 1 BY <1>2, <2>3
    <3> QED BY <1>1, <1>8, <2>1, <2>2, <3>1
  <2> QED BY <1>5, <1>7, <2>1, <2>4 DEF DataInv, Converted
<1>10. CASE Collect
  <2>1. /\ main = "collect" /\ main' = "collect" /\ i' = i + 1 /\ pc[i] = "done"
        /\ rv' = "Ok" => rv = "Ok" /\ status[i] = "Ok"
        /\ CollectedDone /\ t = nActive - 1 /\ i < nActive - 1
    BY <1>10 DEF Collect, ControlInv, DataInv
  <2>2. Launched(i) BY <1>2, <2>1 DEF Launched
  <2>3. First(i) \in Nat /\ StripCount(i) \in Nat /\ First(i + 1) = First(i) + StripCount(i)
    BY <1>2, Strips
  <2>4. CollectedDone'
    <3> SUFFICES ASSUME rv' = "Ok", NEW p \in 0 .. nPixels - 1,
                        p < First(i + 1) \/ First(t) <= p
                 PROVE  Done(p)
      BY <1>3, <1>4, <1>7, <2>1 DEF CollectedDone
    <3>1. CASE p < First(i) \/ First(t) <= p BY <2>1, <3>1 DEF CollectedDone
    <3>2. CASE ~(p < First(i)) /\ ~(First(t) <= p)
      <4>1. p \in First(i) .. First(i) + StripCount(i) - 1 BY <1>2, <2>3, <3>2
      <4> QED BY <1>1, <1>8, <2>1, <2>2, <4>1
    <3> QED BY <3>1, <3>2
  <2> QED BY <1>5, <1>7, <2>1, <2>4 DEF DataInv, Converted
<1>11. CASE Return
  <2>1. main = "collect" /\ main' = "idle" /\ rv' = rv /\ CollectedDone /\ t = i /\ dst = Image
    BY <1>2, <1>11 DEF Return, ControlInv, DataInv
  <2>2. ASSUME rv = "Ok" PROVE ConvertedFrom(0, nPixels)
    <3> SUFFICES ASSUME NEW k \in 0 .. nPixels - 1, NEW s \in 0 .. nDstSamples - 1
                 PROVE  dst[k * nDstSamples + s] = <<k * nSrcSamples, s>>
      BY <1>2 DEF ConvertedFrom
    <3>1. First(t) \in Nat BY <1>2, Strips
    <3>2. Done(k) BY <2>1, <2>2, <3>1 DEF CollectedDone
    <3>3. k \in 0 .. MaxPixels - 1 BY <1>2, Sizes
    <3>4. /\ k * nDstSamples + s \in DstAddr /\ Pixel(k * nDstSamples + s) = k
          /\ ((k * nDstSamples + s) % nDstSamples) = s
      BY <3>3, Addresses
    <3> QED BY <2>1, <3>2, <3>4, Zenon DEF Image
  <2>3. Converted' BY <1>3, <2>1, <2>2 DEF Converted, ConvertedFrom
  <2>4. \A w \in Worker : ~Launched(w)' BY <2>1 DEF Launched
  <2> QED BY <1>5, <2>1, <2>3, <2>4 DEF DataInv
<1>12. CASE LaunchThrows
  <2>1. main' = "unwind" BY <1>12 DEF LaunchThrows
  <2> QED BY <1>5, <1>7, <2>1 DEF DataInv, Converted
<1>13. CASE Unwound
  <2>1. main' = "idle" /\ rv' = "thrown" BY <1>13 DEF Unwound
  <2>2. \A w \in Worker : ~Launched(w)' BY <2>1 DEF Launched
  <2> QED BY <1>5, <2>1, <2>2 DEF DataInv, Converted
<1> QED BY <1>9, <1>10, <1>11, <1>12, <1>13

LEMMA NextData ==
  ASSUME NoWrap
  PROVE  ControlInv /\ DataInv /\ [Next]_vars => DataInv'
<1> SUFFICES ASSUME ControlInv, DataInv, [Next]_vars PROVE DataInv' OBVIOUS
<1>1. CASE UNCHANGED vars
  <2>1. /\ \A w \in Worker : Launched(w)' <=> Launched(w)
        /\ \A k : First(k)' = First(k) /\ StripCount(k)' = StripCount(k)
        /\ \A w \in Worker : Place(w)' = Place(w) /\ Chunk(w)' = Chunk(w)
    BY <1>1 DEF vars, Launched, First, StripCount, Place, Chunk
  <2>2. \A p : Done(p)' <=> Done(p) BY <1>1, <2>1 DEF vars, Done
  <2>3. Image' = Image BY <2>2 DEF Image
  <2>4. \A w \in Worker : StripInv(w) => StripInv(w)' BY <1>1, <2>1 DEF vars, StripInv
  <2>5. main = "collect" /\ CollectedDone => CollectedDone'
    BY <1>1, <2>1, <2>2 DEF vars, CollectedDone
  <2>6. offset' = First(t)' <=> offset = First(t) BY <1>1, <2>1 DEF vars
  <2> QED BY <1>1, <2>1, <2>3, <2>4, <2>5, <2>6
          DEF vars, DataInv, DataTypes, Converted, ConvertedFrom
<1>2. CASE \E n \in 0 .. MaxPixels : Request(n) BY <1>2, RequestData
<1>3. CASE Caller
  BY <1>3, LaunchData, OwnStripData, CallerData DEF Caller
<1>4. CASE \E w \in Worker : Strip(w)
  BY <1>4, QuietStripData, WriteChunkData
<1> QED BY <1>1, <1>2, <1>3, <1>4 DEF Next

-----------------------------------------------------------------------------
IInv == ControlInv /\ DataInv

LEMMA Invariant == NoWrap => (Spec => []IInv)
<1> SUFFICES ASSUME NoWrap PROVE Spec => []IInv OBVIOUS
<1>1. Init => IInv BY InitControl, InitData DEF IInv
<1>2. IInv /\ [Next]_vars => IInv' BY NextControl, NextData DEF IInv
<1> QED BY <1>1, <1>2, PTL DEF Spec

(* As long as no address wraps, every variable of the caller and of its      *)
(* strips keeps its type: buffers hold sources, chunks fit.                  *)
THEOREM TypeCorrect == NoWrap => (Spec => []TypeOK)
<1>1. IInv => TypeOK
  BY Sizes DEF IInv, ControlInv, ControlTypes, DataInv, DataTypes, TypeOK, ApplyTypeOK
<1> QED BY <1>1, Invariant, PTL

(* When Apply has returned Ok every pixel is converted, from its own source, *)
(* whatever the interleaving of the strips (IccCmmThread.cpp:155-205).       *)
THEOREM AllConverted == NoWrap => (Spec => []Converted)
<1>1. IInv => Converted BY DEF IInv, DataInv
<1> QED BY <1>1, Invariant, PTL

(* The strips are contiguous, in order, the whole of the buffer, and alike   *)
(* but for one pixel (IccCmmThread.cpp:170-187).                             *)
THEOREM StripsAlwaysBalanced == NoWrap => (Spec => []StripsBalanced)
<1>1. ASSUME IInv, main \in {"own", "collect"}, NEW w \in 0 .. nActive - 1
      PROVE  /\ w \in Worker /\ job[w].count = StripCount(w) /\ First(w) \in Nat
             /\ job[w].src = First(w) * nSrcSamples /\ job[w].dst = First(w) * nDstSamples
             /\ StripCount(w) \in Nat /\ First(w + 1) = First(w) + StripCount(w)
             /\ w = nActive - 1 => First(w) + StripCount(w) = nPixels
             /\ First(0) = 0
  <2>1. ControlTypes /\ t = nActive - 1 BY <1>1 DEF IInv, ControlInv
  <2>2. w \in Worker /\ Launched(w) /\ nPixels \in Nat /\ nActive \in Nat \ {0}
    BY <1>1, <2>1, Sizes DEF Launched, ControlTypes
  <2>3. StripInv(w) BY <1>1, <2>2 DEF IInv, DataInv
  <2> QED BY <2>2, <2>3, Strips DEF StripInv
<1>2. ASSUME ControlTypes, NEW v \in Worker, NEW w \in Worker
      PROVE  StripCount(v) <= StripCount(w) + 1
  <2>1. nPixels \in Nat /\ nActive \in Nat \ {0} BY <1>2, Sizes DEF ControlTypes
  <2>2. nPixels \div nActive \in Nat BY <2>1, Division
  <2> QED BY <2>2 DEF StripCount
<1>3. ASSUME IInv, main \in {"own", "collect"}
      PROVE  /\ \A v, w \in 0 .. nActive - 1 : job[v].count <= job[w].count + 1
             /\ job[0].src = 0 /\ job[0].dst = 0
             /\ \A w \in 0 .. nActive - 2 :
                  /\ job[w + 1].src = job[w].src + job[w].count * nSrcSamples
                  /\ job[w + 1].dst = job[w].dst + job[w].count * nDstSamples
             /\ job[nActive - 1].src + job[nActive - 1].count * nSrcSamples
                  = nPixels * nSrcSamples
  <2> DEFINE last == nActive - 1
  <2>1. ControlTypes BY <1>3 DEF IInv, ControlInv
  <2>2. nActive \in Nat \ {0} /\ nPixels \in Nat BY <2>1, Sizes DEF ControlTypes
  <2>3. \A m, n, k \in Nat : (m + n) * k = m * k + n * k /\ 0 * k = 0 BY SMT
  <2>4. \A v, w \in 0 .. nActive - 1 : job[v].count <= job[w].count + 1
    BY <1>1, <1>2, <1>3, <2>1
  <2>5. job[0].src = 0 /\ job[0].dst = 0
    <3>1. 0 \in 0 .. nActive - 1 BY <2>2
    <3>2. job[0].src = 0 * nSrcSamples /\ job[0].dst = 0 * nDstSamples
      BY <1>1, <1>3, <3>1
    <3> QED BY <2>3, <3>2, Sizes
  <2>6. ASSUME NEW w \in 0 .. nActive - 2
        PROVE  /\ job[w + 1].src = job[w].src + job[w].count * nSrcSamples
               /\ job[w + 1].dst = job[w].dst + job[w].count * nDstSamples
    <3>1. w \in 0 .. nActive - 1 /\ w + 1 \in 0 .. nActive - 1 BY <2>2
    <3>2. /\ job[w + 1].src = (First(w) + StripCount(w)) * nSrcSamples
          /\ job[w + 1].dst = (First(w) + StripCount(w)) * nDstSamples
          /\ job[w].src = First(w) * nSrcSamples /\ job[w].dst = First(w) * nDstSamples
          /\ job[w].count = StripCount(w) /\ First(w) \in Nat /\ StripCount(w) \in Nat
      BY <1>1, <1>3, <3>1
    <3> QED BY <2>3, <3>2, Sizes
  <2>7. job[last].src + job[last].count * nSrcSamples = nPixels * nSrcSamples
    <3>1. last \in 0 .. nActive - 1 BY <2>2
    <3>2. /\ job[last].src = First(last) * nSrcSamples /\ job[last].count = StripCount(last)
          /\ First(last) \in Nat /\ StripCount(last) \in Nat
          /\ First(last) + StripCount(last) = nPixels
      BY <1>1, <1>3, <3>1
    <3> QED BY <2>3, <3>2, Sizes
  <2> QED BY <2>4, <2>5, <2>6, <2>7
<1>4. IInv => StripsBalanced BY <1>3 DEF StripsBalanced
<1> QED BY <1>4, Invariant, PTL

(* Within a call no sample of the destination is written a second time: the  *)
(* strips, which run at the same time, write to places of their own.         *)
THEOREM NothingWrittenTwice == NoWrap => (Spec => WrittenOnce)
<1> SUFFICES ASSUME NoWrap PROVE Spec => WrittenOnce OBVIOUS
<1>1. ASSUME IInv, NEW w \in Worker, pc[w] = "compute",
             NEW k \in 0 .. Chunk(w) * nDstSamples - 1
      PROVE  dst[DstStart(w) + k] = Unwritten
  <2> DEFINE x == DstStart(w) + k
  <2>1. ControlInv /\ DataInv /\ Launched(w) /\ StripInv(w)
    BY <1>1 DEF IInv, ControlInv, DataInv, Running
  <2>2. at[w] < StripCount(w) BY <1>1, <2>1 DEF StripInv
  <2>3. /\ Place(w) \in Nat /\ Chunk(w) \in Nat /\ DstStart(w) = Place(w) * nDstSamples
        /\ Place(w) + Chunk(w) <= First(w) + StripCount(w)
        /\ First(w) + StripCount(w) <= nPixels /\ First(w) \in Nat /\ StripCount(w) \in Nat
        /\ main # "idle"
    BY <2>1, <2>2, StripFacts, Sizes
  <2>4. Place(w) * nDstSamples \in Nat /\ Chunk(w) * nDstSamples \in Nat
    BY <2>3, Sizes, SMT
  <2>5. /\ x \in Nat
        /\ x \in Place(w) * nDstSamples .. Place(w) * nDstSamples + Chunk(w) * nDstSamples - 1
    BY <2>3, <2>4
  <2> HIDE DEF x
  <2>6. Pixel(x) \in Place(w) .. Place(w) + Chunk(w) - 1
    BY <2>3, <2>5, Sizes, SamplesOfPixels DEF Pixel
  <2>7. ~Done(Pixel(x))
    <3>1. Pixel(x) \in Place(w) .. First(w) + StripCount(w) - 1 BY <2>3, <2>6
    <3> QED BY <2>1, <3>1, NotYetDone
  <2>8. x \in DstAddr
    <3>3. nPixels \in 0 .. MaxPixels BY <2>1 DEF ControlInv, ControlTypes
    <3>4. Pixel(x) \in Nat /\ Pixel(x) < Place(w) + Chunk(w) BY <2>3, <2>6
    <3>5. Pixel(x) < nPixels
      <4> HIDE DEF Place
      <4> QED BY <2>3, <3>3, <3>4
    <3>1. Pixel(x) \in 0 .. MaxPixels - 1 BY <3>3, <3>4, <3>5, Sizes
    <3>2. x = Pixel(x) * nDstSamples + (x % nDstSamples) /\ (x % nDstSamples) \in 0 .. nDstSamples - 1
      BY <2>5, Sizes, Division DEF Pixel
    <3> QED BY <3>1, <3>2, Addresses
  <2>9. dst = Image BY <2>1, <2>3 DEF DataInv
  <2> QED BY <2>7, <2>8, <2>9 DEF Image, x
<1>2. IInv /\ [Next]_vars =>
        [\A w \in Worker :
           pc[w] = "compute" /\ pc'[w] # "compute" =>
             \A k \in 0 .. Chunk(w) * nDstSamples - 1 : dst[DstStart(w) + k] = Unwritten]_vars
  BY <1>1
<1> QED BY <1>2, Invariant, PTL DEF Spec, WrittenOnce
=============================================================================
