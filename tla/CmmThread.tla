------------------------------ MODULE CmmThread ------------------------------
(***************************************************************************)
(* CIccApplyThreadedCmm (IccProfLib/IccCmmThread.cpp): Apply for many        *)
(* pixels splits the pixels into strips, runs all strips but the last on     *)
(* threads of their own and the last one itself, and collects what they      *)
(* return.  The strips' own work is CmmApply.  Starting a thread may throw:  *)
(* the futures already made then wait in their destructors and the exception *)
(* leaves Apply.  A client calls Apply again and again on the same object.   *)
(***************************************************************************)
EXTENDS CmmApply

CONSTANT SpawnFails   \* whether std::async may throw

ASSUME SpawnAssumption == SpawnFails \in BOOLEAN

VARIABLES
  main,      \* where the caller is: "idle", "launch", "own", "collect", "unwind"
  nPixels,   \* argument of the current or latest call
  nActive, t, offset, i,   \* locals of Apply
  rv         \* status to return, or "none" while there is none, or "thrown"

mainVars == <<main, nPixels, nActive, t, offset, i, rv>>
vars == <<dst, scratch, buf, job, at, pc, status,
          main, nPixels, nActive, t, offset, i, rv>>

TypeOK ==
  /\ ApplyTypeOK
  /\ main \in {"idle", "launch", "own", "collect", "unwind"}
  /\ nPixels \in 0 .. MaxPixels
  /\ nActive \in 1 .. nThreads
  /\ t \in Worker /\ i \in Worker
  /\ offset \in 0 .. MaxPixels
  /\ rv \in {"none", "Ok", "AllocErr", "thrown"}

Init ==
  /\ ApplyInit
  /\ main = "idle" /\ nPixels = 0 /\ nActive = 1
  /\ t = 0 /\ offset = 0 /\ i = 0 /\ rv = "Ok"

(* min((int)nPixels, m_nThreads), and one worker when the cast is negative. *)
Active(n) ==
  IF n >= Word \div 2 THEN 1 ELSE IF n < nThreads THEN n ELSE nThreads

(* The client calls Apply with fresh buffers. *)
Request(n) ==
  /\ main = "idle"
  /\ nPixels' = n
  /\ dst' = [x \in DstAddr |-> Unwritten]
  /\ t' = 0 /\ offset' = 0 /\ i' = 0
  /\ IF n = 0 THEN main' = "idle" /\ rv' = "Ok" /\ UNCHANGED nActive
     ELSE main' = "launch" /\ rv' = "none" /\ nActive' = Active(n)
  /\ UNCHANGED <<scratch, buf, job, at, pc, status>>

StripCountUpToExtra(k) ==
  nPixels \div nActive + IF k <= nPixels % nActive THEN 1 ELSE 0

(* The first nPixels % nActive strips get one more pixel. *)
StripCount(k) ==
  nPixels \div nActive + IF k < nPixels % nActive THEN 1 ELSE 0

CallStrip(k, n) == Call(k, Times(offset, nSrcSamples), Times(offset, nDstSamples), n)

LaunchShort ==
  /\ main = "launch" /\ t < nActive - 1
  /\ CallStrip(t, StripCount(t))
  /\ t' = t + 1
  /\ offset' = offset + nPixels \div nActive
  /\ UNCHANGED <<dst, main, nPixels, nActive, i, rv>>

Launch ==
  /\ main = "launch" /\ t < nActive - 1
  /\ CallStrip(t, StripCount(t))
  /\ t' = t + 1
  /\ offset' = offset + StripCount(t)
  /\ UNCHANGED <<dst, main, nPixels, nActive, i, rv>>

(* The caller's own strip, all of the pixels when there is one strip only. *)
OwnStrip ==
  /\ main = "launch" /\ t = nActive - 1
  /\ CallStrip(t, nPixels - offset)
  /\ main' = "own"
  /\ UNCHANGED <<dst, nPixels, nActive, t, offset, i, rv>>

OwnStripDone ==
  /\ main = "own" /\ pc[t] = "done"
  /\ main' = "collect"
  /\ rv' = status[t]
  /\ UNCHANGED <<applyVars, nPixels, nActive, t, offset, i>>

CollectLatest ==
  /\ main = "collect" /\ i < nActive - 1 /\ pc[i] = "done"
  /\ i' = i + 1
  /\ rv' = status[i]
  /\ UNCHANGED <<applyVars, main, nPixels, nActive, t, offset>>

(* f.get() waits for the strip; the first status other than Ok is kept. *)
Collect ==
  /\ main = "collect" /\ i < nActive - 1 /\ pc[i] = "done"
  /\ i' = i + 1
  /\ rv' = IF rv = "Ok" THEN status[i] ELSE rv
  /\ UNCHANGED <<applyVars, main, nPixels, nActive, t, offset>>

Return ==
  /\ main = "collect" /\ i = nActive - 1
  /\ main' = "idle"
  /\ UNCHANGED <<applyVars, nPixels, nActive, t, offset, i, rv>>

LaunchThrows ==
  /\ SpawnFails
  /\ main = "launch" /\ t < nActive - 1
  /\ main' = "unwind"
  /\ UNCHANGED <<applyVars, nPixels, nActive, t, offset, i, rv>>

LeaveAtOnce ==
  /\ main = "unwind"
  /\ main' = "idle"
  /\ rv' = "thrown"
  /\ UNCHANGED <<applyVars, nPixels, nActive, t, offset, i>>

(* The destructors of the futures wait for the strips that were started. *)
Unwound ==
  /\ main = "unwind" /\ \A w \in Worker : w < t => pc[w] = "done"
  /\ main' = "idle"
  /\ rv' = "thrown"
  /\ UNCHANGED <<applyVars, nPixels, nActive, t, offset, i>>

Caller == Launch \/ OwnStrip \/ OwnStripDone \/ Collect \/ Return \/ LaunchThrows \/ Unwound

Strip(w) == Work(w) /\ UNCHANGED mainVars

Next == (\E n \in 0 .. MaxPixels : Request(n)) \/ Caller \/ \E w \in Worker : Strip(w)

(* Every thread that can run is scheduled; the client need not call. *)
Spec ==
  /\ Init /\ [][Next]_vars
  /\ WF_vars(Caller)
  /\ \A w \in Worker : WF_vars(Strip(w))

-----------------------------------------------------------------------------
(* When Apply has returned Ok, each destination pixel is the transform of its  *)
(* own source pixel: no strip reads or writes from a wrong place, and none is  *)
(* still to be written.                                                        *)
Converted == main = "idle" /\ rv = "Ok" => ConvertedFrom(0, nPixels)

(* "Collects results and returns the first non-OK status, if any"              *)
(* (docs/icc-cmm-threading.md): the call is Ok exactly when every strip was.    *)
StatusHonest ==
  main = "idle" /\ nPixels > 0 /\ rv # "thrown" =>
    (rv = "Ok" <=> \A w \in Worker : w < nActive => status[w] = "Ok")

(* "Strips differ in size by at most one pixel" (above Apply), and they are     *)
(* contiguous, in order, and the whole of the buffer.                           *)
StripsBalanced ==
  main \in {"own", "collect"} =>
    /\ \A v, w \in 0 .. nActive - 1 : job[v].count <= job[w].count + 1
    /\ job[0].src = 0 /\ job[0].dst = 0
    /\ \A w \in 0 .. nActive - 2 :
         /\ job[w + 1].src = job[w].src + job[w].count * nSrcSamples
         /\ job[w + 1].dst = job[w].dst + job[w].count * nDstSamples
    /\ job[nActive - 1].src + job[nActive - 1].count * nSrcSamples = nPixels * nSrcSamples

(* No strip works on after Apply has returned or thrown, when the client may    *)
(* free its buffers or delete the apply object.                                 *)
NoStrayStrip == main = "idle" => \A w \in Worker : ~Running(w)

(* Within a call no destination sample is written a second time: strips and     *)
(* chunks never overlap.                                                         *)
WrittenOnce ==
  [][\A w \in Worker :
       pc[w] = "compute" /\ pc'[w] # "compute" =>
         \A k \in 0 .. Chunk(w) * nDstSamples - 1 : dst[DstStart(w) + k] = Unwritten]_vars

(* Every call ends: it returns, or the exception leaves it, unless a strip       *)
(* stopped the program by using a buffer that an earlier, failed InitPixel did   *)
(* not allocate (CIccApplyCmm::Apply tests the first buffer only).               *)
ApplyEnds == main # "idle" ~> (main = "idle" \/ \E w \in Worker : pc[w] = "fault")
=============================================================================
