------------------------------ MODULE CmmApply ------------------------------
(***************************************************************************)
(* CIccApplyCmm::Apply for many pixels (IccProfLib/IccCmm.cpp), on the      *)
(* apply objects of several threads at once: each takes a run of pixels in  *)
(* chunks, reads a chunk of the source into its scratch buffers through all  *)
(* transforms but the last, and writes the chunk of the destination through  *)
(* the last one.  With a single transform, and in CIccApplyMruCmm, a chunk   *)
(* is one pixel.                                                            *)
(*                                                                         *)
(* What the transforms compute is left out: the pixel read at address a of   *)
(* the source is a, and its s-th destination sample is <<a, s>>.  Addresses  *)
(* count samples.  Offsets are products of 32-bit unsigned numbers: modulo   *)
(* Word.  Source and destination are different buffers.  A CMM without       *)
(* transforms, which answers icCmmStatBadXform at once, is left out.         *)
(***************************************************************************)
EXTENDS Naturals, Sequences

CONSTANTS
  nThreads,       \* number of apply objects, one for each thread
  MaxPixels,      \* pixels of the client's buffers
  nSrcSamples, nDstSamples,   \* samples of a pixel
  ChunkSize,      \* kCmmChunkPixels; 1 where pixels are converted one by one
  Word,           \* 2^32: values of an icUInt32Number
  SharedScratch,  \* whether the objects convert through one object's buffers:
                  \* CIccApplyMruCmm calls m_pCachedCmm->Apply, hence the one
                  \* m_pApply of the wrapped CMM
  AllocOutcomes,  \* what a failing InitPixel may leave behind: "none", "some"
  Unwritten

ASSUME SizeAssumption ==
  /\ nThreads \in Nat \ {0} /\ MaxPixels \in Nat
  /\ nSrcSamples \in Nat \ {0} /\ nDstSamples \in Nat \ {0}
  /\ ChunkSize \in Nat \ {0} /\ Word \in Nat \ {0}
ASSUME SwitchAssumption ==
  /\ SharedScratch \in BOOLEAN
  /\ AllocOutcomes \subseteq {"none", "some"}

Worker  == 0 .. nThreads - 1
SrcAddr == 0 .. MaxPixels * nSrcSamples - 1
DstAddr == 0 .. MaxPixels * nDstSamples - 1
Written == {<<a, s>> : a \in SrcAddr, s \in 0 .. nDstSamples - 1}

VARIABLES
  dst,      \* destination samples
  scratch,  \* buffers InitPixel allocated: "none", "some", or "all" of them
  buf,      \* m_ChunkBuf, or m_Pixel: the pixels of the chunk at hand
  job,      \* arguments of the current or latest Apply of each object
  at,       \* local offset of that call
  pc,       \* "idle", "called", "chunk", "compute", "done" or "fault"
  status    \* what the call returned

applyVars == <<dst, scratch, buf, job, at, pc, status>>

Jobs == [src : Nat, dst : Nat, count : Nat]

ApplyTypeOK ==
  /\ dst \in [DstAddr -> Written \cup {Unwritten}]
  /\ scratch \in [Worker -> {"none", "some", "all"}]
  /\ buf \in [Worker -> Seq(SrcAddr)]
  /\ \A w \in Worker : Len(buf[w]) <= ChunkSize
  /\ job \in [Worker -> Jobs]
  /\ at \in [Worker -> Nat]
  /\ pc \in [Worker -> {"idle", "called", "chunk", "compute", "done", "fault"}]
  /\ status \in [Worker -> {"Ok", "AllocErr"}]

Times(m, n) == (m * n) % Word

(* The object whose buffers object w uses. *)
Scratch(w) == IF SharedScratch THEN 0 ELSE w

ApplyInit ==
  /\ dst = [x \in DstAddr |-> Unwritten]
  /\ scratch = [w \in Worker |-> "none"]
  /\ buf = [w \in Worker |-> <<>>]
  /\ job = [w \in Worker |-> [src |-> 0, dst |-> 0, count |-> 0]]
  /\ at = [w \in Worker |-> 0]
  /\ pc = [w \in Worker |-> "idle"]
  /\ status = [w \in Worker |-> "Ok"]

Running(w) == pc[w] \in {"called", "chunk", "compute", "fault"}

(* A thread is about to call Apply of object w for n pixels. *)
Call(w, s, d, n) ==
  /\ ~Running(w)
  /\ job' = [job EXCEPT ![w] = [src |-> s, dst |-> d, count |-> n]]
  /\ at' = [at EXCEPT ![w] = 0]
  /\ pc' = [pc EXCEPT ![w] = "called"]
  /\ UNCHANGED <<scratch, buf, status>>

(* if (!m_Pixel && !InitPixel()): only a missing first buffer is noticed. *)
Enter(w) ==
  /\ pc[w] = "called"
  /\ pc' = [pc EXCEPT ![w] = "chunk"]
  /\ scratch' = [scratch EXCEPT ![Scratch(w)] = IF @ = "none" THEN "all" ELSE @]
  /\ UNCHANGED <<dst, buf, job, at, status>>

AllocFails(w) ==
  /\ pc[w] = "called"
  /\ scratch[Scratch(w)] = "none"
  /\ \E left \in AllocOutcomes : scratch' = [scratch EXCEPT ![Scratch(w)] = left]
  /\ pc' = [pc EXCEPT ![w] = "done"]
  /\ status' = [status EXCEPT ![w] = "AllocErr"]
  /\ UNCHANGED <<dst, buf, job, at>>

Chunk(w) == IF job[w].count - at[w] > ChunkSize THEN ChunkSize ELSE job[w].count - at[w]

SrcStartInDstSamples(w) == job[w].src + Times(at[w], nDstSamples)

SrcStart(w) == job[w].src + Times(at[w], nSrcSamples)
DstStart(w) == job[w].dst + Times(at[w], nDstSamples)

(* The next chunk goes through all transforms but the last. *)
ReadChunk(w) ==
  /\ pc[w] = "chunk" /\ at[w] < job[w].count
  /\ scratch[Scratch(w)] = "all"
  /\ buf' = [buf EXCEPT ![Scratch(w)] =
               [k \in 1 .. Chunk(w) |-> SrcStart(w) + (k - 1) * nSrcSamples]]
  /\ pc' = [pc EXCEPT ![w] = "compute"]
  /\ UNCHANGED <<dst, scratch, job, at, status>>

(* A buffer an earlier InitPixel could not allocate is a null pointer.  (With a *)
(* single transform the chunk buffers are not used: a run with ChunkSize 1 for  *)
(* that reason loses no buffer.)                                                *)
UseMissingBuffer(w) ==
  /\ pc[w] = "chunk" /\ at[w] < job[w].count
  /\ scratch[Scratch(w)] # "all"
  /\ pc' = [pc EXCEPT ![w] = "fault"]
  /\ UNCHANGED <<dst, scratch, buf, job, at, status>>

WriteChunkAgain(w) ==
  /\ pc[w] = "compute"
  /\ dst' = [x \in DstAddr |->
               IF x \in DstStart(w) .. DstStart(w) + Chunk(w) * nDstSamples - 1
               THEN <<buf[Scratch(w)][(x - DstStart(w)) \div nDstSamples + 1],
                      (x - DstStart(w)) % nDstSamples>>
               ELSE dst[x]]
  /\ pc' = [pc EXCEPT ![w] = "chunk"]
  /\ UNCHANGED <<scratch, buf, job, at, status>>

(* The last transform writes the chunk, and the loop goes on behind it. *)
WriteChunk(w) ==
  /\ pc[w] = "compute"
  /\ dst' = [x \in DstAddr |->
               IF x \in DstStart(w) .. DstStart(w) + Chunk(w) * nDstSamples - 1
               THEN <<buf[Scratch(w)][(x - DstStart(w)) \div nDstSamples + 1],
                      (x - DstStart(w)) % nDstSamples>>
               ELSE dst[x]]
  /\ at' = [at EXCEPT ![w] = at[w] + Chunk(w)]
  /\ pc' = [pc EXCEPT ![w] = "chunk"]
  /\ UNCHANGED <<scratch, buf, job, status>>

Finish(w) ==
  /\ pc[w] = "chunk" /\ at[w] >= job[w].count
  /\ pc' = [pc EXCEPT ![w] = "done"]
  /\ status' = [status EXCEPT ![w] = "Ok"]
  /\ UNCHANGED <<dst, scratch, buf, job, at>>

Work(w) ==
  \/ Enter(w) \/ AllocFails(w)
  \/ ReadChunk(w) \/ UseMissingBuffer(w) \/ WriteChunk(w) \/ Finish(w)

-----------------------------------------------------------------------------
(* A client that runs one apply object on each of its threads ("Multiple       *)
(* CIccApplyCmm objects can be allocated and used in separate threads", above  *)
(* GetNewApplyCmm), each on its own share of the pixels, and one call each.    *)

Share == MaxPixels \div nThreads

ClientCalls(w) ==
  /\ pc[w] = "idle"
  /\ Call(w, w * Share * nSrcSamples, w * Share * nDstSamples, Share)
  /\ UNCHANGED dst

ClientsDone == (\A w \in Worker : pc[w] = "done") /\ UNCHANGED applyVars

ClientNext == (\E w \in Worker : ClientCalls(w) \/ Work(w)) \/ ClientsDone

ClientSpec == ApplyInit /\ [][ClientNext]_applyVars

(* The pixels of the first, ..., last sample address of a run are converted. *)
ConvertedFrom(first, n) ==
  \A k \in first .. first + n - 1, s \in 0 .. nDstSamples - 1 :
    dst[k * nDstSamples + s] = <<k * nSrcSamples, s>>

(* GetNewApplyCmm, IccCmm.cpp: objects used in separate threads do not disturb *)
(* each other.  When a thread's Apply has returned Ok, its share of the        *)
(* destination is its share of the source, whatever the others are doing.      *)
ClientsConvert ==
  \A w \in Worker :
    pc[w] = "done" /\ status[w] = "Ok" => ConvertedFrom(w * Share, Share)
=============================================================================
