-------------------------- MODULE CalcElement_proofs --------------------------
(***************************************************************************)
(* The interpreter of calculator functions stays inside the function and the *)
(* pixel's buffers for every function, well formed or not, that Begin        *)
(* accepts.  Nothing is assumed of the sizes in the operators: each call is  *)
(* held inside its caller's part by the checks ApplySequence makes itself.   *)
(* A function the static check counts exactly never fails and ends with a    *)
(* depth the check foresaw; one SequenceNeedTempReset follows never reads    *)
(* a temporary channel another pixel wrote.  The recursive analyses are      *)
(* shown to exist and to equal their step, then every call at work is        *)
(* related to the value the analysis has where it goes on.                   *)
(***************************************************************************)
EXTENDS CalcElement, FiniteSetTheorems, SequenceTheorems, WellFoundedInduction, TLAPS

(* Counts of arguments are natural numbers. *)
LEMMA CountsNat ==
  ASSUME NEW o \in Op
  PROVE  /\ Takes(o) \in Nat /\ Gives(o) \in Nat
         /\ ExecTakes(o) \in Nat /\ ExecGives(o) \in Nat
<1>1. o.a \in Nat /\ o.b \in Nat
  BY DEF Op
<1>2. Times(o) \in Nat
  <2>1. \A x, y \in Nat : x * y \in Nat
    OBVIOUS
  <2> QED  BY <1>1, <2>1 DEF Times
<1>3. HasElem(o) => Elem[o.a + 1].in \in Nat /\ Elem[o.a + 1].out \in Nat
  <2> SUFFICES ASSUME HasElem(o) PROVE Elem[o.a + 1] \in [in : Nat, out : Nat]
    OBVIOUS
  <2> DEFINE E == [in : Nat, out : Nat]
  <2>1. Elem \in Seq(E)
    BY ElemAssumption
  <2>2. o.a + 1 \in 1 .. Len(Elem)
    BY <1>1, <2>1, LenProperties DEF HasElem
  <2> HIDE DEF E
  <2>3. Elem[o.a + 1] \in E
    BY <2>1, <2>2, ElementOfSeq
  <2> QED  BY <2>3 DEF E
<1>4. (o.a + 1) * (o.b + 2) \in Nat
  <2>1. \A x, y \in Nat : x * y \in Nat
    OBVIOUS
  <2>2. o.a + 1 \in Nat /\ o.b + 2 \in Nat
    BY <1>1
  <2> QED  BY <2>1, <2>2
<1>5. Takes(o) \in Nat
  BY <1>1, <1>2, <1>3 DEF Takes
<1>6. Gives(o) \in Nat
  BY <1>1, <1>2, <1>3, <1>4 DEF Gives
<1> QED  BY <1>1, <1>2, <1>5, <1>6 DEF ExecTakes, ExecGives

(* A number that an int holds is what the int is. *)
LEMMA IntIs == ASSUME NEW n \in Nat, n < Word \div 2 PROVE AsInt(n) = n
<1>1. Word \in Nat /\ Word \div 2 \in Nat /\ Word \div 2 <= Word BY WordAssumption
<1>2. n < Word BY <1>1
<1>3. n % Word = n BY <1>1, <1>2
<1> QED BY <1>3 DEF AsInt

(* So only a size that is no int passes for one that fits. *)
LEMMA PassesWraps ==
  ASSUME NEW o \in Op, NEW d \in Nat, Executes(o, d), ExecTakes(o) > d
  PROVE  Wraps(o)
<1>1. ExecTakes(o) \in Nat /\ Word \div 2 \in Nat BY CountsNat, WordAssumption
<1>2. ExecSize(o) <= d BY DEF Executes
<1>3. o.sig \in {"tran", "solv"} BY <1>1, <1>2 DEF ExecSize
<1>4. ASSUME ExecTakes(o) < Word \div 2 PROVE FALSE
  <2>1. AsInt(ExecTakes(o)) = ExecTakes(o) BY <1>1, <1>4, IntIs
  <2> QED BY <1>1, <1>2, <1>3, <2>1 DEF ExecSize
<1> QED BY <1>1, <1>3, <1>4 DEF Wraps

(* What else must hold for InBounds to be inductive: a function that runs    *)
(* was accepted, there is a part at work while none has returned, and a      *)
(* caller stands at the operator that called.                                *)
IInv ==
  /\ prog \in Seq(Op)
  /\ phase \in {"new", "refused", "ready", "running", "lost"}
  /\ ret \in {"none", "true", "false", "thrown"}
  /\ phase = "lost" => \E j \in DOMAIN prog : Wraps(prog[j])
  /\ phase \in {"ready", "running"} => Accepts(prog)
  /\ depth \in Nat
  /\ Framed(frames)
  /\ phase = "running" /\ ret = "none" => frames # <<>>
  /\ phase = "running" /\ ret # "none" /\ frames # <<>> => Top.pc < Top.n
  /\ phase # "running" => frames = <<>>

-----------------------------------------------------------------------------
(* The operator at hand is one of the function. *)
LEMMA Op0Type ==
  ASSUME prog \in Seq(Op), Framed(frames), frames # <<>>, Top.pc < Top.n
  PROVE  Top \in Frame /\ Op0 \in Op /\ Top.base + Top.pc + 1 \in DOMAIN prog
<1>1. Len(frames) \in 1 .. Len(frames)
  BY EmptySeq, LenProperties DEF Framed
<1>2. Top \in Frame /\ Inside(Top, [base |-> 0, n |-> Len(prog)])
  BY <1>1 DEF Framed, Top
<1>3. Top.base + Top.pc + 1 \in 1 .. Len(prog)
  BY <1>2 DEF Inside, Frame
<1> QED  BY <1>2, <1>3 DEF Op0, At

(* An operator further on in the same part. *)
LEMMA NextType ==
  ASSUME prog \in Seq(Op), Framed(frames), frames # <<>>, Is(1) = "else", Top.pc < Top.n
  PROVE  ElseSize \in Nat
<1>1. Len(frames) \in 1 .. Len(frames)
  BY EmptySeq, LenProperties DEF Framed
<1>2. Top \in Frame /\ Inside(Top, [base |-> 0, n |-> Len(prog)])
  BY <1>1 DEF Framed, Top
<1>3. Top.pc + 1 < Top.n
  BY <1>2 DEF Is, SigAt
<1>4. Top.base + (Top.pc + 1) + 1 \in 1 .. Len(prog)
  BY <1>2, <1>3 DEF Inside, Frame
<1>5. prog[Top.base + (Top.pc + 1) + 1] \in Op
  BY <1>4, ElementOfSeq
<1> QED  BY <1>5 DEF ElseSize, At, Op

LEMMA NextIndex ==
  ASSUME prog \in Seq(Op), Framed(frames), frames # <<>>, Top.pc < Top.n
  PROVE  AfterIf \in Nat
<1>1. Top.pc \in Nat /\ Op0.a \in Nat
  BY Op0Type DEF Frame, Op
<1>2. Is(1) = "else" => ElseSize \in Nat
  BY NextType
<1> QED  BY <1>1, <1>2 DEF AfterIf

(* Moving on in a part leaves the parts where they are. *)
LEMMA MoveKeeps ==
  ASSUME Framed(frames), frames # <<>>, NEW x \in Nat, MoveTo(x), prog' = prog
  PROVE  Framed(frames)' /\ frames' # <<>>
<1> DEFINE L == Len(frames)
<1>1. frames \in Seq(Frame) /\ L \in 1 .. L /\ L \in Nat
  BY EmptySeq, LenProperties DEF Framed
<1>2. frames[L] \in Frame
  BY <1>1
<1>3. [frames[L] EXCEPT !.pc = x] \in Frame
  BY <1>2 DEF Frame
<1>4. frames' = [frames EXCEPT ![L] = [frames[L] EXCEPT !.pc = x]]
  BY DEF MoveTo
<1>5. frames' \in Seq(Frame) /\ Len(frames') = L
  BY <1>1, <1>3, <1>4
<1>6. \A k \in 1 .. L : /\ frames'[k].base = frames[k].base
                        /\ frames'[k].n = frames[k].n
                        /\ k < L => frames'[k].pc = frames[k].pc
  <2> SUFFICES ASSUME NEW k \in 1 .. L
               PROVE  /\ frames'[k].base = frames[k].base
                      /\ frames'[k].n = frames[k].n
                      /\ k < L => frames'[k].pc = frames[k].pc
    OBVIOUS
  <2>1. CASE k = L
    <3>1. frames'[k] = [frames[L] EXCEPT !.pc = x]
      BY <1>1, <1>4, <2>1
    <3> QED  BY <1>2, <2>1, <3>1 DEF Frame
  <2>2. CASE k # L
    BY <1>1, <1>4, <2>2
  <2> QED  BY <2>1, <2>2
<1>7. \A k \in 1 .. L : Inside(frames'[k], [base |-> 0, n |-> Len(prog)])
  BY <1>6 DEF Framed, Inside
<1>8. \A k \in 1 .. L : k > 1 => Inside(frames'[k], frames'[k - 1])
  <2> SUFFICES ASSUME NEW k \in 1 .. L, k > 1 PROVE Inside(frames'[k], frames'[k - 1])
    OBVIOUS
  <2>1. k - 1 \in 1 .. L
    BY <1>1
  <2>2. Inside(frames[k], frames[k - 1])
    BY DEF Framed
  <2> QED  BY <1>6, <2>1, <2>2 DEF Inside
<1>9. \A k \in 1 .. L : k < L => frames'[k].pc < frames'[k].n
  BY <1>6 DEF Framed
<1>10. frames' # <<>>
  BY <1>1, <1>5
<1> QED  BY <1>5, <1>7, <1>8, <1>9, <1>10 DEF Framed

(* When a call returns, its caller is the innermost again.                   *)
LEMMA ReturnKeeps ==
  ASSUME Framed(frames), frames # <<>>, NEW r, Returns(r), prog' = prog
  PROVE  Framed(frames)' /\ (frames' # <<>> => Top'.pc < Top'.n)
<1> DEFINE L == Len(frames)
<1>1. frames \in Seq(Frame) /\ L \in 1 .. L /\ L \in Nat
  BY EmptySeq, LenProperties DEF Framed
<1>2. frames' = SubSeq(frames, 1, L - 1)
  BY DEF Returns
<1>3. /\ frames' \in Seq(Frame)
      /\ Len(frames') = L - 1
      /\ \A k \in 1 .. L - 1 : frames'[k] = frames[k]
  <2>1. \A i \in 1 .. L - 1 : frames[i] \in Frame
    BY <1>1
  <2> DEFINE T == SubSeq(frames, 1, L - 1)
  <2>2. /\ T \in Seq(Frame)
        /\ Len(T) = IF 1 <= L - 1 THEN L - 1 - 1 + 1 ELSE 0
        /\ \A k \in 1 .. L - 1 - 1 + 1 : T[k] = frames[1 + k - 1]
    BY <1>1, <2>1, SubSeqProperties
  <2>3. frames' = T
    BY <1>2
  <2> HIDE DEF T
  <2>4. Len(T) = L - 1
    <3>1. CASE 1 <= L - 1
      BY <1>1, <2>2, <3>1
    <3>2. CASE ~(1 <= L - 1)
      <4>1. \A x \in Nat : x \in 1 .. x /\ ~(1 <= x - 1) => x = 1
        OBVIOUS
      <4>2. L = 1
        BY <1>1, <3>2, <4>1
      <4> QED  BY <2>2, <3>2, <4>2
    <3> QED  BY <3>1, <3>2
  <2>5. \A k \in 1 .. L - 1 : T[k] = frames[k]
    BY <1>1, <2>2
  <2> QED  BY <2>2, <2>3, <2>4, <2>5
<1>4. \A k \in 1 .. L - 1 :
        /\ Inside(frames'[k], [base |-> 0, n |-> Len(prog)])
        /\ k > 1 => Inside(frames'[k], frames'[k - 1])
        /\ frames'[k].pc < frames'[k].n
  <2> SUFFICES ASSUME NEW k \in 1 .. L - 1
               PROVE  /\ Inside(frames'[k], [base |-> 0, n |-> Len(prog)])
                      /\ k > 1 => Inside(frames'[k], frames'[k - 1])
                      /\ frames'[k].pc < frames'[k].n
    OBVIOUS
  <2>1. k \in 1 .. L /\ k < L /\ (k > 1 => k - 1 \in 1 .. L - 1)
    BY <1>1
  <2> QED  BY <1>3, <2>1 DEF Framed
<1>5. L - 1 <= MaxDepth + 1
  BY <1>1, DepthAssumption DEF Framed
<1>6. Framed(frames)'
  BY <1>3, <1>4, <1>5 DEF Framed
<1>7. frames' # <<>> => Len(frames') \in 1 .. L - 1
  BY <1>1, <1>3, EmptySeq
<1> QED  BY <1>3, <1>4, <1>6, <1>7 DEF Top

(* A branch lies inside the part that holds it. *)
LEMMA CallKeeps ==
  ASSUME prog \in Seq(Op), Framed(frames), frames # <<>>, Top.pc < Top.n, ret = "none",
         NEW start, NEW count, Call(start, count), prog' = prog
  PROVE  /\ Framed(frames)'
         /\ ret' \in {"none", "false"}
         /\ ret' = "none" => frames' # <<>>
         /\ ret' # "none" /\ frames' # <<>> => Top'.pc < Top'.n
<1> DEFINE L == Len(frames)
<1>1. frames \in Seq(Frame) /\ L \in 1 .. L /\ L \in Nat
  BY EmptySeq, LenProperties DEF Framed
<1>2. CASE ~Fits(start, count, Top.n)
  <2>1. Returns("false")
    BY <1>2 DEF Call
  <2> QED  BY <2>1, ReturnKeeps DEF Returns
<1>3. CASE Fits(start, count, Top.n) /\ Len(frames) > MaxDepth
  BY <1>3 DEF Call, Framed, Top
<1>4. CASE Fits(start, count, Top.n) /\ ~(Len(frames) > MaxDepth)
  <2> DEFINE f == [base |-> Top.base + start, n |-> count, pc |-> 0]
  <2>1. frames' = Append(frames, f) /\ ret' = "none"
    BY <1>4 DEF Call
  <2>2. Top \in Frame /\ Inside(Top, [base |-> 0, n |-> Len(prog)]) /\ Top = frames[L]
    BY <1>1 DEF Framed, Top
  <2>3. start \in Nat /\ count \in Nat /\ start + count <= Top.n
    BY <1>4, <2>2 DEF Fits, Frame
  <2>4. f \in Frame
    BY <2>2, <2>3 DEF Frame
  <2>5. Inside(f, Top)
    BY <2>2, <2>3 DEF Inside, Frame
  <2>6. Inside(f, [base |-> 0, n |-> Len(prog)])
    <3>1. f.base + f.n <= Top.base + Top.n
      BY <2>5 DEF Inside
    <3>2. Top.base + Top.n <= Len(prog)
      BY <2>2 DEF Inside, Frame
    <3> QED  BY <2>2, <2>4, <3>1, <3>2, LenProperties DEF Inside, Frame
  <2>7. /\ frames' \in Seq(Frame)
        /\ Len(frames') = L + 1
        /\ \A k \in 1 .. L : frames'[k] = frames[k]
        /\ frames'[L + 1] = f
    BY <1>1, <2>1, <2>4
  <2>8. L + 1 <= MaxDepth + 1
    BY <1>1, <1>4, DepthAssumption
  <2>9. \A k \in 1 .. L + 1 :
          /\ Inside(frames'[k], [base |-> 0, n |-> Len(prog)])
          /\ k > 1 => Inside(frames'[k], frames'[k - 1])
          /\ k < L + 1 => frames'[k].pc < frames'[k].n
    <3> SUFFICES ASSUME NEW k \in 1 .. L + 1
                 PROVE  /\ Inside(frames'[k], [base |-> 0, n |-> Len(prog)])
                        /\ k > 1 => Inside(frames'[k], frames'[k - 1])
                        /\ k < L + 1 => frames'[k].pc < frames'[k].n
      OBVIOUS
    <3>1. CASE k = L + 1
      <4>1. frames'[k] = f /\ frames'[k - 1] = Top
        BY <1>1, <2>2, <2>7, <3>1
      <4> QED  BY <1>1, <2>5, <2>6, <3>1, <4>1
    <3>2. CASE k # L + 1
      <4>1. k \in 1 .. L /\ (k > 1 => k - 1 \in 1 .. L)
        BY <1>1, <3>2
      <4>2. frames'[k] = frames[k] /\ (k > 1 => frames'[k - 1] = frames[k - 1])
        BY <2>7, <4>1
      <4>3. k < L => frames[k].pc < frames[k].n
        BY <4>1 DEF Framed
      <4>4. k = L => frames[k].pc < frames[k].n
        BY <2>2
      <4>5. k < L \/ k = L
        BY <1>1, <4>1
      <4> QED  BY <4>1, <4>2, <4>3, <4>4, <4>5 DEF Framed
    <3> QED  BY <3>1, <3>2
  <2>10. frames' # <<>>
    BY <1>1, <2>7
  <2> QED  BY <2>1, <2>7, <2>8, <2>9, <2>10 DEF Framed
<1> QED  BY <1>2, <1>3, <1>4
-----------------------------------------------------------------------------
LEMMA RunNat ==
  ASSUME prog \in Seq(Op), Framed(frames), frames # <<>>, Top.pc < Top.n
  PROVE  DataRun \in Nat
<1> DEFINE K == 1 .. Top.n - Top.pc
           R == {k \in K : \A j \in 0 .. k - 1 : Is(j) = "data"}
<1>1. Top \in Frame
  BY Op0Type
<1>2. IsFiniteSet(K)
  BY <1>1, FS_Interval DEF Frame
<1>3. IsFiniteSet(R)
  BY <1>2, FS_Subset
<1>4. Cardinality(R) \in Nat
  BY <1>3, FS_CardinalityType
<1> QED  BY <1>4 DEF DataRun

LEMMA InitInv == Init => IInv
<1> SUFFICES ASSUME Init PROVE IInv
  OBVIOUS
<1>1. prog \in Seq(Op)
  BY ProgramsAssumption DEF Init
<1>2. Framed(frames)
  BY DepthAssumption DEF Init, Framed
<1> QED  BY <1>1, <1>2 DEF Init, IInv

(* Past the arms of a sel, or out of the sequence. *)
LEMMA LeaveKeeps ==
  ASSUME prog \in Seq(Op), Framed(frames), frames # <<>>, LeaveSelect, prog' = prog
  PROVE  /\ Framed(frames)'
         /\ ret' \in {"none", "false"}
         /\ ret' = "none" => frames' # <<>>
         /\ ret' # "none" /\ frames' # <<>> => Top'.pc < Top'.n
<1>1. CASE SelectEnd \in 1 .. Top.n
  <2>1. MoveTo(SelectEnd) /\ ret' = "none" /\ SelectEnd \in Nat
    <3>1. Top.n \in Nat
      <4>1. Len(frames) \in 1 .. Len(frames) /\ frames \in Seq(Frame)
        BY EmptySeq, LenProperties DEF Framed
      <4>2. Top \in Frame
        BY <4>1 DEF Top
      <4> QED  BY <4>2 DEF Frame
    <3> QED  BY <1>1, <3>1 DEF LeaveSelect
  <2> QED  BY <2>1, MoveKeeps
<1>2. CASE SelectEnd \notin 1 .. Top.n
  <2>1. Returns("false")
    BY <1>2 DEF LeaveSelect
  <2> QED  BY <2>1, ReturnKeeps DEF Returns
<1> QED  BY <1>1, <1>2

(* The invariant is inductive: one step per action. *)
LEMMA NextInv == IInv /\ [Next]_vars => IInv'
<1> SUFFICES ASSUME IInv, [Next]_vars PROVE IInv'
  OBVIOUS
<1>0. CASE UNCHANGED vars
  BY <1>0 DEF IInv, vars, Framed, Top, Accepts
<1>1. CASE Begin
  BY <1>1 DEF IInv, Begin, Framed, Top
<1>2. CASE Apply
  <2> DEFINE f == [base |-> 0, n |-> Len(prog), pc |-> 0]
  <2>1. f \in Frame
    BY LenProperties DEF IInv, Frame
  <2>2. frames' = <<f>> /\ prog' = prog
    BY <1>2 DEF Apply
  <2>3. frames' \in Seq(Frame) /\ Len(frames') = 1 /\ frames'[1] = f
    BY <2>1, <2>2
  <2>4. Framed(frames)'
    BY <2>2, <2>3, LenProperties, DepthAssumption DEF Framed, Inside, IInv
  <2> QED  BY <1>2, <2>2, <2>3, <2>4 DEF IInv, Apply
<1>3. ASSUME Running PROVE /\ frames # <<>> /\ Top.pc < Top.n /\ Framed(frames)
                           /\ prog \in Seq(Op) /\ ret = "none" /\ phase = "running"
                           /\ Top \in Frame /\ Op0 \in Op /\ depth \in Nat
  BY <1>3, Op0Type DEF IInv, Running
<1>4. CASE PushData
  <2>1. DataRun \in Nat /\ Top.pc + DataRun \in Nat
    BY <1>3, <1>4, RunNat DEF PushData, Frame
  <2>2. Framed(frames)' /\ frames' # <<>>
    BY <1>3, <1>4, <2>1, MoveKeeps DEF PushData, Still
  <2> QED  BY <1>3, <1>4, <2>1, <2>2 DEF IInv, PushData, Still
<1>5. CASE Exec
  <2>1. Top.pc + 1 \in Nat
    BY <1>3, <1>5 DEF Exec, Frame
  <2>2. Framed(frames)' /\ frames' # <<>>
    BY <1>3, <1>5, <2>1, MoveKeeps DEF Exec, Still
  <2>3. depth' \in Nat
    BY <1>3, <1>5, CountsNat DEF Exec, Executes, Executed
  <2> QED  BY <1>3, <1>5, <2>2, <2>3 DEF IInv, Exec, Still
<1>6. CASE ExecFails
  BY <1>3, <1>6, ReturnKeeps DEF IInv, ExecFails, Still, Returns
<1>7. CASE PopFails
  BY <1>3, <1>7, ReturnKeeps DEF IInv, PopFails, Still, Returns
<1>8. CASE If
  <2>1. depth' \in Nat /\ prog' = prog /\ phase' = phase /\ UNCHANGED reset
    BY <1>3, <1>8 DEF If, Still
  <2>2. \/ \E start, count : Call(start, count)
        \/ MoveTo(AfterIf) /\ ret' = ret
    BY <1>8 DEF If
  <2>3. CASE \E start, count : Call(start, count)
    BY <1>3, <1>8, <2>1, <2>3, CallKeeps DEF IInv, If
  <2>4. CASE MoveTo(AfterIf) /\ ret' = ret
    BY <1>3, <1>8, <2>1, <2>4, NextIndex, MoveKeeps DEF IInv, If
  <2> QED  BY <2>2, <2>3, <2>4
<1>9. CASE Select
  <2>1. depth' \in Nat /\ prog' = prog /\ phase' = phase
    BY <1>3, <1>9 DEF Select, Still
  <2>2. \/ Returns("false")
        \/ \E start, count : Call(start, count)
        \/ LeaveSelect
    BY <1>9 DEF Select
  <2>3. CASE Returns("false")
    BY <1>3, <1>9, <2>1, <2>3, ReturnKeeps DEF IInv, Select, Returns
  <2>4. CASE \E start, count : Call(start, count)
    BY <1>3, <1>9, <2>1, <2>4, CallKeeps DEF IInv, Select
  <2>5. CASE LeaveSelect
    BY <1>3, <1>9, <2>1, <2>5, LeaveKeeps DEF IInv, Select
  <2> QED  BY <2>2, <2>3, <2>4, <2>5
<1>10. CASE SequenceEnds
  BY <1>10, ReturnKeeps DEF IInv, SequenceEnds, Still, Returns
<1>11. CASE Resume
  <2>1. /\ frames # <<>> /\ Framed(frames) /\ prog \in Seq(Op) /\ phase = "running"
        /\ Top.pc < Top.n /\ prog' = prog /\ phase' = phase /\ depth' \in Nat
    BY <1>11 DEF IInv, Resume, Still
  <2>2. CASE Op0.sig = "if"
    BY <1>11, <2>1, <2>2, NextIndex, MoveKeeps DEF IInv, Resume
  <2>3. CASE Op0.sig # "if"
    BY <1>11, <2>1, <2>3, LeaveKeeps DEF IInv, Resume
  <2> QED  BY <2>2, <2>3
<1>12. CASE Unwind
  BY <1>12, ReturnKeeps DEF IInv, Unwind, Still, Returns
<1>13. CASE EndApply
  BY <1>13 DEF IInv, EndApply, Framed, Top
<1>14. CASE ExecThrows
  <2>1. frames' = <<>> /\ prog' = prog /\ depth' = depth /\ phase' = "ready" /\ ret' = "thrown"
    BY <1>14 DEF ExecThrows
  <2>2. phase = "running" /\ prog \in Seq(Op) /\ depth \in Nat
    BY <1>3, <1>14 DEF ExecThrows, PassesWrapped
  <2>3. Framed(frames)' BY <2>1, DepthAssumption DEF Framed
  <2> QED BY <2>1, <2>2, <2>3 DEF IInv
<1>15. CASE ExecLeavesStack
  <2>1. /\ Running /\ Executes(Op0, depth) /\ ExecTakes(Op0) > depth /\ phase' = "lost"
        /\ frames' = <<>> /\ UNCHANGED <<prog, ret, depth>>
    BY <1>15 DEF ExecLeavesStack, PassesWrapped
  <2>2. Wraps(Op0) BY <1>3, <2>1, PassesWraps
  <2>3. Top.base + Top.pc + 1 \in DOMAIN prog BY <1>3, <2>1, Op0Type
  <2>4. \E j \in DOMAIN prog : Wraps(prog[j]) BY <2>2, <2>3 DEF Op0, At
  <2>5. Framed(frames)' BY <2>1, DepthAssumption DEF Framed
  <2>6. \E j \in DOMAIN prog' : Wraps(prog'[j]) BY <2>1, <2>4
  <2> QED BY <1>3, <2>1, <2>5, <2>6 DEF IInv
<1> QED
  BY <1>0, <1>1, <1>2, <1>4, <1>5, <1>6, <1>7, <1>8, <1>9, <1>10, <1>11, <1>12, <1>13,
     <1>14, <1>15 DEF Next

(* The channels of an accepted function are those of the element.            *)
LEMMA InvBounds == IInv => InBounds
<1> SUFFICES ASSUME IInv PROVE InBounds
  OBVIOUS
<1>1. ASSUME phase = "running", frames # <<>>, Top.pc < Top.n
      PROVE  /\ Op0.sig = "in" => Op0.a + Op0.b < NumIn
             /\ Op0.sig = "out" => Op0.a + Op0.b < NumOut
  <2>1. Op0 \in Op /\ Top.base + Top.pc + 1 \in DOMAIN prog
    BY <1>1, Op0Type DEF IInv
  <2>2. ~DoesOverflow(prog, "in", NumIn) /\ ~DoesOverflow(prog, "out", NumOut)
    BY <1>1 DEF IInv, Accepts
  <2>3. Op0.a + Op0.b \in Nat
    BY <2>1 DEF Op
  <2>4. Op0 = prog[Top.base + Top.pc + 1]
    BY DEF Op0, At
  <2>5. Op0.sig = "in" => ~(Op0.a + Op0.b >= NumIn)
    BY <2>1, <2>2, <2>4 DEF DoesOverflow
  <2>6. Op0.sig = "out" => ~(Op0.a + Op0.b >= NumOut)
    BY <2>1, <2>2, <2>4 DEF DoesOverflow
  <2> QED  BY <2>3, <2>5, <2>6, ChannelAssumption
<1> QED  BY <1>1 DEF IInv, InBounds

(* No function, whatever its operators, makes the interpreter read or write  *)
(* outside the function, the stack or the pixel's channels (ApplySequence,   *)
(* Begin).                                                                   *)
THEOREM StaysInBounds == Spec => []InBounds
<1> QED  BY InitInv, NextInv, InvBounds, PTL DEF Spec

-----------------------------------------------------------------------------
(* Numbers, finite sets and recursive functions. *)

(* A set of numbers has a least one, and what holds of 0 and is handed on    *)
(* holds of every number.                                                    *)
LEMMA LeastOf == ASSUME NEW S, S \subseteq Nat, S # {} PROVE \E m \in S : \A k \in S : m <= k
<1>1. PICK m \in S : \A k \in S : <<k, m>> \notin OpToRel(<, Nat)
  BY NatLessThanWellFounded, WFMin, Zenon
<1>2. \A k \in S : ~(k < m) BY <1>1, Zenon DEF OpToRel
<1> QED BY <1>2

(* What holds of 0 and is handed on holds of every number. *)
LEMMA Inductive ==
  ASSUME NEW S, 0 \in S, \A n \in Nat : n \in S => n + 1 \in S
  PROVE  Nat \subseteq S
<1> SUFFICES ASSUME Nat \ S # {} PROVE FALSE OBVIOUS
<1>1. PICK m \in Nat \ S : \A k \in Nat \ S : m <= k BY LeastOf
<1>2. m # 0 BY <1>1
<1>3. m - 1 \in Nat /\ m - 1 \in S BY <1>1, <1>2
<1>4. m - 1 + 1 \in S BY <1>3
<1> QED BY <1>1, <1>4

(* A recursive function exists when every argument it calls itself with is   *)
(* smaller in some measure, in the branches that are taken: the value of its *)
(* body depends on smaller arguments only.                                   *)
Recursive(D, V, m, B) ==
  /\ V # {} /\ m \in [D -> Nat]
  /\ \A f \in [D -> V] : \A q \in D : B[<<f, q>>] \in V
  /\ \A f, g \in [D -> V] : \A q \in D :
       (\A r \in D : m[r] < m[q] => f[r] = g[r]) => B[<<f, q>>] = B[<<g, q>>]

(* Such a function exists: the functions that follow the body up to a measure *)
(* agree with each other, and one such is defined for each argument.         *)
LEMMA RecursionExists ==
  ASSUME NEW D, NEW V, NEW m, NEW B, Recursive(D, V, m, B)
  PROVE  \E f \in [D -> V] : \A q \in D : f[q] = B[<<f, q>>]
<1>0. /\ m \in [D -> Nat]
      /\ \A f \in [D -> V] : \A q \in D : B[<<f, q>>] \in V
      /\ \A f, g \in [D -> V] : \A q \in D :
           (\A r \in D : m[r] < m[q] => f[r] = g[r]) => B[<<f, q>>] = B[<<g, q>>]
  BY DEF Recursive
<1> USE <1>0
<1> PICK v0 \in V : TRUE BY DEF Recursive
<1> DEFINE Good(f, k) == f \in [D -> V] /\ \A q \in D : m[q] < k => f[q] = B[<<f, q>>]
           S == {k \in Nat : \E f \in [D -> V] : Good(f, k)}
<1>1. 0 \in S
  <2> DEFINE f == [q \in D |-> v0]
  <2>1. f \in [D -> V] OBVIOUS
  <2>2. Good(f, 0) BY <2>1
  <2> QED BY <2>1, <2>2
<1>2. ASSUME NEW k \in Nat, k \in S PROVE k + 1 \in S
  <2>1. PICK f \in [D -> V] : Good(f, k) BY <1>2
  <2> DEFINE g == [q \in D |-> IF m[q] < k THEN f[q] ELSE B[<<f, q>>]]
  <2>2. g \in [D -> V] OBVIOUS
  <2>3. \A r \in D : m[r] < k => g[r] = f[r] OBVIOUS
  <2>4. \A q \in D : m[q] < k + 1 => B[<<f, q>>] = g[q] BY <2>1
  <2> HIDE DEF g
  <2>5. ASSUME NEW q \in D, m[q] < k + 1 PROVE g[q] = B[<<g, q>>]
    <3>1. m[q] \in Nat OBVIOUS
    <3>2. \A r \in D : m[r] < m[q] => f[r] = g[r] BY <2>3, <2>5, <3>1
    <3>3. B[<<f, q>>] = B[<<g, q>>] BY <2>2, <3>2
    <3> QED BY <2>4, <2>5, <3>3
  <2>6. Good(g, k + 1) BY <2>2, <2>5
  <2> QED BY <2>2, <2>6
<1> HIDE DEF S
<1>3. Nat \subseteq S BY <1>1, <1>2, Inductive
<1>4. \A k \in Nat : \E f \in [D -> V] : Good(f, k) BY <1>3 DEF S
<1>5. ASSUME NEW f \in [D -> V], NEW g \in [D -> V], NEW k \in Nat, NEW l \in Nat,
             Good(f, k), Good(g, l)
      PROVE  \A q \in D : m[q] < k /\ m[q] < l => f[q] = g[q]
  <2> SUFFICES ASSUME NEW q0 \in D, m[q0] < k, m[q0] < l, f[q0] # g[q0] PROVE FALSE
    OBVIOUS
  <2> DEFINE Bad == {q \in D : m[q] < k /\ m[q] < l /\ f[q] # g[q]}
             M == {m[q] : q \in Bad}
  <2>1. M \subseteq Nat /\ M # {} OBVIOUS
  <2>2. PICK x \in M : \A y \in M : x <= y BY <2>1, LeastOf
  <2>3. PICK q \in Bad : x = m[q] BY <2>2
  <2>4. \A r \in D : m[r] < m[q] => f[r] = g[r]
    <3> SUFFICES ASSUME NEW r \in D, m[r] < m[q], f[r] # g[r] PROVE FALSE
      OBVIOUS
    <3>0. m[r] \in Nat /\ m[q] \in Nat OBVIOUS
    <3>1. r \in Bad BY <2>3, <3>0
    <3>2. m[q] <= m[r] BY <2>2, <2>3, <3>1
    <3> QED BY <3>0, <3>2
  <2>5. B[<<f, q>>] = B[<<g, q>>] BY <2>4
  <2>6. f[q] = B[<<f, q>>] /\ g[q] = B[<<g, q>>] BY <1>5, <2>3
  <2> QED BY <2>3, <2>5, <2>6
<1> DEFINE h(k) == CHOOSE f \in [D -> V] : Good(f, k)
           F == [q \in D |-> h(m[q] + 1)[q]]
<1>6. \A k \in Nat : h(k) \in [D -> V] /\ Good(h(k), k) BY <1>4
<1>7. \A q \in D : m[q] + 1 \in Nat OBVIOUS
<1>8. F \in [D -> V]
  <2>1. \A q \in D : h(m[q] + 1) \in [D -> V] BY <1>6, <1>7
  <2> HIDE DEF h
  <2>2. \A q \in D : h(m[q] + 1)[q] \in V BY <2>1
  <2> QED BY <2>2
<1>9. ASSUME NEW q \in D PROVE F[q] = B[<<F, q>>]
  <2> DEFINE f == h(m[q] + 1)
  <2>1. f \in [D -> V] /\ Good(f, m[q] + 1) BY <1>6, <1>7
  <2>2. F[q] = f[q] OBVIOUS
  <2>3. ASSUME NEW r \in D, m[r] < m[q] PROVE f[r] = F[r]
    <3> DEFINE g == h(m[r] + 1)
    <3>1. g \in [D -> V] /\ Good(g, m[r] + 1) BY <1>6, <1>7
    <3>2. F[r] = g[r] OBVIOUS
    <3>3. m[r] \in Nat /\ m[q] \in Nat OBVIOUS
    <3>4. m[r] < m[q] + 1 /\ m[r] < m[r] + 1 /\ m[q] + 1 \in Nat /\ m[r] + 1 \in Nat
      BY <2>3, <3>3
    <3> HIDE DEF f, g, F, Good
    <3>5. f[r] = g[r] BY <1>5, <2>1, <3>1, <3>4
    <3> QED BY <3>2, <3>5
  <2> HIDE DEF F, h
  <2>4. B[<<f, q>>] = B[<<F, q>>] BY <1>8, <2>1, <2>3
  <2>5. f[q] = B[<<f, q>>]
    <3>1. m[q] \in Nat /\ m[q] < m[q] + 1 OBVIOUS
    <3> QED BY <2>1, <3>1
  <2> QED BY <2>2, <2>4, <2>5
<1> QED BY <1>8, <1>9

(* Two functions that agree where they agree on all that is smaller. *)
AgreeUpwards(D, m, f, g) ==
  /\ m \in [D -> Nat]
  /\ \A q \in D : (\A r \in D : m[r] < m[q] => f[r] = g[r]) => f[q] = g[q]

(* Two functions that agree wherever they agree on smaller arguments agree. *)
LEMMA SameByMeasure ==
  ASSUME NEW D, NEW m, NEW f, NEW g, AgreeUpwards(D, m, f, g)
  PROVE  \A q \in D : f[q] = g[q]
<1> SUFFICES ASSUME NEW q0 \in D, f[q0] # g[q0] PROVE FALSE OBVIOUS
<1>0. /\ m \in [D -> Nat]
      /\ \A q \in D : (\A r \in D : m[r] < m[q] => f[r] = g[r]) => f[q] = g[q]
  BY DEF AgreeUpwards
<1> USE <1>0
<1> DEFINE Bad == {q \in D : f[q] # g[q]}
           M == {m[q] : q \in Bad}
<1>1. PICK x \in M : \A y \in M : x <= y
  <2>1. M \subseteq Nat /\ M # {} OBVIOUS
  <2> QED BY <2>1, LeastOf
<1>2. PICK q \in Bad : x = m[q] BY <1>1
<1>3. ASSUME NEW r \in D, m[r] < m[q] PROVE f[r] = g[r]
  <2> SUFFICES ASSUME f[r] # g[r] PROVE FALSE OBVIOUS
  <2>1. m[r] \in Nat /\ m[q] \in Nat OBVIOUS
  <2>2. m[q] <= m[r] BY <1>1, <1>2
  <2> QED BY <1>3, <2>1, <2>2
<1> QED BY <1>3

(* Finitely many numbers have a greatest and a least. *)
LEMMA GreatestOf ==
  ASSUME NEW S, S \subseteq Nat, S # {}, NEW b \in Nat, \A x \in S : x <= b
  PROVE  \E m \in S : \A k \in S : k <= m
<1> DEFINE U == {u \in Nat : \A x \in S : x <= u}
<1>1. PICK u \in U : \A k \in U : u <= k
  <2>1. U \subseteq Nat /\ b \in U OBVIOUS
  <2> QED BY <2>1, LeastOf
<1>2. u \in S
  <2> SUFFICES ASSUME u \notin S PROVE FALSE OBVIOUS
  <2>1. \A x \in S : x <= u - 1 BY <1>1
  <2>2. u # 0
    <3>1. PICK x \in S : TRUE OBVIOUS
    <3> QED BY <2>1, <3>1
  <2>3. u - 1 \in U BY <1>1, <2>1, <2>2
  <2> QED BY <1>1, <2>3
<1> QED BY <1>1, <1>2

(* Finitely many numbers have a bound. *)
LEMMA ImagesBounded ==
  ASSUME NEW n \in Nat, NEW g \in [1 .. n -> Nat]
  PROVE  \E b \in Nat : \A k \in 1 .. n : g[k] <= b
<1> DEFINE S == {i \in Nat : i <= n => \E b \in Nat : \A k \in 1 .. i : g[k] <= b}
<1>1. 0 \in S OBVIOUS
<1>2. ASSUME NEW i \in Nat, i \in S PROVE i + 1 \in S
  <2> SUFFICES ASSUME i + 1 <= n PROVE \E b \in Nat : \A k \in 1 .. i + 1 : g[k] <= b
    OBVIOUS
  <2>1. PICK b \in Nat : \A k \in 1 .. i : g[k] <= b BY <1>2
  <2>2. i + 1 \in 1 .. n OBVIOUS
  <2>3. g[i + 1] \in Nat BY <2>2
  <2> DEFINE c == IF g[i + 1] <= b THEN b ELSE g[i + 1]
  <2>4. c \in Nat /\ b <= c /\ g[i + 1] <= c BY <2>3
  <2>5. \A k \in 1 .. i + 1 : k \in 1 .. i \/ k = i + 1 OBVIOUS
  <2>6. \A k \in 1 .. i : g[k] \in Nat OBVIOUS
  <2> HIDE DEF c
  <2>7. \A k \in 1 .. i + 1 : g[k] <= c BY <2>1, <2>3, <2>4, <2>5, <2>6
  <2> QED BY <2>4, <2>7
<1> HIDE DEF S
<1>3. n \in S BY <1>1, <1>2, Inductive
<1> QED BY <1>3 DEF S

(* The least and the greatest of a bounded set are in it. *)
LEMMA MinMaxIs ==
  ASSUME NEW S, S \subseteq Nat, S # {}, NEW b \in Nat, \A x \in S : x <= b
  PROVE  /\ Min(S) \in S /\ \A x \in S : Min(S) <= x
         /\ Max(S) \in S /\ \A x \in S : x <= Max(S)
<1>1. \E m \in S : \A k \in S : m <= k BY LeastOf
<1>2. \E m \in S : \A k \in S : m >= k
  <2>1. PICK m \in S : \A k \in S : k <= m BY GreatestOf
  <2> QED BY <2>1
<1>3. Min(S) \in S /\ \A x \in S : Min(S) <= x BY <1>1 DEF Min
<1>4. Max(S) \in S /\ \A x \in S : Max(S) >= x BY <1>2 DEF Max
<1> QED BY <1>3, <1>4

(* How many of the first n numbers are of G without a gap. *)
RunLength(n, G) == Cardinality({k \in 1 .. n : \A j \in 1 .. k : j \in G})

(* Counting the lengths up to which all belong to G gives the longest. *)
LEMMA RunIs ==
  ASSUME NEW n \in Nat, NEW G
  PROVE  /\ RunLength(n, G) \in 0 .. n
         /\ \A j \in 1 .. RunLength(n, G) : j \in G
         /\ RunLength(n, G) < n => RunLength(n, G) + 1 \notin G
<1> DEFINE c == RunLength(n, G)
           S == {k \in 1 .. n + 1 : k <= n => k \notin G}
<1>1. PICK s \in S : \A k \in S : s <= k
  <2>1. S \subseteq Nat /\ n + 1 \in S OBVIOUS
  <2> QED BY <2>1, LeastOf
<1>2. s \in 1 .. n + 1 /\ (s <= n => s \notin G) BY <1>1
<1>3. \A j \in 1 .. s - 1 : j \in G BY <1>1, <1>2
<1>4. {k \in 1 .. n : \A j \in 1 .. k : j \in G} = 1 .. s - 1
  <2>1. \A k \in 1 .. s - 1 : k \in 1 .. n /\ \A j \in 1 .. k : j \in G BY <1>2, <1>3
  <2>2. ASSUME NEW k \in 1 .. n, \A j \in 1 .. k : j \in G PROVE k \in 1 .. s - 1
    <3>1. ~(s <= k) BY <1>2, <2>2
    <3> QED BY <1>2, <3>1
  <2> QED BY <2>1, <2>2
<1>5. Cardinality(1 .. s - 1) = s - 1
  <2>1. s - 1 \in Nat BY <1>2
  <2>2. Cardinality(1 .. s - 1) = IF 1 > s - 1 THEN 0 ELSE s - 1 - 1 + 1 BY <2>1, FS_Interval
  <2> QED BY <2>1, <2>2
<1> HIDE DEF S
<1>6. c = s - 1 BY <1>4, <1>5 DEF RunLength
<1>7. c \in 0 .. n /\ c + 1 = s BY <1>2, <1>6
<1>8. c < n => s <= n BY <1>7
<1> HIDE DEF S, c
<1> QED BY <1>2, <1>3, <1>6, <1>7, <1>8 DEF c

-----------------------------------------------------------------------------
(* The operators behind an if or a sel, and the branches they lead to. *)

(* An operator of the function is one. *)
LEMMA AtIs ==
  ASSUME NEW p \in Seq(Op), NEW base \in Nat, NEW i \in Nat, base + i < Len(p)
  PROVE  At(p, base, i) \in Op /\ At(p, base, i).a \in Nat /\ At(p, base, i).b \in Nat
<1>1. base + i + 1 \in 1 .. Len(p) OBVIOUS
<1>2. p[base + i + 1] \in Op BY <1>1, ElementOfSeq
<1> QED BY <1>2 DEF At, Op

(* The cases after a sel and their dflt are in its part. *)
LEMMA CasesAre ==
  ASSUME NEW p, NEW base \in Nat, NEW n \in Nat, NEW i \in Nat, i < n
  PROVE  /\ Cases(p, base, n, i) \in Nat
         /\ i + Cases(p, base, n, i) < n
         /\ \A j \in 1 .. Cases(p, base, n, i) : SigAt(p, base, n, i + j) = "case"
         /\ SigAt(p, base, n, i + Cases(p, base, n, i) + 1) # "case"
<1> DEFINE G == {j \in 1 .. n : SigAt(p, base, n, i + j) = "case"}
           c == Cases(p, base, n, i)
<1>1. {k \in 1 .. n : \A j \in 1 .. k : SigAt(p, base, n, i + j) = "case"}
        = {k \in 1 .. n : \A j \in 1 .. k : j \in G} OBVIOUS
<1>2. c = RunLength(n, G) BY <1>1 DEF Cases, RunLength
<1> HIDE DEF c, G
<1>3. c \in 0 .. n /\ (\A j \in 1 .. c : j \in G) /\ (c < n => c + 1 \notin G)
  BY <1>2, RunIs
<1>4. \A j \in 1 .. c : SigAt(p, base, n, i + j) = "case" BY <1>3 DEF G
<1>5. i + c < n
  <2>1. CASE c = 0 BY <2>1
  <2>2. CASE c # 0
    <3>1. SigAt(p, base, n, i + c) = "case" BY <1>3, <1>4, <2>2
    <3> QED BY <3>1 DEF SigAt
  <2> QED BY <2>1, <2>2
<1>6. SigAt(p, base, n, i + c + 1) # "case"
  <2>1. c + 1 \in 1 .. n /\ c < n BY <1>3, <1>5
  <2>2. c + 1 \notin G /\ i + (c + 1) = i + c + 1 BY <1>3, <2>1
  <2> QED BY <2>1, <2>2 DEF G
<1> QED BY <1>3, <1>4, <1>5, <1>6 DEF c

(* At most one dflt is counted, and only behind a case. *)
LEMMA DefaultsAre ==
  ASSUME NEW p, NEW base \in Nat, NEW n \in Nat, NEW i \in Nat, i < n
  PROVE  /\ Defaults(p, base, n, i) \in {0, 1}
         /\ i + Cases(p, base, n, i) + Defaults(p, base, n, i) < n
<1> DEFINE c == Cases(p, base, n, i)
<1>1. c \in Nat /\ i + c < n BY CasesAre
<1> HIDE DEF c
<1>2. Defaults(p, base, n, i) = IF c > 0 /\ SigAt(p, base, n, i + c + 1) = "dflt" THEN 1 ELSE 0
  BY DEF Defaults, c
<1>3. SigAt(p, base, n, i + c + 1) = "dflt" => i + c + 1 < n BY DEF SigAt
<1> QED BY <1>1, <1>2, <1>3 DEF c

(* A sel whose cases end inside its part has the same ones in the function,  *)
(* where InitSelectOp counts them.                                           *)
LEMMA CasesSame ==
  ASSUME NEW p, NEW base \in Nat, NEW n \in Nat, NEW i \in Nat, i < n,
         NEW m \in Nat, base + n <= m,
         i + Cases(p, base, n, i) + Defaults(p, base, n, i) + 1 < n
  PROVE  /\ Cases(p, 0, m, base + i) = Cases(p, base, n, i)
         /\ Defaults(p, 0, m, base + i) = Defaults(p, base, n, i)
<1> DEFINE c == Cases(p, base, n, i)
           e == Cases(p, 0, m, base + i)
<1>1. base + i \in Nat /\ base + i < m OBVIOUS
<1>2. /\ c \in Nat /\ i + c < n
      /\ \A j \in 1 .. c : SigAt(p, base, n, i + j) = "case"
      /\ SigAt(p, base, n, i + c + 1) # "case" BY CasesAre
<1>3. /\ e \in Nat /\ base + i + e < m
      /\ \A j \in 1 .. e : SigAt(p, 0, m, base + i + j) = "case"
      /\ SigAt(p, 0, m, base + i + e + 1) # "case" BY <1>1, CasesAre
<1>4. Defaults(p, base, n, i) \in {0, 1} BY DefaultsAre
<1>5. i + c + 1 < n BY <1>2, <1>4
<1> HIDE DEF c, e
<1>6. \A k \in Nat : i + k < n => SigAt(p, 0, m, base + i + k) = SigAt(p, base, n, i + k)
  <2> SUFFICES ASSUME NEW k \in Nat, i + k < n
               PROVE  SigAt(p, 0, m, base + i + k) = SigAt(p, base, n, i + k) OBVIOUS
  <2>1. base + i + k < m /\ 0 + (base + i + k) + 1 = base + (i + k) + 1 OBVIOUS
  <2> QED BY <2>1 DEF SigAt, At
<1>7. ~(e < c)
  <2> SUFFICES ASSUME e < c PROVE FALSE OBVIOUS
  <2>1. e + 1 \in 1 .. c /\ e + 1 \in Nat /\ i + (e + 1) < n BY <1>2, <1>3
  <2>2. SigAt(p, 0, m, base + i + (e + 1)) = "case" BY <1>2, <1>6, <2>1
  <2>3. base + i + (e + 1) = base + i + e + 1 BY <1>3
  <2> QED BY <1>3, <2>2, <2>3
<1>8. ~(c < e)
  <2> SUFFICES ASSUME c < e PROVE FALSE OBVIOUS
  <2>1. c + 1 \in 1 .. e /\ c + 1 \in Nat /\ i + (c + 1) < n /\ i + (c + 1) = i + c + 1
    BY <1>2, <1>3, <1>5
  <2>2. SigAt(p, base, n, i + c + 1) = "case" BY <1>3, <1>6, <2>1
  <2> QED BY <1>2, <2>2
<1>9. e = c BY <1>2, <1>3, <1>7, <1>8
<1>10. SigAt(p, 0, m, base + i + c + 1) = SigAt(p, base, n, i + c + 1)
  <2>1. c + 1 \in Nat /\ i + (c + 1) < n /\ i + (c + 1) = i + c + 1
        /\ base + i + (c + 1) = base + i + c + 1 BY <1>2, <1>5
  <2> QED BY <1>6, <2>1
<1> QED BY <1>9, <1>10 DEF c, e, Defaults

(* Sizes add up to a number as long as the operators that hold them exist. *)
LEMMA SizesNat ==
  ASSUME NEW p \in Seq(Op), NEW i \in Nat, NEW k \in Nat, i + k < Len(p)
  PROVE  SizesBefore(p, i, k) \in Nat
<1> DEFINE D == 0 .. k
           m == [j \in D |-> j]
           B == [x \in [D -> Nat] \X D |->
                  IF x[2] = 0 THEN 0 ELSE x[1][x[2] - 1] + At(p, i, x[2]).a]
<1>1. \A j \in D : j # 0 => j - 1 \in D /\ At(p, i, j).a \in Nat
  <2> SUFFICES ASSUME NEW j \in D, j # 0 PROVE j - 1 \in D /\ At(p, i, j).a \in Nat
    OBVIOUS
  <2>1. j \in Nat /\ i + j < Len(p) OBVIOUS
  <2> QED BY <2>1, AtIs
<1>2. \A f \in [D -> Nat] : \A j \in D :
        B[<<f, j>>] = IF j = 0 THEN 0 ELSE f[j - 1] + At(p, i, j).a
  OBVIOUS
<1>3. m \in [D -> Nat] /\ \A j \in D : m[j] = j OBVIOUS
<1> HIDE DEF B, m
<1>4. \A f \in [D -> Nat] : \A j \in D : B[<<f, j>>] \in Nat
  <2> SUFFICES ASSUME NEW f \in [D -> Nat], NEW j \in D PROVE B[<<f, j>>] \in Nat OBVIOUS
  <2>1. B[<<f, j>>] = IF j = 0 THEN 0 ELSE f[j - 1] + At(p, i, j).a BY <1>2
  <2>2. CASE j = 0 BY <2>1, <2>2
  <2>3. CASE j # 0
    <3>1. j - 1 \in D /\ At(p, i, j).a \in Nat BY <1>1, <2>3
    <3> HIDE DEF D
    <3>2. f[j - 1] \in Nat BY <3>1
    <3> QED BY <2>1, <2>3, <3>1, <3>2
  <2> QED BY <2>2, <2>3
<1>5. \A f, g \in [D -> Nat] : \A j \in D :
        (\A r \in D : m[r] < m[j] => f[r] = g[r]) => B[<<f, j>>] = B[<<g, j>>]
  <2> SUFFICES ASSUME NEW f \in [D -> Nat], NEW g \in [D -> Nat], NEW j \in D,
                      \A r \in D : m[r] < m[j] => f[r] = g[r]
               PROVE  B[<<f, j>>] = B[<<g, j>>] OBVIOUS
  <2>1. j # 0 => j - 1 \in D /\ j - 1 < j BY <1>1
  <2>2. j # 0 => f[j - 1] = g[j - 1] BY <1>3, <2>1
  <2> QED BY <1>2, <2>2
<1>6. \E f \in [D -> Nat] : \A j \in D : f[j] = B[<<f, j>>]
  <2>1. Recursive(D, Nat, m, B) BY <1>3, <1>4, <1>5 DEF Recursive
  <2> HIDE DEF D
  <2> QED BY <2>1, RecursionExists
<1> DEFINE Sums(f) == f = [j \in D |-> IF j = 0 THEN 0 ELSE f[j - 1] + At(p, i, j).a]
           sum == CHOOSE f : Sums(f)
<1>7. \E f \in [D -> Nat] : Sums(f)
  <2>1. PICK f \in [D -> Nat] : \A j \in D : f[j] = B[<<f, j>>] BY <1>6
  <2>2. \A j \in D : f[j] = IF j = 0 THEN 0 ELSE f[j - 1] + At(p, i, j).a BY <1>2, <2>1
  <2> QED BY <2>2
<1>8. Sums(sum) BY <1>7
<1>9. SizesBefore(p, i, k) = sum[k] BY DEF SizesBefore
<1> HIDE DEF sum
<1>10. \A j \in D : sum[j] = IF j = 0 THEN 0 ELSE sum[j - 1] + At(p, i, j).a BY <1>8
<1> DEFINE S == {j \in Nat : j \in D => sum[j] \in Nat}
<1>11. 0 \in S BY <1>10
<1>12. ASSUME NEW j \in Nat, j \in S PROVE j + 1 \in S
  <2> SUFFICES ASSUME j + 1 \in D PROVE sum[j + 1] \in Nat OBVIOUS
  <2>1. j \in D /\ j + 1 # 0 /\ j + 1 - 1 = j OBVIOUS
  <2>2. sum[j] \in Nat /\ At(p, i, j + 1).a \in Nat BY <1>1, <1>12, <2>1
  <2>3. sum[j + 1] = sum[j] + At(p, i, j + 1).a BY <1>10, <2>1
  <2> QED BY <2>2, <2>3
<1> HIDE DEF S
<1>13. k \in S BY <1>11, <1>12, Inductive
<1> QED BY <1>9, <1>13 DEF S


(* The arms of an operator in its part: they begin behind it, and what comes *)
(* after them does too.                                                      *)
LEMMA ArmsAre ==
  ASSUME NEW p \in Seq(Op), NEW base \in Nat, NEW n \in Nat, NEW i \in Nat,
         i < n, base + n <= Len(p),
         NEW arms, arms = CheckedArms(p, base, n, i)
  PROVE  /\ Len(arms) \in Nat
         /\ arms = <<>> <=> Len(arms) = 0
         /\ \A k \in 1 .. Len(arms) : arms[k].at \in Nat /\ arms[k].size \in Nat /\ arms[k].at > i
         /\ AfterArms(i, arms) \in Nat /\ AfterArms(i, arms) > i
         /\ At(p, base, i).sig \notin {"if", "sel"} => arms = <<>>
         /\ At(p, base, i).sig = "if" => arms # <<>>
<1> DEFINE o == At(p, base, i)
           els == SigAt(p, base, n, i + 1) = "else"
           ds == Defaults(p, base, n, i)
           c == Cases(p, base, n, i) + ds
<1>0. Len(<<>>) = 0 OBVIOUS
<1>1. o \in Op /\ o.a \in Nat
  <2>1. base + i < Len(p) OBVIOUS
  <2> QED BY <2>1, AtIs
<1>2. ASSUME \A k \in 1 .. Len(arms) : arms[k].at \in Nat /\ arms[k].size \in Nat /\ arms[k].at > i,
             Len(arms) \in Nat, arms = <<>> <=> Len(arms) = 0
      PROVE  AfterArms(i, arms) \in Nat /\ AfterArms(i, arms) > i
  <2>1. CASE arms = <<>>
    <3>1. i + 1 \in Nat /\ i + 1 > i OBVIOUS
    <3> QED BY <2>1, <3>1 DEF AfterArms
  <2>2. CASE arms # <<>>
    <3>1. Len(arms) \in 1 .. Len(arms) BY <1>2, <2>2
    <3>2. AfterArms(i, arms) = arms[Len(arms)].at + arms[Len(arms)].size
      BY <2>2 DEF AfterArms
    <3>3. /\ arms[Len(arms)].at \in Nat /\ arms[Len(arms)].size \in Nat
          /\ arms[Len(arms)].at > i BY <1>2, <3>1
    <3>4. \A a, z \in Nat : a > i => a + z \in Nat /\ a + z > i OBVIOUS
    <3> QED BY <3>2, <3>3, <3>4
  <2> QED BY <2>1, <2>2
<1>3. CASE o.sig = "if" /\ els
  <2> DEFINE b == At(p, base, i + 1).a
  <2>1. b \in Nat
    <3>1. i + 1 < n BY <1>3 DEF SigAt
    <3>2. i + 1 \in Nat /\ base + (i + 1) < Len(p) BY <3>1
    <3> QED BY <3>2, AtIs
  <2> HIDE DEF b
  <2>2. arms = <<[at |-> i + 2, size |-> o.a], [at |-> i + 2 + o.a, size |-> b]>>
    BY <1>3 DEF CheckedArms, b
  <2> HIDE DEF o
  <2>3. Len(arms) = 2 BY <2>2
  <2>4. arms[1].at = i + 2 /\ arms[1].size = o.a /\ arms[2].at = i + 2 + o.a /\ arms[2].size = b
    BY <2>2
  <2>5. \A k \in 1 .. 2 : k = 1 \/ k = 2 OBVIOUS
  <2>6. \A k \in 1 .. 2 : arms[k].at \in Nat /\ arms[k].size \in Nat /\ arms[k].at > i
    <3>1. \A a \in Nat : i + 2 + a \in Nat /\ i + 2 + a > i OBVIOUS
    <3>2. arms[1].at \in Nat /\ arms[1].size \in Nat /\ arms[1].at > i BY <1>1, <2>4
    <3>3. arms[2].at \in Nat /\ arms[2].size \in Nat /\ arms[2].at > i BY <1>1, <2>1, <2>4, <3>1
    <3> QED BY <2>5, <3>2, <3>3
  <2>7. arms # <<>> BY <2>2
  <2> QED BY <1>2, <1>3, <2>3, <2>6, <2>7 DEF o
<1>4. CASE o.sig = "if" /\ ~els
  <2>1. arms = <<[at |-> i + 1, size |-> o.a]>> BY <1>4 DEF CheckedArms
  <2> HIDE DEF o
  <2>2. Len(arms) = 1 /\ arms # <<>> BY <2>1
  <2>3. arms[1].at = i + 1 /\ arms[1].size = o.a BY <2>1
  <2>4. \A k \in 1 .. 1 : arms[k].at \in Nat /\ arms[k].size \in Nat /\ arms[k].at > i
    BY <1>1, <2>3
  <2> QED BY <1>2, <1>4, <2>2, <2>4 DEF o
<1>5. CASE o.sig = "sel"
  <2> DEFINE A == [k \in 1 .. c |->
               [at   |-> i + 1 + c + SizesBefore(p, base + i, k - 1),
                size |-> At(p, base, i + k).a]]
  <2>1. arms = A BY <1>5 DEF CheckedArms
  <2>2. c \in Nat /\ i + c < n BY CasesAre, DefaultsAre
  <2> HIDE DEF c
  <2>3. Len(A) = c BY <2>2
  <2>4. ASSUME NEW k \in 1 .. c
        PROVE  SizesBefore(p, base + i, k - 1) \in Nat /\ At(p, base, i + k).a \in Nat
    <3>1. base + i \in Nat /\ k - 1 \in Nat /\ base + i + (k - 1) < Len(p)
          /\ i + k \in Nat /\ base + (i + k) < Len(p) BY <2>2
    <3> QED BY <3>1, SizesNat, AtIs
  <2>5. \A k \in 1 .. c : A[k].at \in Nat /\ A[k].size \in Nat /\ A[k].at > i
    <3> SUFFICES ASSUME NEW k \in 1 .. c PROVE A[k].at \in Nat /\ A[k].size \in Nat /\ A[k].at > i
      OBVIOUS
    <3>1. A[k].at = i + 1 + c + SizesBefore(p, base + i, k - 1) /\ A[k].size = At(p, base, i + k).a
      OBVIOUS
    <3> QED BY <2>2, <2>4, <3>1
  <2>6. A = <<>> <=> c = 0
    <3>1. A = <<>> => Len(A) = 0 BY <1>0
    <3>2. c = 0 => A = <<>> OBVIOUS
    <3> QED BY <2>3, <3>1, <3>2
  <2> HIDE DEF A
  <2> QED BY <1>2, <1>5, <2>1, <2>2, <2>3, <2>5, <2>6
<1>6. CASE o.sig \notin {"if", "sel"}
  <2>1. arms = <<>> BY <1>6 DEF CheckedArms
  <2>2. Len(arms) = 0 BY <2>1
  <2>3. \A k \in 1 .. 0 : FALSE OBVIOUS
  <2> QED BY <1>2, <1>6, <2>1, <2>2, <2>3
<1> QED BY <1>3, <1>4, <1>5, <1>6

(* Arms that fit lie inside the part, and so does what comes after them.     *)
LEMMA FittingIs ==
  ASSUME NEW p \in Seq(Op), NEW base \in Nat, NEW n \in Nat, NEW i \in Nat,
         i < n, base + n <= Len(p),
         NEW arms, arms = CheckedArms(p, base, n, i), NEW s, Fitting(arms, s, n)
  PROVE  /\ \A k \in 1 .. Len(arms) :
              /\ base + arms[k].at \in Nat /\ arms[k].size < n - i
              /\ base + arms[k].at + arms[k].size <= Len(p)
              /\ arms[k].at + arms[k].size <= n
         /\ AfterArms(i, arms) <= n
<1>1. /\ Len(arms) \in Nat /\ (arms = <<>> <=> Len(arms) = 0)
      /\ \A k \in 1 .. Len(arms) : arms[k].at \in Nat /\ arms[k].size \in Nat /\ arms[k].at > i
  BY ArmsAre
<1>2. \A k \in 1 .. Len(arms) : Fits(arms[k].at, arms[k].size, n) BY DEF Fitting
<1>3. \A k \in 1 .. Len(arms) : arms[k].at + arms[k].size <= n BY <1>1, <1>2 DEF Fits
<1>4. AfterArms(i, arms) <= n
  <2>1. CASE arms = <<>> BY <2>1 DEF AfterArms
  <2>2. CASE arms # <<>>
    <3>1. Len(arms) \in 1 .. Len(arms) BY <1>1, <2>2
    <3> QED BY <1>3, <2>2, <3>1 DEF AfterArms
  <2> QED BY <2>1, <2>2
<1>5. ASSUME NEW k \in 1 .. Len(arms)
      PROVE  /\ base + arms[k].at \in Nat /\ arms[k].size < n - i
             /\ base + arms[k].at + arms[k].size <= Len(p)
  <2>1. arms[k].at \in Nat /\ arms[k].size \in Nat /\ arms[k].at > i /\ arms[k].at + arms[k].size <= n
    BY <1>1, <1>3
  <2>2. \A a, z \in Nat : a > i /\ a + z <= n => base + a \in Nat /\ z < n - i /\ base + a + z <= base + n
    OBVIOUS
  <2>3. \A l \in Nat : l <= base + n => l <= Len(p)
    <3>1. \A l, m, t \in Nat : l <= m /\ m <= t => l <= t OBVIOUS
    <3>2. base + n \in Nat /\ Len(p) \in Nat BY LenProperties
    <3> QED BY <3>1, <3>2
  <2>4. base + arms[k].at + arms[k].size \in Nat BY <2>1
  <2> QED BY <2>1, <2>2, <2>3, <2>4
<1> QED BY <1>3, <1>4, <1>5

-----------------------------------------------------------------------------
(* The static check of the stack as a function on places of the program. *)

CheckPlaces(p) == {r \in Nat \X Nat \X Nat \X Nat : r[1] + r[2] <= Len(p)}

(* What may be left on the stack after the operator at q and its branches.   *)
Ends(p, check, q) ==
  LET o == At(p, q[1], q[3])
      d == q[4] - Used(o) + Pushed(o)
      arms == CheckedArms(p, q[1], q[2], q[3])
  IN {check[<<q[1] + arms[k].at, arms[k].size, 0, d>>] : k \in 1 .. Len(arms)}
       \cup (IF arms = <<>> \/ (o.sig = "if" /\ Len(arms) = 1) THEN {d} ELSE {})

(* Why the check refuses a function at q, whatever its branches are. *)
Refused(p, q) ==
  LET o == At(p, q[1], q[3])
      arms == CheckedArms(p, q[1], q[2], q[3])
  IN \/ Used(o) > q[4] \/ q[4] - Used(o) + Pushed(o) > MaxStack
     \/ (o.sig = "sel" /\ arms = <<>>)
     \/ ~Fitting(arms, o.sig, q[2])

CheckStep(p, under, check, q) ==
  IF q[3] >= q[2] THEN q[4]
  ELSE IF Refused(p, q) THEN -1
  ELSE IF \E e \in Ends(p, check, q) : e < 0 THEN -1
  ELSE check[<<q[1], q[2], AfterArms(q[3], CheckedArms(p, q[1], q[2], q[3])),
               IF under THEN Min(Ends(p, check, q)) ELSE Max(Ends(p, check, q))>>]

Checks(p, under) ==
  CHOOSE check : check = [q \in CheckPlaces(p) |-> CheckStep(p, under, check, q)]

(* The static check is that function at the start of the program. *)
LEMMA ChecksFromStart ==
  ASSUME NEW p, NEW under
  PROVE  CheckUnderflowOverflow(p, under) = Checks(p, under)[<<0, Len(p), 0, 0>>]
BY DEF CheckUnderflowOverflow, Checks, CheckStep, CheckPlaces, Ends, Refused

Depths == Nat \cup {-1}

(* One step of the check depends on the depths it goes on with and on nothing *)
(* else.                                                                     *)
LEMMA CheckedIs ==
  ASSUME NEW p \in Seq(Op), NEW q \in CheckPlaces(p), q[3] < q[2]
  PROVE  /\ q[1] \in Nat /\ q[2] \in Nat /\ q[3] \in Nat /\ q[4] \in Nat
         /\ q[1] + q[2] <= Len(p)
         /\ At(p, q[1], q[3]) \in Op
         /\ Used(At(p, q[1], q[3])) \in Nat /\ Pushed(At(p, q[1], q[3])) \in Nat
<1>1. /\ q[1] \in Nat /\ q[2] \in Nat /\ q[3] \in Nat /\ q[4] \in Nat
      /\ q[1] + q[2] <= Len(p) BY DEF CheckPlaces
<1>2. q[1] + q[3] < Len(p) BY <1>1
<1>3. At(p, q[1], q[3]) \in Op BY <1>1, <1>2, AtIs
<1>4. \A n \in Nat : Capped(n) \in Nat BY StackAssumption DEF Capped
<1> QED BY <1>1, <1>3, <1>4, CountsNat DEF Used, Pushed

(* The places a check goes on with after an operator it does not refuse:     *)
(* they are in the function, and fewer operators are left there.             *)
LEMMA CheckGoesOn ==
  ASSUME NEW p \in Seq(Op), NEW q \in CheckPlaces(p), q[3] < q[2], ~Refused(p, q),
         NEW arms, arms = CheckedArms(p, q[1], q[2], q[3]),
         NEW d, d = q[4] - Used(At(p, q[1], q[3])) + Pushed(At(p, q[1], q[3]))
  PROVE  /\ d \in Nat /\ Used(At(p, q[1], q[3])) <= q[4] /\ d <= MaxStack
         /\ Fitting(arms, At(p, q[1], q[3]).sig, q[2])
         /\ Len(arms) \in Nat /\ (arms = <<>> <=> Len(arms) = 0)
         /\ \A k \in 1 .. Len(arms) :
              /\ <<q[1] + arms[k].at, arms[k].size, 0, d>> \in CheckPlaces(p)
              /\ arms[k].size \in Nat /\ arms[k].size < q[2] - q[3]
         /\ AfterArms(q[3], arms) \in Nat /\ AfterArms(q[3], arms) > q[3]
         /\ AfterArms(q[3], arms) <= q[2]
         /\ \A e \in Nat : <<q[1], q[2], AfterArms(q[3], arms), e>> \in CheckPlaces(p)
<1> DEFINE o == At(p, q[1], q[3])
<1>1. /\ q[1] \in Nat /\ q[2] \in Nat /\ q[3] \in Nat /\ q[4] \in Nat
      /\ q[1] + q[2] <= Len(p) /\ Used(o) \in Nat /\ Pushed(o) \in Nat BY CheckedIs
<1>2. ~(Used(o) > q[4]) /\ ~(d > MaxStack) /\ Fitting(arms, o.sig, q[2]) BY DEF Refused
<1>3. d \in Nat /\ Used(o) <= q[4] /\ d <= MaxStack
  <2>1. \A u, v, x \in Nat : ~(u > x) => u <= x /\ x - u + v \in Nat OBVIOUS
  <2>2. Used(o) <= q[4] /\ d \in Nat
    <3> HIDE DEF o
    <3>1. ~(Used(o) > q[4]) BY <1>2
    <3>2. d = q[4] - Used(o) + Pushed(o) BY DEF o
    <3> QED BY <1>1, <2>1, <3>1, <3>2
  <2>3. \A x, l \in Nat : ~(x > l) => x <= l OBVIOUS
  <2> QED BY <1>2, <2>2, <2>3, StackAssumption
<1>4. /\ Len(arms) \in Nat /\ (arms = <<>> <=> Len(arms) = 0)
      /\ \A k \in 1 .. Len(arms) : arms[k].at \in Nat /\ arms[k].size \in Nat
      /\ AfterArms(q[3], arms) \in Nat /\ AfterArms(q[3], arms) > q[3]
  BY <1>1, ArmsAre, SMTT(120)
<1>5. /\ \A k \in 1 .. Len(arms) :
           /\ q[1] + arms[k].at \in Nat /\ arms[k].size < q[2] - q[3]
           /\ q[1] + arms[k].at + arms[k].size <= Len(p)
      /\ AfterArms(q[3], arms) <= q[2]
  BY <1>1, <1>2, FittingIs
<1>6. \A k \in 1 .. Len(arms) : <<q[1] + arms[k].at, arms[k].size, 0, d>> \in CheckPlaces(p)
  BY <1>3, <1>4, <1>5 DEF CheckPlaces
<1>7. \A e \in Nat : <<q[1], q[2], AfterArms(q[3], arms), e>> \in CheckPlaces(p)
  BY <1>1, <1>4 DEF CheckPlaces
<1> HIDE DEF o
<1> QED BY <1>2, <1>3, <1>4, <1>5, <1>6, <1>7 DEF o

(* The ends are numbers, finitely many. *)
LEMMA EndsAre ==
  ASSUME NEW p \in Seq(Op), NEW q \in CheckPlaces(p), q[3] < q[2], ~Refused(p, q),
         NEW f \in [CheckPlaces(p) -> Depths], ~\E e \in Ends(p, f, q) : e < 0
  PROVE  /\ Min(Ends(p, f, q)) \in Nat /\ \A e \in Ends(p, f, q) : Min(Ends(p, f, q)) <= e
         /\ Max(Ends(p, f, q)) \in Nat /\ \A e \in Ends(p, f, q) : e <= Max(Ends(p, f, q))
         /\ Ends(p, f, q) \subseteq Nat
<1> DEFINE arms == CheckedArms(p, q[1], q[2], q[3])
           o == At(p, q[1], q[3])
           d == q[4] - Used(o) + Pushed(o)
           place(k) == <<q[1] + arms[k].at, arms[k].size, 0, d>>
           A == {f[place(k)] : k \in 1 .. Len(arms)}
           Z == IF arms = <<>> \/ (o.sig = "if" /\ Len(arms) = 1) THEN {d} ELSE {}
           g == [k \in 1 .. Len(arms) |-> f[place(k)]]
<1>1. /\ d \in Nat /\ Len(arms) \in Nat /\ (arms = <<>> <=> Len(arms) = 0)
      /\ \A k \in 1 .. Len(arms) : place(k) \in CheckPlaces(p)
  BY CheckGoesOn
<1>2. Ends(p, f, q) = A \cup Z BY DEF Ends
<1> HIDE DEF place, d, o, arms
<1>3. \A x \in Depths : ~(x < 0) => x \in Nat BY DEF Depths
<1>4. \A k \in 1 .. Len(arms) : f[place(k)] \in Depths BY <1>1
<1>5. \A k \in 1 .. Len(arms) : f[place(k)] \in Nat
  <2>1. \A k \in 1 .. Len(arms) : ~(f[place(k)] < 0) BY <1>2
  <2> QED BY <1>3, <1>4, <2>1
<1>6. g \in [1 .. Len(arms) -> Nat] BY <1>5
<1>7. PICK b \in Nat : \A k \in 1 .. Len(arms) : g[k] <= b BY <1>1, <1>6, ImagesBounded
<1>8. \A k \in 1 .. Len(arms) : f[place(k)] <= b BY <1>7
<1> DEFINE c == b + d
<1>9. c \in Nat /\ b <= c /\ d <= c BY <1>1
<1>10. \A x \in A \cup Z : x \in Nat /\ x <= c BY <1>1, <1>5, <1>8, <1>9
<1>11. A \cup Z # {}
  <2>1. CASE arms = <<>> BY <2>1
  <2>2. CASE arms # <<>>
    <3>1. 1 \in 1 .. Len(arms) BY <1>1, <2>2
    <3> QED BY <3>1
  <2> QED BY <2>1, <2>2
<1> DEFINE E == Ends(p, f, q)
<1>12. E \subseteq Nat /\ E # {} /\ c \in Nat /\ \A x \in E : x <= c
  BY <1>2, <1>9, <1>10, <1>11
<1> HIDE DEF E, c
<1>13. /\ Min(E) \in E /\ \A x \in E : Min(E) <= x
       /\ Max(E) \in E /\ \A x \in E : x <= Max(E) BY <1>12, MinMaxIs
<1> QED BY <1>12, <1>13 DEF E

(* The abstract run of Begin ends on every function: an arm is shorter than  *)
(* what is left of its part, and so is what follows.                         *)
LEMMA ChecksAre ==
  ASSUME NEW p \in Seq(Op), NEW under \in BOOLEAN
  PROVE  /\ Checks(p, under) \in [CheckPlaces(p) -> Depths]
         /\ \A q \in CheckPlaces(p) : Checks(p, under)[q] = CheckStep(p, under, Checks(p, under), q)
<1> DEFINE D == CheckPlaces(p)
           m == [q \in D |-> IF q[3] >= q[2] THEN 0 ELSE q[2] - q[3]]
           B == [x \in [D -> Depths] \X D |-> CheckStep(p, under, x[1], x[2])]
           arms(q) == CheckedArms(p, q[1], q[2], q[3])
           d(q) == q[4] - Used(At(p, q[1], q[3])) + Pushed(At(p, q[1], q[3]))
           place(q, k) == <<q[1] + arms(q)[k].at, arms(q)[k].size, 0, d(q)>>
           next(q, e) == <<q[1], q[2], AfterArms(q[3], arms(q)), e>>
<1>1. \A f \in [D -> Depths] : \A q \in D : B[<<f, q>>] = CheckStep(p, under, f, q)
  OBVIOUS
<1>2. \A q \in D : q[1] \in Nat /\ q[2] \in Nat /\ q[3] \in Nat /\ q[4] \in Nat
  BY DEF CheckPlaces
<1>3. m \in [D -> Nat] BY <1>2
<1>4. \A q \in D : m[q] = IF q[3] >= q[2] THEN 0 ELSE q[2] - q[3] OBVIOUS
<1> HIDE DEF B, m
<1>5. ASSUME NEW q \in D, q[3] < q[2], ~Refused(p, q)
      PROVE  /\ \A k \in 1 .. Len(arms(q)) : place(q, k) \in D /\ m[place(q, k)] < m[q]
             /\ \A e \in Nat : next(q, e) \in D /\ m[next(q, e)] < m[q]
  <2>1. /\ Len(arms(q)) \in Nat
        /\ \A k \in 1 .. Len(arms(q)) :
             place(q, k) \in D /\ arms(q)[k].size \in Nat /\ arms(q)[k].size < q[2] - q[3]
        /\ AfterArms(q[3], arms(q)) \in Nat /\ AfterArms(q[3], arms(q)) > q[3]
        /\ \A e \in Nat : next(q, e) \in D
    BY <1>5, CheckGoesOn
  <2>2. m[q] = q[2] - q[3] BY <1>2, <1>4, <1>5
  <2>3. \A k \in 1 .. Len(arms(q)) : place(q, k)[2] = arms(q)[k].size /\ place(q, k)[3] = 0
    OBVIOUS
  <2>4. \A e \in Nat : next(q, e)[2] = q[2] /\ next(q, e)[3] = AfterArms(q[3], arms(q))
    OBVIOUS
  <2> HIDE DEF place, next, arms
  <2>5. ASSUME NEW k \in 1 .. Len(arms(q)) PROVE m[place(q, k)] < m[q]
    <3> DEFINE r == place(q, k)
               x == arms(q)[k].size
    <3>1. r \in D /\ r[2] = x /\ r[3] = 0 /\ x \in Nat /\ x < q[2] - q[3] BY <2>1, <2>3
    <3> HIDE DEF r, x
    <3>2. m[r] = IF 0 >= x THEN 0 ELSE x - 0 BY <1>4, <3>1
    <3> QED BY <1>2, <1>5, <2>2, <3>1, <3>2 DEF r
  <2>6. \A e \in Nat : m[next(q, e)] < m[q]
    BY <1>2, <1>4, <1>5, <2>1, <2>2, <2>4
  <2> QED BY <2>1, <2>5, <2>6
<1>6. ASSUME NEW f \in [D -> Depths], NEW q \in D
      PROVE  CheckStep(p, under, f, q) \in Depths
  <2>1. CASE q[3] >= q[2] BY <1>2, <2>1 DEF CheckStep, Depths
  <2>2. CASE q[3] < q[2] /\ (Refused(p, q) \/ \E e \in Ends(p, f, q) : e < 0)
    <3>1. ~(q[3] >= q[2]) BY <1>2, <2>2
    <3> QED BY <2>2, <3>1 DEF CheckStep, Depths
  <2>3. CASE q[3] < q[2] /\ ~Refused(p, q) /\ ~\E e \in Ends(p, f, q) : e < 0
    <3> DEFINE e0 == IF under THEN Min(Ends(p, f, q)) ELSE Max(Ends(p, f, q))
    <3>1. ~(q[3] >= q[2]) BY <1>2, <2>3
    <3>2. e0 \in Nat BY <2>3, EndsAre
    <3>3. CheckStep(p, under, f, q) = f[next(q, e0)] BY <2>3, <3>1 DEF CheckStep
    <3>4. next(q, e0) \in D BY <1>5, <2>3, <3>2
    <3> HIDE DEF e0, next
    <3> QED BY <3>3, <3>4
  <2> QED BY <1>2, <2>1, <2>2, <2>3
<1>7. ASSUME NEW f \in [D -> Depths], NEW g, NEW q \in D,
             \A r \in D : m[r] < m[q] => f[r] = g[r]
      PROVE  CheckStep(p, under, f, q) = CheckStep(p, under, g, q)
  <2>1. CASE q[3] >= q[2] BY <2>1 DEF CheckStep
  <2>2. CASE q[3] < q[2] /\ Refused(p, q)
    <3>1. ~(q[3] >= q[2]) BY <1>2, <2>2
    <3> QED BY <2>2, <3>1 DEF CheckStep
  <2>3. CASE q[3] < q[2] /\ ~Refused(p, q)
    <3>1. ~(q[3] >= q[2]) BY <1>2, <2>3
    <3>2. \A k \in 1 .. Len(arms(q)) : f[place(q, k)] = g[place(q, k)] BY <1>5, <1>7, <2>3
    <3>3. Ends(p, f, q) = Ends(p, g, q)
      <4>1. {f[place(q, k)] : k \in 1 .. Len(arms(q))} = {g[place(q, k)] : k \in 1 .. Len(arms(q))}
        <5>1. \A x : (\E k \in 1 .. Len(arms(q)) : x = f[place(q, k)])
                      <=> (\E k \in 1 .. Len(arms(q)) : x = g[place(q, k)]) BY <3>2
        <5> HIDE DEF place, arms
        <5> QED BY <5>1
      <4> QED BY <4>1 DEF Ends
    <3> DEFINE e0 == IF under THEN Min(Ends(p, f, q)) ELSE Max(Ends(p, f, q))
    <3>4. CASE \E e \in Ends(p, f, q) : e < 0 BY <2>3, <3>1, <3>3, <3>4 DEF CheckStep
    <3>5. CASE ~\E e \in Ends(p, f, q) : e < 0
      <4>1. e0 \in Nat BY <2>3, <3>5, EndsAre
      <4>2. f[next(q, e0)] = g[next(q, e0)] BY <1>5, <1>7, <2>3, <4>1
      <4>3. CheckStep(p, under, f, q) = f[next(q, e0)] BY <2>3, <3>1, <3>5 DEF CheckStep
      <4>4. CheckStep(p, under, g, q) = g[next(q, e0)] BY <2>3, <3>1, <3>3, <3>5 DEF CheckStep
      <4> QED BY <4>2, <4>3, <4>4
    <3> QED BY <3>4, <3>5
  <2> QED BY <1>2, <2>1, <2>2, <2>3
<1>8. Recursive(D, Depths, m, B)
  <2>1. Depths # {} BY DEF Depths
  <2> HIDE DEF D
  <2>2. \A f \in [D -> Depths] : \A q \in D : B[<<f, q>>] \in Depths BY <1>1, <1>6
  <2>3. \A f, g \in [D -> Depths] : \A q \in D :
          (\A r \in D : m[r] < m[q] => f[r] = g[r]) => B[<<f, q>>] = B[<<g, q>>]
    BY <1>1, <1>7
  <2> QED BY <1>3, <2>1, <2>2, <2>3 DEF Recursive
<1> DEFINE Runs(f) == f = [q \in D |-> CheckStep(p, under, f, q)]
<1>9. PICK f \in [D -> Depths] : \A q \in D : f[q] = CheckStep(p, under, f, q)
  <2>1. PICK f \in [D -> Depths] : \A q \in D : f[q] = B[<<f, q>>] BY <1>8, RecursionExists
  <2> QED BY <1>1, <2>1
<1> DEFINE C == Checks(p, under)
<1>10. C = [q \in D |-> CheckStep(p, under, C, q)]
  <2>1. Runs(f) BY <1>9
  <2>2. C = CHOOSE g : Runs(g) BY DEF Checks
  <2>3. Runs(C) BY <2>1, <2>2
  <2> QED BY <2>3
<1> HIDE DEF C, D
<1>11. \A q \in D : C[q] = CheckStep(p, under, C, q) BY <1>10
<1>12. \A q \in D : f[q] = C[q]
  <2>1. \A q \in D : (\A r \in D : m[r] < m[q] => f[r] = C[r]) => f[q] = C[q]
    BY <1>7, <1>9, <1>11
  <2>2. AgreeUpwards(D, m, f, C) BY <1>3, <2>1 DEF AgreeUpwards
  <2> QED BY <2>2, SameByMeasure
<1>13. C \in [D -> Depths]
  <2>1. \A q \in D : C[q] \in Depths BY <1>9, <1>12
  <2>2. C = [q \in D |-> C[q]] BY <1>10
  <2> QED BY <2>1, <2>2
<1> QED BY <1>11, <1>13 DEF C, D

-----------------------------------------------------------------------------
(* The nesting of blocks, likewise. *)

ArmsAt(p, q) == CheckedArms(p, q[1], q[2], q[3])
FitsAt(p, q) == Fitting(ArmsAt(p, q), At(p, q[1], q[3]).sig, q[2])
NextPlace(p, q) == <<q[1], q[2], AfterArms(q[3], ArmsAt(p, q))>>
ArmPlace(p, q, k) == <<q[1] + ArmsAt(p, q)[k].at, ArmsAt(p, q)[k].size, 0>>
LeftAt(q) == IF q[3] >= q[2] THEN 0 ELSE q[2] - q[3]

(* Behind the operator at hand and in its branches less of the function is   *)
(* left.                                                                     *)
LEMMA PlacesDescend ==
  ASSUME NEW p \in Seq(Op), NEW q \in Places(p), ~(q[3] >= q[2]), FitsAt(p, q)
  PROVE  /\ NextPlace(p, q) \in Places(p) /\ LeftAt(NextPlace(p, q)) < LeftAt(q)
         /\ \A k \in 1 .. Len(ArmsAt(p, q)) :
              ArmPlace(p, q, k) \in Places(p) /\ LeftAt(ArmPlace(p, q, k)) < LeftAt(q)
<1> DEFINE arms == ArmsAt(p, q)
<1>1. q[1] \in Nat /\ q[2] \in Nat /\ q[3] \in Nat /\ q[1] + q[2] <= Len(p) BY DEF Places
<1>2. /\ Len(arms) \in Nat
      /\ \A k \in 1 .. Len(arms) : arms[k].at \in Nat /\ arms[k].size \in Nat /\ arms[k].at > q[3]
      /\ AfterArms(q[3], arms) \in Nat /\ AfterArms(q[3], arms) > q[3]
  BY <1>1, ArmsAre, SMTT(40) DEF ArmsAt
<1>3. /\ \A k \in 1 .. Len(arms) :
           /\ q[1] + arms[k].at \in Nat /\ arms[k].size < q[2] - q[3]
           /\ q[1] + arms[k].at + arms[k].size <= Len(p)
  BY <1>1, FittingIs, SMTT(40) DEF ArmsAt, FitsAt
<1>4. LeftAt(q) = q[2] - q[3] BY DEF LeftAt
<1> HIDE DEF arms
<1>5. ASSUME NEW k \in 1 .. Len(arms)
      PROVE  ArmPlace(p, q, k) \in Places(p) /\ LeftAt(ArmPlace(p, q, k)) < LeftAt(q)
  <2> DEFINE x == arms[k].size
             y == q[1] + arms[k].at
  <2>1. ArmPlace(p, q, k) = <<y, x, 0>> BY DEF ArmPlace, arms
  <2>2. x \in Nat /\ y \in Nat /\ x < q[2] - q[3] /\ y + x <= Len(p) BY <1>2, <1>3
  <2> HIDE DEF x, y
  <2>3. LeftAt(<<y, x, 0>>) = IF 0 >= x THEN 0 ELSE x - 0 BY DEF LeftAt
  <2>4. LeftAt(<<y, x, 0>>) < LeftAt(q) BY <1>1, <1>4, <2>2, <2>3
  <2>5. <<y, x, 0>> \in Places(p) BY <2>2 DEF Places
  <2> QED BY <2>1, <2>4, <2>5
<1>6. NextPlace(p, q) \in Places(p) /\ LeftAt(NextPlace(p, q)) < LeftAt(q)
  <2> DEFINE x == AfterArms(q[3], arms)
  <2>1. NextPlace(p, q) = <<q[1], q[2], x>> BY DEF NextPlace, arms
  <2> HIDE DEF x
  <2>2. x \in Nat /\ x > q[3] BY <1>2 DEF x
  <2>3. LeftAt(<<q[1], q[2], x>>) = IF x >= q[2] THEN 0 ELSE q[2] - x BY DEF LeftAt
  <2>4. LeftAt(<<q[1], q[2], x>>) < LeftAt(q) BY <1>1, <1>4, <2>2, <2>3
  <2>5. <<q[1], q[2], x>> \in Places(p) BY <1>1, <2>2 DEF Places
  <2> QED BY <2>1, <2>4, <2>5
<1> QED BY <1>5, <1>6 DEF arms

NestedStep(p, nested, q) ==
  \/ q[3] >= q[2]
  \/ /\ At(p, q[1], q[3]).sig \notin {"else", "case", "dflt"}
     /\ FitsAt(p, q) =>
          /\ nested[NextPlace(p, q)]
          /\ \A k \in 1 .. Len(ArmsAt(p, q)) : nested[ArmPlace(p, q, k)]

Nested(p) == CHOOSE nested : nested = [q \in Places(p) |-> NestedStep(p, nested, q)]

(* WellNested is that function at the start. *)
LEMMA NestedFromStart ==
  ASSUME NEW p
  PROVE  WellNested(p) = Nested(p)[<<0, Len(p), 0>>]
BY DEF WellNested, Nested, NestedStep, ArmsAt, FitsAt, NextPlace, ArmPlace

(* It exists and does what its definition says. *)
LEMMA NestedIs ==
  ASSUME NEW p \in Seq(Op), NEW q \in Places(p)
  PROVE  Nested(p)[q] = NestedStep(p, Nested(p), q)
<1> DEFINE D == Places(p)
           m == [r \in D |-> LeftAt(r)]
           B == [x \in [D -> BOOLEAN] \X D |-> NestedStep(p, x[1], x[2])]
<1>1. \A f \in [D -> BOOLEAN] : \A r \in D : B[<<f, r>>] = NestedStep(p, f, r) OBVIOUS
<1>2. m \in [D -> Nat] /\ \A r \in D : m[r] = LeftAt(r)
  <2>1. \A r \in D : LeftAt(r) \in Nat BY DEF Places, LeftAt
  <2> QED BY <2>1
<1>3. \A f \in [D -> BOOLEAN] : \A r \in D : B[<<f, r>>] \in BOOLEAN BY <1>1 DEF NestedStep
<1>4. ASSUME NEW f \in [D -> BOOLEAN], NEW g \in [D -> BOOLEAN], NEW r \in D,
             \A s \in D : m[s] < m[r] => f[s] = g[s]
      PROVE  B[<<f, r>>] = B[<<g, r>>]
  <2> HIDE DEF B, m
  <2>1. CASE r[3] >= r[2] \/ ~FitsAt(p, r) BY <1>1, <2>1 DEF NestedStep
  <2>2. CASE ~(r[3] >= r[2]) /\ FitsAt(p, r)
    <3>1. /\ NextPlace(p, r) \in D /\ m[NextPlace(p, r)] < m[r]
          /\ \A k \in 1 .. Len(ArmsAt(p, r)) : ArmPlace(p, r, k) \in D /\ m[ArmPlace(p, r, k)] < m[r]
      BY <1>2, <2>2, PlacesDescend
    <3>2. f[NextPlace(p, r)] = g[NextPlace(p, r)]
          /\ \A k \in 1 .. Len(ArmsAt(p, r)) : f[ArmPlace(p, r, k)] = g[ArmPlace(p, r, k)]
      BY <1>4, <3>1
    <3>3. NestedStep(p, f, r) = NestedStep(p, g, r) BY <3>2 DEF NestedStep
    <3> QED BY <1>1, <3>3
  <2> QED BY <2>1, <2>2
<1> HIDE DEF B, m
<1>5. Recursive(D, BOOLEAN, m, B)
  <2> HIDE DEF D
  <2> QED BY <1>2, <1>3, <1>4 DEF Recursive
<1> DEFINE Runs(f) == f = [r \in D |-> NestedStep(p, f, r)]
<1>6. \E f : Runs(f)
  <2>1. PICK f \in [D -> BOOLEAN] : \A r \in D : f[r] = B[<<f, r>>] BY <1>5, RecursionExists
  <2>2. \A r \in D : f[r] = NestedStep(p, f, r) BY <1>1, <2>1
  <2> QED BY <2>2
<1> DEFINE C == Nested(p)
<1>7. C = [r \in D |-> NestedStep(p, C, r)]
  <2>1. C = CHOOSE g : Runs(g) BY DEF Nested
  <2>2. Runs(C) BY <1>6, <2>1
  <2> QED BY <2>2
<1> HIDE DEF C
<1>8. C[q] = NestedStep(p, C, q) BY <1>7
<1> QED BY <1>8 DEF C

DeepStep(p, deep, q) ==
  IF q[3] >= q[2] \/ ~FitsAt(p, q) THEN 0
  ELSE Max({deep[NextPlace(p, q)]}
           \cup {1 + deep[ArmPlace(p, q, k)] : k \in 1 .. Len(ArmsAt(p, q))})

Deep(p) == CHOOSE deep : deep = [q \in Places(p) |-> DeepStep(p, deep, q)]

(* Nesting is that function at the start. *)
LEMMA DeepFromStart ==
  ASSUME NEW p
  PROVE  Nesting(p) = Deep(p)[<<0, Len(p), 0>>]
BY DEF Nesting, Deep, DeepStep, ArmsAt, FitsAt, NextPlace, ArmPlace

Depth(p, f, q) ==
  {f[NextPlace(p, q)]} \cup {1 + f[ArmPlace(p, q, k)] : k \in 1 .. Len(ArmsAt(p, q))}

(* The deepest of the branches and of what follows is a number no less than  *)
(* any.                                                                      *)
LEMMA DepthMax ==
  ASSUME NEW p \in Seq(Op), NEW q \in Places(p), ~(q[3] >= q[2]), FitsAt(p, q),
         NEW f \in [Places(p) -> Nat]
  PROVE  /\ DeepStep(p, f, q) \in Nat
         /\ f[NextPlace(p, q)] <= DeepStep(p, f, q)
         /\ \A k \in 1 .. Len(ArmsAt(p, q)) : 1 + f[ArmPlace(p, q, k)] <= DeepStep(p, f, q)
<1> DEFINE n == Len(ArmsAt(p, q))
           a(k) == ArmPlace(p, q, k)
           g == [k \in 1 .. n |-> f[a(k)]]
           E == Depth(p, f, q)
           x == f[NextPlace(p, q)]
<1>1. NextPlace(p, q) \in Places(p) /\ \A k \in 1 .. n : a(k) \in Places(p)
  BY PlacesDescend
<1>2. n \in Nat
  <2>1. q[1] \in Nat /\ q[2] \in Nat /\ q[3] \in Nat /\ q[1] + q[2] <= Len(p) /\ q[3] < q[2]
    BY DEF Places
  <2> QED BY <2>1, ArmsAre DEF ArmsAt
<1> HIDE DEF n, a
<1>3. x \in Nat /\ \A k \in 1 .. n : f[a(k)] \in Nat BY <1>1
<1>4. PICK b \in Nat : \A k \in 1 .. n : g[k] <= b
  <2>1. g \in [1 .. n -> Nat] BY <1>3
  <2> HIDE DEF g
  <2> QED BY <1>2, <2>1, ImagesBounded
<1>5. \A k \in 1 .. n : f[a(k)] <= b BY <1>4
<1> HIDE DEF x
<1>6. E = {x} \cup {1 + f[a(k)] : k \in 1 .. n} BY DEF Depth, x, a, n
<1> DEFINE c == b + x + 1
<1>7. E \subseteq Nat /\ E # {} /\ c \in Nat /\ \A y \in E : y <= c BY <1>3, <1>5, <1>6
<1> HIDE DEF E, c
<1>8. Max(E) \in E /\ \A y \in E : y <= Max(E) BY <1>7, MinMaxIs
<1>9. DeepStep(p, f, q) = Max(E) BY DEF DeepStep, E, Depth
<1>10. x \in E /\ \A k \in 1 .. n : 1 + f[a(k)] \in E BY <1>6
<1> QED BY <1>7, <1>8, <1>9, <1>10 DEF x, a, n

(* The nesting depth exists and does what its definition says. *)
LEMMA DeepAre ==
  ASSUME NEW p \in Seq(Op)
  PROVE  /\ Deep(p) \in [Places(p) -> Nat]
         /\ \A q \in Places(p) : Deep(p)[q] = DeepStep(p, Deep(p), q)
<1> DEFINE D == Places(p)
           m == [r \in D |-> LeftAt(r)]
           B == [x \in [D -> Nat] \X D |-> DeepStep(p, x[1], x[2])]
<1>1. \A f \in [D -> Nat] : \A r \in D : B[<<f, r>>] = DeepStep(p, f, r) OBVIOUS
<1>2. m \in [D -> Nat] /\ \A r \in D : m[r] = LeftAt(r)
  <2>1. \A r \in D : LeftAt(r) \in Nat BY DEF Places, LeftAt
  <2> QED BY <2>1
<1>3. ASSUME NEW f \in [D -> Nat], NEW r \in D PROVE DeepStep(p, f, r) \in Nat
  <2>1. CASE r[3] >= r[2] \/ ~FitsAt(p, r) BY <2>1 DEF DeepStep
  <2>2. CASE ~(r[3] >= r[2]) /\ FitsAt(p, r) BY <2>2, DepthMax
  <2> QED BY <2>1, <2>2
<1>4. ASSUME NEW f \in [D -> Nat], NEW g, NEW r \in D,
             \A s \in D : m[s] < m[r] => f[s] = g[s]
      PROVE  DeepStep(p, f, r) = DeepStep(p, g, r)
  <2> HIDE DEF B, m
  <2>1. CASE r[3] >= r[2] \/ ~FitsAt(p, r) BY <2>1 DEF DeepStep
  <2>2. CASE ~(r[3] >= r[2]) /\ FitsAt(p, r)
    <3> DEFINE n == Len(ArmsAt(p, r))
               a(k) == ArmPlace(p, r, k)
    <3>1. /\ NextPlace(p, r) \in D /\ m[NextPlace(p, r)] < m[r]
          /\ \A k \in 1 .. n : a(k) \in D /\ m[a(k)] < m[r]
      BY <1>2, <2>2, PlacesDescend
    <3>2. f[NextPlace(p, r)] = g[NextPlace(p, r)] /\ \A k \in 1 .. n : f[a(k)] = g[a(k)]
      BY <1>4, <3>1
    <3>3. Depth(p, f, r) = Depth(p, g, r)
      <4>1. \A x : (\E k \in 1 .. n : x = 1 + f[a(k)]) <=> (\E k \in 1 .. n : x = 1 + g[a(k)])
        BY <3>2
      <4> HIDE DEF n, a
      <4>2. {1 + f[a(k)] : k \in 1 .. n} = {1 + g[a(k)] : k \in 1 .. n} BY <4>1
      <4> QED BY <3>2, <4>2 DEF Depth, n, a
    <3> QED BY <2>2, <3>3 DEF DeepStep, Depth
  <2> QED BY <2>1, <2>2
<1> HIDE DEF B, m
<1>5. Recursive(D, Nat, m, B)
  <2> HIDE DEF D
  <2>1. \A f \in [D -> Nat] : \A r \in D : B[<<f, r>>] \in Nat BY <1>1, <1>3
  <2>2. \A f, g \in [D -> Nat] : \A r \in D :
          (\A s \in D : m[s] < m[r] => f[s] = g[s]) => B[<<f, r>>] = B[<<g, r>>]
    <3> TAKE f, g \in [D -> Nat]
    <3> TAKE r \in D
    <3> HAVE \A s \in D : m[s] < m[r] => f[s] = g[s]
    <3>1. DeepStep(p, f, r) = DeepStep(p, g, r) BY <1>4
    <3> QED BY <1>1, <3>1
  <2> QED BY <1>2, <2>1, <2>2 DEF Recursive
<1> DEFINE Runs(f) == f = [r \in D |-> DeepStep(p, f, r)]
<1>6. PICK f \in [D -> Nat] : \A r \in D : f[r] = DeepStep(p, f, r)
  <2>1. PICK f \in [D -> Nat] : \A r \in D : f[r] = B[<<f, r>>] BY <1>5, RecursionExists
  <2> QED BY <1>1, <2>1
<1> DEFINE C == Deep(p)
<1>7. C = [r \in D |-> DeepStep(p, C, r)]
  <2>1. Runs(f) BY <1>6
  <2>2. C = CHOOSE g : Runs(g) BY DEF Deep
  <2>3. Runs(C) BY <2>1, <2>2
  <2> QED BY <2>3
<1> HIDE DEF C, D
<1>8. \A r \in D : C[r] = DeepStep(p, C, r) BY <1>7
<1>9. \A r \in D : f[r] = C[r]
  <2>1. \A r \in D : (\A s \in D : m[s] < m[r] => f[s] = C[s]) => f[r] = C[r]
    BY <1>4, <1>6, <1>8
  <2>2. AgreeUpwards(D, m, f, C) BY <1>2, <2>1 DEF AgreeUpwards
  <2> QED BY <2>2, SameByMeasure
<1>10. C \in [D -> Nat]
  <2>1. \A r \in D : C[r] \in Nat BY <1>6, <1>9
  <2>2. C = [r \in D |-> C[r]] BY <1>7
  <2> QED BY <2>1, <2>2
<1> QED BY <1>8, <1>10 DEF C, D

-----------------------------------------------------------------------------
(* The calls at work and what an analysis of the function says of each. *)

(* Where a part goes on: a caller after the arms of the operator it stands   *)
(* at.  w says whether the innermost part waits too, its call having         *)
(* returned.                                                                 *)
After(p, f) == [f EXCEPT !.pc = AfterArms(f.pc, CheckedArms(p, f.base, f.n, f.pc))]

Rest(p, fs, w, k) == IF k < Len(fs) \/ w THEN After(p, fs[k]) ELSE fs[k]

(* What a part still contributes by the analysis F, which starts with x.     *)
Value(F, f, x) == F[<<f.base, f.n, f.pc, x>>]

(* The parts at work agree with an analysis F of the function p: xs is what  *)
(* F counted with where each goes on, a callee's result is related by R to   *)
(* what its caller was promised, and the whole amounts to T.                 *)
Tracks(p, F, X, V, R, T, fs, w, xs) ==
  /\ xs \in Seq(X) /\ Len(xs) = Len(fs)
  /\ \A k \in 1 .. Len(fs) : Value(F, Rest(p, fs, w, k), xs[k]) \in V
  /\ \A k \in 1 .. Len(fs) - 1 : <<xs[k], Value(F, Rest(p, fs, w, k + 1), xs[k + 1])>> \in R
  /\ fs # <<>> => Value(F, Rest(p, fs, w, 1), xs[1]) = T

(* The innermost part goes on, its caller being promised the same. *)
LEMMA TracksAdvance ==
  ASSUME NEW p, NEW F, NEW X, NEW V, NEW R, NEW T, NEW fs \in Seq(Frame), NEW w, NEW xs,
         fs # <<>>, Tracks(p, F, X, V, R, T, fs, w, xs),
         NEW g \in Frame, NEW e \in X,
         Value(F, g, e) = Value(F, Rest(p, fs, w, Len(fs)), xs[Len(fs)])
  PROVE  Tracks(p, F, X, V, R, T, [fs EXCEPT ![Len(fs)] = g], FALSE, [xs EXCEPT ![Len(fs)] = e])
<1> DEFINE L == Len(fs)
           gs == [fs EXCEPT ![L] = g]
           es == [xs EXCEPT ![L] = e]
<1>1. L \in Nat /\ L \in 1 .. L BY EmptySeq, LenProperties
<1>2. xs \in Seq(X) /\ Len(xs) = L BY DEF Tracks
<1>3. /\ gs \in Seq(Frame) /\ Len(gs) = L /\ gs[L] = g
      /\ \A k \in 1 .. L : k # L => gs[k] = fs[k] BY <1>1
<1>4. /\ es \in Seq(X) /\ Len(es) = L /\ es[L] = e
      /\ \A k \in 1 .. L : k # L => es[k] = xs[k] BY <1>1, <1>2
<1> HIDE DEF gs, es
<1>5. \A k \in 1 .. L : Value(F, Rest(p, gs, FALSE, k), es[k]) = Value(F, Rest(p, fs, w, k), xs[k])
  <2> TAKE k \in 1 .. L
  <2>1. CASE k = L BY <1>1, <1>3, <1>4, <2>1 DEF Rest
  <2>2. CASE k # L
    <3>1. k < L BY <1>1, <2>2
    <3> QED BY <1>3, <1>4, <2>2, <3>1 DEF Rest
  <2> QED BY <2>1, <2>2
<1>6. \A k \in 1 .. L - 1 : k \in 1 .. L /\ k + 1 \in 1 .. L /\ k # L BY <1>1
<1>7. \A k \in 1 .. L : Value(F, Rest(p, gs, FALSE, k), es[k]) \in V BY <1>5 DEF Tracks
<1>8. \A k \in 1 .. L - 1 : <<es[k], Value(F, Rest(p, gs, FALSE, k + 1), es[k + 1])>> \in R
  BY <1>4, <1>5, <1>6 DEF Tracks
<1>9. Value(F, Rest(p, gs, FALSE, 1), es[1]) = T
  <2>1. 1 \in 1 .. L BY <1>1
  <2> QED BY <1>5, <2>1 DEF Tracks
<1> QED BY <1>3, <1>4, <1>7, <1>8, <1>9 DEF Tracks, gs, es

(* A branch begins: its caller will go on with e, which the branch must make *)
(* good.                                                                     *)
LEMMA TracksEnter ==
  ASSUME NEW p, NEW F, NEW X, NEW V, NEW R, NEW T, NEW fs \in Seq(Frame), NEW xs,
         fs # <<>>, Tracks(p, F, X, V, R, T, fs, FALSE, xs),
         NEW g \in Frame, NEW e \in X, NEW e0 \in X,
         Value(F, After(p, fs[Len(fs)]), e) = Value(F, fs[Len(fs)], xs[Len(fs)]),
         Value(F, g, e0) \in V, <<e, Value(F, g, e0)>> \in R
  PROVE  Tracks(p, F, X, V, R, T, Append(fs, g), FALSE, Append([xs EXCEPT ![Len(fs)] = e], e0))
<1> DEFINE L == Len(fs)
           gs == Append(fs, g)
           ys == [xs EXCEPT ![L] = e]
           es == Append(ys, e0)
<1>1. L \in Nat /\ L \in 1 .. L BY EmptySeq, LenProperties
<1>2. xs \in Seq(X) /\ Len(xs) = L BY DEF Tracks
<1>3. /\ gs \in Seq(Frame) /\ Len(gs) = L + 1 /\ gs[L + 1] = g
      /\ \A k \in 1 .. L : gs[k] = fs[k] BY <1>1
<1>4. /\ ys \in Seq(X) /\ Len(ys) = L /\ ys[L] = e
      /\ \A k \in 1 .. L : k # L => ys[k] = xs[k] BY <1>1, <1>2
<1> HIDE DEF ys
<1>5. /\ es \in Seq(X) /\ Len(es) = L + 1 /\ es[L + 1] = e0
      /\ \A k \in 1 .. L : es[k] = ys[k] BY <1>1, <1>4
<1> HIDE DEF gs, es
<1>6. \A k \in 1 .. L : Value(F, Rest(p, gs, FALSE, k), es[k]) = Value(F, Rest(p, fs, FALSE, k), xs[k])
  <2> TAKE k \in 1 .. L
  <2>0. k < L + 1 BY <1>1
  <2>1. CASE k = L BY <1>1, <1>3, <1>4, <1>5, <2>0, <2>1 DEF Rest
  <2>2. CASE k # L
    <3>1. k < L BY <1>1, <2>2
    <3> QED BY <1>3, <1>4, <1>5, <2>0, <2>2, <3>1 DEF Rest
  <2> QED BY <2>1, <2>2
<1>7. Value(F, Rest(p, gs, FALSE, L + 1), es[L + 1]) = Value(F, g, e0)
  BY <1>1, <1>3, <1>5 DEF Rest
<1>8. \A k \in 1 .. L + 1 : Value(F, Rest(p, gs, FALSE, k), es[k]) \in V
  <2> TAKE k \in 1 .. L + 1
  <2>1. k \in 1 .. L \/ k = L + 1 BY <1>1
  <2> QED BY <1>6, <1>7, <2>1 DEF Tracks
<1>9. \A k \in 1 .. L : <<es[k], Value(F, Rest(p, gs, FALSE, k + 1), es[k + 1])>> \in R
  <2> TAKE k \in 1 .. L
  <2>1. CASE k = L BY <1>1, <1>4, <1>5, <1>7, <2>1
  <2>2. CASE k # L
    <3>1. k \in 1 .. L - 1 /\ k + 1 \in 1 .. L BY <1>1, <2>2
    <3>2. es[k] = xs[k] BY <1>4, <1>5, <2>2
    <3>3. <<xs[k], Value(F, Rest(p, fs, FALSE, k + 1), xs[k + 1])>> \in R BY <3>1 DEF Tracks
    <3> QED BY <1>6, <3>1, <3>2, <3>3
  <2> QED BY <2>1, <2>2
<1>10. Value(F, Rest(p, gs, FALSE, 1), es[1]) = T
  <2>1. 1 \in 1 .. L BY <1>1
  <2> QED BY <1>6, <2>1 DEF Tracks
<1>11. L + 1 - 1 = L BY <1>1
<1>12. Tracks(p, F, X, V, R, T, gs, FALSE, es)
  <2>1. Len(es) = Len(gs) /\ Len(gs) - 1 = L BY <1>3, <1>5, <1>11
  <2>2. \A k \in 1 .. Len(gs) : Value(F, Rest(p, gs, FALSE, k), es[k]) \in V BY <1>3, <1>8
  <2>3. \A k \in 1 .. Len(gs) - 1 : <<es[k], Value(F, Rest(p, gs, FALSE, k + 1), es[k + 1])>> \in R
    BY <1>9, <2>1
  <2> QED BY <1>5, <1>10, <2>1, <2>2, <2>3 DEF Tracks
<1> QED BY <1>12 DEF gs, es, ys

(* A branch ends, and its caller waits no more. *)
LEMMA TracksLeave ==
  ASSUME NEW p, NEW F, NEW X, NEW V, NEW R, NEW T, NEW fs \in Seq(Frame), NEW xs,
         Len(fs) > 1, Tracks(p, F, X, V, R, T, fs, FALSE, xs)
  PROVE  /\ Tracks(p, F, X, V, R, T, SubSeq(fs, 1, Len(fs) - 1), TRUE, SubSeq(xs, 1, Len(fs) - 1))
         /\ SubSeq(xs, 1, Len(fs) - 1)[Len(fs) - 1] = xs[Len(fs) - 1]
<1> DEFINE L == Len(fs)
           gs == SubSeq(fs, 1, L - 1)
           es == SubSeq(xs, 1, L - 1)
<1>1. L \in Nat /\ L > 1 BY LenProperties
<1>2. xs \in Seq(X) /\ Len(xs) = L BY DEF Tracks
<1>3. gs \in Seq(Frame) /\ Len(gs) = L - 1 /\ \A k \in 1 .. L - 1 : gs[k] = fs[k]
  BY <1>1
<1>4. es \in Seq(X) /\ Len(es) = L - 1 /\ \A k \in 1 .. L - 1 : es[k] = xs[k]
  BY <1>1, <1>2
<1> HIDE DEF gs, es
<1>5. \A k \in 1 .. L - 1 : k \in 1 .. L /\ k < L BY <1>1
<1>6. \A k \in 1 .. L - 1 : Value(F, Rest(p, gs, TRUE, k), es[k]) = Value(F, Rest(p, fs, FALSE, k), xs[k])
  BY <1>3, <1>4, <1>5 DEF Rest
<1>7. \A k \in 1 .. L - 1 : Value(F, Rest(p, gs, TRUE, k), es[k]) \in V
  BY <1>5, <1>6 DEF Tracks
<1>8. \A k \in 1 .. L - 1 - 1 : <<es[k], Value(F, Rest(p, gs, TRUE, k + 1), es[k + 1])>> \in R
  <2> TAKE k \in 1 .. L - 1 - 1
  <2>1. k \in 1 .. L - 1 /\ k + 1 \in 1 .. L - 1 BY <1>1
  <2>2. <<xs[k], Value(F, Rest(p, fs, FALSE, k + 1), xs[k + 1])>> \in R BY <2>1 DEF Tracks
  <2> QED BY <1>4, <1>6, <2>1, <2>2
<1>9. Value(F, Rest(p, gs, TRUE, 1), es[1]) = T
  <2>1. 1 \in 1 .. L - 1 /\ fs # <<>> BY <1>1
  <2> QED BY <1>6, <2>1 DEF Tracks
<1>10. L - 1 \in 1 .. L - 1 BY <1>1
<1> QED BY <1>3, <1>4, <1>7, <1>8, <1>9, <1>10 DEF Tracks, gs, es

(* Every part is of N where it goes on, and those that wait are of C. *)
Fine(p, C, N, fs, w) ==
  \A k \in 1 .. Len(fs) :
    /\ k < Len(fs) \/ w => fs[k] \in C
    /\ <<Rest(p, fs, w, k), k>> \in N

(* The same three steps for what is said of each part alone. *)
LEMMA FineMoves ==
  ASSUME NEW p, NEW C, NEW N, NEW fs \in Seq(Frame), NEW w, fs # <<>>, Fine(p, C, N, fs, w),
         NEW g \in Frame
  PROVE  /\ <<g, Len(fs)>> \in N => Fine(p, C, N, [fs EXCEPT ![Len(fs)] = g], FALSE)
         /\ /\ fs[Len(fs)] \in C /\ <<After(p, fs[Len(fs)]), Len(fs)>> \in N
            /\ <<g, Len(fs) + 1>> \in N
            => Fine(p, C, N, Append(fs, g), FALSE)
         /\ Fine(p, C, N, SubSeq(fs, 1, Len(fs) - 1), TRUE)
<1> DEFINE L == Len(fs)
<1>1. L \in Nat /\ L \in 1 .. L BY EmptySeq, LenProperties
<1>2. \A k \in 1 .. L - 1 : k \in 1 .. L /\ k < L /\ k # L BY <1>1
<1>3. \A k \in 1 .. L - 1 : fs[k] \in C /\ <<After(p, fs[k]), k>> \in N BY <1>2 DEF Fine, Rest
<1>4. ASSUME <<g, L>> \in N PROVE Fine(p, C, N, [fs EXCEPT ![L] = g], FALSE)
  <2> DEFINE gs == [fs EXCEPT ![L] = g]
  <2>1. Len(gs) = L /\ gs[L] = g /\ \A k \in 1 .. L - 1 : gs[k] = fs[k] BY <1>1, <1>2
  <2> HIDE DEF gs
  <2>2. \A k \in 1 .. L : k = L \/ k \in 1 .. L - 1 BY <1>1
  <2>3. \A k \in 1 .. L : /\ k < L => gs[k] \in C
                          /\ <<Rest(p, gs, FALSE, k), k>> \in N
    <3> TAKE k \in 1 .. L
    <3>1. CASE k = L BY <1>1, <1>4, <2>1, <3>1 DEF Rest
    <3>2. CASE k \in 1 .. L - 1 BY <1>2, <1>3, <2>1, <3>2 DEF Rest
    <3> QED BY <2>2, <3>1, <3>2
  <2> QED BY <2>1, <2>3 DEF Fine, gs
<1>5. ASSUME fs[L] \in C, <<After(p, fs[L]), L>> \in N, <<g, L + 1>> \in N
      PROVE  Fine(p, C, N, Append(fs, g), FALSE)
  <2> DEFINE gs == Append(fs, g)
  <2>1. Len(gs) = L + 1 /\ gs[L + 1] = g /\ \A k \in 1 .. L : gs[k] = fs[k] BY <1>1
  <2> HIDE DEF gs
  <2>2. \A k \in 1 .. L + 1 : k = L + 1 \/ (k = L /\ k < L + 1 /\ k \in 1 .. L)
                              \/ (k \in 1 .. L - 1 /\ k < L + 1 /\ k \in 1 .. L) BY <1>1
  <2>3. \A k \in 1 .. L + 1 : /\ k < L + 1 => gs[k] \in C
                              /\ <<Rest(p, gs, FALSE, k), k>> \in N
    <3> TAKE k \in 1 .. L + 1
    <3>1. CASE k = L + 1 BY <1>1, <1>5, <2>1, <3>1 DEF Rest
    <3>2. CASE k = L /\ k < L + 1 /\ k \in 1 .. L BY <1>5, <2>1, <3>2 DEF Rest
    <3>3. CASE k \in 1 .. L - 1 /\ k < L + 1 /\ k \in 1 .. L BY <1>3, <2>1, <3>3 DEF Rest
    <3> QED BY <2>2, <3>1, <3>2, <3>3
  <2> QED BY <2>1, <2>3 DEF Fine, gs
<1>6. Fine(p, C, N, SubSeq(fs, 1, L - 1), TRUE)
  <2> DEFINE gs == SubSeq(fs, 1, L - 1)
  <2>1. Len(gs) = L - 1 /\ \A k \in 1 .. L - 1 : gs[k] = fs[k]
    <3>1. CASE L = 1 BY <1>1, <3>1
    <3>2. CASE L > 1 BY <1>1, <3>2
    <3>3. L = 1 \/ L > 1 BY <1>1
    <3> QED BY <3>1, <3>2, <3>3
  <2> HIDE DEF gs
  <2>2. \A k \in 1 .. L - 1 : gs[k] \in C /\ <<Rest(p, gs, TRUE, k), k>> \in N
    BY <1>3, <2>1 DEF Rest
  <2> QED BY <2>1, <2>2 DEF Fine, gs
<1> QED BY <1>4, <1>5, <1>6

(* The bound the check keeps: a smallest depth is no more, a largest one no  *)
(* less than what it bounds.                                                 *)
Near(under) == {r \in Nat \X Nat : IF under THEN r[1] <= r[2] ELSE r[2] <= r[1]}

Within(p) == {f \in Frame : f.base + f.n <= Len(p)}
Place(f) == <<f.base, f.n, f.pc>>
OpAt(p, f) == At(p, f.base, f.pc)
ArmsOf(p, f) == CheckedArms(p, f.base, f.n, f.pc)
ArmFrame(p, f, k) ==
  [base |-> f.base + ArmsOf(p, f)[k].at, n |-> ArmsOf(p, f)[k].size, pc |-> 0]

(* The depth the check counts behind an operator, and e what it goes on with *)
(* after the branches: a bound of what each of them leaves.                  *)
Counted(p, f, x) == x - Used(OpAt(p, f)) + Pushed(OpAt(p, f))

GoesOn(p, under, f, x, e) ==
  /\ Value(Checks(p, under), After(p, f), e) = Value(Checks(p, under), f, x)
  /\ \A k \in 1 .. Len(ArmsOf(p, f)) :
       /\ Value(Checks(p, under), ArmFrame(p, f, k), Counted(p, f, x)) \in Nat
       /\ <<e, Value(Checks(p, under), ArmFrame(p, f, k), Counted(p, f, x))>> \in Near(under)
  /\ ArmsOf(p, f) = <<>> => e = Counted(p, f, x)
  /\ OpAt(p, f).sig = "if" /\ Len(ArmsOf(p, f)) = 1 => <<e, Counted(p, f, x)>> \in Near(under)

(* One operator of an accepted function as the check counts it. *)
LEMMA CheckedStep ==
  ASSUME NEW p \in Seq(Op), NEW under \in BOOLEAN, NEW f \in Within(p), f.pc < f.n,
         NEW x \in Nat, Value(Checks(p, under), f, x) \in Nat
  PROVE  /\ Counted(p, f, x) \in Nat /\ Used(OpAt(p, f)) <= x
         /\ Used(OpAt(p, f)) \in Nat /\ Pushed(OpAt(p, f)) \in Nat
         /\ Fitting(ArmsOf(p, f), OpAt(p, f).sig, f.n)
         /\ OpAt(p, f).sig = "sel" => ArmsOf(p, f) # <<>>
         /\ \E e \in Nat : GoesOn(p, under, f, x, e)
<1> DEFINE q == <<f.base, f.n, f.pc, x>>
           d == Counted(p, f, x)
           arms == ArmsOf(p, f)
           F == Checks(p, under)
           o == OpAt(p, f)
           E == Ends(p, F, q)
           e == IF under THEN Min(E) ELSE Max(E)
           v(k) == F[<<q[1] + arms[k].at, arms[k].size, 0, d>>]
<1>1. q \in CheckPlaces(p) /\ q[3] < q[2] /\ ~(q[3] >= q[2]) BY DEF Within, Frame, CheckPlaces
<1>2. q[1] = f.base /\ q[2] = f.n /\ q[3] = f.pc /\ q[4] = x OBVIOUS
<1>3. F \in [CheckPlaces(p) -> Depths] /\ F[q] = CheckStep(p, under, F, q) BY <1>1, ChecksAre
<1>4. F[q] \in Nat BY DEF Value
<1>5. o = At(p, q[1], q[3]) /\ arms = CheckedArms(p, q[1], q[2], q[3])
      /\ d = q[4] - Used(At(p, q[1], q[3])) + Pushed(At(p, q[1], q[3])) BY DEF OpAt, ArmsOf, Counted
<1> HIDE DEF q, F, o, d, arms
<1>6. /\ ~Refused(p, q)
      /\ ~\E y \in E : y < 0
      /\ F[q] = F[<<q[1], q[2], AfterArms(q[3], arms), e>>]
  BY <1>1, <1>3, <1>4, <1>5 DEF CheckStep
<1>7. /\ d \in Nat /\ Used(o) <= q[4]
      /\ Fitting(arms, o.sig, q[2])
      /\ Len(arms) \in Nat /\ (arms = <<>> <=> Len(arms) = 0)
  BY <1>1, <1>5, <1>6, CheckGoesOn
<1>8. Used(o) \in Nat /\ Pushed(o) \in Nat BY <1>1, <1>5, CheckedIs
<1>9. o.sig = "sel" => arms # <<>> BY <1>5, <1>6 DEF Refused
<1>10. /\ Min(E) \in Nat /\ \A y \in E : Min(E) <= y
       /\ Max(E) \in Nat /\ \A y \in E : y <= Max(E)
       /\ E \subseteq Nat
  BY <1>1, <1>3, <1>6, EndsAre
<1>11. E = {v(k) : k \in 1 .. Len(arms)}
           \cup (IF arms = <<>> \/ (o.sig = "if" /\ Len(arms) = 1) THEN {d} ELSE {})
  BY <1>5 DEF Ends
<1> HIDE DEF E
<1>12. e \in Nat /\ \A y \in E : y \in Nat /\ <<e, y>> \in Near(under) BY <1>10 DEF Near
<1>13. arms = <<>> => e = d
  <2> SUFFICES ASSUME arms = <<>> PROVE e = d OBVIOUS
  <2>1. Len(arms) = 0 BY <1>7
  <2>2. E = {d} BY <1>11, <2>1
  <2>3. \A y \in E : y = d BY <2>2
  <2>4. d \in E BY <2>2
  <2>5. Min(E) <= d /\ d <= Max(E) BY <1>10, <2>4
  <2>6. Min({d}) = d /\ Max({d}) = d
    <3>1. {d} \subseteq Nat /\ {d} # {} /\ \A y \in {d} : y <= d BY <1>7
    <3> QED BY <1>7, <3>1, MinMaxIs
  <2> QED BY <2>2, <2>6
<1> HIDE DEF e
<1>14. \A k \in 1 .. Len(arms) : v(k) \in Nat /\ <<e, v(k)>> \in Near(under) BY <1>11, <1>12
<1>15. o.sig = "if" /\ Len(arms) = 1 => <<e, d>> \in Near(under) BY <1>11, <1>12
<1>16. \A k \in 1 .. Len(arms) : Value(F, ArmFrame(p, f, k), d) = v(k)
  BY <1>2 DEF Value, ArmFrame, arms, q
<1>17. Value(F, After(p, f), e) = F[<<q[1], q[2], AfterArms(q[3], arms), e>>]
  BY <1>2 DEF Value, After, ArmsOf, arms, Within, Frame
<1>18. Value(F, f, x) = F[q] BY DEF Value, q
<1>19. Value(F, After(p, f), e) = Value(F, f, x) BY <1>6, <1>17, <1>18
<1>20. \A k \in 1 .. Len(arms) :
         /\ Value(F, ArmFrame(p, f, k), d) \in Nat
         /\ <<e, Value(F, ArmFrame(p, f, k), d)>> \in Near(under)
  BY <1>14, <1>16
<1>21. e \in Nat BY <1>12
<1>22. \E y \in Nat :
         /\ Value(F, After(p, f), y) = Value(F, f, x)
         /\ \A k \in 1 .. Len(arms) :
              /\ Value(F, ArmFrame(p, f, k), d) \in Nat
              /\ <<y, Value(F, ArmFrame(p, f, k), d)>> \in Near(under)
         /\ arms = <<>> => y = d
         /\ o.sig = "if" /\ Len(arms) = 1 => <<y, d>> \in Near(under)
  BY <1>13, <1>15, <1>19, <1>20, <1>21
<1>23. d \in Nat /\ Used(o) <= x /\ Fitting(arms, o.sig, f.n) BY <1>2, <1>7
<1>24. \E e1 \in Nat : GoesOn(p, under, f, x, e1) BY <1>22 DEF GoesOn, F, o, d, arms
<1> QED BY <1>8, <1>9, <1>23, <1>24 DEF o, d, arms

(* The operator at a place of a function is one of it. *)
LEMMA OpAtIs ==
  ASSUME NEW p \in Seq(Op), NEW f \in Within(p), f.pc < f.n
  PROVE  /\ f \in Frame /\ f.base \in Nat /\ f.n \in Nat /\ f.pc \in Nat
         /\ f.base + f.n <= Len(p)
         /\ f.base + f.pc + 1 \in DOMAIN p
         /\ OpAt(p, f) = p[f.base + f.pc + 1]
         /\ OpAt(p, f) \in Op /\ OpAt(p, f).a \in Nat
<1>1. f \in Frame /\ f.base \in Nat /\ f.n \in Nat /\ f.pc \in Nat /\ f.base + f.n <= Len(p)
  BY DEF Within, Frame
<1>2. f.base + f.pc + 1 \in 1 .. Len(p) BY <1>1, LenProperties
<1>3. OpAt(p, f) = p[f.base + f.pc + 1] BY DEF OpAt, At
<1>4. OpAt(p, f) \in Op BY <1>2, <1>3, ElementOfSeq
<1>5. OpAt(p, f).a \in Nat BY <1>4 DEF Op
<1> QED BY <1>1, <1>2, <1>3, <1>4, <1>5, LenProperties

(* Where a part goes on behind an operator without branches. *)
LEMMA NoArms ==
  ASSUME NEW p \in Seq(Op), NEW f \in Within(p), f.pc < f.n, OpAt(p, f).sig \notin {"if", "sel"}
  PROVE  /\ ArmsOf(p, f) = <<>> /\ Len(ArmsOf(p, f)) = 0
         /\ After(p, f) = [f EXCEPT !.pc = f.pc + 1]
<1>1. ArmsOf(p, f) = <<>> /\ Len(ArmsOf(p, f)) = 0
  BY OpAtIs, ArmsAre, SMTT(40) DEF ArmsOf, OpAt
<1>2. AfterArms(f.pc, ArmsOf(p, f)) = f.pc + 1 BY <1>1 DEF AfterArms
<1> QED BY <1>1, <1>2 DEF After, ArmsOf

(* The branches of an if, with and without else. *)
LEMMA IfArms ==
  ASSUME NEW p \in Seq(Op), NEW f \in Within(p), f.pc < f.n, OpAt(p, f).sig = "if"
  PROVE  /\ SigAt(p, f.base, f.n, f.pc + 1) = "else" =>
              /\ Len(ArmsOf(p, f)) = 2
              /\ ArmsOf(p, f)[1] = [at |-> f.pc + 2, size |-> OpAt(p, f).a]
              /\ ArmsOf(p, f)[2] = [at   |-> f.pc + 2 + OpAt(p, f).a,
                                    size |-> At(p, f.base, f.pc + 1).a]
              /\ AfterArms(f.pc, ArmsOf(p, f))
                   = f.pc + 2 + OpAt(p, f).a + At(p, f.base, f.pc + 1).a
         /\ SigAt(p, f.base, f.n, f.pc + 1) # "else" =>
              /\ Len(ArmsOf(p, f)) = 1
              /\ ArmsOf(p, f)[1] = [at |-> f.pc + 1, size |-> OpAt(p, f).a]
              /\ AfterArms(f.pc, ArmsOf(p, f)) = f.pc + 1 + OpAt(p, f).a
<1> DEFINE a == OpAt(p, f).a
           other == At(p, f.base, f.pc + 1).a
           arms == ArmsOf(p, f)
           els == SigAt(p, f.base, f.n, f.pc + 1) = "else"
<1>1. CASE els
  <2>1. arms = <<[at |-> f.pc + 2, size |-> a], [at |-> f.pc + 2 + a, size |-> other]>>
    BY <1>1 DEF ArmsOf, CheckedArms, OpAt
  <2> HIDE DEF arms
  <2>2. Len(arms) = 2 /\ arms # <<>> /\ arms[1] = [at |-> f.pc + 2, size |-> a]
        /\ arms[2] = [at |-> f.pc + 2 + a, size |-> other] BY <2>1
  <2>3. AfterArms(f.pc, arms) = f.pc + 2 + a + other BY <2>2 DEF AfterArms
  <2> QED BY <1>1, <2>2, <2>3 DEF arms
<1>2. CASE ~els
  <2>1. arms = <<[at |-> f.pc + 1, size |-> a]>>
    BY <1>2 DEF ArmsOf, CheckedArms, OpAt
  <2> HIDE DEF arms
  <2>2. Len(arms) = 1 /\ arms # <<>> /\ arms[1] = [at |-> f.pc + 1, size |-> a] BY <2>1
  <2>3. AfterArms(f.pc, arms) = f.pc + 1 + a BY <2>2 DEF AfterArms
  <2> QED BY <1>2, <2>2, <2>3 DEF arms
<1> QED BY <1>1, <1>2

(* What InitSelectOp notes of a sel whose arms fit are those arms.           *)
LEMMA SelArms ==
  ASSUME NEW p \in Seq(Op), NEW f \in Within(p), f.pc < f.n, OpAt(p, f).sig = "sel",
         Fitting(ArmsOf(p, f), "sel", f.n), ArmsOf(p, f) # <<>>,
         NEW here, here = f.base + f.pc,
         NEW cases, cases = Cases(p, 0, Len(p), here),
         NEW arms, arms = cases + Defaults(p, 0, Len(p), here)
  PROVE  /\ cases \in Nat \ {0} /\ arms \in Nat /\ arms >= cases
         /\ f.pc + 1 + cases < f.n
         /\ Len(ArmsOf(p, f)) = arms
         /\ \A k \in 1 .. arms :
              ArmsOf(p, f)[k] = [at   |-> f.pc + 1 + arms + SizesBefore(p, here, k - 1),
                                 size |-> At(p, 0, here + k).a]
<1> DEFINE c == Cases(p, f.base, f.n, f.pc)
           e == Defaults(p, f.base, f.n, f.pc)
<1>1. /\ f.base \in Nat /\ f.n \in Nat /\ f.pc \in Nat /\ f.base + f.n <= Len(p) BY OpAtIs
<1>2. c \in Nat /\ e \in {0, 1} /\ (c = 0 => e = 0)
  <2>1. c \in Nat /\ e \in {0, 1} BY <1>1, CasesAre, DefaultsAre
  <2>2. c = 0 => e = 0 BY DEF Defaults
  <2> QED BY <2>1, <2>2
<1> HIDE DEF c
<1>3. ArmsOf(p, f) = [k \in 1 .. c + e |->
        [at   |-> f.pc + 1 + (c + e) + SizesBefore(p, here, k - 1),
         size |-> At(p, f.base, f.pc + k).a]]
  BY DEF ArmsOf, CheckedArms, OpAt, c
<1> HIDE DEF e
<1>4. c + e # 0
  <2> SUFFICES ASSUME c + e = 0 PROVE FALSE OBVIOUS
  <2> DEFINE g(k) == [at   |-> f.pc + 1 + (c + e) + SizesBefore(p, here, k - 1),
                      size |-> At(p, f.base, f.pc + k).a]
  <2>1. 1 .. c + e = {} BY <1>2
  <2>2. ArmsOf(p, f) = [k \in {} |-> g(k)] BY <1>3, <2>1
  <2> HIDE DEF g
  <2>3. [k \in {} |-> g(k)] = <<>> OBVIOUS
  <2> QED BY <2>2, <2>3
<1>5. c + e \in Nat /\ 1 \in 1 .. c + e /\ c # 0 BY <1>2, <1>4
<1>6. Len(ArmsOf(p, f)) = c + e BY <1>3, <1>5
<1>7. ArmsOf(p, f)[1].at = f.pc + 1 + (c + e) + SizesBefore(p, here, 0) BY <1>3, <1>5
<1>8. SizesBefore(p, here, 0) = 0
  <2> DEFINE sum == CHOOSE s : s = [j \in 0 .. 0 |-> IF j = 0 THEN 0 ELSE s[j - 1] + At(p, here, j).a]
             t == [j \in 0 .. 0 |-> 0]
  <2>1. t = [j \in 0 .. 0 |-> IF j = 0 THEN 0 ELSE t[j - 1] + At(p, here, j).a] OBVIOUS
  <2>2. sum = [j \in 0 .. 0 |-> IF j = 0 THEN 0 ELSE sum[j - 1] + At(p, here, j).a] BY <2>1
  <2> HIDE DEF sum
  <2>3. sum[0] = 0 BY <2>2
  <2> QED BY <2>3 DEF SizesBefore, sum
<1>9. ArmsOf(p, f)[1].at < f.n BY <1>5, <1>6 DEF Fitting
<1>10. f.pc + c + e + 1 < f.n BY <1>1, <1>2, <1>7, <1>8, <1>9
<1>11. cases = c /\ Defaults(p, 0, Len(p), here) = e
  BY <1>1, <1>10, CasesSame, LenProperties DEF c, e
<1>12. arms = c + e BY <1>11
<1>13. \A k \in 1 .. arms : At(p, f.base, f.pc + k) = At(p, 0, here + k)
  BY <1>1, <1>2, <1>12 DEF At
<1>14. \A k \in 1 .. arms :
          ArmsOf(p, f)[k] = [at   |-> f.pc + 1 + arms + SizesBefore(p, here, k - 1),
                             size |-> At(p, 0, here + k).a] BY <1>3, <1>12, <1>13
<1>15. f.pc + 1 + cases < f.n /\ arms >= cases
  <2>1. \A a, b, x, l \in Nat : a + b + x + 1 < l => a + 1 + b < l /\ b + x >= b OBVIOUS
  <2>2. f.pc \in Nat /\ f.n \in Nat /\ c \in Nat /\ e \in Nat BY <1>1, <1>2
  <2>3. cases = c /\ arms = c + e BY <1>11, <1>12
  <2> HIDE DEF c, e
  <2> QED BY <1>10, <2>1, <2>2, <2>3
<1> QED BY <1>2, <1>5, <1>6, <1>11, <1>12, <1>14, <1>15

(* The check counts the operators of an exact function as they run.          *)
LEMMA ExactCounts ==
  ASSUME NEW p \in Seq(Op), Exact(p), HasValidOperations(p), NEW j \in DOMAIN p,
         NEW o, o = p[j]
  PROVE  /\ Used(o) = ExecTakes(o) /\ Pushed(o) = ExecGives(o)
         /\ ExecTakes(o) \in Nat /\ ExecGives(o) \in Nat
         /\ \A d \in Nat : o.sig \notin Flow /\ ExecTakes(o) <= d => Executes(o, d)
         /\ o.sig \in {"if", "sel"} => ExecTakes(o) = 1 /\ ExecGives(o) = 0
         /\ o.sig = "data" => ExecTakes(o) = 0 /\ ExecGives(o) = 1
<1>1. o \in Op /\ o.a \in Nat /\ o.b \in Nat
  <2>1. o \in Op OBVIOUS
  <2> QED BY <2>1 DEF Op
<1>2. Takes(o) \in Nat /\ Gives(o) \in Nat /\ ExecTakes(o) \in Nat /\ ExecGives(o) \in Nat
  BY <1>1, CountsNat
<1>3. Takes(o) <= MaxStack /\ Gives(o) <= MaxStack BY DEF Exact
<1>4. Used(o) = Takes(o) /\ Pushed(o) = Gives(o)
  BY <1>2, <1>3, StackAssumption DEF Used, Pushed, Capped
<1>7. Takes(o) < Word \div 2 BY <1>2, <1>3, StackAssumption, WordAssumption
<1>5. CASE o.sig # "solv"
  <2>1. ExecTakes(o) = Takes(o) /\ ExecGives(o) = Gives(o)
    BY <1>5 DEF ExecTakes, ExecGives, Solves
  <2>2. o.sig \in {"if", "sel"} => Takes(o) = 1 /\ Gives(o) = 0 BY DEF Takes, Gives
  <2>3. o.sig = "data" => Takes(o) = 0 /\ Gives(o) = 1 BY DEF Takes, Gives
  <2>4. o.sig = "copy" => Times(o) <= MaxStack
    <3> SUFFICES ASSUME o.sig = "copy" PROVE Times(o) <= MaxStack OBVIOUS
    <3>1. Gives(o) = (o.a + 1) * (o.b + 2) BY DEF Gives
    <3>2. \A x, y \in Nat : x * (y + 2) = x * (y + 1) + x /\ x * (y + 1) \in Nat OBVIOUS
    <3> DEFINE x == o.a + 1
               y == o.b
    <3>4. Gives(o) = x * (y + 2) /\ Times(o) = x * (y + 1) BY <3>1 DEF Times
    <3>5. x \in Nat /\ y \in Nat BY <1>1
    <3> HIDE DEF x, y
    <3>3. Gives(o) = Times(o) + x /\ Times(o) \in Nat BY <3>2, <3>4, <3>5
    <3> QED BY <1>2, <1>3, <3>3, <3>5, StackAssumption
  <2>5. o.sig # "bad" /\ (o.sig = "elem" => HasElem(o)) BY DEF HasValidOperations
  <2>6. \A d \in Nat : o.sig \notin Flow /\ ExecTakes(o) <= d => Executes(o, d)
    <3>1. ExecSize(o) = ExecTakes(o) BY <1>2, <1>7, <2>1, IntIs DEF ExecSize
    <3> QED BY <2>4, <2>5, <3>1 DEF Executes, Flow
  <2> QED BY <1>2, <1>4, <2>1, <2>2, <2>3, <2>6
<1>6. CASE o.sig = "solv"
  <2>1. o.a = o.b /\ o.a > 0 BY <1>6 DEF Exact
  <2>2. Takes(o) = Times(o) + o.a + 1 /\ Gives(o) = o.b + 2 BY <1>6 DEF Takes, Gives
  <2>3. ExecTakes(o) = Takes(o) /\ ExecGives(o) = Gives(o)
    BY <1>1, <1>6, <2>1, <2>2 DEF ExecTakes, ExecGives, Solves
  <2>5. ExecSize(o) = ExecTakes(o) BY <1>2, <1>7, <2>3, IntIs DEF ExecSize
  <2>4. \A d \in Nat : ExecTakes(o) <= d => Executes(o, d) BY <1>6, <2>5 DEF Executes
  <2> QED BY <1>2, <1>4, <1>6, <2>3, <2>4
<1> QED BY <1>5, <1>6

(* Where the function may go on and how deep that nests. *)
Shallow(p) ==
  {r \in Within(p) \X Nat : /\ Place(r[1]) \in Places(p)
                            /\ Nested(p)[Place(r[1])]
                            /\ Deep(p)[Place(r[1])] + r[2] - 1 <= MaxDepth}

Calling(p) ==
  {f \in Within(p) : /\ f.pc < f.n /\ OpAt(p, f).sig \in {"if", "sel"}
                     /\ ArmsOf(p, f) # <<>> /\ Fitting(ArmsOf(p, f), OpAt(p, f).sig, f.n)}

(* At an operator: what follows and its branches are nested well too, and    *)
(* the branches no deeper than it allows for.                                *)
LEMMA ShallowStep ==
  ASSUME NEW p \in Seq(Op), NEW f \in Within(p), f.pc < f.n, NEW k \in Nat,
         <<f, k>> \in Shallow(p), Fitting(ArmsOf(p, f), OpAt(p, f).sig, f.n)
  PROVE  /\ OpAt(p, f).sig \notin {"else", "case", "dflt"}
         /\ <<After(p, f), k>> \in Shallow(p)
         /\ After(p, f) \in Within(p)
         /\ \A j \in 1 .. Len(ArmsOf(p, f)) :
              /\ ArmFrame(p, f, j) \in Within(p)
              /\ <<ArmFrame(p, f, j), k + 1>> \in Shallow(p)
              /\ k <= MaxDepth
<1> DEFINE q == Place(f)
<1>1. /\ q[1] = f.base /\ q[2] = f.n /\ q[3] = f.pc BY DEF Place
<1>2. f \in Frame /\ f.base \in Nat /\ f.n \in Nat /\ f.pc \in Nat /\ f.base + f.n <= Len(p)
  BY OpAtIs
<1>3. q \in Places(p) /\ ~(q[3] >= q[2]) /\ FitsAt(p, q) /\ ArmsAt(p, q) = ArmsOf(p, f)
      /\ At(p, q[1], q[3]) = OpAt(p, f)
  BY <1>1, <1>2 DEF Shallow, FitsAt, ArmsAt, ArmsOf, OpAt
<1>4. Nested(p)[q] /\ Deep(p)[q] + k - 1 <= MaxDepth BY DEF Shallow
<1> HIDE DEF q
<1>5. NestedStep(p, Nested(p), q) BY <1>3, <1>4, NestedIs
<1>6. /\ OpAt(p, f).sig \notin {"else", "case", "dflt"}
      /\ Nested(p)[NextPlace(p, q)]
      /\ \A j \in 1 .. Len(ArmsOf(p, f)) : Nested(p)[ArmPlace(p, q, j)]
  BY <1>3, <1>5 DEF NestedStep
<1>7. /\ NextPlace(p, q) \in Places(p)
      /\ \A j \in 1 .. Len(ArmsOf(p, f)) : ArmPlace(p, q, j) \in Places(p)
  BY <1>3, PlacesDescend
<1>8. Deep(p) \in [Places(p) -> Nat] /\ Deep(p)[q] = DeepStep(p, Deep(p), q) BY <1>3, DeepAre
<1>9. /\ Deep(p)[NextPlace(p, q)] <= Deep(p)[q]
      /\ \A j \in 1 .. Len(ArmsOf(p, f)) : 1 + Deep(p)[ArmPlace(p, q, j)] <= Deep(p)[q]
      /\ Deep(p)[q] \in Nat
  BY <1>3, <1>8, DepthMax
<1>10. Place(After(p, f)) = NextPlace(p, q) /\ After(p, f) \in Within(p)
  <2>1. AfterArms(f.pc, ArmsOf(p, f)) \in Nat
    BY <1>1, <1>2, <1>3, ArmsAre, SMTT(40) DEF ArmsOf
  <2>2. After(p, f) = [f EXCEPT !.pc = AfterArms(f.pc, ArmsOf(p, f))] BY DEF After, ArmsOf
  <2>3. After(p, f) \in Within(p) BY <1>2, <2>1, <2>2 DEF Within, Frame
  <2>4. /\ After(p, f).base = f.base /\ After(p, f).n = f.n
        /\ After(p, f).pc = AfterArms(f.pc, ArmsOf(p, f)) BY <1>2, <2>2 DEF Frame
  <2> QED BY <1>1, <1>3, <2>3, <2>4 DEF Place, NextPlace
<1>11. ASSUME NEW j \in 1 .. Len(ArmsOf(p, f))
       PROVE  /\ ArmFrame(p, f, j) \in Within(p)
              /\ <<ArmFrame(p, f, j), k + 1>> \in Shallow(p)
              /\ k <= MaxDepth
  <2>1. Place(ArmFrame(p, f, j)) = ArmPlace(p, q, j)
    BY <1>1, <1>3 DEF Place, ArmFrame, ArmPlace
  <2>2. ArmPlace(p, q, j) \in Places(p) BY <1>7
  <2>3. ArmFrame(p, f, j) \in Within(p)
    BY <2>1, <2>2 DEF Places, Place, ArmFrame, Within, Frame
  <2>4. Deep(p)[ArmPlace(p, q, j)] \in Nat BY <1>8, <2>2
  <2>5. Deep(p)[ArmPlace(p, q, j)] + (k + 1) - 1 <= MaxDepth /\ k <= MaxDepth
    BY <1>4, <1>9, <2>4, DepthAssumption
  <2> QED BY <1>6, <2>1, <2>2, <2>3, <2>5 DEF Shallow
<1>12. <<After(p, f), k>> \in Shallow(p)
  <2>1. Deep(p)[NextPlace(p, q)] \in Nat BY <1>7, <1>8
  <2>2. Deep(p)[NextPlace(p, q)] + k - 1 <= MaxDepth BY <1>4, <1>9, <2>1, DepthAssumption
  <2> QED BY <1>6, <1>7, <1>10, <2>2 DEF Shallow
<1> QED BY <1>6, <1>10, <1>11, <1>12

DataRunFrom(p, f, r) ==
  f.pc + r <= f.n /\ \A j \in 0 .. r - 1 : SigAt(p, f.base, f.n, f.pc + j) = "data"

(* Numbers that follow each other count one each. *)
LEMMA DataRuns ==
  ASSUME NEW p \in Seq(Op), Exact(p), HasValidOperations(p), NEW under \in BOOLEAN,
         NEW f \in Within(p), NEW r \in Nat, DataRunFrom(p, f, r),
         NEW x \in Nat, Value(Checks(p, under), f, x) \in Nat
  PROVE  /\ Value(Checks(p, under), [f EXCEPT !.pc = f.pc + r], x + r)
              = Value(Checks(p, under), f, x)
         /\ \A k \in Nat : <<f, k>> \in Shallow(p) => <<[f EXCEPT !.pc = f.pc + r], k>> \in Shallow(p)
<1> DEFINE F == Checks(p, under)
           g(m) == [f EXCEPT !.pc = f.pc + m]
           P(m) == /\ Value(F, g(m), x + m) = Value(F, f, x)
                   /\ \A k \in Nat : <<f, k>> \in Shallow(p) => <<g(m), k>> \in Shallow(p)
           S == {m \in Nat : m <= r => P(m)}
<1>1. f \in Frame /\ f.base \in Nat /\ f.n \in Nat /\ f.pc \in Nat /\ f.base + f.n <= Len(p)
  BY DEF Within, Frame
<1>0. f.pc + r <= f.n /\ \A j \in 0 .. r - 1 : SigAt(p, f.base, f.n, f.pc + j) = "data"
  BY DEF DataRunFrom
<1> HIDE DEF F
<1>2. P(0)
  <2>1. g(0) = f BY <1>1 DEF Frame
  <2>2. x + 0 = x OBVIOUS
  <2> QED BY <2>1, <2>2
<1>3. ASSUME NEW m \in Nat, m \in S, m + 1 <= r PROVE P(m + 1)
  <2>0. m \in Nat /\ m + 1 <= r BY <1>3
  <2>1. P(m) BY <1>3
  <2>2. g(m) \in Within(p) /\ g(m).base = f.base /\ g(m).n = f.n /\ g(m).pc = f.pc + m
        /\ f.pc + m < f.n /\ m \in 0 .. r - 1
    <3>0. \A a, l, j \in Nat : a + r <= l /\ j + 1 <= r => a + j \in Nat /\ a + j < l OBVIOUS
    <3>1. f.pc + m \in Nat /\ f.pc + m < f.n /\ m \in 0 .. r - 1
      <4>1. m \in 0 .. r - 1 BY <2>0
      <4> QED BY <1>0, <1>1, <2>0, <3>0, <4>1
    <3>2. \A y \in Nat : [f EXCEPT !.pc = y] \in Frame BY <1>1 DEF Frame
    <3>3. g(m) \in Frame /\ g(m).base = f.base /\ g(m).n = f.n /\ g(m).pc = f.pc + m
      BY <1>1, <3>1, <3>2 DEF Frame
    <3> QED BY <1>1, <3>1, <3>3 DEF Within
  <2>3. SigAt(p, f.base, f.n, f.pc + m) = "data" BY <1>0, <2>2
  <2>4. OpAt(p, g(m)).sig = "data" /\ g(m).pc < g(m).n BY <2>2, <2>3 DEF SigAt, OpAt
  <2>5. [g(m) EXCEPT !.pc = g(m).pc + 1] = g(m + 1)
    <3>1. g(m).pc + 1 = f.pc + (m + 1) BY <1>1, <1>3, <2>2
    <3>2. [g(m) EXCEPT !.pc = f.pc + (m + 1)] = g(m + 1) BY <1>1 DEF Frame
    <3> QED BY <3>1, <3>2
  <2> HIDE DEF g
  <2>6. OpAt(p, g(m)) \in Op /\ g(m).base + g(m).pc + 1 \in DOMAIN p
        /\ OpAt(p, g(m)) = p[g(m).base + g(m).pc + 1]
    BY <2>2, <2>4, OpAtIs
  <2>7. Used(OpAt(p, g(m))) = 0 /\ Pushed(OpAt(p, g(m))) = 1
    BY <2>4, <2>6, ExactCounts
  <2>8. ArmsOf(p, g(m)) = <<>> /\ After(p, g(m)) = g(m + 1)
    BY <2>2, <2>4, <2>5, NoArms
  <2>9. x + m \in Nat /\ x + m + 1 = (x + m) - 0 + 1 BY <1>3
  <2>10. Value(F, g(m), x + m) \in Nat BY <2>1 DEF F
  <2>11. PICK e \in Nat : Value(F, After(p, g(m)), e) = Value(F, g(m), x + m) /\ e = x + m + 1
    <3> DEFINE y == x + m
               d == x + m + 1
               h == g(m)
    <3>1. y \in Nat /\ d = Counted(p, h, y) BY <2>0, <2>7 DEF Counted
    <3>2. h \in Within(p) /\ h.pc < h.n /\ Value(Checks(p, under), h, y) \in Nat
          /\ ArmsOf(p, h) = <<>>
      BY <2>2, <2>4, <2>8, <2>10 DEF F
    <3> HIDE DEF y, d, h
    <3>3. \E e \in Nat : Value(Checks(p, under), After(p, h), e) = Value(Checks(p, under), h, y) /\ e = d
      <4>1. PICK e \in Nat : GoesOn(p, under, h, y, e) BY <3>1, <3>2, CheckedStep
      <4>2. Value(Checks(p, under), After(p, h), e) = Value(Checks(p, under), h, y) /\ e = d
        BY <3>1, <3>2, <4>1 DEF GoesOn
      <4> QED BY <4>2
    <3> QED BY <3>3 DEF y, d, h, F
  <2>12. x + m + 1 = x + (m + 1) BY <1>3
  <2>13. Value(F, g(m + 1), x + (m + 1)) = Value(F, f, x) BY <2>1, <2>8, <2>11, <2>12
  <2>14. Fitting(ArmsOf(p, g(m)), OpAt(p, g(m)).sig, g(m).n)
    <3>1. \A i \in 1 .. Len(<<>>) : FALSE OBVIOUS
    <3> QED BY <2>8, <3>1 DEF Fitting
  <2>15. \A k \in Nat : <<f, k>> \in Shallow(p) => <<g(m + 1), k>> \in Shallow(p)
    BY <2>1, <2>2, <2>4, <2>8, <2>14, ShallowStep
  <2> QED BY <2>13, <2>15 DEF g
<1> HIDE DEF P
<1>4. Nat \subseteq S
  <2>1. 0 \in S BY <1>2
  <2>2. \A m \in Nat : m \in S => m + 1 \in S BY <1>3
  <2> HIDE DEF S
  <2> QED BY <2>1, <2>2, Inductive
<1>5. P(r) BY <1>4
<1> QED BY <1>5 DEF P, F

-----------------------------------------------------------------------------
(* A step of the interpreter and the depth the check counted for it. *)

(* From d on the stack at f the function may go on with e on it at g: what   *)
(* the check bounded d by, it can bound e by without promising more.         *)
Covers(p, under, f, d, g, e) ==
  \A x \in Nat :
    Value(Checks(p, under), f, x) \in Nat /\ <<x, d>> \in Near(under) =>
      \E y \in Nat : /\ Value(Checks(p, under), g, y) = Value(Checks(p, under), f, x)
                     /\ <<y, e>> \in Near(under)

(* The same for a branch, which leaves what its caller goes on with.         *)
CoversArm(p, under, f, d, g, e) ==
  \A x \in Nat :
    Value(Checks(p, under), f, x) \in Nat /\ <<x, d>> \in Near(under) =>
      \E y \in Nat, z \in Nat :
        /\ Value(Checks(p, under), After(p, f), y) = Value(Checks(p, under), f, x)
        /\ Value(Checks(p, under), g, z) \in Nat
        /\ <<y, Value(Checks(p, under), g, z)>> \in Near(under)
        /\ <<z, e>> \in Near(under)

(* The bounds in figures: they are ordered, and can be moved and chained. *)
LEMMA NearIs ==
  ASSUME NEW under \in BOOLEAN, NEW x \in Nat, NEW y \in Nat, <<x, y>> \in Near(under)
  PROVE  /\ under => x <= y
         /\ ~under => y <= x
         /\ \A t \in Nat : <<x + t, y + t>> \in Near(under)
         /\ \A z \in Nat : <<y, z>> \in Near(under) => <<x, z>> \in Near(under)
         /\ \A s \in Nat, t \in Nat :
              s <= x /\ s <= y => <<x - s + t, y - s + t>> \in Near(under)
<1>1. under => x <= y BY DEF Near
<1>2. ~under => y <= x BY DEF Near
<1>3. ASSUME NEW z \in Nat, <<y, z>> \in Near(under) PROVE <<x, z>> \in Near(under)
  <2>1. CASE under BY <1>3, <2>1 DEF Near
  <2>2. CASE ~under BY <1>3, <2>2 DEF Near
  <2> QED BY <2>1, <2>2
<1>4. ASSUME NEW s \in Nat, NEW t \in Nat, s <= x, s <= y
      PROVE  <<x - s + t, y - s + t>> \in Near(under)
  <2>1. x - s + t \in Nat /\ y - s + t \in Nat BY <1>4
  <2>2. CASE under
    <3>1. x - s + t <= y - s + t BY <1>1, <2>2
    <3> QED BY <2>1, <2>2, <3>1 DEF Near
  <2>3. CASE ~under
    <3>1. y - s + t <= x - s + t BY <1>2, <2>3
    <3> QED BY <2>1, <2>3, <3>1 DEF Near
  <2> QED BY <2>2, <2>3
<1>5. ASSUME NEW t \in Nat PROVE <<x + t, y + t>> \in Near(under)
  <2>1. CASE under
    <3>1. x + t <= y + t BY <1>1, <2>1
    <3> QED BY <2>1, <3>1 DEF Near
  <2>2. CASE ~under
    <3>1. y + t <= x + t BY <1>2, <2>2
    <3> QED BY <2>2, <3>1 DEF Near
  <2> QED BY <2>1, <2>2
<1> QED BY <1>1, <1>2, <1>3, <1>4, <1>5

(* An operator of an exact function counts as it runs. *)
LEMMA CountedExactly ==
  ASSUME NEW p \in Seq(Op), Exact(p), HasValidOperations(p),
         NEW f \in Within(p), f.pc < f.n,
         NEW o, o = OpAt(p, f)
  PROVE  /\ Used(o) = ExecTakes(o) /\ Pushed(o) = ExecGives(o)
         /\ ExecTakes(o) \in Nat /\ ExecGives(o) \in Nat
         /\ \A d \in Nat : o.sig \notin Flow /\ ExecTakes(o) <= d => Executes(o, d)
         /\ o.sig \in {"if", "sel"} => ExecTakes(o) = 1 /\ ExecGives(o) = 0
         /\ \A x : Counted(p, f, x) = x - ExecTakes(o) + ExecGives(o)
<1>1. f.base + f.pc + 1 \in DOMAIN p /\ o = p[f.base + f.pc + 1] BY OpAtIs
<1> HIDE DEF Within
<1>2. /\ Used(o) = ExecTakes(o) /\ Pushed(o) = ExecGives(o)
      /\ ExecTakes(o) \in Nat /\ ExecGives(o) \in Nat
      /\ \A d \in Nat : o.sig \notin Flow /\ ExecTakes(o) <= d => Executes(o, d)
      /\ o.sig \in {"if", "sel"} => ExecTakes(o) = 1 /\ ExecGives(o) = 0
  BY <1>1, ExactCounts
<1>3. \A x : Counted(p, f, x) = x - ExecTakes(o) + ExecGives(o) BY <1>2 DEF Counted
<1> QED BY <1>2, <1>3

(* An operator that runs leaves the depth the check counted. *)
LEMMA ExecCovers ==
  ASSUME NEW p \in Seq(Op), Exact(p), HasValidOperations(p), NEW under \in BOOLEAN,
         NEW f \in Within(p), f.pc < f.n, OpAt(p, f).sig \notin {"if", "sel"},
         NEW d \in Nat, ExecTakes(OpAt(p, f)) <= d
  PROVE  Covers(p, under, f, d, [f EXCEPT !.pc = f.pc + 1], Executed(OpAt(p, f), d))
<1> DEFINE o == OpAt(p, f)
           F == Checks(p, under)
           g == [f EXCEPT !.pc = f.pc + 1]
           e == d - ExecTakes(o) + ExecGives(o)
<1>1. ExecTakes(o) \in Nat /\ ExecGives(o) \in Nat /\ Used(o) = ExecTakes(o)
      /\ \A x : Counted(p, f, x) = x - ExecTakes(o) + ExecGives(o)
  BY CountedExactly
<1>2. ArmsOf(p, f) = <<>> /\ After(p, f) = g BY NoArms
<1>3. ASSUME NEW x \in Nat, Value(F, f, x) \in Nat, <<x, d>> \in Near(under)
      PROVE  \E y \in Nat : Value(F, g, y) = Value(F, f, x) /\ <<y, e>> \in Near(under)
  <2>1. Used(o) <= x BY <1>3, CheckedStep
  <2>2. PICK y \in Nat : GoesOn(p, under, f, x, y) BY <1>3, CheckedStep
  <2>3. Value(F, g, y) = Value(F, f, x) /\ y = Counted(p, f, x) BY <1>2, <2>2 DEF GoesOn
  <2> HIDE DEF F, g, o
  <2>4. y = x - ExecTakes(o) + ExecGives(o) BY <1>1, <2>3
  <2>5. <<y, e>> \in Near(under)
    <3>1. \A s \in Nat, t \in Nat : s <= x /\ s <= d => <<x - s + t, d - s + t>> \in Near(under)
      BY <1>3, NearIs
    <3>2. ExecTakes(o) <= x /\ ExecTakes(o) <= d BY <1>1, <2>1 DEF o
    <3> QED BY <1>1, <2>4, <3>1, <3>2
  <2> QED BY <2>3, <2>5
<1> QED BY <1>3 DEF Covers, Executed

(* Numbers are counted one by one and pushed together. *)
LEMMA DataCovers ==
  ASSUME NEW p \in Seq(Op), Exact(p), HasValidOperations(p), NEW under \in BOOLEAN,
         NEW f \in Within(p), NEW r \in Nat, DataRunFrom(p, f, r),
         NEW d \in Nat
  PROVE  Covers(p, under, f, d, [f EXCEPT !.pc = f.pc + r], d + r)
<1> DEFINE F == Checks(p, under)
           g == [f EXCEPT !.pc = f.pc + r]
<1>1. ASSUME NEW x \in Nat, Value(F, f, x) \in Nat, <<x, d>> \in Near(under)
      PROVE  \E y \in Nat : Value(F, g, y) = Value(F, f, x) /\ <<y, d + r>> \in Near(under)
  <2>1. Value(F, g, x + r) = Value(F, f, x) BY <1>1, DataRuns, SMTT(60)
  <2>2. <<x + r, d + r>> \in Near(under) BY <1>1, NearIs
  <2>3. x + r \in Nat OBVIOUS
  <2> HIDE DEF F, g
  <2> QED BY <2>1, <2>2, <2>3
<1> QED BY <1>1 DEF Covers

(* An if without else that is not taken leaves a depth the check reckoned    *)
(* with.                                                                     *)
LEMMA SkipCovers ==
  ASSUME NEW p \in Seq(Op), Exact(p), HasValidOperations(p), NEW under \in BOOLEAN,
         NEW f \in Within(p), f.pc < f.n, OpAt(p, f).sig = "if", Len(ArmsOf(p, f)) = 1,
         NEW d \in Nat, d > 0
  PROVE  Covers(p, under, f, d, After(p, f), d - 1)
<1> DEFINE o == OpAt(p, f)
           F == Checks(p, under)
<1>1. ExecTakes(o) = 1 /\ ExecGives(o) = 0 /\ Used(o) = ExecTakes(o)
      /\ \A x : Counted(p, f, x) = x - ExecTakes(o) + ExecGives(o)
  BY CountedExactly
<1>3. ASSUME NEW x \in Nat, Value(F, f, x) \in Nat, <<x, d>> \in Near(under)
      PROVE  \E y \in Nat : Value(F, After(p, f), y) = Value(F, f, x) /\ <<y, d - 1>> \in Near(under)
  <2>1. Used(o) <= x /\ Counted(p, f, x) \in Nat BY <1>3, CheckedStep
  <2>2. PICK y \in Nat : GoesOn(p, under, f, x, y) BY <1>3, CheckedStep
  <2>3. Value(F, After(p, f), y) = Value(F, f, x) /\ <<y, Counted(p, f, x)>> \in Near(under)
    BY <2>2 DEF GoesOn
  <2>4. Counted(p, f, x) = x - 1 + 0 BY <1>1
  <2>5. <<x - 1 + 0, d - 1 + 0>> \in Near(under)
    <3>1. \A s \in Nat, t \in Nat : s <= x /\ s <= d => <<x - s + t, d - s + t>> \in Near(under)
      BY <1>3, NearIs
    <3>2. 1 <= x /\ 1 <= d BY <1>1, <2>1
    <3> QED BY <3>1, <3>2
  <2>6. d - 1 + 0 = d - 1 /\ d - 1 \in Nat OBVIOUS
  <2>7. <<y, d - 1>> \in Near(under)
    <3> DEFINE u == x - 1 + 0
               v == d - 1
    <3>1. u \in Nat /\ v \in Nat /\ <<y, u>> \in Near(under) /\ <<u, v>> \in Near(under)
      BY <2>1, <2>3, <2>4, <2>5, <2>6
    <3> HIDE DEF u, v
    <3>2. <<y, v>> \in Near(under) BY <3>1, NearIs
    <3> QED BY <3>2 DEF v
  <2> QED BY <2>3, <2>7
<1> QED BY <1>3 DEF Covers

(* A branch begins with the depth the check sent into it. *)
LEMMA ArmCovers ==
  ASSUME NEW p \in Seq(Op), Exact(p), HasValidOperations(p), NEW under \in BOOLEAN,
         NEW f \in Within(p), f.pc < f.n, OpAt(p, f).sig \in {"if", "sel"},
         NEW j \in 1 .. Len(ArmsOf(p, f)), NEW d \in Nat, d > 0
  PROVE  CoversArm(p, under, f, d, ArmFrame(p, f, j), d - 1)
<1> DEFINE o == OpAt(p, f)
           F == Checks(p, under)
           g == ArmFrame(p, f, j)
<1>1. ExecTakes(o) = 1 /\ ExecGives(o) = 0 /\ Used(o) = ExecTakes(o)
      /\ \A x : Counted(p, f, x) = x - ExecTakes(o) + ExecGives(o)
  BY CountedExactly
<1>3. ASSUME NEW x \in Nat, Value(F, f, x) \in Nat, <<x, d>> \in Near(under)
      PROVE  \E y \in Nat, z \in Nat :
               /\ Value(F, After(p, f), y) = Value(F, f, x)
               /\ Value(F, g, z) \in Nat
               /\ <<y, Value(F, g, z)>> \in Near(under)
               /\ <<z, d - 1>> \in Near(under)
  <2>1. Used(o) <= x /\ Counted(p, f, x) \in Nat BY <1>3, CheckedStep
  <2>2. PICK y \in Nat : GoesOn(p, under, f, x, y) BY <1>3, CheckedStep
  <2> DEFINE z == Counted(p, f, x)
  <2>3. /\ Value(F, After(p, f), y) = Value(F, f, x)
        /\ Value(F, g, z) \in Nat
        /\ <<y, Value(F, g, z)>> \in Near(under)
    BY <2>2 DEF GoesOn
  <2>4. z = x - 1 + 0 BY <1>1
  <2>5. <<x - 1 + 0, d - 1 + 0>> \in Near(under)
    <3>1. \A s \in Nat, t \in Nat : s <= x /\ s <= d => <<x - s + t, d - s + t>> \in Near(under)
      BY <1>3, NearIs
    <3>2. 1 <= x /\ 1 <= d BY <1>1, <2>1
    <3> QED BY <3>1, <3>2
  <2>6. d - 1 + 0 = d - 1 /\ z \in Nat BY <2>1
  <2> HIDE DEF z, F, g
  <2> QED BY <2>3, <2>4, <2>5, <2>6
<1> QED BY <1>3 DEF CoversArm

-----------------------------------------------------------------------------
(* The depth between what was promised, through calls and returns. *)

Promised(p, under) == CheckUnderflowOverflow(p, under)

(* The depth d is what the check reckoned with: with the parts fs at work    *)
(* the function can still end with no less (no more) than it promised.       *)
Kept(p, under, fs, w, xs) ==
  Tracks(p, Checks(p, under), Nat, Nat, Near(under), Promised(p, under), fs, w, xs)

Held(p, under, fs, w, d) ==
  IF fs = <<>> THEN <<Promised(p, under), d>> \in Near(under)
  ELSE \E xs : Kept(p, under, fs, w, xs) /\ <<xs[Len(fs)], d>> \in Near(under)

(* The whole function begins with an empty stack. *)
LEMMA HeldStarts ==
  ASSUME NEW p \in Seq(Op), NEW under \in BOOLEAN, Promised(p, under) >= 0,
         NEW f, f = [base |-> 0, n |-> Len(p), pc |-> 0]
  PROVE  Held(p, under, <<f>>, FALSE, 0) /\ Promised(p, under) \in Nat
<1> DEFINE xs == <<0>>
           fs == <<f>>
           F == Checks(p, under)
           T == Promised(p, under)
<1>1. Len(p) \in Nat BY LenProperties
<1>2. <<0, Len(p), 0, 0>> \in CheckPlaces(p) BY <1>1 DEF CheckPlaces
<1>3. T = F[<<0, Len(p), 0, 0>>] BY ChecksFromStart DEF Promised
<1>4. T \in Depths BY <1>2, <1>3, ChecksAre
<1>5. T \in Nat BY <1>4 DEF Depths
<1>6. Value(F, f, 0) = T BY <1>3 DEF Value
<1>7. xs \in Seq(Nat) /\ Len(xs) = 1 /\ xs[1] = 0 /\ Len(fs) = 1 /\ fs[1] = f /\ fs # <<>> OBVIOUS
<1> HIDE DEF xs, fs, F, T
<1>8. Rest(p, fs, FALSE, 1) = f BY <1>7 DEF Rest
<1>9. \A k \in 1 .. Len(fs) : k = 1 BY <1>7
<1>10. \A k \in 1 .. Len(fs) - 1 : FALSE BY <1>7
<1>11. Tracks(p, F, Nat, Nat, Near(under), T, fs, FALSE, xs)
  BY <1>5, <1>6, <1>7, <1>8, <1>9, <1>10 DEF Tracks
<1>12. <<xs[Len(fs)], 0>> \in Near(under) BY <1>7 DEF Near
<1> QED BY <1>5, <1>7, <1>11, <1>12 DEF Held, Kept, fs, F, T

(* The innermost part goes on with a depth that was reckoned with. *)
LEMMA HeldMoves ==
  ASSUME NEW p, NEW under, NEW fs \in Seq(Frame), NEW w, NEW d, fs # <<>>, Held(p, under, fs, w, d),
         NEW g \in Frame, NEW e, Covers(p, under, Rest(p, fs, w, Len(fs)), d, g, e)
  PROVE  Held(p, under, [fs EXCEPT ![Len(fs)] = g], FALSE, e)
<1> DEFINE L == Len(fs)
           F == Checks(p, under)
<1>1. L \in Nat /\ L \in 1 .. L BY EmptySeq, LenProperties
<1>2. PICK xs : Kept(p, under, fs, w, xs) /\ <<xs[L], d>> \in Near(under) BY DEF Held
<1>3. xs \in Seq(Nat) /\ Len(xs) = L /\ Value(F, Rest(p, fs, w, L), xs[L]) \in Nat
  BY <1>1, <1>2 DEF Kept, Tracks
<1>4. xs[L] \in Nat BY <1>1, <1>3
<1>5. PICK y \in Nat : /\ Value(F, g, y) = Value(F, Rest(p, fs, w, L), xs[L])
                       /\ <<y, e>> \in Near(under)
  BY <1>2, <1>3, <1>4 DEF Covers
<1> DEFINE gs == [fs EXCEPT ![L] = g]
           ys == [xs EXCEPT ![L] = y]
<1>6. Kept(p, under, gs, FALSE, ys) BY <1>2, <1>5, TracksAdvance DEF Kept
<1>7. Len(gs) = L /\ ys[L] = y /\ gs # <<>> BY <1>1, <1>3
<1> HIDE DEF gs, ys
<1>8. Held(p, under, gs, FALSE, e) BY <1>5, <1>6, <1>7 DEF Held
<1> QED BY <1>8 DEF gs

(* A branch begins with one. *)
LEMMA HeldEnters ==
  ASSUME NEW p, NEW under, NEW fs \in Seq(Frame), NEW d, fs # <<>>, Held(p, under, fs, FALSE, d),
         NEW g \in Frame, NEW e, CoversArm(p, under, fs[Len(fs)], d, g, e)
  PROVE  Held(p, under, Append(fs, g), FALSE, e)
<1> DEFINE L == Len(fs)
           F == Checks(p, under)
<1>1. L \in Nat /\ L \in 1 .. L BY EmptySeq, LenProperties
<1>2. PICK xs : Kept(p, under, fs, FALSE, xs) /\ <<xs[L], d>> \in Near(under) BY DEF Held
<1>3. xs \in Seq(Nat) /\ Len(xs) = L /\ Value(F, fs[L], xs[L]) \in Nat
  BY <1>1, <1>2 DEF Kept, Tracks, Rest
<1>4. xs[L] \in Nat BY <1>1, <1>3
<1>5. PICK y \in Nat, z \in Nat :
        /\ Value(F, After(p, fs[L]), y) = Value(F, fs[L], xs[L])
        /\ Value(F, g, z) \in Nat
        /\ <<y, Value(F, g, z)>> \in Near(under)
        /\ <<z, e>> \in Near(under)
  BY <1>2, <1>3, <1>4 DEF CoversArm
<1> DEFINE gs == Append(fs, g)
           ys == Append([xs EXCEPT ![L] = y], z)
<1>6. Kept(p, under, gs, FALSE, ys) BY <1>2, <1>5, TracksEnter DEF Kept
<1>7. Len(gs) = L + 1 /\ gs # <<>> BY <1>1
<1>8. ys[L + 1] = z
  <2> DEFINE us == [xs EXCEPT ![L] = y]
  <2>1. us \in Seq(Nat) /\ Len(us) = L BY <1>1, <1>3
  <2> HIDE DEF us
  <2>2. Append(us, z)[L + 1] = z BY <1>1, <2>1
  <2> QED BY <2>2 DEF us
<1> HIDE DEF gs, ys
<1>9. Held(p, under, gs, FALSE, e) BY <1>5, <1>6, <1>7, <1>8 DEF Held
<1> QED BY <1>9 DEF gs

(* A part that ends hands on what was counted in it. *)
LEMMA ValueAtEnd ==
  ASSUME NEW p \in Seq(Op), NEW under \in BOOLEAN, NEW f \in Within(p), f.pc >= f.n, NEW x \in Nat
  PROVE  Value(Checks(p, under), f, x) = x
<1> DEFINE q == <<f.base, f.n, f.pc, x>>
<1>1. q \in CheckPlaces(p) /\ q[3] >= q[2] /\ q[4] = x BY DEF Within, Frame, CheckPlaces
<1> HIDE DEF q
<1>2. Checks(p, under)[q] = x BY <1>1, ChecksAre DEF CheckStep
<1> QED BY <1>2 DEF Value, q

(* A branch ends with what its caller was promised. *)
LEMMA HeldLeaves ==
  ASSUME NEW p \in Seq(Op), NEW under \in BOOLEAN, NEW fs \in Seq(Frame), NEW d \in Nat,
         Promised(p, under) \in Nat,
         fs # <<>>, Held(p, under, fs, FALSE, d),
         fs[Len(fs)] \in Within(p), fs[Len(fs)].pc >= fs[Len(fs)].n
  PROVE  Held(p, under, SubSeq(fs, 1, Len(fs) - 1), TRUE, d)
<1> DEFINE L == Len(fs)
           F == Checks(p, under)
           gs == SubSeq(fs, 1, L - 1)
<1>1. L \in Nat /\ L \in 1 .. L /\ L >= 1 BY EmptySeq, LenProperties
<1>2. PICK xs : Kept(p, under, fs, FALSE, xs) /\ <<xs[L], d>> \in Near(under) BY DEF Held
<1>3. /\ xs \in Seq(Nat) /\ Len(xs) = L /\ Rest(p, fs, FALSE, L) = fs[L]
      /\ \A k \in 1 .. L - 1 : <<xs[k], Value(F, Rest(p, fs, FALSE, k + 1), xs[k + 1])>> \in Near(under)
      /\ Value(F, Rest(p, fs, FALSE, 1), xs[1]) = Promised(p, under)
  BY <1>1, <1>2 DEF Kept, Tracks, Rest
<1>4. xs[L] \in Nat /\ (L > 1 => xs[L - 1] \in Nat) BY <1>1, <1>3
<1>5. Value(F, fs[L], xs[L]) = xs[L] BY <1>4, ValueAtEnd
<1>6. CASE L = 1
  <2>1. gs = <<>> BY <1>6
  <2>2. Promised(p, under) = xs[L] BY <1>3, <1>5, <1>6
  <2> HIDE DEF gs
  <2>3. Held(p, under, gs, TRUE, d) BY <1>2, <2>1, <2>2 DEF Held
  <2> QED BY <2>3 DEF gs
<1>7. CASE L > 1
  <2> DEFINE ys == SubSeq(xs, 1, L - 1)
  <2>0. Len(fs) > 1 /\ Tracks(p, F, Nat, Nat, Near(under), Promised(p, under), fs, FALSE, xs)
    BY <1>2, <1>7 DEF Kept
  <2>1. Kept(p, under, gs, TRUE, ys) /\ ys[L - 1] = xs[L - 1]
    <3>1. Kept(p, under, gs, TRUE, ys) BY <2>0, TracksLeave DEF Kept
    <3>2. ys[L - 1] = xs[L - 1] BY <1>1, <1>3, <1>7
    <3> QED BY <3>1, <3>2
  <2>2. L - 1 \in 1 .. L - 1 /\ L - 1 + 1 = L BY <1>1, <1>7
  <2>3. <<xs[L - 1], xs[L]>> \in Near(under) BY <1>3, <1>5, <2>2
  <2>4. <<xs[L - 1], d>> \in Near(under) BY <1>2, <1>4, <1>7, <2>3, NearIs
  <2>5. Len(gs) = L - 1 /\ gs # <<>>
    <3>1. Len(gs) = L - 1 /\ L - 1 # 0 BY <1>1, <1>7
    <3> HIDE DEF gs
    <3> QED BY <3>1
  <2> HIDE DEF gs, ys
  <2>6. Held(p, under, gs, TRUE, d) BY <2>1, <2>4, <2>5 DEF Held
  <2> QED BY <2>6 DEF gs
<1>8. L = 1 \/ L > 1
  <2>1. \A n \in Nat : n >= 1 => n = 1 \/ n > 1 OBVIOUS
  <2> HIDE DEF L
  <2> QED BY <1>1, <2>1
<1> QED BY <1>6, <1>7, <1>8

(* The stack holds what the operator at hand takes. *)
LEMMA HeldEnough ==
  ASSUME NEW p \in Seq(Op), NEW fs \in Seq(Frame), NEW d \in Nat,
         fs # <<>>, Held(p, TRUE, fs, FALSE, d),
         NEW f \in Within(p), f = fs[Len(fs)], f.pc < f.n
  PROVE  /\ Used(OpAt(p, f)) <= d /\ Fitting(ArmsOf(p, f), OpAt(p, f).sig, f.n)
         /\ OpAt(p, f).sig = "sel" => ArmsOf(p, f) # <<>>
<1> DEFINE L == Len(fs)
<1>1. L \in Nat /\ L \in 1 .. L /\ L >= 1 BY EmptySeq, LenProperties
<1>2. PICK xs : Kept(p, TRUE, fs, FALSE, xs) /\ <<xs[L], d>> \in Near(TRUE) BY DEF Held
<1>3. xs \in Seq(Nat) /\ Len(xs) = L /\ Value(Checks(p, TRUE), f, xs[L]) \in Nat
  <2>1. Rest(p, fs, FALSE, L) = f BY <1>1 DEF Rest
  <2> QED BY <1>1, <1>2, <2>1 DEF Kept, Tracks
<1>4. xs[L] \in Nat BY <1>1, <1>3
<1>5. xs[L] <= d BY <1>2, <1>4, NearIs
<1>6. /\ Used(OpAt(p, f)) <= xs[L] /\ Used(OpAt(p, f)) \in Nat
      /\ Fitting(ArmsOf(p, f), OpAt(p, f).sig, f.n)
      /\ OpAt(p, f).sig = "sel" => ArmsOf(p, f) # <<>>
  BY <1>3, <1>4, CheckedStep
<1> QED BY <1>4, <1>5, <1>6

(* Begin's abstract run of an exact function is still good: none of the      *)
(* parts at work can fail, and the stack is between the two depths the run   *)
(* has counted.                                                              *)
Tracked(p, fs, w, d) ==
  /\ Fine(p, Calling(p), Shallow(p), fs, w)
  /\ \A under \in BOOLEAN : Held(p, under, fs, w, d)

Foreseen ==
  Exact(prog) => /\ ret \notin {"false", "thrown"} /\ phase # "lost"
                 /\ phase = "running" => Tracked(prog, frames, ret = "true", depth)

AllCover(p, f, d, g, e) == \A under \in BOOLEAN : Covers(p, under, f, d, g, e)
AllCoverArm(p, f, d, g, e) == \A under \in BOOLEAN : CoversArm(p, under, f, d, g, e)

(* Both bounds at once, and the nesting: the innermost part goes on, ... *)
LEMMA TrackedMoves ==
  ASSUME NEW p \in Seq(Op), NEW fs \in Seq(Frame), NEW w, NEW d \in Nat, fs # <<>>,
         Tracked(p, fs, w, d), NEW g \in Frame, <<g, Len(fs)>> \in Shallow(p), NEW e \in Nat,
         AllCover(p, Rest(p, fs, w, Len(fs)), d, g, e)
  PROVE  Tracked(p, [fs EXCEPT ![Len(fs)] = g], FALSE, e)
<1>1. Fine(p, Calling(p), Shallow(p), [fs EXCEPT ![Len(fs)] = g], FALSE)
  BY FineMoves DEF Tracked
<1>2. \A under \in BOOLEAN : Held(p, under, [fs EXCEPT ![Len(fs)] = g], FALSE, e)
  <2> TAKE under \in BOOLEAN
  <2>1. Held(p, under, fs, w, d) /\ Covers(p, under, Rest(p, fs, w, Len(fs)), d, g, e)
    BY DEF Tracked, AllCover
  <2> QED BY <2>1, HeldMoves
<1> QED BY <1>1, <1>2 DEF Tracked

(* ... a branch begins, ... *)
LEMMA TrackedEnters ==
  ASSUME NEW p \in Seq(Op), NEW fs \in Seq(Frame), NEW d \in Nat, fs # <<>>,
         Tracked(p, fs, FALSE, d), fs[Len(fs)] \in Calling(p),
         <<After(p, fs[Len(fs)]), Len(fs)>> \in Shallow(p),
         NEW g \in Frame, <<g, Len(fs) + 1>> \in Shallow(p), NEW e \in Nat,
         AllCoverArm(p, fs[Len(fs)], d, g, e)
  PROVE  Tracked(p, Append(fs, g), FALSE, e)
<1>1. Fine(p, Calling(p), Shallow(p), Append(fs, g), FALSE)
  BY FineMoves DEF Tracked
<1>2. \A under \in BOOLEAN : Held(p, under, Append(fs, g), FALSE, e)
  <2> TAKE under \in BOOLEAN
  <2>1. Held(p, under, fs, FALSE, d) /\ CoversArm(p, under, fs[Len(fs)], d, g, e)
    BY DEF Tracked, AllCoverArm
  <2> QED BY <2>1, HeldEnters
<1> QED BY <1>1, <1>2 DEF Tracked

(* What Begin found out of a function it accepts. *)
LEMMA AcceptedIs ==
  ASSUME NEW p \in Seq(Op), Accepts(p)
  PROVE  /\ HasValidOperations(p)
         /\ \A under \in BOOLEAN :
              /\ Promised(p, under) \in Nat
              /\ \A f : f = [base |-> 0, n |-> Len(p), pc |-> 0] => Held(p, under, <<f>>, FALSE, 0)
<1>1. \A under \in BOOLEAN : Promised(p, under) >= 0 BY DEF Accepts, Promised
<1>2. \A under \in BOOLEAN :
              /\ Promised(p, under) \in Nat
              /\ \A f : f = [base |-> 0, n |-> Len(p), pc |-> 0] => Held(p, under, <<f>>, FALSE, 0)
  BY <1>1, HeldStarts
<1> QED BY <1>2 DEF Accepts

(* ... a branch ends, ... *)
LEMMA TrackedLeaves ==
  ASSUME NEW p \in Seq(Op), Accepts(p), NEW fs \in Seq(Frame), NEW d \in Nat, fs # <<>>,
         Tracked(p, fs, FALSE, d),
         fs[Len(fs)] \in Within(p), fs[Len(fs)].pc >= fs[Len(fs)].n
  PROVE  Tracked(p, SubSeq(fs, 1, Len(fs) - 1), TRUE, d)
<1> DEFINE gs == SubSeq(fs, 1, Len(fs) - 1)
<1>1. Fine(p, Calling(p), Shallow(p), gs, TRUE)
  <2>1. fs[Len(fs)] \in Frame BY DEF Within
  <2> QED BY <2>1, FineMoves DEF Tracked
<1>2. \A under \in BOOLEAN : Held(p, under, gs, TRUE, d)
  <2> TAKE under \in BOOLEAN
  <2>1. Held(p, under, fs, FALSE, d) /\ Promised(p, under) \in Nat
    BY AcceptedIs DEF Tracked
  <2> QED BY <2>1, HeldLeaves
<1> HIDE DEF gs
<1>3. Tracked(p, gs, TRUE, d) BY <1>1, <1>2 DEF Tracked
<1> QED BY <1>3 DEF gs

(* ... and the whole function begins. *)
LEMMA TrackedStarts ==
  ASSUME NEW p \in Seq(Op), Accepts(p), Exact(p),
         NEW f, f = [base |-> 0, n |-> Len(p), pc |-> 0]
  PROVE  Tracked(p, <<f>>, FALSE, 0)
<1> DEFINE fs == <<f>>
<1>1. Len(p) \in Nat /\ f \in Within(p) BY LenProperties DEF Within, Frame
<1>2. Place(f) = <<0, Len(p), 0>> /\ Place(f) \in Places(p) BY <1>1 DEF Place, Places
<1>3. Nested(p)[Place(f)] BY <1>2, NestedFromStart DEF Exact
<1>4. Deep(p)[Place(f)] <= MaxDepth /\ Deep(p)[Place(f)] \in Nat
  BY <1>2, DeepFromStart, DeepAre DEF Exact
<1>5. Deep(p)[Place(f)] + 1 - 1 <= MaxDepth BY <1>4, DepthAssumption
<1>6. <<f, 1>> \in Shallow(p) BY <1>1, <1>2, <1>3, <1>5 DEF Shallow
<1>7. Len(fs) = 1 /\ fs[1] = f OBVIOUS
<1> HIDE DEF fs
<1>8. Rest(p, fs, FALSE, 1) = f BY <1>7 DEF Rest
<1>9. \A k \in 1 .. Len(fs) : k = 1 /\ ~(k < Len(fs)) BY <1>7
<1>10. Fine(p, Calling(p), Shallow(p), fs, FALSE) BY <1>6, <1>8, <1>9 DEF Fine
<1>11. \A under \in BOOLEAN : Held(p, under, fs, FALSE, 0) BY AcceptedIs DEF fs
<1>12. Tracked(p, fs, FALSE, 0) BY <1>10, <1>11 DEF Tracked
<1> QED BY <1>12 DEF fs

(* The operator at hand has what it takes, and its branches fit. *)
LEMMA AtWork ==
  ASSUME NEW p \in Seq(Op), Accepts(p), Exact(p), NEW fs \in Seq(Frame), NEW d \in Nat, fs # <<>>,
         Tracked(p, fs, FALSE, d), NEW f \in Within(p), f = fs[Len(fs)], f.pc < f.n,
         NEW o, o = OpAt(p, f)
  PROVE  /\ <<f, Len(fs)>> \in Shallow(p) /\ <<After(p, f), Len(fs)>> \in Shallow(p)
         /\ After(p, f) \in Within(p)
         /\ \A j \in 1 .. Len(ArmsOf(p, f)) :
              /\ ArmFrame(p, f, j) \in Within(p)
              /\ <<ArmFrame(p, f, j), Len(fs) + 1>> \in Shallow(p)
              /\ Len(fs) <= MaxDepth
         /\ Fitting(ArmsOf(p, f), o.sig, f.n)
         /\ o.sig \in {"if", "sel"} => f \in Calling(p) /\ d > 0
         /\ o.sig \notin {"if", "sel"} => ExecTakes(o) <= d /\ Executes(o, d)
<1> DEFINE L == Len(fs)
<1>1. L \in Nat /\ L \in 1 .. L BY EmptySeq, LenProperties
<1>2. Rest(p, fs, FALSE, L) = f BY <1>1 DEF Rest
<1>3. <<f, L>> \in Shallow(p) BY <1>1, <1>2 DEF Tracked, Fine
<1>4. /\ Used(o) <= d /\ Fitting(ArmsOf(p, f), o.sig, f.n)
      /\ o.sig = "sel" => ArmsOf(p, f) # <<>>
  <2>1. Held(p, TRUE, fs, FALSE, d) BY DEF Tracked
  <2> QED BY <2>1, HeldEnough
<1>5. /\ o.sig \notin {"else", "case", "dflt"}
      /\ <<After(p, f), L>> \in Shallow(p) /\ After(p, f) \in Within(p)
      /\ \A j \in 1 .. Len(ArmsOf(p, f)) :
              /\ ArmFrame(p, f, j) \in Within(p)
              /\ <<ArmFrame(p, f, j), L + 1>> \in Shallow(p)
              /\ L <= MaxDepth
  <2> HIDE DEF L
  <2> QED BY <1>1, <1>3, <1>4, ShallowStep
<1>6. HasValidOperations(p) BY AcceptedIs
<1>7. /\ Used(o) = ExecTakes(o) /\ ExecTakes(o) \in Nat
      /\ \A x \in Nat : o.sig \notin Flow /\ ExecTakes(o) <= x => Executes(o, x)
      /\ o.sig \in {"if", "sel"} => ExecTakes(o) = 1
  BY <1>6, CountedExactly
<1>8. o.sig = "if" => ArmsOf(p, f) # <<>>
  BY OpAtIs, ArmsAre, SMTT(40) DEF ArmsOf, OpAt
<1>9. o.sig \in {"if", "sel"} => f \in Calling(p) /\ d > 0
  BY <1>4, <1>7, <1>8 DEF Calling
<1>10. o.sig \notin {"if", "sel"} => ExecTakes(o) <= d /\ Executes(o, d)
  BY <1>4, <1>5, <1>7 DEF Flow
<1> QED BY <1>3, <1>4, <1>5, <1>9, <1>10

(* Where a sel goes on after its arms. *)
LEMMA SelectEnds ==
  ASSUME NEW p \in Seq(Op), NEW f \in Within(p), f.pc < f.n,
         Fitting(ArmsOf(p, f), OpAt(p, f).sig, f.n), ArmsOf(p, f) # <<>>
  PROVE  /\ AfterArms(f.pc, ArmsOf(p, f)) \in 1 .. f.n
         /\ AfterArms(f.pc, ArmsOf(p, f)) =
              ArmsOf(p, f)[Len(ArmsOf(p, f))].at + ArmsOf(p, f)[Len(ArmsOf(p, f))].size
         /\ \A j \in 1 .. Len(ArmsOf(p, f)) : Fits(ArmsOf(p, f)[j].at, ArmsOf(p, f)[j].size, f.n)
<1> DEFINE arms == ArmsOf(p, f)
<1>1. f.base \in Nat /\ f.n \in Nat /\ f.pc \in Nat /\ f.base + f.n <= Len(p) BY OpAtIs
<1>2. arms = CheckedArms(p, f.base, f.n, f.pc) BY DEF ArmsOf
<1> HIDE DEF arms
<1>3. AfterArms(f.pc, arms) \in Nat /\ AfterArms(f.pc, arms) > f.pc
  BY <1>1, <1>2, ArmsAre, SMTT(40)
<1>4. AfterArms(f.pc, arms) <= f.n
  BY <1>1, <1>2, FittingIs, SMTT(40) DEF arms
<1>5. AfterArms(f.pc, arms) \in 1 .. f.n BY <1>1, <1>3, <1>4
<1> QED BY <1>5 DEF AfterArms, Fitting, arms

-----------------------------------------------------------------------------
(* The interpreter foreseen by the static check. *)

(* The part at work and its operator. *)
LEMMA TopWithin ==
  ASSUME IInv, frames # <<>>
  PROVE  /\ prog \in Seq(Op) /\ frames \in Seq(Frame) /\ depth \in Nat
         /\ Len(frames) \in Nat /\ Len(frames) \in 1 .. Len(frames)
         /\ Top = frames[Len(frames)] /\ Top \in Within(prog) /\ Top \in Frame
         /\ Op0 = OpAt(prog, Top)
<1>1. prog \in Seq(Op) /\ frames \in Seq(Frame) /\ depth \in Nat BY DEF IInv, Framed
<1>2. Len(frames) \in Nat /\ Len(frames) \in 1 .. Len(frames) BY <1>1, EmptySeq, LenProperties
<1>3. Top \in Frame /\ Inside(Top, [base |-> 0, n |-> Len(prog)]) BY <1>1, <1>2 DEF IInv, Framed, Top
<1>4. Top \in Within(prog) BY <1>1, <1>3, LenProperties DEF Inside, Within, Frame
<1> QED BY <1>1, <1>2, <1>3, <1>4 DEF Top, Op0, OpAt

(* The innermost part goes on, or another one begins or ends.                *)
LEMMA ForeseenMoves ==
  ASSUME IInv, Foreseen, phase = "running", frames # <<>>, UNCHANGED <<prog, phase>>,
         ret' = "none", depth' \in Nat,
         NEW g \in Frame, frames' = [frames EXCEPT ![Len(frames)] = g],
         Exact(prog) => /\ <<g, Len(frames)>> \in Shallow(prog)
                        /\ AllCover(prog, Rest(prog, frames, ret = "true", Len(frames)),
                                    depth, g, depth')
  PROVE  Foreseen'
<1> SUFFICES ASSUME Exact(prog) PROVE Tracked(prog, frames', FALSE, depth')
  <2>1. (ret' = "true") = FALSE OBVIOUS
  <2> QED BY <2>1 DEF Foreseen
<1>1. Tracked(prog, frames, ret = "true", depth) BY DEF Foreseen
<1> DEFINE w == ret = "true"
<1>2. Tracked(prog, frames, w, depth) /\ AllCover(prog, Rest(prog, frames, w, Len(frames)), depth, g, depth')
  BY <1>1
<1> HIDE DEF w
<1> QED BY <1>2, TopWithin, TrackedMoves

(* A branch begins. *)
LEMMA ForeseenEnters ==
  ASSUME IInv, Foreseen, phase = "running", ret = "none", frames # <<>>, Top.pc < Top.n,
         UNCHANGED <<prog, phase, ret>>,
         Op0.sig \in {"if", "sel"}, depth > 0, depth' = depth - 1,
         NEW j, Exact(prog) => /\ j \in 1 .. Len(ArmsOf(prog, Top))
                               /\ frames' = Append(frames, ArmFrame(prog, Top, j))
  PROVE  Foreseen'
<1> SUFFICES ASSUME Exact(prog) PROVE Tracked(prog, frames', FALSE, depth')
  <2>1. (ret' = "true") = FALSE OBVIOUS
  <2> QED BY <2>1 DEF Foreseen
<1> DEFINE f == Top
           g == ArmFrame(prog, f, j)
<1>1. Tracked(prog, frames, FALSE, depth)
  <2>1. (ret = "true") = FALSE OBVIOUS
  <2> QED BY <2>1 DEF Foreseen
<1>2. /\ prog \in Seq(Op) /\ frames \in Seq(Frame) /\ depth \in Nat /\ f = frames[Len(frames)]
      /\ f \in Within(prog) /\ f.pc < f.n /\ OpAt(prog, f).sig \in {"if", "sel"}
  BY TopWithin
<1>3. Accepts(prog) /\ HasValidOperations(prog) BY AcceptedIs DEF IInv
<1>4. j \in 1 .. Len(ArmsOf(prog, f)) /\ frames' = Append(frames, g) OBVIOUS
<1> HIDE DEF f
<1>5. /\ <<After(prog, f), Len(frames)>> \in Shallow(prog)
      /\ g \in Within(prog) /\ <<g, Len(frames) + 1>> \in Shallow(prog)
      /\ f \in Calling(prog)
  BY <1>1, <1>2, <1>3, <1>4, AtWork
<1>6. AllCoverArm(prog, f, depth, g, depth - 1) BY <1>2, <1>3, <1>4, ArmCovers DEF AllCoverArm
<1>7. g \in Frame /\ depth - 1 \in Nat BY <1>2, <1>5 DEF Within
<1> HIDE DEF g
<1>8. Tracked(prog, Append(frames, g), FALSE, depth - 1)
  BY <1>1, <1>2, <1>5, <1>6, <1>7, TrackedEnters
<1> QED BY <1>4, <1>8

(* How many numbers are pushed. *)
LEMMA DataRunIs ==
  ASSUME IInv, frames # <<>>, Top.pc < Top.n
  PROVE  DataRun \in Nat /\ DataRunFrom(prog, Top, DataRun) /\ (DataRun > 0 => Op0.sig = "data")
<1> DEFINE f == Top
           n == f.n - f.pc
           G == {i \in Nat : SigAt(prog, f.base, f.n, f.pc + (i - 1)) = "data"}
           r == RunLength(n, G)
<1>1. f \in Within(prog) /\ f \in Frame BY TopWithin
<1>2. f.base \in Nat /\ f.n \in Nat /\ f.pc \in Nat /\ n \in Nat BY <1>1 DEF Frame
<1>3. r \in 0 .. n /\ \A j \in 1 .. r : j \in G
  <2> HIDE DEF G, n
  <2> QED BY <1>2, RunIs
<1>4. DataRun = r
  <2>1. \A k \in 1 .. n : (\A j \in 0 .. k - 1 : Is(j) = "data") <=> (\A j \in 1 .. k : j \in G)
    <3> TAKE k \in 1 .. n
    <3>1. ASSUME \A j \in 0 .. k - 1 : Is(j) = "data", NEW j \in 1 .. k PROVE j \in G
      <4>1. j - 1 \in 0 .. k - 1 /\ j \in Nat BY <1>2
      <4> QED BY <3>1, <4>1 DEF Is
    <3>2. ASSUME \A j \in 1 .. k : j \in G, NEW j \in 0 .. k - 1 PROVE Is(j) = "data"
      <4> DEFINE i == j + 1
      <4>1. i \in 1 .. k /\ i - 1 = j BY <1>2
      <4> HIDE DEF i
      <4>2. i \in G BY <3>2, <4>1
      <4>3. SigAt(prog, f.base, f.n, f.pc + (i - 1)) = "data" BY <4>2
      <4> QED BY <4>1, <4>3 DEF Is
    <3> QED BY <3>1, <3>2
  <2> DEFINE A == {k \in 1 .. Top.n - Top.pc : \A j \in 0 .. k - 1 : Is(j) = "data"}
             B == {k \in 1 .. n : \A j \in 1 .. k : j \in G}
  <2> HIDE DEF G
  <2>2. A = B BY <2>1
  <2>3. DataRun = Cardinality(A) /\ r = Cardinality(B) BY DEF DataRun, RunLength
  <2> HIDE DEF A, B
  <2> QED BY <2>2, <2>3
<1> HIDE DEF r
<1>5. \A j \in 0 .. r - 1 : SigAt(prog, f.base, f.n, f.pc + j) = "data"
  <2> TAKE j \in 0 .. r - 1
  <2>1. r \in Nat BY <1>2, <1>3
  <2>2. j + 1 \in 1 .. r /\ j + 1 - 1 = j BY <2>1
  <2>3. j + 1 \in G BY <1>3, <2>2
  <2> QED BY <2>2, <2>3
<1>6. r \in Nat /\ f.pc + r <= f.n BY <1>2, <1>3
<1>7. r > 0 => Op0.sig = "data"
  <2> SUFFICES ASSUME r > 0 PROVE Op0.sig = "data" OBVIOUS
  <2>1. 0 \in 0 .. r - 1 /\ f.pc + 0 = f.pc BY <1>2, <1>6
  <2>2. SigAt(prog, f.base, f.n, f.pc) = "data" BY <1>5, <2>1
  <2> QED BY <2>2 DEF SigAt, Op0
<1> QED BY <1>4, <1>5, <1>6, <1>7 DEF DataRunFrom

(* What the branch of an if begins with, and where its part goes on.         *)
LEMMA IfAt ==
  ASSUME IInv, frames # <<>>, Top.pc < Top.n, Op0.sig = "if"
  PROVE  /\ After(prog, Top) = [Top EXCEPT !.pc = AfterIf]
         /\ Is(1) = "else" =>
              /\ Len(ArmsOf(prog, Top)) = 2
              /\ ArmsOf(prog, Top)[1] = [at |-> Top.pc + 2, size |-> Op0.a]
              /\ ArmsOf(prog, Top)[2] = [at |-> Top.pc + 2 + Op0.a, size |-> ElseSize]
         /\ Is(1) # "else" =>
              /\ Len(ArmsOf(prog, Top)) = 1
              /\ ArmsOf(prog, Top)[1] = [at |-> Top.pc + 1, size |-> Op0.a]
         /\ \A j \in 1 .. Len(ArmsOf(prog, Top)) :
              ArmFrame(prog, Top, j) = [base |-> Top.base + ArmsOf(prog, Top)[j].at,
                                        n |-> ArmsOf(prog, Top)[j].size, pc |-> 0]
         /\ ArmsOf(prog, Top) # <<>>
<1> DEFINE f == Top
           arms == ArmsOf(prog, f)
<1>1. f \in Within(prog) /\ f.pc < f.n /\ OpAt(prog, f).sig = "if" /\ Op0 = OpAt(prog, f)
      /\ prog \in Seq(Op)
  BY TopWithin
<1>2. Is(1) = SigAt(prog, f.base, f.n, f.pc + 1) BY DEF Is
<1>3. f.pc \in Nat /\ Op0.a \in Nat BY <1>1, OpAtIs
<1>4. IF Is(1) = "else"
         THEN /\ Len(arms) = 2
              /\ arms[1] = [at |-> f.pc + 2, size |-> Op0.a]
              /\ arms[2] = [at |-> f.pc + 2 + Op0.a, size |-> ElseSize]
              /\ AfterArms(f.pc, arms) = f.pc + 2 + Op0.a + ElseSize
         ELSE /\ Len(arms) = 1
              /\ arms[1] = [at |-> f.pc + 1, size |-> Op0.a]
              /\ AfterArms(f.pc, arms) = f.pc + 1 + Op0.a
  BY <1>1, <1>2, IfArms DEF ElseSize
<1>5. AfterArms(f.pc, arms) = AfterIf
  <2>1. CASE Is(1) = "else"
    <3>1. ElseSize \in Nat BY <2>1, NextType DEF IInv
    <3> HIDE DEF f, arms
    <3>2. AfterIf = f.pc + 1 + Op0.a + (1 + ElseSize) BY <2>1 DEF AfterIf, f
    <3>3. AfterArms(f.pc, arms) = f.pc + 2 + Op0.a + ElseSize BY <1>4, <2>1
    <3>4. f.pc \in Nat BY <1>3 DEF f
    <3>5. \A x, y, z \in Nat : x + 2 + y + z = x + 1 + y + (1 + z) OBVIOUS
    <3> QED BY <1>3, <3>1, <3>2, <3>3, <3>4, <3>5
  <2>2. CASE Is(1) # "else"
    <3> HIDE DEF f, arms
    <3>2. AfterIf = f.pc + 1 + Op0.a + 0 BY <2>2 DEF AfterIf, f
    <3> QED BY <1>3, <1>4, <2>2, <3>2
  <2> QED BY <2>1, <2>2
<1>6. After(prog, f) = [f EXCEPT !.pc = AfterIf] BY <1>5 DEF After, ArmsOf
<1>7. arms # <<>> BY <1>4
<1> QED BY <1>4, <1>6, <1>7 DEF ArmFrame

(* The arms of a sel as InitSelectOp noted them are those the check visits. *)
LEMMA SelectAt ==
  ASSUME IInv, frames # <<>>, Top.pc < Top.n, Op0.sig = "sel",
         Fitting(ArmsOf(prog, Top), "sel", Top.n), ArmsOf(prog, Top) # <<>>
  PROVE  /\ NumCases \in Nat \ {0} /\ NumArms \in Nat /\ ~(DefaultAt >= Top.n)
         /\ NumArms >= NumCases /\ Len(ArmsOf(prog, Top)) = NumArms
         /\ \A k \in 1 .. NumArms : ArmsOf(prog, Top)[k] = [at |-> ArmAt(k), size |-> ArmSize(k)]
         /\ SelectEnd = AfterArms(Top.pc, ArmsOf(prog, Top))
         /\ SelectEnd \in 1 .. Top.n
         /\ After(prog, Top) = [Top EXCEPT !.pc = SelectEnd]
         /\ Exact(prog) => NumArms = NumCases + 1
<1> DEFINE f == Top
           arms == ArmsOf(prog, f)
<1>1. f \in Within(prog) /\ f.pc < f.n /\ OpAt(prog, f).sig = "sel" /\ Op0 = OpAt(prog, f)
      /\ prog \in Seq(Op)
  BY TopWithin
<1>2. f.base \in Nat /\ f.n \in Nat /\ f.pc \in Nat /\ f.base + f.pc + 1 \in DOMAIN prog
      /\ OpAt(prog, f) = prog[f.base + f.pc + 1] BY <1>1, OpAtIs
<1>3. /\ NumCases \in Nat \ {0} /\ NumArms \in Nat /\ NumArms >= NumCases
      /\ f.pc + 1 + NumCases < f.n
      /\ Len(arms) = NumArms
      /\ \A k \in 1 .. NumArms :
           arms[k] = [at   |-> f.pc + 1 + NumArms + SizesBefore(prog, Here, k - 1),
                      size |-> At(prog, 0, Here + k).a]
  BY <1>1, SelArms DEF NumCases, NumArms, Here
<1>4. \A k \in 1 .. NumArms : arms[k] = [at |-> ArmAt(k), size |-> ArmSize(k)]
  BY <1>3 DEF ArmAt, ArmSize
<1>5. ~(DefaultAt >= f.n) BY <1>2, <1>3 DEF DefaultAt
<1>6. NumArms \in 1 .. NumArms BY <1>3
<1>7. /\ AfterArms(f.pc, arms) \in 1 .. f.n
      /\ AfterArms(f.pc, arms) = arms[NumArms].at + arms[NumArms].size
  BY <1>1, <1>3, SelectEnds
<1>8. SelectEnd = AfterArms(f.pc, arms)
  <2> HIDE DEF arms, f
  <2>1. arms[NumArms] = [at |-> ArmAt(NumArms), size |-> ArmSize(NumArms)] BY <1>4, <1>6
  <2>2. arms[NumArms].at = ArmAt(NumArms) /\ arms[NumArms].size = ArmSize(NumArms) BY <2>1
  <2> QED BY <1>7, <2>2 DEF SelectEnd
<1>9. Exact(prog) => NumArms = NumCases + 1
  <2> SUFFICES ASSUME Exact(prog) PROVE NumArms = NumCases + 1 OBVIOUS
  <2>1. f.base + f.pc + 1 \in Sel(prog) BY <1>1, <1>2 DEF Sel
  <2>2. (f.base + f.pc + 1) - 1 = Here BY <1>2 DEF Here
  <2>3. Defaults(prog, 0, Len(prog), (f.base + f.pc + 1) - 1) = 1 BY <2>1 DEF Exact
  <2> QED BY <2>2, <2>3 DEF NumArms
<1>10. After(prog, f) = [f EXCEPT !.pc = SelectEnd] BY <1>8 DEF After, ArmsOf
<1> QED BY <1>3, <1>4, <1>5, <1>7, <1>8, <1>9, <1>10

(* A branch that fits is begun unless calls are nested too deep. *)
LEMMA CallBegins ==
  ASSUME NEW j,
         NEW start, NEW count, Call(start, count), Fits(start, count, Top.n),
         ~(Len(frames) > MaxDepth),
         ArmsOf(prog, Top)[j].at = start, ArmsOf(prog, Top)[j].size = count
  PROVE  frames' = Append(frames, ArmFrame(prog, Top, j)) /\ UNCHANGED ret
BY DEF Call, ArmFrame

(* What the exact function at work can rely on, whatever operator comes.     *)
LEMMA ForeseenAtWork ==
  ASSUME IInv, Foreseen, Running, Exact(prog)
  PROVE  /\ frames # <<>> /\ Tracked(prog, frames, FALSE, depth)
         /\ <<Top, Len(frames)>> \in Shallow(prog) /\ <<After(prog, Top), Len(frames)>> \in Shallow(prog)
         /\ After(prog, Top) \in Within(prog)
         /\ \A j \in 1 .. Len(ArmsOf(prog, Top)) : ~(Len(frames) > MaxDepth)
         /\ \A j \in 1 .. Len(ArmsOf(prog, Top)) :
              Fits(ArmsOf(prog, Top)[j].at, ArmsOf(prog, Top)[j].size, Top.n)
         /\ Op0.sig \in {"if", "sel"} => Top \in Calling(prog) /\ depth > 0
         /\ Op0.sig \notin {"if", "sel"} => ExecTakes(Op0) <= depth /\ Executes(Op0, depth)
<1>1. frames # <<>> /\ phase = "running" /\ ret = "none" /\ Top.pc < Top.n BY DEF IInv, Running
<1>2. (ret = "true") = FALSE BY <1>1
<1>3. Tracked(prog, frames, FALSE, depth) BY <1>1, <1>2 DEF Foreseen
<1>4. Accepts(prog) BY <1>1 DEF IInv
<1> DEFINE f == Top
<1>5. /\ prog \in Seq(Op) /\ frames \in Seq(Frame) /\ depth \in Nat /\ f = frames[Len(frames)]
      /\ f \in Within(prog) /\ f.pc < f.n /\ Op0 = OpAt(prog, f)
      /\ Len(frames) \in Nat
  BY <1>1, TopWithin
<1> HIDE DEF f
<1>6. /\ <<f, Len(frames)>> \in Shallow(prog) /\ <<After(prog, f), Len(frames)>> \in Shallow(prog)
      /\ After(prog, f) \in Within(prog)
      /\ \A j \in 1 .. Len(ArmsOf(prog, f)) : Len(frames) <= MaxDepth
      /\ Fitting(ArmsOf(prog, f), Op0.sig, f.n)
      /\ Op0.sig \in {"if", "sel"} => f \in Calling(prog) /\ depth > 0
      /\ Op0.sig \notin {"if", "sel"} => ExecTakes(Op0) <= depth /\ Executes(Op0, depth)
  BY <1>1, <1>3, <1>4, <1>5, AtWork
<1>7. \A j \in 1 .. Len(ArmsOf(prog, f)) : ~(Len(frames) > MaxDepth)
  BY <1>5, <1>6, DepthAssumption
<1>8. \A j \in 1 .. Len(ArmsOf(prog, f)) :
              Fits(ArmsOf(prog, f)[j].at, ArmsOf(prog, f)[j].size, f.n)
  BY <1>6 DEF Fitting
<1> QED BY <1>1, <1>3, <1>6, <1>7, <1>8 DEF f

(* PushData keeps to the abstract run, ... *)
LEMMA DataForeseen ==
  ASSUME IInv, Foreseen, PushData PROVE Foreseen'
<1> DEFINE f == Top
           r == DataRun
           g == [f EXCEPT !.pc = f.pc + r]
<1>1. Running /\ frames # <<>> /\ phase = "running" /\ ret = "none" /\ f.pc < f.n
  BY DEF PushData, Running, IInv
<1>2. r \in Nat /\ DataRunFrom(prog, f, r) BY <1>1, DataRunIs
<1>3. /\ prog \in Seq(Op) /\ frames \in Seq(Frame) /\ depth \in Nat /\ f \in Within(prog)
      /\ f \in Frame /\ Len(frames) \in Nat /\ f = frames[Len(frames)]
      /\ Len(frames) \in 1 .. Len(frames)
  BY <1>1, TopWithin
<1>4. frames' = [frames EXCEPT ![Len(frames)] = g] BY <1>3 DEF PushData, MoveTo
<1>5. g \in Frame
  <2>1. f.pc + r \in Nat BY <1>2, <1>3 DEF Frame
  <2> QED BY <1>3, <2>1 DEF Frame
<1>6. depth' = depth + r /\ depth' \in Nat /\ ret' = "none" /\ UNCHANGED <<prog, phase>>
  BY <1>1, <1>2, <1>3 DEF PushData, Still
<1> HIDE DEF f, r
<1>7. ASSUME Exact(prog)
      PROVE  /\ <<g, Len(frames)>> \in Shallow(prog)
             /\ AllCover(prog, f, depth, g, depth + r)
  <2>1. HasValidOperations(prog) BY <1>1, <1>3, AcceptedIs DEF IInv
  <2>2. <<f, Len(frames)>> \in Shallow(prog) BY <1>1, <1>7, ForeseenAtWork DEF f
  <2>3. \A under \in BOOLEAN : Covers(prog, under, f, depth, g, depth + r)
    BY <1>2, <1>3, <1>7, <2>1, DataCovers
  <2>4. \A k \in Nat : <<f, k>> \in Shallow(prog) => <<g, k>> \in Shallow(prog)
    <3>1. Accepts(prog) /\ Tracked(prog, frames, FALSE, depth)
      BY <1>1, <1>7, ForeseenAtWork DEF IInv
    <3>2. Held(prog, TRUE, frames, FALSE, depth) BY <3>1 DEF Tracked
    <3>3. PICK xs : Kept(prog, TRUE, frames, FALSE, xs) BY <1>1, <3>2 DEF Held
    <3>4. Rest(prog, frames, FALSE, Len(frames)) = f BY <1>3 DEF Rest
    <3>5. xs[Len(frames)] \in Nat /\ Value(Checks(prog, TRUE), f, xs[Len(frames)]) \in Nat
      <4>1. xs \in Seq(Nat) /\ Len(xs) = Len(frames) BY <3>3 DEF Kept, Tracks
      <4>2. Value(Checks(prog, TRUE), Rest(prog, frames, FALSE, Len(frames)), xs[Len(frames)]) \in Nat
        BY <1>3, <3>3 DEF Kept, Tracks
      <4>3. xs[Len(frames)] \in Nat BY <1>3, <4>1
      <4> QED BY <3>4, <4>2, <4>3
    <3> QED BY <1>2, <1>3, <1>7, <2>1, <3>5, DataRuns
  <2> QED BY <1>3, <2>2, <2>3, <2>4 DEF AllCover
<1> HIDE DEF g
<1>8. Rest(prog, frames, ret = "true", Len(frames)) = f BY <1>1, <1>3 DEF Rest
<1> QED BY <1>1, <1>4, <1>5, <1>6, <1>7, <1>8, ForeseenMoves

(* ... so does every operator, ... *)
LEMMA ExecForeseen ==
  ASSUME IInv, Foreseen, Exec PROVE Foreseen'
<1> DEFINE f == Top
           g == [f EXCEPT !.pc = f.pc + 1]
<1>1. Running /\ frames # <<>> /\ phase = "running" /\ ret = "none" /\ f.pc < f.n
  BY DEF Exec, Running, IInv
<1>3. /\ prog \in Seq(Op) /\ frames \in Seq(Frame) /\ depth \in Nat /\ f \in Within(prog)
      /\ f \in Frame /\ Len(frames) \in Nat /\ f = frames[Len(frames)]
      /\ Len(frames) \in 1 .. Len(frames) /\ Op0 = OpAt(prog, f)
  BY <1>1, TopWithin
<1>4. frames' = [frames EXCEPT ![Len(frames)] = g] BY <1>3 DEF Exec, MoveTo
<1>5. g \in Frame
  <2>1. f.pc + 1 \in Nat BY <1>3 DEF Frame
  <2> QED BY <1>3, <2>1 DEF Frame
<1>6. /\ depth' = Executed(Op0, depth) /\ ret' = "none" /\ UNCHANGED <<prog, phase>>
      /\ Op0.sig \notin {"if", "sel"} /\ ExecTakes(Op0) <= depth
  BY <1>1 DEF Exec, Still, Executes
<1>61. depth' \in Nat
  <2>1. Op0 \in Op BY <1>1, <1>3, OpAtIs
  <2> DEFINE t == ExecTakes(Op0)
             x == ExecGives(Op0)
  <2>2. t \in Nat /\ x \in Nat BY <2>1, CountsNat
  <2>3. depth \in Nat /\ t <= depth /\ depth' = depth - t + x BY <1>3, <1>6 DEF Executed
  <2> HIDE DEF t, x
  <2> QED BY <2>2, <2>3
<1> HIDE DEF f
<1>7. ASSUME Exact(prog)
      PROVE  /\ <<g, Len(frames)>> \in Shallow(prog)
             /\ AllCover(prog, f, depth, g, Executed(Op0, depth))
  <2>1. HasValidOperations(prog) BY <1>1, <1>3, AcceptedIs DEF IInv
  <2>2. <<After(prog, f), Len(frames)>> \in Shallow(prog) BY <1>1, <1>7, ForeseenAtWork DEF f
  <2>3. After(prog, f) = g BY <1>1, <1>3, <1>6, NoArms
  <2>4. \A under \in BOOLEAN : Covers(prog, under, f, depth, g, Executed(Op0, depth))
    BY <1>1, <1>3, <1>6, <1>7, <2>1, ExecCovers
  <2> QED BY <2>2, <2>3, <2>4 DEF AllCover
<1> HIDE DEF g
<1>8. Rest(prog, frames, ret = "true", Len(frames)) = f BY <1>1, <1>3 DEF Rest
<1> QED BY <1>1, <1>4, <1>5, <1>6, <1>61, <1>7, <1>8, ForeseenMoves

(* ... none has too few arguments, ... *)
LEMMA NothingFails ==
  ASSUME IInv, Foreseen, ExecFails \/ PopFails \/ ExecThrows \/ ExecLeavesStack
  PROVE  Foreseen'
<1>1. Running BY DEF ExecFails, PopFails, ExecThrows, ExecLeavesStack, PassesWrapped
<1>2. CASE ExecFails
  <2>2. ~Exact(prog)
    <3> SUFFICES ASSUME Exact(prog) PROVE FALSE OBVIOUS
    <3>1. Executes(Op0, depth) BY <1>1, <1>2, ForeseenAtWork DEF ExecFails
    <3> QED BY <1>2, <3>1 DEF ExecFails
  <2> QED BY <1>2, <2>2 DEF Foreseen, ExecFails, Still
<1>3. CASE PopFails
  <2>2. ~Exact(prog)
    <3> SUFFICES ASSUME Exact(prog) PROVE FALSE OBVIOUS
    <3>1. depth > 0 BY <1>1, <1>3, ForeseenAtWork DEF PopFails
    <3> QED BY <1>3, <3>1 DEF PopFails
  <2> QED BY <1>3, <2>2 DEF Foreseen, PopFails, Still
<1>4. CASE ExecThrows \/ ExecLeavesStack
  <2>1. /\ Running /\ ExecTakes(Op0) > depth /\ Executes(Op0, depth) /\ prog' = prog
    BY <1>4 DEF ExecThrows, ExecLeavesStack, PassesWrapped
  <2>2. ~Exact(prog)
    <3> SUFFICES ASSUME Exact(prog) PROVE FALSE OBVIOUS
    <3>1. Op0.sig \notin {"if", "sel"} BY <2>1 DEF Executes
    <3>2. ExecTakes(Op0) <= depth BY <2>1, <3>1, ForeseenAtWork
    <3>3. Op0 \in Op /\ depth \in Nat BY <2>1, Op0Type DEF IInv, Running
    <3>4. ExecTakes(Op0) \in Nat BY <3>3, CountsNat
    <3> QED BY <2>1, <3>2, <3>3, <3>4
  <2>3. prog' = prog BY <2>1
  <2>4. ~Exact(prog)' BY <2>2, <2>3
  <2> QED BY <2>4 DEF Foreseen
<1> QED BY <1>2, <1>3, <1>4

(* ... an if goes into a branch or past it, ... *)
LEMMA IfForeseen ==
  ASSUME IInv, Foreseen, If PROVE Foreseen'
<1>1. Running /\ frames # <<>> /\ phase = "running" /\ ret = "none" /\ Top.pc < Top.n
      /\ Op0.sig = "if" /\ depth > 0 /\ depth' = depth - 1 /\ UNCHANGED <<prog, phase>>
  BY DEF If, Running, IInv, Still
<1>2. /\ prog \in Seq(Op) /\ frames \in Seq(Frame) /\ depth \in Nat /\ Top \in Within(prog)
      /\ Top \in Frame /\ Len(frames) \in Nat /\ Top = frames[Len(frames)]
      /\ Len(frames) \in 1 .. Len(frames) /\ Op0 = OpAt(prog, Top)
  BY <1>1, TopWithin
<1>3. ASSUME NEW j \in 1 .. Len(ArmsOf(prog, Top)),
             Call(ArmsOf(prog, Top)[j].at, ArmsOf(prog, Top)[j].size)
      PROVE  Foreseen'
  <2>1. CASE Exact(prog)
    <3>1. /\ Fits(ArmsOf(prog, Top)[j].at, ArmsOf(prog, Top)[j].size, Top.n)
          /\ ~(Len(frames) > MaxDepth)
      BY <1>1, <2>1, ForeseenAtWork
    <3>2. frames' = Append(frames, ArmFrame(prog, Top, j)) /\ UNCHANGED ret
      BY <1>3, <3>1, CallBegins
    <3> QED BY <1>1, <3>2, ForeseenEnters
  <2>2. CASE ~Exact(prog) BY <1>1, <2>2 DEF Foreseen
  <2> QED BY <2>1, <2>2
<1>4. ASSUME Is(1) # "else", MoveTo(AfterIf), UNCHANGED ret PROVE Foreseen'
  <2> DEFINE g == After(prog, Top)
  <2>1. g = [Top EXCEPT !.pc = AfterIf] /\ Len(ArmsOf(prog, Top)) = 1 BY <1>1, <1>4, IfAt
  <2>2. frames' = [frames EXCEPT ![Len(frames)] = g] BY <1>2, <1>4, <2>1 DEF MoveTo
  <2>3. g \in Frame
    <3>1. AfterIf \in Nat BY <1>1, <1>2, NextIndex DEF IInv
    <3> QED BY <1>2, <2>1, <3>1 DEF Frame
  <2>4. ASSUME Exact(prog)
        PROVE <<g, Len(frames)>> \in Shallow(prog) /\ AllCover(prog, Top, depth, g, depth - 1)
    <3>1. <<g, Len(frames)>> \in Shallow(prog) BY <1>1, <2>4, ForeseenAtWork
    <3>2. HasValidOperations(prog) BY <1>1, <1>2, AcceptedIs DEF IInv
    <3>3. \A under \in BOOLEAN : Covers(prog, under, Top, depth, g, depth - 1)
      BY <1>1, <1>2, <2>1, <2>4, <3>2, SkipCovers
    <3> QED BY <3>1, <3>3 DEF AllCover
  <2> HIDE DEF g
  <2>5. Rest(prog, frames, ret = "true", Len(frames)) = Top BY <1>1, <1>2 DEF Rest
  <2>6. depth' \in Nat /\ ret' = "none" BY <1>1, <1>2, <1>4
  <2> QED BY <1>1, <2>2, <2>3, <2>4, <2>5, <2>6, ForeseenMoves
<1>5. \/ Is(1) = "else" /\ (\/ Call(Top.pc + 2, Op0.a)
                            \/ Call(Top.pc + 2 + Op0.a, ElseSize))
      \/ Is(1) # "else" /\ (\/ Call(Top.pc + 1, Op0.a)
                            \/ MoveTo(AfterIf) /\ UNCHANGED ret)
  BY DEF If
<1>6. CASE Is(1) = "else"
  <2> DEFINE arms == ArmsOf(prog, Top)
  <2>1. /\ Len(arms) = 2 /\ arms[1] = [at |-> Top.pc + 2, size |-> Op0.a]
        /\ arms[2] = [at |-> Top.pc + 2 + Op0.a, size |-> ElseSize]
    BY <1>1, <1>6, IfAt
  <2>2. 1 \in 1 .. Len(arms) /\ 2 \in 1 .. Len(arms) BY <2>1
  <2>3. /\ arms[1].at = Top.pc + 2 /\ arms[1].size = Op0.a
        /\ arms[2].at = Top.pc + 2 + Op0.a /\ arms[2].size = ElseSize BY <2>1
  <2>4. CASE Call(Top.pc + 2, Op0.a)
    <3>1. Call(arms[1].at, arms[1].size) BY <2>3, <2>4
    <3> QED BY <1>3, <2>2, <3>1
  <2>5. CASE Call(Top.pc + 2 + Op0.a, ElseSize)
    <3>1. Call(arms[2].at, arms[2].size) BY <2>3, <2>5
    <3> QED BY <1>3, <2>2, <3>1
  <2> QED BY <1>5, <1>6, <2>4, <2>5
<1>7. CASE Is(1) # "else"
  <2> DEFINE arms == ArmsOf(prog, Top)
  <2>1. Len(arms) = 1 /\ arms[1] = [at |-> Top.pc + 1, size |-> Op0.a] BY <1>1, <1>7, IfAt
  <2>2. 1 \in 1 .. Len(arms) /\ arms[1].at = Top.pc + 1 /\ arms[1].size = Op0.a BY <2>1
  <2>3. CASE Call(Top.pc + 1, Op0.a)
    <3>1. Call(arms[1].at, arms[1].size) BY <2>2, <2>3
    <3> QED BY <1>3, <2>2, <3>1
  <2> QED BY <1>4, <1>5, <1>7, <2>3
<1> QED BY <1>6, <1>7

(* ... a sel into an arm, ... *)
LEMMA SelectForeseen ==
  ASSUME IInv, Foreseen, Select PROVE Foreseen'
<1>1. Running /\ frames # <<>> /\ phase = "running" /\ ret = "none" /\ Top.pc < Top.n
      /\ Op0.sig = "sel" /\ depth > 0 /\ depth' = depth - 1 /\ UNCHANGED <<prog, phase>>
  BY DEF Select, Running, IInv, Still
<1>2. CASE ~Exact(prog) BY <1>1, <1>2 DEF Foreseen
<1>3. CASE Exact(prog)
  <2> DEFINE arms == ArmsOf(prog, Top)
  <2>1. /\ Fitting(arms, "sel", Top.n) /\ arms # <<>>
        /\ \A j \in 1 .. Len(arms) : ~(Len(frames) > MaxDepth)
        /\ \A j \in 1 .. Len(arms) : Fits(arms[j].at, arms[j].size, Top.n)
    <3>1. Top \in Calling(prog) BY <1>1, <1>3, ForeseenAtWork
    <3>2. Op0 = OpAt(prog, Top) BY <1>1, TopWithin
    <3> QED BY <1>1, <1>3, <3>1, <3>2, ForeseenAtWork DEF Calling
  <2>2. /\ NumCases \in Nat \ {0} /\ NumArms \in Nat /\ ~(DefaultAt >= Top.n)
        /\ Len(arms) = NumArms /\ NumArms = NumCases + 1
        /\ \A k \in 1 .. NumArms : arms[k] = [at |-> ArmAt(k), size |-> ArmSize(k)]
    BY <1>1, <1>3, <2>1, SelectAt
  <2> HIDE DEF arms
  <2>3. PICK nSel \in 0 .. NumCases :
          IF nSel < NumCases THEN Call(ArmAt(nSel + 1), ArmSize(nSel + 1))
          ELSE IF NumArms > NumCases THEN Call(ArmAt(NumArms), ArmSize(NumArms))
          ELSE LeaveSelect
    BY <2>2 DEF Select
  <2>4. PICK j \in 1 .. NumArms : Call(ArmAt(j), ArmSize(j))
    <3>1. CASE nSel < NumCases
      <4>1. nSel + 1 \in 1 .. NumArms BY <2>2, <3>1
      <4> QED BY <2>3, <3>1, <4>1
    <3>2. CASE ~(nSel < NumCases)
      <4>1. NumArms \in 1 .. NumArms /\ NumArms > NumCases BY <2>2
      <4> QED BY <2>3, <3>2, <4>1
    <3> QED BY <3>1, <3>2
  <2>5. j \in 1 .. Len(arms) /\ arms[j].at = ArmAt(j) /\ arms[j].size = ArmSize(j)
    <3>1. arms[j] = [at |-> ArmAt(j), size |-> ArmSize(j)] BY <2>2
    <3> QED BY <2>2, <3>1
  <2>6. frames' = Append(frames, ArmFrame(prog, Top, j)) /\ UNCHANGED ret
    BY <2>1, <2>4, <2>5, CallBegins DEF arms
  <2> QED BY <1>1, <2>5, <2>6, ForeseenEnters DEF arms
<1> QED BY <1>2, <1>3

(* ... which ends ... *)
LEMMA EndForeseen ==
  ASSUME IInv, Foreseen, SequenceEnds PROVE Foreseen'
<1>1. /\ frames # <<>> /\ phase = "running" /\ ret = "none" /\ Top.pc >= Top.n
      /\ ret' = "true" /\ frames' = SubSeq(frames, 1, Len(frames) - 1)
      /\ UNCHANGED <<prog, phase, depth>>
  BY DEF SequenceEnds, IInv, Still, Returns
<1>2. /\ prog \in Seq(Op) /\ frames \in Seq(Frame) /\ depth \in Nat /\ Top \in Within(prog)
      /\ Top = frames[Len(frames)]
  BY <1>1, TopWithin
<1>3. Accepts(prog) BY <1>1 DEF IInv
<1>4. ASSUME Exact(prog) PROVE Tracked(prog, frames', TRUE, depth)
  <2>1. (ret = "true") = FALSE BY <1>1
  <2>2. Tracked(prog, frames, FALSE, depth) BY <1>1, <1>4, <2>1 DEF Foreseen
  <2> QED BY <1>1, <1>2, <1>3, <2>2, TrackedLeaves
<1>5. (ret' = "true") = TRUE BY <1>1
<1> QED BY <1>1, <1>4, <1>5 DEF Foreseen

(* ... and goes back to its caller. *)
LEMMA ResumeForeseen ==
  ASSUME IInv, Foreseen, Resume PROVE Foreseen'
<1>1. /\ frames # <<>> /\ phase = "running" /\ ret = "true" /\ Top.pc < Top.n
      /\ UNCHANGED <<prog, phase, depth>>
  BY DEF Resume, IInv, Still
<1>2. /\ prog \in Seq(Op) /\ frames \in Seq(Frame) /\ depth \in Nat /\ Top \in Within(prog)
      /\ Top = frames[Len(frames)] /\ Len(frames) \in 1 .. Len(frames) /\ Len(frames) \in Nat
      /\ Op0 = OpAt(prog, Top) /\ Top \in Frame
  BY <1>1, TopWithin
<1>3. CASE ~Exact(prog) BY <1>1, <1>3 DEF Foreseen
<1>4. CASE Exact(prog)
  <2> DEFINE g == After(prog, Top)
             L == Len(frames)
  <2>1. (ret = "true") = TRUE BY <1>1
  <2>2. Tracked(prog, frames, TRUE, depth) BY <1>1, <1>4, <2>1 DEF Foreseen
  <2>3. Rest(prog, frames, TRUE, L) = g BY <1>2 DEF Rest
  <2>4. Top \in Calling(prog) /\ <<g, L>> \in Shallow(prog)
    BY <1>2, <2>2, <2>3 DEF Tracked, Fine
  <2>5. g \in Frame
    <3>1. g \in Within(prog) BY <2>4 DEF Shallow
    <3> QED BY <3>1 DEF Within
  <2>6. frames' = [frames EXCEPT ![L] = g] /\ ret' = "none"
    <3>1. CASE Op0.sig = "if"
      <4>1. g = [Top EXCEPT !.pc = AfterIf] BY <1>1, <3>1, IfAt
      <4>2. MoveTo(AfterIf) /\ ret' = "none" BY <3>1 DEF Resume
      <4> QED BY <1>2, <4>1, <4>2 DEF MoveTo
    <3>2. CASE Op0.sig = "sel"
      <4>1. SelectEnd \in 1 .. Top.n /\ g = [Top EXCEPT !.pc = SelectEnd]
        BY <1>1, <1>2, <2>4, <3>2, SelectAt DEF Calling
      <4>2. LeaveSelect BY <3>2 DEF Resume
      <4>3. MoveTo(SelectEnd) /\ ret' = "none" BY <4>1, <4>2 DEF LeaveSelect
      <4> QED BY <1>2, <4>1, <4>3 DEF MoveTo
    <3>3. Op0.sig \in {"if", "sel"} BY <1>2, <2>4 DEF Calling
    <3> QED BY <3>1, <3>2, <3>3
  <2>7. AllCover(prog, Rest(prog, frames, ret = "true", L), depth, g, depth')
    <3> HIDE DEF g
    <3>1. AllCover(prog, g, depth, g, depth) BY DEF AllCover, Covers
    <3> QED BY <1>1, <2>1, <2>3, <3>1
  <2> HIDE DEF g
  <2> QED BY <1>1, <1>2, <2>4, <2>5, <2>6, <2>7, ForeseenMoves
<1> QED BY <1>3, <1>4

(* That is inductive. *)
LEMMA NextForeseen == IInv /\ Foreseen /\ [Next]_vars => Foreseen'
<1> SUFFICES ASSUME IInv, Foreseen, [Next]_vars PROVE Foreseen'
  OBVIOUS
<1>1. CASE UNCHANGED vars BY <1>1 DEF Foreseen, vars
<1>2. CASE Begin BY <1>2 DEF Foreseen, Begin
<1>3. CASE Apply
  <2> DEFINE f == [base |-> 0, n |-> Len(prog), pc |-> 0]
  <2>1. /\ frames' = <<f>> /\ ret' = "none" /\ depth' = 0 /\ phase' = "running"
        /\ UNCHANGED prog
    BY <1>3 DEF Apply
  <2>2. prog \in Seq(Op) /\ Accepts(prog) BY <1>3 DEF IInv, Apply
  <2>3. (ret' = "true") = FALSE BY <2>1
  <2>4. Exact(prog) => Tracked(prog, <<f>>, FALSE, 0) BY <2>2, TrackedStarts
  <2> HIDE DEF f
  <2> QED BY <2>1, <2>3, <2>4 DEF Foreseen
<1>4. CASE Unwind
  <2>1. ~Exact(prog) BY <1>4 DEF Foreseen, Unwind
  <2> QED BY <1>4, <2>1 DEF Foreseen, Unwind, Still
<1>5. CASE EndApply BY <1>5 DEF Foreseen, EndApply
<1> QED
  BY <1>1, <1>2, <1>3, <1>4, <1>5, DataForeseen, ExecForeseen, NothingFails, IfForeseen,
     SelectForeseen, EndForeseen, ResumeForeseen DEF Next

(* It holds at first. *)
LEMMA InitForeseen == Init => Foreseen
BY DEF Init, Foreseen

(* It implies both properties. *)
LEMMA ForeseenIs == IInv /\ Foreseen => AcceptedNeverFails /\ DepthForeseen
<1> SUFFICES ASSUME IInv, Foreseen PROVE AcceptedNeverFails /\ DepthForeseen
  OBVIOUS
<1>1. AcceptedNeverFails BY DEF Foreseen, AcceptedNeverFails
<1>2. ASSUME phase = "running", frames = <<>>, ret = "true", Exact(prog)
      PROVE  depth \in CheckUnderflowOverflow(prog, TRUE) .. CheckUnderflowOverflow(prog, FALSE)
  <2>1. prog \in Seq(Op) /\ Accepts(prog) /\ depth \in Nat BY <1>2 DEF IInv
  <2>2. \A under \in BOOLEAN : Held(prog, under, frames, ret = "true", depth) BY <1>2 DEF Foreseen, Tracked
  <2>3. \A under \in BOOLEAN : <<Promised(prog, under), depth>> \in Near(under)
    BY <1>2, <2>2 DEF Held
  <2>4. \A under \in BOOLEAN : Promised(prog, under) \in Nat BY <2>1, AcceptedIs
  <2>5. Promised(prog, TRUE) <= depth BY <2>1, <2>3, <2>4, NearIs
  <2>6. depth <= Promised(prog, FALSE) BY <2>1, <2>3, <2>4, NearIs
  <2>7. Promised(prog, TRUE) \in Nat /\ Promised(prog, FALSE) \in Nat BY <2>4
  <2> DEFINE lo == Promised(prog, TRUE)
             hi == Promised(prog, FALSE)
  <2>8. lo \in Nat /\ hi \in Nat /\ depth \in Nat /\ lo <= depth /\ depth <= hi
    BY <2>1, <2>5, <2>6, <2>7
  <2>9. depth \in lo .. hi
    <3> HIDE DEF lo, hi
    <3> QED BY <2>8
  <2> QED BY <2>9 DEF Promised
<1> QED BY <1>1, <1>2 DEF DepthForeseen

(* Begin's abstract run foresees every pixel: in an exact function that was  *)
(* accepted no sequence of operators fails, whichever branches the           *)
(* conditions choose (AcceptedNeverFails, DoesStackUnderflowOverflow).       *)
THEOREM AcceptedFunctionsNeverFail == Spec => []AcceptedNeverFails
<1>1. IInv /\ Foreseen => AcceptedNeverFails
  BY ForeseenIs
<1> QED  BY <1>1, InitInv, NextInv, InitForeseen, NextForeseen, PTL DEF Spec

(* Such a function leaves a stack between the least and the largest depth    *)
(* the check computed (DepthForeseen, CheckUnderflowOverflow).               *)
THEOREM AcceptedFunctionsEndForeseen == Spec => []DepthForeseen
<1>1. IInv /\ Foreseen => DepthForeseen
  BY ForeseenIs
<1> QED  BY <1>1, InitInv, NextInv, InitForeseen, NextForeseen, PTL DEF Spec

-----------------------------------------------------------------------------
(* SequenceNeedTempReset as a function on places of the program. *)

SeenPlaces(p) == {r \in Nat \X Nat \X Nat \X SUBSET Int : r[1] + r[2] <= Len(p)}

Other(p, q) == At(p, q[1], q[3] + 1).a
IfPlace(p, q) == <<q[1] + q[3] + 2, At(p, q[1], q[3]).a, 0, q[4]>>
ElsePlace(p, q) == <<q[1] + q[3] + 2 + At(p, q[1], q[3]).a, Other(p, q), 0, q[4]>>
GoingOn(q, pc, w) == <<q[1], q[2], pc, w>>

SeenStep(p, seen, q) ==
  LET o == At(p, q[1], q[3])
  IN IF q[3] >= q[2] THEN q[4]
     ELSE IF o.sig = "tget" /\ ~(Span(o) \subseteq q[4]) THEN AnyTemp
     ELSE IF o.sig \in {"tput", "tsav"} THEN seen[GoingOn(q, q[3] + 1, q[4] \cup Span(o))]
     ELSE IF o.sig = "if" /\ (~Fits(q[3] + 2, o.a, q[2]) \/ seen[IfPlace(p, q)] = AnyTemp)
          THEN AnyTemp
     ELSE IF o.sig = "if" /\ SigAt(p, q[1], q[2], q[3] + 1) = "else"
          THEN IF ~Fits(q[3] + 2 + o.a, Other(p, q), q[2]) \/ seen[ElsePlace(p, q)] = AnyTemp
               THEN AnyTemp
               ELSE seen[GoingOn(q, q[3] + 2 + o.a + Other(p, q),
                                 q[4] \cup (seen[IfPlace(p, q)] \cap seen[ElsePlace(p, q)]))]
     ELSE IF o.sig = "if" THEN seen[GoingOn(q, q[3] + 1 + o.a, q[4])]
     ELSE seen[GoingOn(q, q[3] + 1, q[4])]

Seen(p) == CHOOSE seen : seen = [q \in SeenPlaces(p) |-> SeenStep(p, seen, q)]

(* ResetFrom is that function at the start of the program. *)
LEMMA SeenFromStart ==
  ASSUME NEW p
  PROVE  ResetFrom(p) = Seen(p)[<<0, Len(p), 0, {}>>]
BY DEF ResetFrom, Seen, SeenStep, SeenPlaces, Other, IfPlace, ElsePlace, GoingOn

(* The analysis ends: it goes on with less of the function each time.        *)
LEMMA SeenGoesOn ==
  ASSUME NEW p \in Seq(Op), NEW q \in SeenPlaces(p), q[3] < q[2],
         NEW o, o = At(p, q[1], q[3])
  PROVE  /\ o \in Op /\ o.a \in Nat /\ Span(o) \in SUBSET Int
         /\ \A w \in SUBSET Int : /\ GoingOn(q, q[3] + 1, w) \in SeenPlaces(p)
                                  /\ LeftAt(GoingOn(q, q[3] + 1, w)) < LeftAt(q)
         /\ Fits(q[3] + 2, o.a, q[2]) =>
              /\ IfPlace(p, q) \in SeenPlaces(p) /\ LeftAt(IfPlace(p, q)) < LeftAt(q)
              /\ q[3] + 1 < q[2]
              /\ \A w \in SUBSET Int : /\ GoingOn(q, q[3] + 1 + o.a, w) \in SeenPlaces(p)
                                       /\ LeftAt(GoingOn(q, q[3] + 1 + o.a, w)) < LeftAt(q)
         /\ SigAt(p, q[1], q[2], q[3] + 1) = "else" /\ Fits(q[3] + 2 + o.a, Other(p, q), q[2]) =>
              /\ ElsePlace(p, q) \in SeenPlaces(p) /\ LeftAt(ElsePlace(p, q)) < LeftAt(q)
              /\ \A w \in SUBSET Int :
                   /\ GoingOn(q, q[3] + 2 + o.a + Other(p, q), w) \in SeenPlaces(p)
                   /\ LeftAt(GoingOn(q, q[3] + 2 + o.a + Other(p, q), w)) < LeftAt(q)
<1>1. /\ q[1] \in Nat /\ q[2] \in Nat /\ q[3] \in Nat /\ q[4] \in SUBSET Int
      /\ q[1] + q[2] <= Len(p)
  BY DEF SeenPlaces
<1> DEFINE b == q[1]
           n == q[2]
           c == q[3]
<1>2. b \in Nat /\ n \in Nat /\ c \in Nat /\ b + n <= Len(p) /\ c < n /\ Len(p) \in Nat
  BY <1>1, LenProperties
<1>3. o \in Op /\ o.a \in Nat /\ o.b \in Nat BY <1>1, AtIs, SMTT(40)
<1>4. Span(o) \in SUBSET Int BY <1>3 DEF Span
<1>5. LeftAt(q) = n - c /\ n - c > 0 BY <1>2 DEF LeftAt
<1>6. ASSUME NEW x \in Nat, x > c, NEW w \in SUBSET Int
      PROVE  GoingOn(q, x, w) \in SeenPlaces(p) /\ LeftAt(GoingOn(q, x, w)) < LeftAt(q)
  <2>1. GoingOn(q, x, w) \in SeenPlaces(p) BY <1>1, <1>6 DEF GoingOn, SeenPlaces
  <2>2. LeftAt(GoingOn(q, x, w)) = IF x >= n THEN 0 ELSE n - x BY DEF GoingOn, LeftAt
  <2> HIDE DEF n, c
  <2> QED BY <1>2, <1>5, <1>6, <2>1, <2>2
<1>7. ASSUME NEW at \in Nat, NEW size \in Nat, at > c, at + size <= n, NEW r,
             r = <<b + at, size, 0, q[4]>>
      PROVE  r \in SeenPlaces(p) /\ LeftAt(r) < LeftAt(q)
  <2>1. b + at \in Nat /\ b + at + size <= Len(p)
    <3> HIDE DEF b, n, c
    <3> QED BY <1>2, <1>7
  <2>2. r \in SeenPlaces(p) BY <1>1, <1>7, <2>1 DEF SeenPlaces
  <2>3. LeftAt(r) = IF 0 >= size THEN 0 ELSE size - 0 BY <1>7 DEF LeftAt
  <2> HIDE DEF b, n, c
  <2> QED BY <1>2, <1>5, <1>7, <2>2, <2>3
<1>8. \A w \in SUBSET Int : /\ GoingOn(q, q[3] + 1, w) \in SeenPlaces(p)
                            /\ LeftAt(GoingOn(q, q[3] + 1, w)) < LeftAt(q)
  BY <1>2, <1>6
<1>9. ASSUME Fits(c + 2, o.a, n)
      PROVE  /\ IfPlace(p, q) \in SeenPlaces(p) /\ LeftAt(IfPlace(p, q)) < LeftAt(q)
             /\ c + 1 < n
             /\ \A w \in SUBSET Int : /\ GoingOn(q, c + 1 + o.a, w) \in SeenPlaces(p)
                                      /\ LeftAt(GoingOn(q, c + 1 + o.a, w)) < LeftAt(q)
  <2>0. \A x, k, l \in Nat : Fits(x + 2, k, l) => x + 2 + k <= l /\ x + 1 < l BY DEF Fits
  <2>1. c + 2 \in Nat /\ c + 2 > c /\ c + 2 + o.a <= n /\ c + 1 < n
    <3> HIDE DEF b, n, c
    <3> QED BY <1>2, <1>3, <1>9, <2>0
  <2>2. b + c + 2 = b + (c + 2) BY <1>2
  <2>3. IfPlace(p, q) = <<b + (c + 2), o.a, 0, q[4]>> BY <2>2 DEF IfPlace
  <2>4. c + 1 + o.a \in Nat /\ c + 1 + o.a > c BY <1>2, <1>3
  <2> QED BY <1>3, <1>6, <1>7, <2>1, <2>3, <2>4
<1>10. ASSUME SigAt(p, b, n, c + 1) = "else", Fits(c + 2 + o.a, Other(p, q), n)
       PROVE  /\ ElsePlace(p, q) \in SeenPlaces(p) /\ LeftAt(ElsePlace(p, q)) < LeftAt(q)
              /\ \A w \in SUBSET Int :
                   /\ GoingOn(q, c + 2 + o.a + Other(p, q), w) \in SeenPlaces(p)
                   /\ LeftAt(GoingOn(q, c + 2 + o.a + Other(p, q), w)) < LeftAt(q)
  <2> DEFINE x == c + 2 + o.a
             y == Other(p, q)
  <2>1. x \in Nat /\ x > c BY <1>2, <1>3
  <2>2. y \in Nat /\ x + y <= n
    <3>1. y \in 0 .. n - x /\ x \in 0 .. n BY <1>10 DEF Fits
    <3> HIDE DEF x, y, n
    <3> QED BY <1>2, <2>1, <3>1
  <2>3. b + c + 2 + o.a = b + x
    <3>1. \A u, v, z \in Nat : u + v + 2 + z = u + (v + 2 + z) OBVIOUS
    <3> DEFINE z == o.a
    <3>2. z \in Nat /\ b \in Nat /\ c \in Nat BY <1>2, <1>3
    <3> HIDE DEF b, c, z
    <3>3. b + c + 2 + z = b + (c + 2 + z) BY <3>1, <3>2
    <3> QED BY <3>3 DEF z
  <2>4. ElsePlace(p, q) = <<b + x, y, 0, q[4]>> BY <2>3 DEF ElsePlace
  <2>5. x + y \in Nat /\ x + y > c
    <3> HIDE DEF x, y, c
    <3> QED BY <1>2, <2>1, <2>2
  <2> HIDE DEF x, y, b, c, n
  <2>6. ElsePlace(p, q) \in SeenPlaces(p) /\ LeftAt(ElsePlace(p, q)) < LeftAt(q)
    BY <1>7, <2>1, <2>2, <2>4
  <2>7. \A w \in SUBSET Int : /\ GoingOn(q, x + y, w) \in SeenPlaces(p)
                              /\ LeftAt(GoingOn(q, x + y, w)) < LeftAt(q)
    BY <1>6, <2>5
  <2> QED BY <2>6, <2>7 DEF x, y
<1> QED BY <1>3, <1>4, <1>8, <1>9, <1>10

(* The analysis exists and does what its definition says. *)
LEMMA SeenAre ==
  ASSUME NEW p \in Seq(Op)
  PROVE  /\ Seen(p) \in [SeenPlaces(p) -> SUBSET Int]
         /\ \A q \in SeenPlaces(p) : Seen(p)[q] = SeenStep(p, Seen(p), q)
<1> DEFINE D == SeenPlaces(p)
           V == SUBSET Int
           m == [q \in D |-> LeftAt(q)]
           B == [x \in [D -> V] \X D |-> SeenStep(p, x[1], x[2])]
<1>1. \A f \in [D -> V], q \in D : B[<<f, q>>] = SeenStep(p, f, q) OBVIOUS
<1>2. \A q \in D : /\ q[2] \in Nat /\ q[3] \in Nat /\ q[4] \in SUBSET Int
                   /\ (q[3] >= q[2] \/ q[3] < q[2])
  BY DEF SeenPlaces
<1>3. m \in [D -> Nat] BY <1>2 DEF LeftAt
<1>4. AnyTemp \in V BY DEF AnyTemp
<1>5. \A r \in D : m[r] = LeftAt(r) OBVIOUS
<1>6. ASSUME NEW f \in [D -> V], NEW q \in D PROVE SeenStep(p, f, q) \in V
  <2>1. CASE q[3] >= q[2] BY <1>2, <2>1 DEF SeenStep
  <2>2. CASE q[3] < q[2]
    <3> DEFINE o == At(p, q[1], q[3])
               els == SigAt(p, q[1], q[2], q[3] + 1) = "else"
    <3>1. ~(q[3] >= q[2]) BY <1>2, <2>2
    <3>2. /\ Span(o) \in V /\ q[4] \in V
          /\ \A w \in V : f[GoingOn(q, q[3] + 1, w)] \in V
          /\ Fits(q[3] + 2, o.a, q[2]) =>
               /\ f[IfPlace(p, q)] \in V
               /\ \A w \in V : f[GoingOn(q, q[3] + 1 + o.a, w)] \in V
          /\ els /\ Fits(q[3] + 2 + o.a, Other(p, q), q[2]) =>
               /\ f[ElsePlace(p, q)] \in V
               /\ \A w \in V : f[GoingOn(q, q[3] + 2 + o.a + Other(p, q), w)] \in V
      BY <1>2, <2>2, SeenGoesOn
    <3>3. q[4] \cup Span(o) \in V BY <3>2
    <3>4. \A x, y \in V : q[4] \cup (x \cap y) \in V BY <3>2
    <3> HIDE DEF o, els, V
    <3>5. CASE o.sig = "tget" /\ ~(Span(o) \subseteq q[4])
      BY <1>4, <3>1, <3>5 DEF SeenStep, o
    <3>6. CASE o.sig \in {"tput", "tsav"}
      <4>1. SeenStep(p, f, q) = f[GoingOn(q, q[3] + 1, q[4] \cup Span(o))]
        BY <3>1, <3>6 DEF SeenStep, o
      <4> QED BY <3>2, <3>3, <4>1
    <3>7. CASE o.sig = "if" /\ (~Fits(q[3] + 2, o.a, q[2]) \/ f[IfPlace(p, q)] = AnyTemp)
      BY <1>4, <3>1, <3>7 DEF SeenStep, o
    <3>8. CASE /\ o.sig = "if" /\ Fits(q[3] + 2, o.a, q[2]) /\ f[IfPlace(p, q)] # AnyTemp /\ els
               /\ (~Fits(q[3] + 2 + o.a, Other(p, q), q[2]) \/ f[ElsePlace(p, q)] = AnyTemp)
      BY <1>4, <3>1, <3>8 DEF SeenStep, o, els
    <3>9. CASE /\ o.sig = "if" /\ Fits(q[3] + 2, o.a, q[2]) /\ f[IfPlace(p, q)] # AnyTemp /\ els
               /\ Fits(q[3] + 2 + o.a, Other(p, q), q[2]) /\ f[ElsePlace(p, q)] # AnyTemp
      <4>1. SeenStep(p, f, q) = f[GoingOn(q, q[3] + 2 + o.a + Other(p, q),
                                 q[4] \cup (f[IfPlace(p, q)] \cap f[ElsePlace(p, q)]))]
        BY <3>1, <3>9 DEF SeenStep, o, els
      <4>2. q[4] \cup (f[IfPlace(p, q)] \cap f[ElsePlace(p, q)]) \in V BY <3>2, <3>4, <3>9
      <4> QED BY <3>2, <3>9, <4>1, <4>2
    <3>10. CASE o.sig = "if" /\ Fits(q[3] + 2, o.a, q[2]) /\ f[IfPlace(p, q)] # AnyTemp /\ ~els
      <4>1. SeenStep(p, f, q) = f[GoingOn(q, q[3] + 1 + o.a, q[4])]
        BY <3>1, <3>10 DEF SeenStep, o, els
      <4> QED BY <3>2, <3>10, <4>1
    <3>11. CASE ~(o.sig = "tget" /\ ~(Span(o) \subseteq q[4])) /\ o.sig \notin {"tput", "tsav", "if"}
      <4>1. SeenStep(p, f, q) = f[GoingOn(q, q[3] + 1, q[4])]
        BY <3>1, <3>11 DEF SeenStep, o
      <4> QED BY <3>2, <4>1
    <3> QED BY <3>5, <3>6, <3>7, <3>8, <3>9, <3>10, <3>11
  <2> QED BY <1>2, <2>1, <2>2
<1>7. ASSUME NEW f \in [D -> V], NEW g, NEW q \in D,
             \A r \in D : m[r] < m[q] => f[r] = g[r]
      PROVE  SeenStep(p, f, q) = SeenStep(p, g, q)
  <2>1. CASE q[3] >= q[2] BY <2>1 DEF SeenStep
  <2>2. CASE q[3] < q[2]
    <3> DEFINE o == At(p, q[1], q[3])
               els == SigAt(p, q[1], q[2], q[3] + 1) = "else"
    <3>0. \A r \in D : LeftAt(r) < LeftAt(q) => f[r] = g[r] BY <1>5, <1>7
    <3>1. ~(q[3] >= q[2]) BY <1>2, <2>2
    <3> HIDE DEF m
    <3>2. /\ Span(o) \in V /\ q[4] \in V
          /\ \A w \in V : f[GoingOn(q, q[3] + 1, w)] = g[GoingOn(q, q[3] + 1, w)]
          /\ Fits(q[3] + 2, o.a, q[2]) =>
               /\ f[IfPlace(p, q)] = g[IfPlace(p, q)] /\ f[IfPlace(p, q)] \in V
               /\ \A w \in V : f[GoingOn(q, q[3] + 1 + o.a, w)] = g[GoingOn(q, q[3] + 1 + o.a, w)]
          /\ els /\ Fits(q[3] + 2 + o.a, Other(p, q), q[2]) =>
               /\ f[ElsePlace(p, q)] = g[ElsePlace(p, q)] /\ f[ElsePlace(p, q)] \in V
               /\ \A w \in V : f[GoingOn(q, q[3] + 2 + o.a + Other(p, q), w)]
                             = g[GoingOn(q, q[3] + 2 + o.a + Other(p, q), w)]
      BY <1>2, <2>2, <3>0, SeenGoesOn
    <3>3. q[4] \cup Span(o) \in V BY <3>2
    <3>4. \A x, y \in V : q[4] \cup (x \cap y) \in V BY <3>2
    <3> HIDE DEF o, els, V
    <3>5. CASE o.sig = "tget" /\ ~(Span(o) \subseteq q[4])
      BY <3>1, <3>5 DEF SeenStep, o
    <3>6. CASE o.sig \in {"tput", "tsav"}
      <4>1. SeenStep(p, f, q) = f[GoingOn(q, q[3] + 1, q[4] \cup Span(o))]
        BY <3>1, <3>6 DEF SeenStep, o
      <4>2. SeenStep(p, g, q) = g[GoingOn(q, q[3] + 1, q[4] \cup Span(o))]
        BY <3>1, <3>6 DEF SeenStep, o
      <4> QED BY <3>2, <3>3, <4>1, <4>2
    <3>7. CASE o.sig = "if" /\ ~Fits(q[3] + 2, o.a, q[2])
      BY <3>1, <3>7 DEF SeenStep, o
    <3>8. CASE o.sig = "if" /\ Fits(q[3] + 2, o.a, q[2])
      <4>1. f[IfPlace(p, q)] = g[IfPlace(p, q)] /\ f[IfPlace(p, q)] \in V BY <3>2, <3>8
      <4>2. CASE f[IfPlace(p, q)] = AnyTemp
        BY <3>1, <3>8, <4>1, <4>2 DEF SeenStep, o
      <4>3. CASE f[IfPlace(p, q)] # AnyTemp /\ els /\ ~Fits(q[3] + 2 + o.a, Other(p, q), q[2])
        BY <3>1, <3>8, <4>1, <4>3 DEF SeenStep, o, els
      <4>4. CASE f[IfPlace(p, q)] # AnyTemp /\ els /\ Fits(q[3] + 2 + o.a, Other(p, q), q[2])
        <5>1. f[ElsePlace(p, q)] = g[ElsePlace(p, q)] /\ f[ElsePlace(p, q)] \in V BY <3>2, <4>4
        <5>2. CASE f[ElsePlace(p, q)] = AnyTemp
          BY <3>1, <3>8, <4>1, <4>4, <5>1, <5>2 DEF SeenStep, o, els
        <5>3. CASE f[ElsePlace(p, q)] # AnyTemp
          <6> DEFINE e == q[4] \cup (f[IfPlace(p, q)] \cap f[ElsePlace(p, q)])
                     r == GoingOn(q, q[3] + 2 + o.a + Other(p, q), e)
          <6>1. SeenStep(p, f, q) = f[r]
            BY <3>1, <3>8, <4>4, <5>3 DEF SeenStep, o, els
          <6>2. SeenStep(p, g, q) = g[r]
            BY <3>1, <3>8, <4>1, <4>4, <5>1, <5>3 DEF SeenStep, o, els
          <6>3. e \in V BY <3>4, <4>1, <5>1
          <6>4. f[r] = g[r] BY <3>2, <4>4, <6>3
          <6> QED BY <6>1, <6>2, <6>4
        <5> QED BY <5>2, <5>3
      <4>5. CASE f[IfPlace(p, q)] # AnyTemp /\ ~els
        <5>1. SeenStep(p, f, q) = f[GoingOn(q, q[3] + 1 + o.a, q[4])]
          BY <3>1, <3>8, <4>5 DEF SeenStep, o, els
        <5>2. SeenStep(p, g, q) = g[GoingOn(q, q[3] + 1 + o.a, q[4])]
          BY <3>1, <3>8, <4>1, <4>5 DEF SeenStep, o, els
        <5> QED BY <3>2, <3>8, <5>1, <5>2
      <4> QED BY <4>2, <4>3, <4>4, <4>5
    <3>9. CASE ~(o.sig = "tget" /\ ~(Span(o) \subseteq q[4])) /\ o.sig \notin {"tput", "tsav", "if"}
      <4>1. SeenStep(p, f, q) = f[GoingOn(q, q[3] + 1, q[4])]
        BY <3>1, <3>9 DEF SeenStep, o
      <4>2. SeenStep(p, g, q) = g[GoingOn(q, q[3] + 1, q[4])]
        BY <3>1, <3>9 DEF SeenStep, o
      <4> QED BY <3>2, <4>1, <4>2
    <3> QED BY <3>5, <3>6, <3>7, <3>8, <3>9
  <2> QED BY <1>2, <2>1, <2>2
<1>8. Recursive(D, V, m, B)
  <2>1. V # {} OBVIOUS
  <2>2. \A f \in [D -> V] : \A q \in D : B[<<f, q>>] \in V BY <1>1, <1>6
  <2>3. \A f, g \in [D -> V] : \A q \in D :
          (\A r \in D : m[r] < m[q] => f[r] = g[r]) => B[<<f, q>>] = B[<<g, q>>]
    BY <1>1, <1>7
  <2> HIDE DEF D, m, B, V
  <2> QED BY <1>3, <2>1, <2>2, <2>3 DEF Recursive
<1> DEFINE Runs(g) == g = [q \in D |-> SeenStep(p, g, q)]
           C == Seen(p)
<1>9. PICK f \in [D -> V] : \A q \in D : f[q] = SeenStep(p, f, q)
  <2>1. PICK f \in [D -> V] : \A q \in D : f[q] = B[<<f, q>>] BY <1>8, RecursionExists
  <2> QED BY <1>1, <2>1
<1>10. C = [q \in D |-> SeenStep(p, C, q)]
  <2>1. Runs(f) BY <1>9
  <2>2. C = CHOOSE g : Runs(g) BY DEF Seen
  <2>3. Runs(C) BY <2>1, <2>2
  <2> QED BY <2>3
<1> HIDE DEF C
<1>11. \A q \in D : C[q] = SeenStep(p, C, q)
  <2> HIDE DEF D
  <2> QED BY <1>10
<1>12. \A q \in D : f[q] = C[q]
  <2>1. \A q \in D : (\A r \in D : m[r] < m[q] => f[r] = C[r]) => f[q] = C[q]
    BY <1>7, <1>9, <1>11
  <2> HIDE DEF D, m
  <2>2. AgreeUpwards(D, m, f, C) BY <1>3, <2>1 DEF AgreeUpwards
  <2> QED BY <2>2, SameByMeasure
<1>13. C \in [D -> V]
  <2> HIDE DEF D, V
  <2>1. \A q \in D : C[q] \in V BY <1>9, <1>12
  <2>2. C = [q \in D |-> C[q]] BY <1>10
  <2> QED BY <2>1, <2>2
<1> QED BY <1>11, <1>13 DEF C

KnownTemps == (SUBSET Int) \ {AnyTemp}

(* What a caller may count on: that, beside what is fresh already, its       *)
(* branch writes the rest.                                                   *)
Grown(fr) == {r \in (SUBSET Int) \X (SUBSET Int) : r[1] \subseteq fr \cup r[2]}

Written(o, w) == IF o.sig \in {"tput", "tsav"} THEN w \cup Span(o) ELSE w

(* It is defined where a part goes on. *)
LEMMA SeenPlace ==
  ASSUME NEW p \in Seq(Op), NEW f \in Within(p), NEW w \in SUBSET Int,
         NEW q, q = <<f.base, f.n, f.pc, w>>
  PROVE  /\ q \in SeenPlaces(p) /\ q[1] = f.base /\ q[2] = f.n /\ q[3] = f.pc /\ q[4] = w
         /\ Value(Seen(p), f, w) = SeenStep(p, Seen(p), q)
         /\ Seen(p)[q] \in SUBSET Int
<1>1. q \in SeenPlaces(p) BY DEF Within, Frame, SeenPlaces
<1>2. Seen(p)[q] = SeenStep(p, Seen(p), q) /\ Seen(p)[q] \in SUBSET Int BY <1>1, SeenAre
<1> QED BY <1>1, <1>2 DEF Value

(* It follows an operator without branches. *)
LEMMA SeenOp ==
  ASSUME NEW p \in Seq(Op), NEW f \in Within(p), f.pc < f.n,
         NEW w \in SUBSET Int, Value(Seen(p), f, w) \in KnownTemps,
         NEW o, o = OpAt(p, f), o.sig \notin {"if", "sel"}
  PROVE  /\ Written(o, w) \in SUBSET Int
         /\ Value(Seen(p), [f EXCEPT !.pc = f.pc + 1], Written(o, w)) = Value(Seen(p), f, w)
         /\ o.sig = "tget" => Span(o) \subseteq w
<1> DEFINE q == <<f.base, f.n, f.pc, w>>
           S == Seen(p)
           g == [f EXCEPT !.pc = f.pc + 1]
<1>1. /\ q \in SeenPlaces(p) /\ q[1] = f.base /\ q[2] = f.n /\ q[3] = f.pc /\ q[4] = w
      /\ Value(S, f, w) = SeenStep(p, S, q) BY SeenPlace
<1>2. f \in Frame /\ f.pc \in Nat /\ f.n \in Nat /\ o \in Op /\ o.a \in Nat BY OpAtIs
<1>3. ~(q[3] >= q[2]) /\ q[3] < q[2] /\ o = At(p, q[1], q[3]) BY <1>1, <1>2 DEF OpAt
<1> HIDE DEF q
<1>4. Span(o) \in SUBSET Int BY <1>1, <1>3, SeenGoesOn
<1>5. Written(o, w) \in SUBSET Int BY <1>4 DEF Written
<1>6. o.sig = "tget" => Span(o) \subseteq w
  BY <1>1, <1>3 DEF SeenStep, KnownTemps
<1>7. SeenStep(p, S, q) = S[GoingOn(q, q[3] + 1, Written(o, w))]
  BY <1>1, <1>3, <1>6 DEF SeenStep, Written
<1>8. g.base = f.base /\ g.n = f.n /\ g.pc = f.pc + 1 BY <1>2 DEF Frame
<1> HIDE DEF g
<1>9. Value(S, g, Written(o, w)) = S[GoingOn(q, q[3] + 1, Written(o, w))]
  BY <1>1, <1>8 DEF Value, GoingOn
<1> QED BY <1>1, <1>5, <1>6, <1>7, <1>9 DEF g

(* It follows both branches of an if, and reckons afterwards with what both  *)
(* write.                                                                    *)
LEMMA SeenIf ==
  ASSUME NEW p \in Seq(Op), FollowedByReset(p), NEW f \in Within(p), f.pc < f.n,
         NEW w \in SUBSET Int, Value(Seen(p), f, w) \in KnownTemps, OpAt(p, f).sig = "if"
  PROVE  /\ SigAt(p, f.base, f.n, f.pc + 1) = "else"
         /\ Len(ArmsOf(p, f)) = 2
         /\ \A j \in 1 .. 2 : Value(Seen(p), ArmFrame(p, f, j), w) \in KnownTemps
         /\ \E y \in SUBSET Int :
              /\ Value(Seen(p), After(p, f), y) = Value(Seen(p), f, w)
              /\ \A j \in 1 .. 2 : y \subseteq w \cup Value(Seen(p), ArmFrame(p, f, j), w)
<1> DEFINE q == <<f.base, f.n, f.pc, w>>
           S == Seen(p)
           o == OpAt(p, f)
<1>1. /\ q \in SeenPlaces(p) /\ q[1] = f.base /\ q[2] = f.n /\ q[3] = f.pc /\ q[4] = w
      /\ Value(S, f, w) = SeenStep(p, S, q) BY SeenPlace
<1>2. /\ f \in Frame /\ f.base \in Nat /\ f.pc \in Nat /\ f.n \in Nat /\ o \in Op /\ o.a \in Nat
      /\ f.base + f.pc + 1 \in DOMAIN p /\ o = p[f.base + f.pc + 1] /\ f.base + f.n <= Len(p)
  BY OpAtIs
<1>3. ~(q[3] >= q[2]) /\ q[3] < q[2] /\ o = At(p, q[1], q[3]) BY <1>1, <1>2 DEF OpAt
<1> HIDE DEF q, S
<1>4. SeenStep(p, S, q) # AnyTemp BY <1>1 DEF KnownTemps, S
<1>5. Fits(q[3] + 2, o.a, q[2]) /\ S[IfPlace(p, q)] # AnyTemp
  BY <1>3, <1>4 DEF SeenStep
<1>6. IfPlace(p, q) \in SeenPlaces(p) /\ q[3] + 1 < q[2] BY <1>1, <1>3, <1>5, SeenGoesOn
<1>7. SigAt(p, f.base, f.n, f.pc + 1) = "else"
  <2>1. p[f.base + f.pc + 1 + 1].sig = "else" BY <1>2 DEF FollowedByReset
  <2>2. f.base + (f.pc + 1) + 1 = f.base + f.pc + 1 + 1 BY <1>2
  <2>3. p[f.base + (f.pc + 1) + 1].sig = "else" BY <2>1, <2>2
  <2> QED BY <1>1, <1>6, <2>3 DEF SigAt, At
<1>8. SigAt(p, q[1], q[2], q[3] + 1) = "else" BY <1>1, <1>7
<1>9. /\ Fits(q[3] + 2 + o.a, Other(p, q), q[2]) /\ S[ElsePlace(p, q)] # AnyTemp
  BY <1>3, <1>4, <1>5, <1>8 DEF SeenStep
<1>10. ElsePlace(p, q) \in SeenPlaces(p) BY <1>1, <1>3, <1>8, <1>9, SeenGoesOn
<1>11. S[IfPlace(p, q)] \in KnownTemps /\ S[ElsePlace(p, q)] \in KnownTemps
  <2>1. S[IfPlace(p, q)] \in SUBSET Int /\ S[ElsePlace(p, q)] \in SUBSET Int
    BY <1>6, <1>10, SeenAre DEF S
  <2> QED BY <1>5, <1>9, <2>1 DEF KnownTemps
<1> DEFINE y == w \cup (S[IfPlace(p, q)] \cap S[ElsePlace(p, q)])
<1>12. SeenStep(p, S, q) = S[GoingOn(q, q[3] + 2 + o.a + Other(p, q), y)]
  BY <1>1, <1>3, <1>5, <1>8, <1>9 DEF SeenStep
<1>13. y \in SUBSET Int BY <1>11 DEF KnownTemps
<1> DEFINE arms == ArmsOf(p, f)
<1>14. /\ Len(arms) = 2
       /\ arms[1] = [at |-> f.pc + 2, size |-> o.a]
       /\ arms[2] = [at |-> f.pc + 2 + o.a, size |-> Other(p, q)]
       /\ AfterArms(f.pc, arms) = f.pc + 2 + o.a + Other(p, q)
  <2>1. Other(p, q) = At(p, f.base, f.pc + 1).a BY <1>1 DEF Other
  <2> QED BY <1>7, <2>1, IfArms
<1>15. Value(S, ArmFrame(p, f, 1), w) = S[IfPlace(p, q)]
  <2>0. \A b, c \in Nat : b + (c + 2) = b + c + 2 OBVIOUS
  <2>1. f.base + (f.pc + 2) = f.base + f.pc + 2 BY <1>2, <2>0
  <2>2. ArmFrame(p, f, 1) = [base |-> f.base + f.pc + 2, n |-> o.a, pc |-> 0]
    BY <1>14, <2>1 DEF ArmFrame
  <2> QED BY <1>1, <1>3, <2>2 DEF Value, IfPlace
<1>16. Value(S, ArmFrame(p, f, 2), w) = S[ElsePlace(p, q)]
  <2>1. f.base + (f.pc + 2 + o.a) = f.base + f.pc + 2 + o.a
    <3> DEFINE z == o.a
    <3>1. z \in Nat /\ \A u, v, t \in Nat : u + v + 2 + t = u + (v + 2 + t) BY <1>2
    <3> HIDE DEF z
    <3>2. f.base + (f.pc + 2 + z) = f.base + f.pc + 2 + z BY <1>2, <3>1
    <3> QED BY <3>2 DEF z
  <2>2. ArmFrame(p, f, 2) = [base |-> f.base + f.pc + 2 + o.a, n |-> Other(p, q), pc |-> 0]
    BY <1>14, <2>1 DEF ArmFrame
  <2>3. ElsePlace(p, q) = <<f.base + f.pc + 2 + o.a, Other(p, q), 0, w>>
    BY <1>1, <1>3 DEF ElsePlace
  <2> DEFINE g == ArmFrame(p, f, 2)
  <2>4. g.base = f.base + f.pc + 2 + o.a /\ g.n = Other(p, q) /\ g.pc = 0 BY <2>2
  <2> HIDE DEF g, o
  <2>5. Value(S, g, w) = S[<<f.base + f.pc + 2 + o.a, Other(p, q), 0, w>>] BY <2>4 DEF Value
  <2> QED BY <2>3, <2>5 DEF g
<1>17. Value(S, After(p, f), y) = S[GoingOn(q, q[3] + 2 + o.a + Other(p, q), y)]
  <2> HIDE DEF y
  <2>1. After(p, f) = [f EXCEPT !.pc = f.pc + 2 + o.a + Other(p, q)]
    BY <1>14 DEF After, ArmsOf
  <2>2. /\ After(p, f).base = f.base /\ After(p, f).n = f.n
        /\ After(p, f).pc = f.pc + 2 + o.a + Other(p, q) BY <1>2, <2>1 DEF Frame
  <2> QED BY <1>1, <2>2 DEF Value, GoingOn
<1>18. \A j \in 1 .. 2 : j = 1 \/ j = 2 OBVIOUS
<1>19. \A j \in 1 .. 2 : y \subseteq w \cup Value(S, ArmFrame(p, f, j), w)
  BY <1>15, <1>16, <1>18
<1>20. \A j \in 1 .. 2 : Value(S, ArmFrame(p, f, j), w) \in KnownTemps
  BY <1>11, <1>15, <1>16, <1>18
<1>21. Value(S, After(p, f), y) = Value(S, f, w) BY <1>1, <1>12, <1>17 DEF S
<1> HIDE DEF y, arms
<1>22. \E e \in SUBSET Int :
         /\ Value(S, After(p, f), e) = Value(S, f, w)
         /\ \A j \in 1 .. 2 : e \subseteq w \cup Value(S, ArmFrame(p, f, j), w)
  BY <1>13, <1>19, <1>21
<1> QED BY <1>7, <1>14, <1>20, <1>22 DEF S, arms

-----------------------------------------------------------------------------
(* The temporary channels of a pixel. *)

(* GetMaxTemp covers every channel an operator names. *)
LEMMA TempsAre ==
  ASSUME NEW p \in Seq(Op)
  PROVE  /\ NumTemp(p) \in Nat
         /\ \A j \in DOMAIN p : p[j].sig \in TempOps => Span(p[j]) \subseteq 0 .. NumTemp(p) - 1
<1> DEFINE n == Len(p)
           g == [j \in 1 .. n |-> p[j].a + p[j].b]
           J == {k \in DOMAIN p : p[k].sig \in TempOps}
           S == {0} \cup {p[j].a + p[j].b : j \in J}
<1>1. n \in Nat /\ DOMAIN p = 1 .. n BY LenProperties
<1>2. \A j \in 1 .. n : p[j] \in Op /\ p[j].a \in Nat /\ p[j].b \in Nat
  <2>1. \A j \in 1 .. n : p[j] \in Op BY <1>1, ElementOfSeq
  <2> QED BY <2>1 DEF Op
<1>3. g \in [1 .. n -> Nat] BY <1>2
<1>4. PICK b \in Nat : \A j \in 1 .. n : g[j] <= b
  <2> HIDE DEF g, n
  <2> QED BY <1>1, <1>3, ImagesBounded
<1>5. S \subseteq Nat /\ 0 \in S BY <1>1, <1>2
<1>6. \A x \in S : x <= b BY <1>1, <1>4
<1>7. \A j \in J : p[j].a + p[j].b \in S OBVIOUS
<1> HIDE DEF S
<1>8. Max(S) \in S /\ \A x \in S : x <= Max(S) BY <1>5, <1>6, MinMaxIs
<1>9. NumTemp(p) = 1 + Max(S) BY DEF NumTemp, S
<1>10. Max(S) \in Nat BY <1>5, <1>8
<1>11. ASSUME NEW j \in DOMAIN p, p[j].sig \in TempOps
       PROVE  Span(p[j]) \subseteq 0 .. NumTemp(p) - 1
  <2>1. p[j].a \in Nat /\ p[j].b \in Nat BY <1>1, <1>2
  <2>2. p[j].a + p[j].b <= Max(S) BY <1>7, <1>8, <1>11
  <2> DEFINE c == p[j].a
             d == p[j].b
             u == NumTemp(p) - 1
  <2>3. u = Max(S)
    <3> DEFINE t == Max(S)
    <3>1. t \in Nat /\ NumTemp(p) = 1 + t BY <1>9, <1>10
    <3> HIDE DEF t
    <3> QED BY <3>1 DEF t
  <2>4. c \in Nat /\ d \in Nat /\ u \in Nat /\ c + d <= u BY <1>10, <2>1, <2>2, <2>3
  <2>5. Span(p[j]) = c .. c + d BY DEF Span
  <2> HIDE DEF c, d, u
  <2>6. c .. c + d \subseteq 0 .. u BY <2>4
  <2> QED BY <2>5, <2>6 DEF u
<1> QED BY <1>9, <1>10, <1>11

(* It follows numbers one by one. *)
LEMMA SeenData ==
  ASSUME NEW p \in Seq(Op), NEW f \in Within(p), NEW r \in Nat, DataRunFrom(p, f, r),
         NEW w \in SUBSET Int, Value(Seen(p), f, w) \in KnownTemps
  PROVE  Value(Seen(p), [f EXCEPT !.pc = f.pc + r], w) = Value(Seen(p), f, w)
<1> DEFINE F == Seen(p)
           g(m) == [f EXCEPT !.pc = f.pc + m]
           P(m) == Value(F, g(m), w) = Value(F, f, w)
           S == {m \in Nat : m <= r => P(m)}
<1>0. f.pc + r <= f.n /\ \A j \in 0 .. r - 1 : SigAt(p, f.base, f.n, f.pc + j) = "data"
  BY DEF DataRunFrom
<1>1. f \in Frame /\ f.base \in Nat /\ f.n \in Nat /\ f.pc \in Nat /\ f.base + f.n <= Len(p)
  BY DEF Within, Frame
<1> HIDE DEF F
<1>2. P(0)
  <2>1. g(0) = f BY <1>1 DEF Frame
  <2> QED BY <2>1
<1>3. ASSUME NEW m \in Nat, m \in S, m + 1 <= r PROVE P(m + 1)
  <2>0. m \in Nat /\ m + 1 <= r BY <1>3
  <2>1. P(m) BY <1>3
  <2>2. g(m) \in Within(p) /\ g(m).base = f.base /\ g(m).n = f.n /\ g(m).pc = f.pc + m
        /\ f.pc + m < f.n /\ m \in 0 .. r - 1
    <3>0. \A a, l, j \in Nat : a + r <= l /\ j + 1 <= r => a + j \in Nat /\ a + j < l OBVIOUS
    <3>1. f.pc + m \in Nat /\ f.pc + m < f.n /\ m \in 0 .. r - 1
      <4>1. m \in 0 .. r - 1 BY <2>0
      <4> QED BY <1>0, <1>1, <2>0, <3>0, <4>1
    <3>2. \A y \in Nat : [f EXCEPT !.pc = y] \in Frame BY <1>1 DEF Frame
    <3>3. g(m) \in Frame /\ g(m).base = f.base /\ g(m).n = f.n /\ g(m).pc = f.pc + m
      BY <1>1, <3>1, <3>2 DEF Frame
    <3> QED BY <1>1, <3>1, <3>3 DEF Within
  <2>3. SigAt(p, f.base, f.n, f.pc + m) = "data" BY <1>0, <2>2
  <2>4. OpAt(p, g(m)).sig = "data" /\ g(m).pc < g(m).n BY <2>2, <2>3 DEF SigAt, OpAt
  <2>5. [g(m) EXCEPT !.pc = g(m).pc + 1] = g(m + 1)
    <3>0. \A a, j \in Nat : (a + j) + 1 = a + (j + 1) OBVIOUS
    <3>1. g(m).pc + 1 = f.pc + (m + 1)
      <4> HIDE DEF g
      <4> QED BY <1>1, <2>0, <2>2, <3>0
    <3>2. [g(m) EXCEPT !.pc = f.pc + (m + 1)] = g(m + 1) BY <1>1 DEF Frame
    <3> QED BY <3>1, <3>2
  <2> HIDE DEF g
  <2>6. Value(F, g(m), w) \in KnownTemps BY <2>1 DEF F
  <2> DEFINE h == g(m)
             o == OpAt(p, h)
  <2>7. h \in Within(p) /\ h.pc < h.n /\ Value(Seen(p), h, w) \in KnownTemps
        /\ o.sig \notin {"if", "sel"}
    BY <2>2, <2>4, <2>6 DEF F
  <2>8. Written(o, w) = w BY <2>4 DEF Written
  <2>9. o = OpAt(p, h) OBVIOUS
  <2> HIDE DEF h, o
  <2>10. Value(Seen(p), [h EXCEPT !.pc = h.pc + 1], Written(o, w)) = Value(Seen(p), h, w)
    BY <2>7, <2>9, SeenOp
  <2> QED BY <2>1, <2>5, <2>8, <2>10 DEF h, F
<1> HIDE DEF P
<1>4. Nat \subseteq S
  <2>1. 0 \in S BY <1>2
  <2>2. \A m \in Nat : m \in S => m + 1 \in S BY <1>3
  <2> HIDE DEF S
  <2> QED BY <2>1, <2>2, Inductive
<1>5. P(r) BY <1>4
<1> QED BY <1>5 DEF P, F

(* Every channel the analysis reckons with is fresh, or will be when the     *)
(* branch at work has ended; a part that waits does so at an if.             *)
SettledBy(p, fs, w, fr, xs) ==
  /\ Tracks(p, Seen(p), SUBSET Int, KnownTemps, Grown(fr), ResetFrom(p), fs, w, xs)
  /\ xs[Len(fs)] \subseteq fr

AtIf(p) == {f \in Within(p) : f.pc < f.n /\ OpAt(p, f).sig = "if"}

Settled(p, fs, w, fr) ==
  /\ fs = <<>> \/ \E xs : SettledBy(p, fs, w, fr, xs)
  /\ Fine(p, AtIf(p), Within(p) \X Nat, fs, w)

(* What callers are promised may be weakened. *)
LEMMA TracksGrows ==
  ASSUME NEW p, NEW F, NEW X, NEW V, NEW R, NEW T, NEW fs, NEW w, NEW xs,
         Tracks(p, F, X, V, R, T, fs, w, xs), NEW Q, R \subseteq Q
  PROVE  Tracks(p, F, X, V, Q, T, fs, w, xs)
BY DEF Tracks

(* The innermost part as the analysis has it. *)
LEMMA SettledTop ==
  ASSUME NEW p, NEW fs \in Seq(Frame), fs # <<>>, NEW w, NEW fr, Settled(p, fs, w, fr),
         NEW f, f = Rest(p, fs, w, Len(fs))
  PROVE  \E xs : /\ SettledBy(p, fs, w, fr, xs)
                 /\ xs[Len(fs)] \in SUBSET Int /\ xs[Len(fs)] \subseteq fr
                 /\ Value(Seen(p), f, xs[Len(fs)]) \in KnownTemps
<1> DEFINE L == Len(fs)
<1>1. L \in Nat /\ L \in 1 .. L BY EmptySeq, LenProperties
<1>2. PICK xs : SettledBy(p, fs, w, fr, xs) BY DEF Settled
<1>3. /\ xs \in Seq(SUBSET Int) /\ Len(xs) = L /\ xs[L] \subseteq fr
      /\ Value(Seen(p), f, xs[L]) \in KnownTemps
  BY <1>1, <1>2 DEF SettledBy, Tracks
<1>4. xs[L] \in SUBSET Int
  <2> DEFINE X == SUBSET Int
  <2>1. xs \in Seq(X) BY <1>3
  <2> HIDE DEF X
  <2>2. xs[L] \in X BY <1>1, <1>3, <2>1
  <2> QED BY <2>2 DEF X
<1> QED BY <1>2, <1>3, <1>4

(* More that is fresh makes good more promises. *)
LEMMA GrownIs ==
  ASSUME NEW fr \in SUBSET Int, NEW gr \in SUBSET Int, fr \subseteq gr
  PROVE  Grown(fr) \subseteq Grown(gr)
BY DEF Grown

(* The innermost part goes on with channels that are fresh. *)
LEMMA SettledMoves ==
  ASSUME NEW p, NEW fs \in Seq(Frame), fs # <<>>, NEW w,
         NEW fr \in SUBSET Int, NEW gr \in SUBSET Int, fr \subseteq gr,
         Settled(p, fs, w, fr), NEW g \in Within(p),
         NEW xs, SettledBy(p, fs, w, fr, xs), NEW e \in SUBSET Int, e \subseteq gr,
         Value(Seen(p), g, e) = Value(Seen(p), Rest(p, fs, w, Len(fs)), xs[Len(fs)])
  PROVE  Settled(p, [fs EXCEPT ![Len(fs)] = g], FALSE, gr)
<1> DEFINE L == Len(fs)
           gs == [fs EXCEPT ![L] = g]
           ys == [xs EXCEPT ![L] = e]
<1>1. L \in Nat /\ L \in 1 .. L BY EmptySeq, LenProperties
<1>2. Tracks(p, Seen(p), SUBSET Int, KnownTemps, Grown(gr), ResetFrom(p), fs, w, xs)
  BY GrownIs, TracksGrows DEF SettledBy
<1>3. g \in Frame /\ <<g, L>> \in Within(p) \X Nat BY <1>1 DEF Within
<1>4. Tracks(p, Seen(p), SUBSET Int, KnownTemps, Grown(gr), ResetFrom(p), gs, FALSE, ys)
  BY <1>2, <1>3, TracksAdvance
<1>5. Fine(p, AtIf(p), Within(p) \X Nat, gs, FALSE) BY <1>3, FineMoves DEF Settled
<1>6. Len(xs) = L /\ xs \in Seq(SUBSET Int) BY DEF SettledBy, Tracks
<1>7. Len(gs) = L /\ ys[L] = e BY <1>1, <1>6
<1> HIDE DEF gs, ys
<1>8. SettledBy(p, gs, FALSE, gr, ys) BY <1>4, <1>7 DEF SettledBy
<1>9. Settled(p, gs, FALSE, gr) BY <1>5, <1>8 DEF Settled
<1> QED BY <1>9 DEF gs

(* A branch begins with what its part has; what its part goes on with        *)
(* afterwards is fresh or among what the branch ends with.                   *)
LEMMA SettledEnters ==
  ASSUME NEW p \in Seq(Op), FollowedByReset(p), NEW fs \in Seq(Frame), fs # <<>>,
         NEW fr \in SUBSET Int, Settled(p, fs, FALSE, fr),
         NEW f \in AtIf(p), f = fs[Len(fs)], NEW j \in 1 .. 2, ArmFrame(p, f, j) \in Within(p)
  PROVE  Settled(p, Append(fs, ArmFrame(p, f, j)), FALSE, fr)
<1> DEFINE L == Len(fs)
           X == SUBSET Int
           F == Seen(p)
           g == ArmFrame(p, f, j)
<1>1. L \in Nat /\ L \in 1 .. L BY EmptySeq, LenProperties
<1>2. f = Rest(p, fs, FALSE, L) BY <1>1 DEF Rest
<1>3. PICK xs : /\ SettledBy(p, fs, FALSE, fr, xs)
                /\ xs[L] \in X /\ xs[L] \subseteq fr
                /\ Value(F, f, xs[L]) \in KnownTemps
  BY <1>2, SettledTop
<1>4. f \in Within(p) /\ f.pc < f.n /\ OpAt(p, f).sig = "if" BY DEF AtIf
<1> DEFINE w == xs[L]
<1>5. w \in X /\ w \subseteq fr /\ Value(F, f, w) \in KnownTemps BY <1>3
<1> HIDE DEF w
<1>6. PICK y \in X : /\ Value(F, After(p, f), y) = Value(F, f, w)
                     /\ y \subseteq w \cup Value(F, g, w)
  BY <1>4, <1>5, SeenIf
<1>7. Value(F, g, w) \in KnownTemps BY <1>4, <1>5, SeenIf
<1>8. Value(F, g, w) \in X BY <1>7 DEF KnownTemps
<1> DEFINE v == Value(F, g, w)
<1>9. <<y, v>> \in Grown(fr)
  <2>1. v \in X /\ y \subseteq w \cup v BY <1>6, <1>8
  <2> HIDE DEF v
  <2> QED BY <1>5, <1>6, <2>1 DEF Grown
<1>10. g \in Frame /\ Value(F, After(p, fs[L]), y) = Value(F, fs[L], xs[L])
  BY <1>6 DEF Within, w
<1> DEFINE gs == Append(fs, g)
           us == [xs EXCEPT ![L] = y]
           ys == Append(us, w)
<1>11. Tracks(p, F, X, KnownTemps, Grown(fr), ResetFrom(p), gs, FALSE, ys)
  <2>1. Tracks(p, F, X, KnownTemps, Grown(fr), ResetFrom(p), fs, FALSE, xs)
    BY <1>3 DEF SettledBy
  <2>2. w \in X /\ y \in X BY <1>5, <1>6
  <2> HIDE DEF F, X, g
  <2> QED BY <1>7, <1>9, <1>10, <2>1, <2>2, TracksEnter
<1>12. After(p, f) \in Within(p)
  <2>1. f.base \in Nat /\ f.n \in Nat /\ f.pc \in Nat /\ f \in Frame /\ f.base + f.n <= Len(p)
    BY <1>4, OpAtIs
  <2>2. AfterArms(f.pc, CheckedArms(p, f.base, f.n, f.pc)) \in Nat
    BY <1>4, <2>1, ArmsAre, SMTT(40)
  <2> QED BY <2>1, <2>2 DEF After, Within, Frame
<1>13. Fine(p, AtIf(p), Within(p) \X Nat, gs, FALSE)
  <2>1. <<After(p, f), L>> \in Within(p) \X Nat /\ <<g, L + 1>> \in Within(p) \X Nat
    BY <1>1, <1>12
  <2>2. Fine(p, AtIf(p), Within(p) \X Nat, fs, FALSE) BY DEF Settled
  <2> HIDE DEF g
  <2> QED BY <1>10, <2>1, <2>2, FineMoves
<1>14. Len(gs) = L + 1 /\ ys[L + 1] = w
  <2>1. xs \in Seq(X) /\ Len(xs) = L BY <1>3 DEF SettledBy, Tracks
  <2>2. us \in Seq(X) /\ Len(us) = L
    <3> HIDE DEF X
    <3> QED BY <1>1, <1>6, <2>1
  <2> HIDE DEF us, X, g
  <2>3. ys[L + 1] = w BY <1>1, <2>2
  <2>4. Len(gs) = L + 1 BY <1>1
  <2> QED BY <2>3, <2>4
<1> HIDE DEF gs, ys
<1>15. SettledBy(p, gs, FALSE, fr, ys)
  <2>1. ys[Len(gs)] \subseteq fr BY <1>5, <1>14
  <2> QED BY <1>11, <2>1 DEF SettledBy
<1>16. Settled(p, gs, FALSE, fr) BY <1>13, <1>15 DEF Settled
<1> QED BY <1>16 DEF gs

(* At the end of a branch what it was reckoned to write is fresh. *)
LEMMA SettledLeaves ==
  ASSUME NEW p \in Seq(Op), NEW fs \in Seq(Frame), fs # <<>>,
         NEW fr \in SUBSET Int, Settled(p, fs, FALSE, fr),
         fs[Len(fs)] \in Within(p), fs[Len(fs)].pc >= fs[Len(fs)].n
  PROVE  Settled(p, SubSeq(fs, 1, Len(fs) - 1), TRUE, fr)
<1> DEFINE L == Len(fs)
           X == SUBSET Int
           F == Seen(p)
           f == fs[L]
           gs == SubSeq(fs, 1, L - 1)
<1>1. L \in Nat /\ L \in 1 .. L /\ L >= 1 BY EmptySeq, LenProperties
<1>2. f = Rest(p, fs, FALSE, L) /\ f \in Within(p) /\ f \in Frame BY <1>1 DEF Rest, Within
<1>3. PICK xs : /\ SettledBy(p, fs, FALSE, fr, xs)
                /\ xs[L] \in X /\ xs[L] \subseteq fr
                /\ Value(F, f, xs[L]) \in KnownTemps
  BY <1>2, SettledTop
<1>4. Fine(p, AtIf(p), Within(p) \X Nat, gs, TRUE) BY <1>2, FineMoves DEF Settled
<1>5. CASE L = 1
  <2>1. gs = <<>> BY <1>5
  <2> HIDE DEF gs
  <2>2. Settled(p, gs, TRUE, fr) BY <1>4, <2>1 DEF Settled
  <2> QED BY <2>2 DEF gs
<1>6. CASE L > 1
  <2> DEFINE w == xs[L]
             q == <<f.base, f.n, f.pc, w>>
             ys == SubSeq(xs, 1, L - 1)
  <2>1. /\ q \in SeenPlaces(p) /\ q[2] = f.n /\ q[3] = f.pc /\ q[4] = w
        /\ Value(F, f, w) = SeenStep(p, F, q)
    <3>1. w \in SUBSET Int /\ f \in Within(p) BY <1>2, <1>3
    <3>2. q = <<f.base, f.n, f.pc, w>> OBVIOUS
    <3> HIDE DEF q, w, f
    <3> QED BY <3>1, <3>2, SeenPlace
  <2>2. Value(F, f, w) = w
    <3>1. q[3] >= q[2] BY <2>1
    <3> HIDE DEF q
    <3> QED BY <2>1, <3>1 DEF SeenStep
  <2>3. Tracks(p, F, X, KnownTemps, Grown(fr), ResetFrom(p), fs, FALSE, xs) BY <1>3 DEF SettledBy
  <2>4. /\ Tracks(p, F, X, KnownTemps, Grown(fr), ResetFrom(p), gs, TRUE, ys)
        /\ ys[L - 1] = xs[L - 1]
    <3>1. Tracks(p, F, X, KnownTemps, Grown(fr), ResetFrom(p), gs, TRUE, ys)
      <4> HIDE DEF F, X
      <4> QED BY <1>6, <2>3, TracksLeave
    <3>2. xs \in Seq(X) /\ Len(xs) = L BY <2>3 DEF Tracks
    <3>3. ys[L - 1] = xs[L - 1]
      <4> HIDE DEF X
      <4> QED BY <1>1, <1>6, <3>2
    <3> QED BY <3>1, <3>3
  <2>5. <<xs[L - 1], w>> \in Grown(fr)
    <3>1. L - 1 \in 1 .. L - 1 /\ L - 1 + 1 = L BY <1>1, <1>6
    <3>2. <<xs[L - 1], Value(F, Rest(p, fs, FALSE, L - 1 + 1), xs[L - 1 + 1])>> \in Grown(fr)
      BY <2>3, <3>1 DEF Tracks
    <3> QED BY <1>2, <2>2, <3>1, <3>2
  <2>6. xs[L - 1] \subseteq fr
    <3> DEFINE v == xs[L - 1]
    <3>1. <<v, w>> \in Grown(fr) /\ w \subseteq fr BY <1>3, <2>5
    <3> HIDE DEF v, w
    <3>2. v \subseteq fr BY <3>1 DEF Grown
    <3> QED BY <3>2 DEF v
  <2>7. Len(gs) = L - 1 BY <1>1, <1>6
  <2> HIDE DEF gs, ys
  <2>8. SettledBy(p, gs, TRUE, fr, ys)
    <3>1. ys[Len(gs)] \subseteq fr BY <2>4, <2>6, <2>7
    <3> QED BY <2>4, <3>1 DEF SettledBy
  <2>9. Settled(p, gs, TRUE, fr) BY <1>4, <2>8 DEF Settled
  <2> QED BY <2>9 DEF gs
<1>7. L = 1 \/ L > 1
  <2>1. \A n \in Nat : n >= 1 => n = 1 \/ n > 1 OBVIOUS
  <2> HIDE DEF L
  <2> QED BY <1>1, <2>1
<1> QED BY <1>5, <1>6, <1>7

(* The whole function begins with nothing written. *)
LEMMA SettledStarts ==
  ASSUME NEW p \in Seq(Op), ~NeedTempReset(p),
         NEW f, f = [base |-> 0, n |-> Len(p), pc |-> 0]
  PROVE  Settled(p, <<f>>, FALSE, {})
<1> DEFINE xs == <<{}>>
           fs == <<f>>
           F == Seen(p)
           X == SUBSET Int
           T == ResetFrom(p)
           q == <<0, Len(p), 0, {}>>
<1>1. Len(p) \in Nat /\ f \in Within(p) /\ f \in Frame BY LenProperties DEF Within, Frame
<1>2. q \in SeenPlaces(p) BY <1>1 DEF SeenPlaces
<1>3. T = F[q] BY SeenFromStart
<1>4. T \in KnownTemps
  <2>1. F[q] \in SUBSET Int BY <1>2, SeenAre
  <2> QED BY <1>3, <2>1 DEF NeedTempReset, KnownTemps
<1>5. Value(F, f, {}) = T BY <1>3 DEF Value
<1>6. xs \in Seq(X) /\ Len(xs) = 1 /\ xs[1] = {} /\ Len(fs) = 1 /\ fs[1] = f /\ fs # <<>> OBVIOUS
<1> HIDE DEF xs, fs, F, T, X
<1>7. Rest(p, fs, FALSE, 1) = f BY <1>6 DEF Rest
<1>8. \A k \in 1 .. Len(fs) : k = 1 /\ ~(k < Len(fs)) BY <1>6
<1>9. \A k \in 1 .. Len(fs) - 1 : FALSE BY <1>6
<1>10. Tracks(p, F, X, KnownTemps, Grown({}), T, fs, FALSE, xs)
  BY <1>4, <1>5, <1>6, <1>7, <1>8, <1>9 DEF Tracks
<1>11. SettledBy(p, fs, FALSE, {}, xs) BY <1>6, <1>10 DEF SettledBy, F, T, X
<1>12. Fine(p, AtIf(p), Within(p) \X Nat, fs, FALSE)
  <2>1. <<f, 1>> \in Within(p) \X Nat BY <1>1
  <2> QED BY <1>7, <1>8, <2>1 DEF Fine
<1>13. Settled(p, fs, FALSE, {}) BY <1>11, <1>12 DEF Settled
<1> QED BY <1>13 DEF fs

(* What the analysis goes on with at f is among fr: at g it may be e.        *)
Continues(p, f, fr, g, gr) ==
  \A w \in SUBSET Int : w \subseteq fr /\ Value(Seen(p), f, w) \in KnownTemps =>
    \E e \in SUBSET Int : e \subseteq gr /\ Value(Seen(p), g, e) = Value(Seen(p), f, w)

(* The temporary channels are zeroed before a pixel, or else everything the  *)
(* analysis reckons with is fresh where the function goes on.                *)
Follows == FollowedByReset(prog) /\ ~reset

TempsInv ==
  /\ fresh \subseteq 0 .. NumTemp(prog) - 1
  /\ phase \in {"ready", "running"} => reset = NeedTempReset(prog)
  /\ FollowedByReset(prog) => ~stale
  /\ phase = "running" /\ FollowedByReset(prog) /\ reset => fresh = 0 .. NumTemp(prog) - 1
  /\ phase = "running" /\ Follows /\ ret # "false" =>
       Settled(prog, frames, ret = "true", fresh)

(* Fresh channels are numbers. *)
LEMMA FreshIs == IInv /\ TempsInv => fresh \in SUBSET Int /\ NumTemp(prog) \in Nat
<1> SUFFICES ASSUME IInv, TempsInv PROVE fresh \in SUBSET Int /\ NumTemp(prog) \in Nat OBVIOUS
<1>1. NumTemp(prog) \in Nat BY TempsAre DEF IInv
<1> DEFINE t == NumTemp(prog)
<1>2. t \in Nat /\ fresh \subseteq 0 .. t - 1 BY <1>1 DEF TempsInv
<1> HIDE DEF t
<1>3. 0 .. t - 1 \subseteq Int BY <1>2
<1> QED BY <1>1, <1>2, <1>3

(* The innermost part goes on. *)
LEMMA TempsMove ==
  ASSUME IInv, TempsInv, phase = "running", frames # <<>>, ret # "false",
         UNCHANGED <<prog, phase, reset>>, ret' = "none",
         fresh \subseteq fresh', fresh' \subseteq 0 .. NumTemp(prog) - 1,
         FollowedByReset(prog) => ~stale',
         NEW g, Follows =>
           /\ g \in Within(prog) /\ frames' = [frames EXCEPT ![Len(frames)] = g]
           /\ Continues(prog, Rest(prog, frames, ret = "true", Len(frames)), fresh, g, fresh')
  PROVE  TempsInv'
<1>1. fresh \in SUBSET Int /\ fresh' \in SUBSET Int
  <2>1. fresh \in SUBSET Int /\ NumTemp(prog) \in Nat BY FreshIs
  <2> DEFINE t == NumTemp(prog)
  <2>2. t \in Nat /\ fresh' \subseteq 0 .. t - 1 BY <2>1
  <2> HIDE DEF t
  <2>3. 0 .. t - 1 \subseteq Int BY <2>2
  <2> QED BY <2>1, <2>2, <2>3
<1>2. FollowedByReset(prog) /\ reset => fresh' = 0 .. NumTemp(prog) - 1
  BY DEF TempsInv
<1>3. ASSUME Follows PROVE Settled(prog, frames', FALSE, fresh')
  <2> DEFINE w == ret = "true"
             f == Rest(prog, frames, w, Len(frames))
             F == Seen(prog)
  <2>1. Settled(prog, frames, w, fresh) /\ frames \in Seq(Frame) BY <1>3 DEF TempsInv, IInv, Framed
  <2>2. Continues(prog, f, fresh, g, fresh') BY <1>3
  <2>3. f = Rest(prog, frames, w, Len(frames)) OBVIOUS
  <2> HIDE DEF w, f
  <2>4. PICK xs : /\ SettledBy(prog, frames, w, fresh, xs)
                  /\ xs[Len(frames)] \in SUBSET Int /\ xs[Len(frames)] \subseteq fresh
                  /\ Value(F, f, xs[Len(frames)]) \in KnownTemps
    BY <2>1, <2>3, SettledTop
  <2>5. PICK e \in SUBSET Int : /\ e \subseteq fresh'
                                /\ Value(F, g, e) = Value(F, f, xs[Len(frames)])
    BY <2>2, <2>4 DEF Continues
  <2>6. g \in Within(prog) BY <1>3
  <2>7. Settled(prog, [frames EXCEPT ![Len(frames)] = g], FALSE, fresh')
    BY <1>1, <2>1, <2>3, <2>4, <2>5, <2>6, SettledMoves
  <2> QED BY <1>3, <2>7
<1>4. (ret' = "true") = FALSE OBVIOUS
<1>5. Follows' = Follows BY DEF Follows
<1>6. NumTemp(prog)' = NumTemp(prog) /\ FollowedByReset(prog)' = FollowedByReset(prog)
      /\ NeedTempReset(prog)' = NeedTempReset(prog)
  OBVIOUS
<1> QED BY <1>2, <1>3, <1>4, <1>5, <1>6 DEF TempsInv

(* Each action keeps it: numbers, ... *)
LEMMA DataTemps == ASSUME IInv, TempsInv, PushData PROVE TempsInv'
<1> DEFINE f == Top
           r == DataRun
           g == [f EXCEPT !.pc = f.pc + r]
<1>1. Running /\ frames # <<>> /\ phase = "running" /\ ret = "none" /\ f.pc < f.n
  BY DEF PushData, Running, IInv
<1>2. r \in Nat /\ DataRunFrom(prog, f, r) BY <1>1, DataRunIs
<1>3. /\ prog \in Seq(Op) /\ frames \in Seq(Frame) /\ f \in Within(prog)
      /\ f \in Frame /\ f = frames[Len(frames)] /\ Len(frames) \in 1 .. Len(frames)
  BY <1>1, TopWithin
<1>4. frames' = [frames EXCEPT ![Len(frames)] = g] BY <1>3 DEF PushData, MoveTo
<1>5. g \in Within(prog)
  <2>1. f.pc + r \in Nat BY <1>2, <1>3 DEF Frame
  <2> QED BY <1>3, <2>1 DEF Frame, Within
<1>6. UNCHANGED <<prog, phase, reset, fresh, stale, ret>> BY DEF PushData, Still
<1> HIDE DEF f, r
<1>7. Continues(prog, f, fresh, g, fresh)
  <2> SUFFICES ASSUME NEW w \in SUBSET Int, w \subseteq fresh, Value(Seen(prog), f, w) \in KnownTemps
               PROVE  \E e \in SUBSET Int :
                        e \subseteq fresh /\ Value(Seen(prog), g, e) = Value(Seen(prog), f, w)
    BY DEF Continues
  <2>1. Value(Seen(prog), g, w) = Value(Seen(prog), f, w) BY <1>2, <1>3, SeenData
  <2> QED BY <2>1
<1>8. Rest(prog, frames, ret = "true", Len(frames)) = f BY <1>1, <1>3 DEF Rest
<1> HIDE DEF g
<1>9. fresh \subseteq 0 .. NumTemp(prog) - 1 /\ (FollowedByReset(prog) => ~stale) BY DEF TempsInv
<1> QED BY <1>1, <1>4, <1>5, <1>6, <1>7, <1>8, <1>9, TempsMove

(* ... operators, which read only what is fresh, ... *)
LEMMA ExecTemps == ASSUME IInv, TempsInv, Exec PROVE TempsInv'
<1> DEFINE f == Top
           g == [f EXCEPT !.pc = f.pc + 1]
           o == Op0
<1>1. Running /\ frames # <<>> /\ phase = "running" /\ ret = "none" /\ f.pc < f.n
  BY DEF Exec, Running, IInv
<1>2. /\ prog \in Seq(Op) /\ frames \in Seq(Frame) /\ f \in Within(prog)
      /\ f \in Frame /\ f = frames[Len(frames)] /\ Len(frames) \in 1 .. Len(frames)
      /\ o = OpAt(prog, f)
  BY <1>1, TopWithin
<1>3. frames' = [frames EXCEPT ![Len(frames)] = g] BY <1>2 DEF Exec, MoveTo
<1>4. g \in Within(prog)
  <2>1. f.pc + 1 \in Nat BY <1>2 DEF Frame
  <2> QED BY <1>2, <2>1 DEF Frame, Within
<1>5. /\ UNCHANGED <<prog, phase, reset, ret>> /\ o.sig \notin {"if", "sel"}
      /\ fresh' = IF o.sig \in {"tput", "tsav"} THEN fresh \cup Span(o) ELSE fresh
      /\ stale' = (stale \/ (o.sig = "tget" /\ ~(Span(o) \subseteq fresh)))
  BY DEF Exec, Still, Executes
<1> HIDE DEF f
<1>6. o.sig \in TempOps => Span(o) \subseteq 0 .. NumTemp(prog) - 1
  <2>1. f.base + f.pc + 1 \in DOMAIN prog /\ OpAt(prog, f) = prog[f.base + f.pc + 1]
    BY <1>1, <1>2, OpAtIs
  <2> QED BY <1>2, <2>1, TempsAre
<1> HIDE DEF o
<1>7. fresh \subseteq fresh' /\ fresh' \subseteq 0 .. NumTemp(prog) - 1
  <2>1. fresh \subseteq 0 .. NumTemp(prog) - 1 BY DEF TempsInv
  <2>2. o.sig \in {"tput", "tsav"} => Span(o) \subseteq 0 .. NumTemp(prog) - 1 BY <1>6 DEF TempOps
  <2> QED BY <1>5, <2>1, <2>2
<1>8. Rest(prog, frames, ret = "true", Len(frames)) = f BY <1>1, <1>2 DEF Rest
<1>9. ASSUME NEW w \in SUBSET Int, w \subseteq fresh, Value(Seen(prog), f, w) \in KnownTemps
      PROVE  /\ o.sig = "tget" => Span(o) \subseteq fresh
             /\ \E e \in SUBSET Int :
                  e \subseteq fresh' /\ Value(Seen(prog), g, e) = Value(Seen(prog), f, w)
  <2>1. /\ Written(o, w) \in SUBSET Int
        /\ Value(Seen(prog), g, Written(o, w)) = Value(Seen(prog), f, w)
        /\ o.sig = "tget" => Span(o) \subseteq w
    BY <1>1, <1>2, <1>5, <1>9, SeenOp
  <2>2. Written(o, w) \subseteq fresh' BY <1>5, <1>9 DEF Written
  <2> QED BY <1>9, <2>1, <2>2
<1> HIDE DEF g
<1>10. Continues(prog, f, fresh, g, fresh') BY <1>9 DEF Continues
<1>11. ASSUME FollowedByReset(prog) PROVE ~stale'
  <2>1. ~stale BY <1>11 DEF TempsInv
  <2>2. o.sig = "tget" => Span(o) \subseteq fresh
    <3>1. CASE reset
      <4>1. fresh = 0 .. NumTemp(prog) - 1 BY <1>1, <1>11, <3>1 DEF TempsInv
      <4> QED BY <1>6, <4>1 DEF TempOps
    <3>2. CASE ~reset
      <4>1. (ret = "true") = FALSE BY <1>1
      <4>2. Settled(prog, frames, FALSE, fresh) BY <1>1, <1>11, <3>2, <4>1 DEF TempsInv, Follows
      <4>3. f = Rest(prog, frames, FALSE, Len(frames)) BY <1>8, <4>1
      <4>4. \E xs : /\ xs[Len(frames)] \in SUBSET Int /\ xs[Len(frames)] \subseteq fresh
                    /\ Value(Seen(prog), f, xs[Len(frames)]) \in KnownTemps
        BY <1>1, <1>2, <4>2, <4>3, SettledTop
      <4> QED BY <1>9, <4>4
    <3> QED BY <3>1, <3>2
  <2> QED BY <1>5, <2>1, <2>2
<1> QED BY <1>1, <1>3, <1>4, <1>5, <1>7, <1>8, <1>10, <1>11, TempsMove

(* Where nothing happens to the channels nothing changes for a function that *)
(* fails, nor for one that was zeroed.                                       *)
LEMMA TempsKeep ==
  ASSUME IInv, TempsInv, phase = "running", UNCHANGED <<prog, phase, reset, fresh, stale>>,
         Follows /\ ret' # "false" => Settled(prog, frames', ret' = "true", fresh)
  PROVE  TempsInv'
<1>1. Follows' = Follows BY DEF Follows
<1>2. NumTemp(prog)' = NumTemp(prog) /\ FollowedByReset(prog)' = FollowedByReset(prog)
      /\ NeedTempReset(prog)' = NeedTempReset(prog)
  OBVIOUS
<1>3. Follows' /\ ret' # "false" => Settled(prog, frames, ret = "true", fresh)'
  BY <1>1
<1> QED BY <1>1, <1>2, <1>3 DEF TempsInv

(* ... the branches of an if, ... *)
LEMMA IfTemps == ASSUME IInv, TempsInv, If PROVE TempsInv'
<1>1. Running /\ frames # <<>> /\ phase = "running" /\ ret = "none" /\ Top.pc < Top.n
      /\ Op0.sig = "if" /\ UNCHANGED <<prog, phase, reset, fresh, stale>>
  BY DEF If, Running, IInv, Still
<1>2. SUFFICES ASSUME Follows, ret' # "false" PROVE Settled(prog, frames', ret' = "true", fresh)
  BY <1>1, TempsKeep
<1>3. /\ prog \in Seq(Op) /\ frames \in Seq(Frame) /\ Top \in Within(prog)
      /\ Top \in Frame /\ Top = frames[Len(frames)] /\ Len(frames) \in 1 .. Len(frames)
      /\ Op0 = OpAt(prog, Top)
  BY <1>1, TopWithin
<1>4. Top \in AtIf(prog) BY <1>1, <1>3 DEF AtIf
<1>5. Settled(prog, frames, FALSE, fresh)
  <2>1. (ret = "true") = FALSE BY <1>1
  <2> QED BY <1>1, <1>2, <2>1 DEF TempsInv
<1>6. Is(1) = "else"
  <2>1. Top = Rest(prog, frames, FALSE, Len(frames)) BY <1>3 DEF Rest
  <2> DEFINE f == Top
  <2>2. f = Rest(prog, frames, FALSE, Len(frames)) /\ f \in Within(prog) /\ f.pc < f.n
        /\ OpAt(prog, f).sig = "if"
    BY <1>1, <1>3, <2>1
  <2> HIDE DEF f
  <2>3. PICK xs : /\ xs[Len(frames)] \in SUBSET Int
                  /\ Value(Seen(prog), f, xs[Len(frames)]) \in KnownTemps
    BY <1>1, <1>3, <1>5, <2>2, SettledTop
  <2>4. SigAt(prog, f.base, f.n, f.pc + 1) = "else" BY <1>2, <1>3, <2>2, <2>3, SeenIf DEF Follows
  <2> QED BY <2>4 DEF Is, f
<1>7. ASSUME NEW j \in 1 .. 2, NEW start, NEW count, Call(start, count),
             ArmsOf(prog, Top)[j].at = start, ArmsOf(prog, Top)[j].size = count
      PROVE  Settled(prog, frames', ret' = "true", fresh)
  <2>1. Fits(start, count, Top.n) /\ ~(Len(frames) > MaxDepth)
    BY <1>2, <1>7 DEF Call, Returns
  <2>2. frames' = Append(frames, ArmFrame(prog, Top, j)) /\ UNCHANGED ret
    BY <1>7, <2>1, CallBegins
  <2>3. ArmFrame(prog, Top, j) \in Within(prog)
    <3> DEFINE b == Top.base
               n == Top.n
    <3>1. b \in Nat /\ n \in Nat /\ b + n <= Len(prog) /\ Len(prog) \in Nat
      BY <1>3, LenProperties DEF Within, Frame
    <3>2. start \in 0 .. n /\ count \in 0 .. n - start BY <2>1 DEF Fits
    <3>3. ArmFrame(prog, Top, j) = [base |-> b + start, n |-> count, pc |-> 0]
      BY <1>7 DEF ArmFrame
    <3> HIDE DEF b, n
    <3>4. b + start \in Nat /\ count \in Nat /\ b + start + count <= Len(prog) BY <3>1, <3>2
    <3> QED BY <3>3, <3>4 DEF Within, Frame
  <2>4. fresh \in SUBSET Int BY FreshIs
  <2>5. Settled(prog, Append(frames, ArmFrame(prog, Top, j)), FALSE, fresh)
    BY <1>1, <1>2, <1>3, <1>4, <1>5, <2>3, <2>4, SettledEnters DEF Follows
  <2>6. (ret' = "true") = FALSE BY <1>1, <2>2
  <2> QED BY <2>2, <2>5, <2>6
<1>8. /\ ArmsOf(prog, Top)[1] = [at |-> Top.pc + 2, size |-> Op0.a]
      /\ ArmsOf(prog, Top)[2] = [at |-> Top.pc + 2 + Op0.a, size |-> ElseSize]
  BY <1>1, <1>6, IfAt
<1>9. Call(Top.pc + 2, Op0.a) \/ Call(Top.pc + 2 + Op0.a, ElseSize) BY <1>6 DEF If
<1>10. CASE Call(Top.pc + 2, Op0.a)
  <2>1. 1 \in 1 .. 2 /\ ArmsOf(prog, Top)[1].at = Top.pc + 2 /\ ArmsOf(prog, Top)[1].size = Op0.a
    BY <1>8
  <2> QED BY <1>7, <1>10, <2>1
<1>11. CASE Call(Top.pc + 2 + Op0.a, ElseSize)
  <2>1. 2 \in 1 .. 2 /\ ArmsOf(prog, Top)[2].at = Top.pc + 2 + Op0.a
        /\ ArmsOf(prog, Top)[2].size = ElseSize
    BY <1>8
  <2> QED BY <1>7, <1>11, <2>1
<1> QED BY <1>9, <1>10, <1>11

(* ... their return, ... *)
LEMMA ResumeTemps == ASSUME IInv, TempsInv, Resume PROVE TempsInv'
<1>1. /\ frames # <<>> /\ phase = "running" /\ ret = "true" /\ Top.pc < Top.n
      /\ UNCHANGED <<prog, phase, reset, fresh, stale>>
  BY DEF Resume, IInv, Still
<1>2. /\ prog \in Seq(Op) /\ frames \in Seq(Frame) /\ Top \in Within(prog)
      /\ Top \in Frame /\ Top = frames[Len(frames)] /\ Len(frames) \in 1 .. Len(frames)
      /\ Op0 = OpAt(prog, Top)
  BY <1>1, TopWithin
<1>3. SUFFICES ASSUME Follows, ret' # "false" PROVE TempsInv'
  BY <1>1, TempsKeep
<1> DEFINE g == After(prog, Top)
           L == Len(frames)
<1>4. (ret = "true") = TRUE BY <1>1
<1>5. Settled(prog, frames, TRUE, fresh) BY <1>1, <1>3, <1>4 DEF TempsInv
<1>6. Rest(prog, frames, TRUE, L) = g BY <1>2 DEF Rest
<1>7. Top \in AtIf(prog) /\ g \in Within(prog)
  <2>1. Top \in AtIf(prog) /\ <<g, L>> \in Within(prog) \X Nat
    BY <1>2, <1>5, <1>6 DEF Settled, Fine
  <2> HIDE DEF g
  <2> QED BY <2>1
<1>8. Op0.sig = "if" BY <1>2, <1>7 DEF AtIf
<1>9. frames' = [frames EXCEPT ![L] = g] /\ ret' = "none"
  <2>1. g = [Top EXCEPT !.pc = AfterIf] BY <1>1, <1>8, IfAt
  <2>2. MoveTo(AfterIf) /\ ret' = "none" BY <1>8 DEF Resume
  <2> QED BY <1>2, <2>1, <2>2 DEF MoveTo
<1> HIDE DEF g
<1>10. Continues(prog, g, fresh, g, fresh) BY DEF Continues
<1>11. Rest(prog, frames, ret = "true", L) = g BY <1>4, <1>6
<1>12. fresh \subseteq 0 .. NumTemp(prog) - 1 /\ (FollowedByReset(prog) => ~stale) BY DEF TempsInv
<1> QED BY <1>1, <1>7, <1>9, <1>10, <1>11, <1>12, TempsMove

(* ... their end, ... *)
LEMMA EndTemps == ASSUME IInv, TempsInv, SequenceEnds PROVE TempsInv'
<1>1. /\ frames # <<>> /\ phase = "running" /\ ret = "none" /\ Top.pc >= Top.n
      /\ ret' = "true" /\ frames' = SubSeq(frames, 1, Len(frames) - 1)
      /\ UNCHANGED <<prog, phase, reset, fresh, stale>>
  BY DEF SequenceEnds, IInv, Still, Returns
<1>2. /\ prog \in Seq(Op) /\ frames \in Seq(Frame) /\ Top \in Within(prog)
      /\ Top = frames[Len(frames)]
  BY <1>1, TopWithin
<1>3. SUFFICES ASSUME Follows PROVE Settled(prog, frames', ret' = "true", fresh)
  BY <1>1, TempsKeep
<1>4. (ret = "true") = FALSE /\ (ret' = "true") = TRUE BY <1>1
<1>5. Settled(prog, frames, FALSE, fresh) BY <1>1, <1>3, <1>4 DEF TempsInv
<1>6. fresh \in SUBSET Int BY FreshIs
<1>7. Settled(prog, SubSeq(frames, 1, Len(frames) - 1), TRUE, fresh)
  BY <1>1, <1>2, <1>5, <1>6, SettledLeaves
<1> QED BY <1>1, <1>4, <1>7

(* No sel stops a failure in a function the analysis follows. *)
LEMMA FailTemps ==
  ASSUME IInv, TempsInv, ExecFails \/ PopFails \/ Select \/ Unwind
  PROVE  TempsInv'
<1>1. phase = "running" /\ frames # <<>> /\ Top.pc < Top.n
      /\ UNCHANGED <<prog, phase, reset, fresh, stale>>
  BY DEF ExecFails, PopFails, Select, Unwind, Running, IInv, Still
<1>2. ASSUME Follows PROVE Op0.sig # "sel"
  <2>1. /\ prog \in Seq(Op) /\ Top \in Within(prog) /\ Op0 = OpAt(prog, Top) BY <1>1, TopWithin
  <2>2. Top.base + Top.pc + 1 \in DOMAIN prog /\ OpAt(prog, Top) = prog[Top.base + Top.pc + 1]
    BY <1>1, <2>1, OpAtIs
  <2> QED BY <1>2, <2>1, <2>2 DEF Follows, FollowedByReset, Sel
<1>3. Follows => ret' = "false"
  <2>1. ExecFails \/ PopFails => ret' = "false" BY DEF ExecFails, PopFails, Returns
  <2>2. Unwind /\ Follows => ret' = "false" BY <1>2 DEF Unwind, Returns
  <2>3. Select => ~Follows BY <1>2 DEF Select
  <2> QED BY <2>1, <2>2, <2>3
<1> QED BY <1>1, <1>3, TempsKeep

(* ... Begin, which decides whether to zero, ... *)
LEMMA BeginTemps == ASSUME IInv, TempsInv, Begin PROVE TempsInv'
<1>1. /\ phase' = "ready" => reset' = NeedTempReset(prog)
      /\ phase' \in {"ready", "refused"} /\ UNCHANGED <<prog, fresh, stale>>
  BY DEF Begin, Accepts
<1>2. NumTemp(prog)' = NumTemp(prog) /\ FollowedByReset(prog)' = FollowedByReset(prog)
      /\ NeedTempReset(prog)' = NeedTempReset(prog) BY <1>1
<1> QED BY <1>1, <1>2 DEF TempsInv

(* ... and a pixel, which starts with everything zeroed or nothing reckoned  *)
(* with.                                                                     *)
LEMMA ApplyTemps == ASSUME IInv, TempsInv, Apply PROVE TempsInv'
<1> DEFINE f == [base |-> 0, n |-> Len(prog), pc |-> 0]
<1>1. /\ phase = "ready" /\ phase' = "running" /\ ret' = "none" /\ stale' = FALSE
      /\ fresh' = (IF reset THEN 0 .. NumTemp(prog) - 1 ELSE {})
      /\ frames' = <<f>> /\ UNCHANGED <<prog, reset>>
  BY DEF Apply
<1>2. prog \in Seq(Op) /\ reset = NeedTempReset(prog) BY <1>1 DEF IInv, TempsInv
<1>3. NumTemp(prog)' = NumTemp(prog) /\ FollowedByReset(prog)' = FollowedByReset(prog)
      /\ NeedTempReset(prog)' = NeedTempReset(prog) BY <1>1
<1>4. (ret' = "true") = FALSE BY <1>1
<1>5. ~reset => Settled(prog, <<f>>, FALSE, {}) BY <1>2, SettledStarts
<1> HIDE DEF f
<1>6. fresh' \subseteq 0 .. NumTemp(prog) - 1 BY <1>1
<1>7. Follows' => Settled(prog, frames', ret' = "true", fresh')
  BY <1>1, <1>4, <1>5 DEF Follows
<1> QED BY <1>1, <1>2, <1>3, <1>6, <1>7 DEF TempsInv

(* That is inductive. *)
LEMMA NextTemps == IInv /\ TempsInv /\ [Next]_vars => TempsInv'
<1> SUFFICES ASSUME IInv, TempsInv, [Next]_vars PROVE TempsInv'
  OBVIOUS
<1>1. CASE UNCHANGED vars BY <1>1 DEF TempsInv, Follows, vars
<1>2. CASE EndApply
  <2>1. phase' = "ready" /\ phase = "running" /\ UNCHANGED <<prog, reset, fresh, stale>>
    BY <1>2 DEF EndApply
  <2>2. NumTemp(prog)' = NumTemp(prog) /\ FollowedByReset(prog)' = FollowedByReset(prog)
        /\ NeedTempReset(prog)' = NeedTempReset(prog) BY <2>1
  <2> QED BY <2>1, <2>2 DEF TempsInv
<1>3. CASE ExecThrows \/ ExecLeavesStack
  <2>1. phase' \in {"ready", "lost"} /\ phase = "running" /\ UNCHANGED <<prog, reset, fresh, stale>>
    BY <1>3 DEF ExecThrows, ExecLeavesStack, PassesWrapped, Running
  <2>2. NumTemp(prog)' = NumTemp(prog) /\ FollowedByReset(prog)' = FollowedByReset(prog)
        /\ NeedTempReset(prog)' = NeedTempReset(prog) BY <2>1
  <2> QED BY <2>1, <2>2 DEF TempsInv
<1> QED
  BY <1>1, <1>2, <1>3, BeginTemps, ApplyTemps, DataTemps, ExecTemps, FailTemps, IfTemps,
     EndTemps, ResumeTemps DEF Next

(* It holds at first. *)
LEMMA InitTemps == Init => TempsInv
BY DEF Init, TempsInv

(* It implies the property. *)
LEMMA TempsInvIs == TempsInv => TempsFresh
BY DEF TempsInv, TempsFresh

(* Every channel a pixel writes exists, and where SequenceNeedTempReset      *)
(* follows the function no pixel reads what an earlier one left behind       *)
(* (TempsFresh, CIccMpeCalculator::Apply).                                   *)
THEOREM TempsStayFresh == Spec => []TempsFresh
<1> QED BY InitInv, NextInv, InitTemps, NextTemps, TempsInvIs, PTL DEF Spec
=============================================================================
