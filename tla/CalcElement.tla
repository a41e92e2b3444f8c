----------------------------- MODULE CalcElement -----------------------------
(***************************************************************************)
(* The calculator element (CIccMpeCalculator and CIccCalculatorFunc in       *)
(* IccProfLib/IccMpeCalc.cpp).  Begin checks a function once: valid          *)
(* operators, channels in range, and by an abstract run over all branches    *)
(* that the stack neither underflows nor overflows; it also finds out        *)
(* whether the temporary channels must be zeroed before each pixel.  Apply   *)
(* interprets the function for one pixel, calling itself for the branches    *)
(* of if and sel.  A value is not modelled: the stack is its depth, a        *)
(* condition or selector is any the operators could have computed, and a     *)
(* temporary channel is fresh when this pixel wrote or zeroed it.            *)
(***************************************************************************)
EXTENDS CalcOps, FiniteSets, FiniteSetsExt

CONSTANTS
  Programs,    \* the functions an element may be read with
  NumIn,       \* input channels of the element
  NumOut,      \* output channels
  MaxTemp,     \* the most temporary channels Begin takes, 65536 in the code
  MaxDepth     \* kMaxCalcRecursionDepth, 64 in the code

ASSUME ProgramsAssumption == Programs \subseteq Seq(Op)
ASSUME ChannelAssumption == NumIn \in Nat /\ NumOut \in Nat /\ MaxTemp \in Nat
ASSUME DepthAssumption == MaxDepth \in Nat

VARIABLES
  prog,     \* the function
  phase,    \* "new", "refused" by Begin, "ready" for a pixel, "running", or
            \* "lost" when an operator went beyond the stack
  reset,    \* m_bNeedTempReset
  frames,   \* the nested calls of ApplySequence, the innermost last:
            \* each a part of the function and an index into it
  ret,      \* what the call that ended last returned, "none" while one runs,
            \* "thrown" when an exception ended them all
  depth,    \* the size of the stack
  fresh,    \* temporary channels this pixel wrote or zeroed
  stale     \* whether this pixel read another one

vars == <<prog, phase, reset, frames, ret, depth, fresh, stale>>

Frame == [base : Nat, n : Nat, pc : Nat]

-----------------------------------------------------------------------------
(* The operators of the part of p that begins at base, counted from 0. *)
At(p, base, i) == p[base + i + 1]

(* Unsigned numbers, and a sum that wraps around does not fit. *)
Fits(start, count, n) == start \in 0 .. n /\ count \in 0 .. n - start

SigAt(p, base, n, i) == IF i < n THEN At(p, base, i).sig ELSE "none"

(* The case and dflt operators that follow a sel at i; no dflt without case. *)
Cases(p, base, n, i) ==
  Cardinality({k \in 1 .. n : \A j \in 1 .. k : SigAt(p, base, n, i + j) = "case"})

Defaults(p, base, n, i) ==
  LET c == Cases(p, base, n, i)
  IN IF c > 0 /\ SigAt(p, base, n, i + c + 1) = "dflt" THEN 1 ELSE 0

(* The sizes in the k operators that follow the one at i of the function:    *)
(* where the arm after them begins.                                          *)
SizesBefore(p, i, k) ==
  LET sum[j \in 0 .. k] == IF j = 0 THEN 0 ELSE sum[j - 1] + At(p, i, j).a
  IN sum[k]

(* The branches CheckUnderflowOverflow visits after the operator at i. *)
CheckedArms(p, base, n, i) ==
  LET o == At(p, base, i)
      hasElse == SigAt(p, base, n, i + 1) = "else"
      arms == Cases(p, base, n, i) + Defaults(p, base, n, i)
  IN CASE o.sig = "if" /\ hasElse ->
            <<[at |-> i + 2, size |-> o.a],
              [at |-> i + 2 + o.a, size |-> At(p, base, i + 1).a]>>
       [] o.sig = "if" /\ ~hasElse -> <<[at |-> i + 1, size |-> o.a]>>
       [] o.sig = "sel" ->
            [k \in 1 .. arms |->
               [at   |-> i + 1 + arms + SizesBefore(p, base + i, k - 1),
                size |-> At(p, base, i + k).a]]
       [] OTHER -> <<>>

AfterArms(i, arms) ==
  IF arms = <<>> THEN i + 1 ELSE arms[Len(arms)].at + arms[Len(arms)].size

Fitting(arms, sig, n) ==
  \A k \in 1 .. Len(arms) :
    /\ Fits(arms[k].at, arms[k].size, n)
    /\ sig = "sel" => arms[k].at < n

(* The depth the function may end with, the smallest (under) or the largest  *)
(* over the branches it may take, or -1 when it is refused.                  *)
CheckUnderflowOverflow(p, under) ==
  LET check[q \in {r \in Nat \X Nat \X Nat \X Nat : r[1] + r[2] <= Len(p)}] ==
        \* base, n, pc, depth
        LET base == q[1]
            n == q[2]
            pc == q[3]
            o == At(p, base, pc)
            d == q[4] - Used(o) + Pushed(o)
            arms == CheckedArms(p, base, n, pc)
            after == {check[<<base + arms[k].at, arms[k].size, 0, d>>] :
                        k \in 1 .. Len(arms)}
            mayPass == arms = <<>> \/ (o.sig = "if" /\ Len(arms) = 1)
            ends == after \cup (IF mayPass THEN {d} ELSE {})
        IN IF pc >= n THEN q[4]
           ELSE IF \/ Used(o) > q[4] \/ d > MaxStack
                   \/ (o.sig = "sel" /\ arms = <<>>)
                   \/ ~Fitting(arms, o.sig, n)
                THEN -1
           ELSE IF \E e \in ends : e < 0 THEN -1
           ELSE check[<<base, n, AfterArms(pc, arms),
                        (IF under THEN Min(ends) ELSE Max(ends))>>]
  IN check[<<0, Len(p), 0, 0>>]

TempOps == {"tget", "tput", "tsav"}

Span(o) == o.a .. o.a + o.b

(* m_nTempChannels: GetMaxTemp()+1. *)
NumTemp(p) ==
  1 + Max({0} \cup {p[j].a + p[j].b : j \in {k \in DOMAIN p : p[k].sig \in TempOps}})

(* SequenceNeedTempReset: the channels written when the part of p ends, or   *)
(* AnyTemp when some may be read before.  It takes the branch of an if to    *)
(* begin two operators later whether or not an else is there, and knows of   *)
(* sel no more than of any other operator.                                   *)
AnyTemp == {-1}

ResetFrom(p) ==
  LET seen[q \in {r \in Nat \X Nat \X Nat \X SUBSET Int : r[1] + r[2] <= Len(p)}] ==
        \* base, n, pc, written
        LET base == q[1]
            n == q[2]
            pc == q[3]
            w == q[4]
            o == At(p, base, pc)
            hasElse == SigAt(p, base, n, pc + 1) = "else"
            ifFits == Fits(pc + 2, o.a, n)
            ifEnd == seen[<<base + pc + 2, o.a, 0, w>>]
            other == At(p, base, pc + 1).a
            elseFits == Fits(pc + 2 + o.a, other, n)
            elseEnd == seen[<<base + pc + 2 + o.a, other, 0, w>>]
        IN IF pc >= n THEN w
           ELSE IF o.sig = "tget" /\ ~(Span(o) \subseteq w) THEN AnyTemp
           ELSE IF o.sig \in {"tput", "tsav"}
                THEN seen[<<base, n, pc + 1, w \cup Span(o)>>]
           ELSE IF o.sig = "if" /\ (~ifFits \/ ifEnd = AnyTemp) THEN AnyTemp
           ELSE IF o.sig = "if" /\ hasElse
                THEN IF ~elseFits \/ elseEnd = AnyTemp THEN AnyTemp
                     ELSE seen[<<base, n, pc + 2 + o.a + other,
                                 w \cup (ifEnd \cap elseEnd)>>]
           ELSE IF o.sig = "if" THEN seen[<<base, n, pc + 1 + o.a, w>>]
           ELSE seen[<<base, n, pc + 1, w>>]
  IN seen[<<0, Len(p), 0, {}>>]

NeedTempResetIfNeverPut(p) ==
  \A j \in DOMAIN p : p[j].sig \notin {"tput", "tsav"}

NeedTempReset(p) == ResetFrom(p) = AnyTemp

(* InitSelectOp counts the cases to the end of the function, not of the part.*)
InitSelectOps(p) ==
  \A j \in {k \in DOMAIN p : p[k].sig = "sel"} :
    LET n == Len(p)
        arms == Cases(p, 0, n, j - 1) + Defaults(p, 0, n, j - 1)
    IN /\ j + Cases(p, 0, n, j - 1) < n
       /\ \A k \in 1 .. arms :
            /\ arms + SizesBefore(p, j - 1, k - 1) < n - (j - 1)
            /\ Fits(arms + SizesBefore(p, j - 1, k - 1) + 1,
                    p[j + k].a, n - (j - 1))

(* What may stand before an else, a case and a dflt that is not the first.   *)
HasValidOperations(p) ==
  \A j \in DOMAIN p :
    /\ p[j].sig # "bad"
    /\ p[j].sig = "elem" => HasElem(p[j])
    /\ p[j].sig = "sel" /\ j < Len(p) => p[j + 1].sig = "case"
    /\ j > 1 => /\ p[j].sig = "else" => p[j - 1].sig = "if"
                /\ p[j].sig = "case" => p[j - 1].sig \in {"sel", "case"}
                /\ p[j].sig = "dflt" => p[j - 1].sig = "case"

DoesOverflowFrom1(p, sig, channels) ==
  \E j \in DOMAIN p : p[j].sig = sig /\ p[j].a + p[j].b > channels

DoesOverflow(p, sig, channels) ==
  \E j \in DOMAIN p : p[j].sig = sig /\ p[j].a + p[j].b >= channels

(* SetOpDefs adds nothing: an operator without definition is "bad". *)
Accepts(p) ==
  /\ NumTemp(p) <= MaxTemp
  /\ InitSelectOps(p)
  /\ HasValidOperations(p)
  /\ ~DoesOverflow(p, "in", NumIn)
  /\ ~DoesOverflow(p, "out", NumOut)
  /\ CheckUnderflowOverflow(p, TRUE) >= 0
  /\ CheckUnderflowOverflow(p, FALSE) >= 0
-----------------------------------------------------------------------------
Init ==
  /\ prog \in Programs
  /\ phase = "new" /\ reset = FALSE /\ frames = <<>> /\ ret = "none"
  /\ depth = 0 /\ fresh = {} /\ stale = FALSE

(* The Begin of a sub-element may refuse too. *)
Begin ==
  /\ phase = "new"
  /\ reset' = IF NumTemp(prog) <= MaxTemp THEN NeedTempReset(prog) ELSE reset
  /\ \/ Accepts(prog) /\ phase' = "ready"
     \/ (Accepts(prog) => Elem # <<>>) /\ phase' = "refused"
  /\ UNCHANGED <<prog, frames, ret, depth, fresh, stale>>

(* One pixel: the channels keep the previous pixel's values, or whatever     *)
(* malloc returned, unless they are zeroed here.                             *)
Apply ==
  /\ phase = "ready"
  /\ phase' = "running" /\ ret' = "none" /\ depth' = 0 /\ stale' = FALSE
  /\ fresh' = IF reset THEN 0 .. NumTemp(prog) - 1 ELSE {}
  /\ frames' = <<[base |-> 0, n |-> Len(prog), pc |-> 0]>>
  /\ UNCHANGED <<prog, reset>>

Top == frames[Len(frames)]
Op0 == At(prog, Top.base, Top.pc)
Is(i) == SigAt(prog, Top.base, Top.n, Top.pc + i)

Running == phase = "running" /\ ret = "none" /\ Top.pc < Top.n

MoveTo(i) == frames' = [frames EXCEPT ![Len(frames)].pc = i]

Returns(r) == ret' = r /\ frames' = SubSeq(frames, 1, Len(frames) - 1)

Still == UNCHANGED <<prog, phase, reset>>

DataRunAfterFirst ==
  Cardinality({k \in 1 .. Top.n - Top.pc : \A j \in 1 .. k : Is(j) = "data"})

(* A number pushes all the numbers that follow it in its part. *)
DataRun ==
  Cardinality({k \in 1 .. Top.n - Top.pc : \A j \in 0 .. k - 1 : Is(j) = "data"})

PushData ==
  /\ Running /\ Op0.sig = "data"
  /\ depth' = depth + DataRun
  /\ MoveTo(Top.pc + DataRun)
  /\ Still /\ UNCHANGED <<ret, fresh, stale>>

Exec ==
  /\ Running /\ Op0.sig # "data" /\ Executes(Op0, depth) /\ ExecTakes(Op0) <= depth
  /\ depth' = Executed(Op0, depth)
  /\ fresh' = IF Op0.sig \in {"tput", "tsav"} THEN fresh \cup Span(Op0) ELSE fresh
  /\ stale' = (stale \/ (Op0.sig = "tget" /\ ~(Span(Op0) \subseteq fresh)))
  /\ MoveTo(Top.pc + 1)
  /\ Still /\ UNCHANGED ret

(* A tran or solv whose size wrapped around may pass for one that fits.      *)
PassesWrapped == Running /\ Op0.sig # "data" /\ Executes(Op0, depth) /\ ExecTakes(Op0) > depth

(* Transposing asks the scratch vector for its size, and what is below zero  *)
(* is more than any vector has: the exception leaves Apply.                  *)
ResizeThrows == Op0.sig = "tran" /\ ExecSize(Op0) < 0

ExecThrows ==
  /\ PassesWrapped /\ ResizeThrows
  /\ phase' = "ready" /\ ret' = "thrown" /\ frames' = <<>>
  /\ UNCHANGED <<prog, reset, depth, fresh, stale>>

(* Else cells beyond the stack are read and written: nothing is known then.  *)
ExecLeavesStack ==
  /\ PassesWrapped /\ ~ResizeThrows
  /\ phase' = "lost" /\ frames' = <<>>
  /\ UNCHANGED <<prog, reset, ret, depth, fresh, stale>>

(* Too few arguments, or an else, case or dflt that no if or sel leads to. *)
ExecFails ==
  /\ Running /\ Op0.sig \notin {"data", "if", "sel"} /\ ~Executes(Op0, depth)
  /\ Returns("false")
  /\ Still /\ UNCHANGED <<depth, fresh, stale>>

PopFails ==
  /\ Running /\ Op0.sig \in {"if", "sel"} /\ depth = 0
  /\ Returns("false")
  /\ Still /\ UNCHANGED <<depth, fresh, stale>>

(* ApplySequence for a branch, unless it leaves its part or nests too deep;  *)
(* the latter the callee finds out, so it is the callee that returns false.  *)
Call(start, count) ==
  IF ~Fits(start, count, Top.n) THEN Returns("false")
  ELSE IF Len(frames) > MaxDepth THEN ret' = "false" /\ UNCHANGED frames
  ELSE /\ frames' = Append(frames, [base |-> Top.base + start, n |-> count, pc |-> 0])
       /\ UNCHANGED ret

ElseSize == At(prog, Top.base, Top.pc + 1).a
AfterIf == Top.pc + 1 + Op0.a + (IF Is(1) = "else" THEN 1 + ElseSize ELSE 0)

If ==
  /\ Running /\ Op0.sig = "if" /\ depth > 0
  /\ depth' = depth - 1
  /\ \E a1 \in BOOLEAN :
       CASE Is(1) = "else" /\ a1  -> Call(Top.pc + 2, Op0.a)
         [] Is(1) = "else" /\ ~a1 -> Call(Top.pc + 2 + Op0.a, ElseSize)
         [] Is(1) # "else" /\ a1  -> Call(Top.pc + 1, Op0.a)
         [] OTHER                 -> MoveTo(AfterIf) /\ UNCHANGED ret
  /\ Still /\ UNCHANGED <<fresh, stale>>

(* What InitSelectOp noted of the sel at hand. *)
Here == Top.base + Top.pc
NumCases == Cases(prog, 0, Len(prog), Here)
NumArms == NumCases + Defaults(prog, 0, Len(prog), Here)
ArmAt(k) == Top.pc + 1 + NumArms + SizesBefore(prog, Here, k - 1)
ArmSize(k) == At(prog, 0, Here + k).a
DefaultAt == Top.pc + 1 + NumCases

(* After the arms: past the last of them, which must begin and end before    *)
(* the part does.                                                            *)
SelectEnd == ArmAt(NumArms) + ArmSize(NumArms)
LeaveSelect ==
  IF SelectEnd \in 1 .. Top.n THEN MoveTo(SelectEnd) /\ ret' = "none"
  ELSE Returns("false")

Select ==
  /\ Running /\ Op0.sig = "sel" /\ depth > 0
  /\ depth' = depth - 1
  /\ IF NumCases = 0 \/ DefaultAt >= Top.n THEN Returns("false")
     ELSE \E nSel \in 0 .. NumCases :   \* NumCases: any value that is no case
            IF nSel < NumCases THEN Call(ArmAt(nSel + 1), ArmSize(nSel + 1))
            ELSE IF NumArms > NumCases THEN Call(ArmAt(NumArms), ArmSize(NumArms))
            ELSE LeaveSelect
  /\ Still /\ UNCHANGED <<fresh, stale>>

SequenceEnds ==
  /\ phase = "running" /\ ret = "none" /\ Top.pc >= Top.n
  /\ Returns("true")
  /\ Still /\ UNCHANGED <<depth, fresh, stale>>

(* The caller goes on after a branch, ... *)
Resume ==
  /\ phase = "running" /\ ret = "true" /\ frames # <<>>
  /\ IF Op0.sig = "if" THEN MoveTo(AfterIf) /\ ret' = "none" ELSE LeaveSelect
  /\ Still /\ UNCHANGED <<depth, fresh, stale>>

(* ... fails with it after an if, and stops without failing after a sel. *)
Unwind ==
  /\ phase = "running" /\ ret = "false" /\ frames # <<>>
  /\ Returns(IF Op0.sig = "sel" THEN "true" ELSE "false")
  /\ Still /\ UNCHANGED <<depth, fresh, stale>>

EndApply ==
  /\ phase = "running" /\ frames = <<>>
  /\ phase' = "ready"
  /\ UNCHANGED <<prog, reset, frames, ret, depth, fresh, stale>>

Next == \/ Begin \/ Apply \/ PushData \/ Exec \/ ExecThrows
        \/ ExecLeavesStack \/ ExecFails \/ PopFails \/ If \/ Select
        \/ SequenceEnds \/ Resume \/ Unwind \/ EndApply

(* A call of Apply runs to its end; nothing obliges a client to call. *)
Fairness == WF_vars(phase = "running" /\ Next)

Spec == Init /\ [][Next]_vars /\ Fairness
-----------------------------------------------------------------------------
(* Parts of the function lie inside each other, the innermost last. *)
Inside(f, g) == g.base <= f.base /\ f.base + f.n <= g.base + g.n

Framed(fs) ==
  /\ fs \in Seq(Frame)
  /\ Len(fs) <= MaxDepth + 1
  /\ \A k \in 1 .. Len(fs) :
       /\ Inside(fs[k], [base |-> 0, n |-> Len(prog)])
       /\ k > 1 => Inside(fs[k], fs[k - 1])
       /\ k < Len(fs) => fs[k].pc < fs[k].n

(* A tran or solv whose size is no int. *)
Wraps(o) == o.sig \in {"tran", "solv"} /\ ExecTakes(o) >= Word \div 2

(* The interpreter never leaves the function nor the pixel's buffers,        *)
(* whatever the sizes in the operators say: every call works on a part of    *)
(* its caller's, the stack never has less than nothing, an operator about    *)
(* to run names channels that exist, and none but a tran or solv whose size  *)
(* wraps around works on cells beyond the stack (ApplySequence, Begin, the   *)
(* Execs).                                                                   *)
InBounds ==
  /\ depth \in Nat
  /\ phase = "lost" => \E j \in DOMAIN prog : Wraps(prog[j])
  /\ Framed(frames)
  /\ phase = "running" /\ frames # <<>> /\ Top.pc < Top.n =>
       /\ Op0.sig = "in" => Op0.a + Op0.b < NumIn
       /\ Op0.sig = "out" => Op0.a + Op0.b < NumOut

(* Where in the function an operator can be: in a part and at an index. *)
Places(p) == {q \in Nat \X Nat \X Nat : q[1] + q[2] <= Len(p)}   \* base, n, pc

(* How deep the blocks of a function are nested. *)
Nesting(p) ==
  LET deep[q \in Places(p)] ==
        LET arms == CheckedArms(p, q[1], q[2], q[3])
        IN IF q[3] >= q[2] \/ ~Fitting(arms, At(p, q[1], q[3]).sig, q[2]) THEN 0
           ELSE Max({deep[<<q[1], q[2], AfterArms(q[3], arms)>>]}
                    \cup {1 + deep[<<q[1] + arms[k].at, arms[k].size, 0>>] :
                           k \in 1 .. Len(arms)})
  IN deep[<<0, Len(p), 0>>]

(* No else, case or dflt comes up but behind the if or sel it belongs to, as  *)
(* in everything ParseFuncDef writes.                                        *)
WellNested(p) ==
  LET nested[q \in Places(p)] ==
        LET o == At(p, q[1], q[3])
            arms == CheckedArms(p, q[1], q[2], q[3])
        IN \/ q[3] >= q[2]
           \/ /\ o.sig \notin {"else", "case", "dflt"}
              /\ Fitting(arms, o.sig, q[2]) =>
                   /\ nested[<<q[1], q[2], AfterArms(q[3], arms)>>]
                   /\ \A k \in 1 .. Len(arms) :
                        nested[<<q[1] + arms[k].at, arms[k].size, 0>>]
  IN nested[<<0, Len(p), 0>>]

(* The functions the static check counts exactly: the branching operators    *)
(* are well nested, no deeper than ApplySequence goes, every sel has a dflt, *)
(* a solv is square and no count was cut to the largest stack.               *)
Sel(p) == {j \in DOMAIN p : p[j].sig = "sel"}

Exact(p) ==
  /\ WellNested(p)
  /\ Nesting(p) <= MaxDepth
  /\ \A j \in Sel(p) : Defaults(p, 0, Len(p), j - 1) = 1
  /\ \A j \in DOMAIN p : p[j].sig = "solv" => p[j].a = p[j].b /\ p[j].a > 0
  /\ \A j \in DOMAIN p : Takes(p[j]) <= MaxStack /\ Gives(p[j]) <= MaxStack

(* Of such a function Begin's abstract run foresees every pixel: no sequence *)
(* of operators fails, throws or leaves the stack, whatever the conditions   *)
(* turn out to be (Begin, DoesStackUnderflowOverflow).                       *)
AcceptedNeverFails ==
  ret \in {"false", "thrown"} \/ phase = "lost" => ~Exact(prog)

(* ... and it ends with a stack between the two depths the check computed.   *)
DepthForeseen ==
  phase = "running" /\ frames = <<>> /\ ret = "true" /\ Exact(prog) =>
    depth \in CheckUnderflowOverflow(prog, TRUE) .. CheckUnderflowOverflow(prog, FALSE)

(* The functions SequenceNeedTempReset follows: no sel, no if without else.  *)
FollowedByReset(p) ==
  /\ Sel(p) = {}
  /\ \A j \in DOMAIN p : p[j].sig = "if" => j < Len(p) /\ p[j + 1].sig = "else"

(* A pixel writes only temporary channels that exist (GetMaxTemp) and, where *)
(* the analysis follows the function, never reads what an earlier one left   *)
(* there (SequenceNeedTempReset, CIccMpeCalculator::Apply).                  *)
TempsFresh ==
  /\ fresh \subseteq 0 .. NumTemp(prog) - 1
  /\ stale => ~FollowedByReset(prog)

(* The same of every function, as calcCheckInit.xml expects of them all.     *)
NoStaleTemps == ~stale

(* Every pixel is done at some time, also in a function with odd sizes,      *)
(* unless an operator leaves the stack.                                      *)
ApplyEnds == phase = "running" ~> phase \in {"ready", "lost"}
=============================================================================
