------------------------------- MODULE CalcOps -------------------------------
(***************************************************************************)
(* The operators of a calculator function (IccProfLib/IccMpeCalc.cpp): what  *)
(* each takes from the stack and leaves on it, once as the static check      *)
(* counts it (Used, Pushed) and once as its Exec does it (Executed).  An     *)
(* operator is a record [sig, a, b]: a and b are the two selectors v1 and    *)
(* v2 of an operator on the stack or on channels, a is the number of         *)
(* operators in the branch of if, else, case and dflt.  One signature stands *)
(* for all operators of the same shape: "sum" for the reductions, "add" for  *)
(* the pairwise ones and comparisons, "sadd" for those with a scalar, "neg"  *)
(* for the unary ones, "lab" for the conversions of triples, "polar" for     *)
(* those of pairs, "const" for the constants.                                *)
(***************************************************************************)
EXTENDS Integers, Sequences

CONSTANTS
  MaxStack,  \* icMaxDataStackSize, 65535 in the code
  Word,      \* 2^32: the values of an int, in which tran and solv multiply
  Elem       \* the sub-elements: a sequence of [in, out] channel counts

ASSUME StackAssumption == MaxStack \in Nat
ASSUME WordAssumption == Word \in Nat /\ MaxStack < Word \div 2
ASSUME ElemAssumption == Elem \in Seq([in : Nat, out : Nat])

Channels == {"in", "out", "tget", "tput", "tsav"}
Stacked  == {"copy", "rotl", "posd", "flip", "pop", "solv", "tran", "sum",
             "sadd", "add", "polar", "lab", "neg"}
Flow     == {"if", "else", "sel", "case", "dflt"}
Sigs     == Channels \cup Stacked \cup Flow \cup {"data", "const", "env", "elem", "bad"}

Op == [sig : Sigs, a : Nat, b : Nat]

(* GetElem: NULL outside the table. *)
HasElem(o) == o.a < Len(Elem)

Times(o) == (o.a + 1) * (o.b + 1)

(* What the operator takes, before the count is cut to the largest stack. *)
Takes(o) ==
  CASE o.sig \in {"out", "tput", "tsav"}                  -> o.b + 1
    [] o.sig \in {"copy", "rotl", "posd", "pop", "neg"}   -> o.a + 1
    [] o.sig = "solv"                                     -> Times(o) + o.a + 1
    [] o.sig = "tran"                                     -> Times(o)
    [] o.sig \in {"flip", "sum", "sadd"}                  -> o.a + 2
    [] o.sig \in {"add", "polar"}                         -> 2 * (o.a + 1)
    [] o.sig = "lab"                                      -> 3 * (o.a + 1)
    [] o.sig \in {"if", "sel"}                            -> 1
    [] o.sig = "elem" /\ HasElem(o)                       -> Elem[o.a + 1].in
    [] OTHER                                              -> 0

Gives(o) ==
  CASE o.sig \in {"data", "const", "sum"}                 -> 1
    [] o.sig = "env"                                      -> 2
    [] o.sig \in {"in", "tget", "tsav"}                   -> o.b + 1
    [] o.sig = "copy"                                     -> (o.a + 1) * (o.b + 2)
    [] o.sig \in {"rotl", "sadd", "add", "neg"}           -> o.a + 1
    [] o.sig = "flip"                                     -> o.a + 2
    [] o.sig = "posd"                                     -> o.a + 2 + o.b
    [] o.sig = "solv"                                     -> o.b + 2
    [] o.sig = "tran"                                     -> Times(o)
    [] o.sig = "polar"                                    -> 2 * (o.a + 1)
    [] o.sig = "lab"                                      -> 3 * (o.a + 1)
    [] o.sig = "elem" /\ HasElem(o)                       -> Elem[o.a + 1].out
    [] OTHER                                              -> 0

Capped(n) == IF n > MaxStack THEN MaxStack ELSE n

UsedWithoutCondition(o) == IF o.sig \in Flow THEN 0 ELSE Capped(Takes(o))

PushedPositionOnce(o) == Capped(IF o.sig = "posd" THEN o.a + 2 ELSE Gives(o))

(* ArgsUsed and ArgsPushed, what the static check adds up. *)
Used(o) == Capped(Takes(o))
Pushed(o) == Capped(Gives(o))

(* Solve reads a matrix of a+1 rows and b+1 columns and then b+1 values,     *)
(* where ArgsUsed counts a+1; it does nothing to a single row or column.     *)
Solves(o) == o.sig = "solv" /\ o.a > 0 /\ o.b > 0

ExecTakes(o) == IF o.sig = "solv" THEN Times(o) + o.b + 1 ELSE Takes(o)

(* Exec of tran and solv multiplies two 16-bit counts in an int, where the    *)
(* product may wrap around: what it compares with the size of the stack.     *)
AsInt(n) ==
  LET m == n % Word IN IF m < Word \div 2 THEN m ELSE m - Word

ExecSize(o) == IF o.sig \in {"tran", "solv"} THEN AsInt(ExecTakes(o)) ELSE ExecTakes(o)

ExecGives(o) == IF Solves(o) THEN o.a + 2
                ELSE IF o.sig = "solv" THEN ExecTakes(o)
                ELSE Gives(o)

(* Exec of any operator but data, which runs on: whether it succeeds on a    *)
(* stack of depth d, and the depth it leaves.                                *)
Executes(o, d) ==
  /\ o.sig \notin {"if", "sel", "else", "case", "dflt", "bad"}
  /\ ExecSize(o) <= d
  /\ o.sig = "copy" => Times(o) <= MaxStack
  /\ o.sig = "elem" => HasElem(o)

Executed(o, d) == d - ExecTakes(o) + ExecGives(o)
=============================================================================
