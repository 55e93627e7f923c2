----------------------------- MODULE MCPrograms -----------------------------
(***************************************************************************)
(* Small programs for TLC: how text is laid out, and families of programs  *)
(* among which those that keep the conventions are run.                    *)
(***************************************************************************)
EXTENDS Conventions, Sequences, SequencesExt

(* A seven-bit register: 32 is the step that wraps after four additions.   *)
MCWordLimit == 64
MCStackPointer == 40
MCDataAddress == {48, 52}

(* Half of the largest number: twice that wraps.                           *)
Big == WordLimit \div 2

MCInitialData ==
  [a \in DataAddress |-> CASE a = 48 -> Big [] a = 52 -> -Big [] OTHER -> 0]

(* Bitwise or and shift, on words of up to ten bits.                       *)
Bits(x) == x % (2 * WordLimit)

Signed(bits) == IF bits < WordLimit THEN bits ELSE bits - 2 * WordLimit

OrOfFiveBits ==
  LET bit(v, k) == (v \div 2 ^ k) % 2
      ored(x, y, k) == IF bit(x, k) = 1 \/ bit(y, k) = 1 THEN 2 ^ k ELSE 0
  IN  [x, y \in 0 .. 31 |->
         ored(x, y, 0) + ored(x, y, 1) + ored(x, y, 2) + ored(x, y, 3)
           + ored(x, y, 4)]

MCBitOr(x, y) ==
  Signed(32 * OrOfFiveBits[Bits(x) \div 32, Bits(y) \div 32]
           + OrOfFiveBits[x % 32, y % 32])

MCShiftLeft(x, n) ==
  IF n % 32 < 10 THEN Signed((x * 2 ^ (n % 32)) % (2 * WordLimit)) ELSE 0
-----------------------------------------------------------------------------
(* Assembly notation.                                                      *)
R(op, d, s, t)   == [op |-> op, rs |-> s, rt |-> t, rd |-> d, imm |-> 0]
I(op, t, s, imm) == [op |-> op, rs |-> s, rt |-> t, rd |-> 0, imm |-> imm]
Sll(d, t, n)     == [op |-> "SLL", rs |-> 0, rt |-> t, rd |-> d, imm |-> n]
Jump(op, target) == [op |-> op, rs |-> 0, rt |-> 0, rd |-> 0, imm |-> target]
Return           == R("JR", 0, 31, 0)

(* An item of straight assembly: control transfers bring their delay slot. *)
Item(i) == IF IsBranch(i.op) \/ IsJump(i.op) THEN <<i, Nop>> ELSE <<i>>

Epilogue == <<Return, Nop>>

Slots(items) == FlattenSeq([k \in DOMAIN items |-> Item(items[k])]) \o Epilogue

(* Text from a list of items: instruction k at address 4(k-1).  A branch   *)
(* item carries the target's address, resolved to an offset here.          *)
Text(items) ==
  LET slots == Slots(items)
      resolved(a) == LET i == slots[1 + a \div 4]
                     IN  IF IsBranch(i.op) THEN [i EXCEPT !.imm = @ - a - 4]
                         ELSE i
  IN  [a \in {4 * (k - 1) : k \in 1 .. Len(slots)} |-> resolved(a)]
-----------------------------------------------------------------------------
(* Instructions over two work registers, 2 and 3; two data words.          *)
WorkInstructions ==
  {I("ADDIU", 2, 2, Big), I("LW", 2, 0, 48), I("SW", 2, 0, 52),
   R("ADDU", 3, 2, 2), I("LW", 3, 0, 52), R("SUBU", 2, 2, 3)}

OtherAluInstructions ==
  {I("ORI", 3, 2, Big + 1), I("LUI", 2, 0, 3), R("SLT", 3, 0, 2),
   I("SLTI", 2, 2, Big), Sll(3, 2, 1), I("ADDI", 3, 3, Big)}

Transfers(targets) ==
  UNION {{I("BNE", 0, 2, t), I("BEQ", 3, 2, t), Jump("J", t), Jump("JAL", t)}
           : t \in targets}

(* Every item sequence up to a length, and every choice of one per set.    *)
ProgramsOf(items, length) ==
  {Text(s) : s \in UNION {[1 .. n -> items] : n \in 1 .. length}}

ProgramsThrough(sets) ==
  LET extended(sequences, set) == {Append(s, i) : s \in sequences, i \in set}
  IN  {Text(s) : s \in FoldLeft(extended, {<<>>}, sets)}

(* Three instructions that depend on one another, without a transfer, with *)
(* one behind them or between: to the start, the middle, itself, ahead.    *)
DependentPrograms ==
  ProgramsOf(WorkInstructions, 3)
    \cup ProgramsThrough(<<OtherAluInstructions, OtherAluInstructions>>)
    \cup ProgramsThrough(<<WorkInstructions, WorkInstructions,
                           Transfers({0, 4, 8, 16})>>)
    \cup ProgramsThrough(<<WorkInstructions, Transfers({0, 4, 16}),
                           WorkInstructions>>)

(* Loops that go on until register 2 wraps around to 0.                    *)
LoopPrograms(step) ==
  ProgramsThrough(<<{I("ADDIU", 2, 2, step)},
                    {R("ADDU", 3, 2, 2), I("SW", 2, 0, 52), I("LW", 3, 0, 52)},
                    {R("ADDU", 3, 3, 2), Sll(3, 2, 1), I("SW", 3, 0, 48)},
                    {I("BNE", 0, 2, 0)}, {R("SUBU", 3, 3, 2)}>>)

(* Nested loops whose branches lead to no-ops: rounds of register 2,       *)
(* with the inner branch depending on the round.                           *)
PaddedPrograms(step) ==
  ProgramsThrough(<<{Nop}, {I("ADDIU", 2, 2, step)}, {I("SLTI", 3, 2, k) : k \in {-32, 0}},
                    {I("BEQ", 0, 3, 24), I("BNE", 0, 3, 24)},
                    {R("ADDU", 3, 3, 2), I("SW", 2, 0, 52)}, {Nop},
                    {R("SUBU", 3, 3, 2)}, {I("BNE", 0, 2, 0), I("BEQ", 0, 2, 0)},
                    {I("SW", 3, 0, 52)}>>)

(* Two transfers with work between them.                                   *)
BranchyPrograms ==
  ProgramsThrough(<<{I("BNE", 0, 2, 12), I("BEQ", 0, 2, 12), Jump("J", 12)},
                    {I("ADDIU", 2, 2, 32), I("LW", 2, 0, 48)},
                    {I("BEQ", 3, 2, t) : t \in {0, 8, 20}}
                      \cup {I("BNE", 3, 2, t) : t \in {0, 8, 20}},
                    {R("SUBU", 3, 3, 2)}>>)

(* A subroutine at 24 that works and returns, called once; the caller      *)
(* keeps its own return address in register 3.                             *)
CallPrograms ==
  ProgramsThrough(<<{I("ADDIU", 3, 31, 0)}, {Jump("JAL", 24)},
                    WorkInstructions \ {R("ADDU", 3, 2, 2), I("LW", 3, 0, 52)},
                    {R("JR", 0, 3, 0)},
                    WorkInstructions \ {R("ADDU", 3, 2, 2), I("LW", 3, 0, 52)},
                    {I("ADDIU", 2, 2, 1)}>>)

PipelinePrograms ==
  DependentPrograms \cup LoopPrograms(32) \cup BranchyPrograms \cup CallPrograms
=============================================================================
