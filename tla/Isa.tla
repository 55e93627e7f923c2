-------------------------------- MODULE Isa --------------------------------
(***************************************************************************)
(* The instruction set the simulated processors share: operation codes,    *)
(* the control signals a decoder derives from them (ControlSignal.kt,      *)
(* Opcode.kt), the ALU (ALUnit.kt) and the register file's initial content *)
(* (Registers.kt).  Nothing here has state.                                *)
(*                                                                         *)
(* An instruction is a record of its decoded fields.  imm stands for the   *)
(* one operand field the operation uses: the extended immediate, the byte  *)
(* offset of a branch, the shift amount of SLL or the target of J and JAL. *)
(***************************************************************************)
EXTENDS Integers

CONSTANTS
  Register,      \* register numbers the programs use
  WordLimit,     \* register values lie in -WordLimit .. WordLimit - 1 (2^31)
  StackPointer,  \* initial value of r29 (0x1000000)
  DataAddress,   \* addresses of the data words the programs use
  InitialData,   \* content of those words when the program is loaded
  BitOr(_, _),     \* Kotlin's `or` and `shl` on words
  ShiftLeft(_, _)

Word == -WordLimit .. (WordLimit - 1)

ASSUME IsaAssumption ==
  /\ Register \subseteq 0 .. 31
  /\ {0, 2, 31} \subseteq Register
  /\ WordLimit \in Nat /\ WordLimit > 16
  /\ StackPointer \in Word
  /\ InitialData \in [DataAddress -> Word]
  /\ \A x, y \in Word : BitOr(x, y) \in Word /\ ShiftLeft(x, y) \in Word
  /\ \A x \in Word : ShiftLeft(x, 0) = x

(***************************************************************************)
(* Operation codes.  NONE is not an operation of Opcode.kt: it stands for  *)
(* the signals ControlSignal.NONE, those of SLL with every write off.  The *)
(* ALU value of such an instruction is dead and is modelled as 0.          *)
(***************************************************************************)
RType  == {"ADDU", "SUBU", "SLT", "SLL", "JR"}
IType  == {"ADDI", "ADDIU", "SLTI", "ORI", "LUI", "LW", "SW", "BEQ", "BNE"}
JType  == {"J", "JAL"}
Opcode == RType \cup IType \cup JType
Signal == Opcode \cup {"NONE"}

RegDest(op)  == op \in RType \cup {"NONE"}
IsBranch(op) == op \in {"BEQ", "BNE"}
AluSrc(op)   == ~RegDest(op) /\ ~IsBranch(op)
IsShift(op)  == op = "SLL"
MemRead(op)  == op = "LW"
MemWrite(op) == op = "SW"
RegWrite(op) == op \notin {"SW", "BEQ", "BNE", "J", "JR", "NONE"}
IsJump(op)   == op \in {"J", "JAL", "JR"}

Instruction == [op : Opcode, rs : Register, rt : Register, rd : Register,
                imm : Word]

(* The all-zero word, which every fetch reads where no program was loaded. *)
Nop == [op |-> "SLL", rs |-> 0, rt |-> 0, rd |-> 0, imm |-> 0]

(* Loaded text: instructions at their addresses, no-ops everywhere else.   *)
IsProgram(text) == /\ DOMAIN text \subseteq Nat
                   /\ \A a \in DOMAIN text : text[a] \in Instruction

InstructionAt(program, pc) ==
  IF pc \in DOMAIN program THEN program[pc] ELSE Nop

(* The register an instruction writes when its operation writes one.       *)
WriteRegister(op, i) ==
  IF op = "JAL" THEN 31 ELSE IF RegDest(op) THEN i.rd ELSE i.rt

(***************************************************************************)
(* The ALU.  Results wrap to the width of a register, as Int does.         *)
(***************************************************************************)
(* Mutation: arithmetic is done in a wider type.                           *)
Unwrapped(x) == x

Wrap(x) == ((x + WordLimit) % (2 * WordLimit)) - WordLimit

(* The operand ParsedInstruction computes: a branch's is its target.       *)
Immediate(pc, i) ==
  IF IsBranch(i.op) THEN Wrap(pc + 4 + i.imm) ELSE i.imm

Bool(b) == IF b THEN 1 ELSE 0

Operate(op, src1, src2) ==
  CASE op \in {"ADDI", "ADDIU", "ADDU", "LW", "SW"} -> Wrap(src1 + src2)
    [] op = "SUBU"                  -> Wrap(src1 - src2)
    [] op = "ORI"                   -> BitOr(src1, src2)
    [] op \in {"SLL", "LUI"}        -> ShiftLeft(src1, src2)
    [] op \in {"SLT", "SLTI"}       -> Bool(src1 < src2)
    [] op = "BEQ"                   -> Bool(src1 = src2)
    [] op = "BNE"                   -> Bool(src1 # src2)
    [] OTHER                        -> 0

(* ALUnit.execute: the operands the signals select, and the link of JAL.   *)
AluValue(op, pc, imm, data1, data2) ==
  LET src1 == IF op = "LUI" THEN imm ELSE IF IsShift(op) THEN data2 ELSE data1
      src2 == IF op = "LUI" THEN 16
              ELSE IF AluSrc(op) \/ IsShift(op) THEN imm ELSE data2
  IN  IF op = "JAL" THEN Wrap(pc + 8) ELSE Operate(op, src1, src2)

(***************************************************************************)
(* Register file and data memory.                                          *)
(***************************************************************************)
InitialRegisters ==
  [r \in Register |-> CASE r = 29 -> StackPointer [] r = 31 -> -1 [] OTHER -> 0]

(* Words outside DataAddress are never written: they read as zero.         *)
ReadWord(memory, address) ==
  IF address \in DataAddress THEN memory[address] ELSE 0

WriteWord(memory, address, value) == [memory EXCEPT ![address] = value]

(***************************************************************************)
(* Program counters.  r31 holds End when a run starts; returning to it     *)
(* ends the run.  Off stands for a counter that meets no more instruction. *)
(***************************************************************************)
End == -1
Off == -2

(* The first instruction that is not a no-op, fetching from a onwards.     *)
NextInstruction(text, a) ==
  LET ahead == {q \in DOMAIN text : /\ q >= a
                                    /\ (q - a) % 4 = 0
                                    /\ text[q] # Nop}
  IN  IF a < 0 \/ InstructionAt(text, a) # Nop THEN a
      ELSE IF ahead = {} THEN Off
      ELSE CHOOSE q \in ahead : \A other \in ahead : q <= other
=============================================================================
