----------------------------- MODULE SingleCycle -----------------------------
(***************************************************************************)
(* SingleCycleControlUnit: one whole instruction per cycle.  The five      *)
(* stages of a cycle run in sequence inside cycleExecution, so the cycle   *)
(* is one action.                                                          *)
(***************************************************************************)
EXTENDS Isa

CONSTANT Programs   \* the programs that may be loaded: address -> instruction

ASSUME ProgramsAssumption == \A text \in Programs : IsProgram(text)

VARIABLES
  program,
  pc,          \* cycleResult.nextPc
  registers,
  memory

vars == <<program, pc, registers, memory>>

Reset ==
  /\ pc = 0
  /\ registers = InitialRegisters
  /\ memory = InitialData

Init == program \in Programs /\ Reset

(* Mutation: a taken branch falls through.                                 *)
NextPcIgnoringBranches(i, a, aluValue, data1) ==
  IF i.op = "JR" THEN data1 ELSE IF i.op \in {"J", "JAL"} THEN i.imm ELSE a + 4

(* Mutation: a branch that is not taken stays where it is.                 *)
NextPcStaying(i, a, aluValue, data1) ==
  CASE i.op = "JR"                        -> data1
    [] i.op \in {"J", "JAL"}              -> i.imm
    [] IsBranch(i.op)                     -> IF aluValue = 1
                                             THEN Immediate(a, i) ELSE a
    [] OTHER                              -> a + 4

(* execute: a jump register wins over a jump, a jump over a taken branch.  *)
NextPc(i, a, aluValue, data1) ==
  CASE i.op = "JR"                        -> data1
    [] i.op \in {"J", "JAL"}              -> i.imm
    [] IsBranch(i.op) /\ aluValue = 1     -> Immediate(a, i)
    [] OTHER                              -> a + 4

(* cycleExecution: fetch, decode, execute, memoryAccess, writeBack.  The   *)
(* no-op word runs through the stages as the SLL of register 0 it encodes. *)
(* Reading memory at any other negative address than End raises.           *)
CycleExecution ==
  /\ pc >= 0
  /\ LET i        == InstructionAt(program, pc)
         data1    == registers[i.rs]
         data2    == registers[i.rt]
         aluValue == AluValue(i.op, pc, Immediate(pc, i), data1, data2)
         value    == IF MemRead(i.op) THEN ReadWord(memory, aluValue)
                     ELSE aluValue
     IN  /\ memory' = IF MemWrite(i.op)
                      THEN WriteWord(memory, aluValue, data2) ELSE memory
         /\ registers' = IF RegWrite(i.op)
                         THEN [registers EXCEPT ![WriteRegister(i.op, i)] = value]
                         ELSE registers
         /\ pc' = NextPc(i, pc, aluValue, data1)
         /\ UNCHANGED program

(* process() leaves its loop when the next program counter is -1.          *)
Terminated == pc = End /\ UNCHANGED vars

Next == CycleExecution \/ Terminated

Spec == Init /\ [][Next]_vars /\ WF_vars(CycleExecution)
-----------------------------------------------------------------------------
(* Registers and memory words keep the width of Int.                       *)
TypeOK ==
  /\ IsProgram(program)
  /\ pc \in Int
  /\ registers \in [Register -> Word]
  /\ memory \in [DataAddress -> Word]

(* The architectural state: no-ops are skipped.                            *)
Arch == INSTANCE Architecture WITH pc <- NextInstruction(program, pc)

(* SingleCycleControlUnit implements the architecture: cycleExecution is   *)
(* one architectural step, or none for a no-op ...                         *)
TakesEffectInOrder == Arch!SafeSpec

(* ... and process() goes on until the program ends.                       *)
NeverStopsShort == Arch!Progress
=============================================================================
