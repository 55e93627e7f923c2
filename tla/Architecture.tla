---------------------------- MODULE Architecture ----------------------------
(***************************************************************************)
(* What every control unit promises: the instructions of a program take    *)
(* effect one at a time, in program order, on the registers and the data   *)
(* memory.  This module is the specification the control units implement;  *)
(* it knows nothing of cycles, latches, stalls or predictions.             *)
(*                                                                         *)
(* The no-operation word has no effect, so it is not a step: pc is always  *)
(* the address of the next instruction that does something.                *)
(***************************************************************************)
EXTENDS Isa

VARIABLES
  program,     \* the loaded text; it never changes
  pc,          \* next instruction to take effect, or End, or Off
  registers,
  memory

vars == <<program, pc, registers, memory>>

(* The value an instruction computes from its sources s and t.             *)
Result(i, a, s, t, mem) ==
  CASE i.op = "ADDU"              -> Wrap(s + t)
    [] i.op = "SUBU"              -> Wrap(s - t)
    [] i.op = "SLT"               -> Bool(s < t)
    [] i.op = "SLL"               -> ShiftLeft(t, i.imm)
    [] i.op \in {"ADDI", "ADDIU"} -> Wrap(s + i.imm)
    [] i.op = "SLTI"              -> Bool(s < i.imm)
    [] i.op = "ORI"               -> BitOr(s, i.imm)
    [] i.op = "LUI"               -> ShiftLeft(i.imm, 16)
    [] i.op = "LW"                -> ReadWord(mem, Wrap(s + i.imm))
    [] i.op = "JAL"               -> Wrap(a + 8)

(* The register an instruction defines, for the operations that define one *)
Target(i) == IF i.op = "JAL" THEN 31
             ELSE IF i.op \in {"ADDU", "SUBU", "SLT", "SLL"} THEN i.rd
             ELSE i.rt

Defines(i) == i.op \notin {"SW", "BEQ", "BNE", "J", "JR"}

(* Where control goes.  The word after a taken branch or a jump is skipped *)
(* (the delay slot, a no-op by convention).                                *)
Successor(i, a, s, t) ==
  CASE i.op \in {"J", "JAL"} -> i.imm
    [] i.op = "JR"           -> s
    [] \/ i.op = "BEQ" /\ s = t
       \/ i.op = "BNE" /\ s # t -> Wrap(a + 4 + i.imm)
    [] OTHER                 -> a + 4

Init ==
  /\ IsProgram(program)
  /\ pc = NextInstruction(program, 0)
  /\ registers = InitialRegisters
  /\ memory = InitialData

(* One instruction takes effect.                                           *)
Step ==
  /\ pc >= 0
  /\ LET i == InstructionAt(program, pc)
         s == registers[i.rs]
         t == registers[i.rt]
     IN  /\ registers' = IF Defines(i)
                         THEN [registers EXCEPT ![Target(i)] =
                                 Result(i, pc, s, t, memory)]
                         ELSE registers
         /\ memory' = IF i.op = "SW"
                      THEN WriteWord(memory, Wrap(s + i.imm), t)
                      ELSE memory
         /\ pc' = NextInstruction(program, Successor(i, pc, s, t))
         /\ UNCHANGED program

Next == Step

SafeSpec == Init /\ [][Next]_vars

(* The processor never stops executing before the program ends.            *)
Progress == WF_vars(Step)

Spec == SafeSpec /\ Progress
=============================================================================
