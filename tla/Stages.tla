------------------------------- MODULE Stages -------------------------------
(***************************************************************************)
(* The five stages of SingleProcessingPipelineControlUnit as operators     *)
(* from one latch to the next, with the register file and the memory.      *)
(*                                                                         *)
(* A latch is the record of the fields later stages use (cpu/dto).  op is  *)
(* the operation whose control signals the latch carries: "NONE" for       *)
(* ControlSignal.NONE; isEnd is the mutable flag of that control signal.   *)
(***************************************************************************)
EXTENDS Isa

(* What the latches hold.                                                  *)
FetchResult == [valid : BOOLEAN, pc : Nat, instruction : Instruction]

DecodeResult == [valid : BOOLEAN, pc : Nat, op : Signal, isEnd : BOOLEAN,
                 imm : Word, readReg1 : Register, readReg2 : Register,
                 readData1 : Word, readData2 : Word, writeReg : Register,
                 nextPc : Int]

ExecutionResult == [valid : BOOLEAN, pc : Nat, op : Signal, isEnd : BOOLEAN,
                    aluValue : Word, readData2 : Word, writeReg : Register,
                    nextPc : Int, branch : BOOLEAN]

MemoryAccessResult == [valid : BOOLEAN, pc : Nat, op : Signal,
                       isEnd : BOOLEAN, regWriteValue : Word,
                       writeReg : Register]

(* The content of the latches before the first flush.                      *)
EmptyIfId == [valid |-> FALSE, pc |-> 0, instruction |-> Nop]

EmptyIdEx == [valid |-> FALSE, pc |-> 0, op |-> "NONE", isEnd |-> FALSE,
              imm |-> 0, readReg1 |-> 0, readReg2 |-> 0, readData1 |-> 0,
              readData2 |-> 0, writeReg |-> 0, nextPc |-> 0]

EmptyExMa == [valid |-> FALSE, pc |-> 0, op |-> "NONE", isEnd |-> FALSE,
              aluValue |-> 0, readData2 |-> 0, writeReg |-> 0, nextPc |-> 0,
              branch |-> FALSE]

EmptyMaWb == [valid |-> FALSE, pc |-> 0, op |-> "NONE", isEnd |-> FALSE,
              regWriteValue |-> 0, writeReg |-> 0]
-----------------------------------------------------------------------------
(* A no-op is fetched as an invalid result that still knows its address.   *)
Fetch(valid, program, pc) ==
  IF valid
  THEN [valid |-> InstructionAt(program, pc) # Nop, pc |-> pc,
        instruction |-> InstructionAt(program, pc)]
  ELSE EmptyIfId

(* Mutation: the signals are those of the word, valid or not.              *)
DecodedSignalOfAnyWord(ifid) == ifid.instruction.op

(* The signals of what is not valid are NONE.                              *)
DecodedSignal(ifid) == IF ifid.valid THEN ifid.instruction.op ELSE "NONE"

DecodeWith(signal, ifid, registers) ==
  LET i == ifid.instruction
  IN  [valid |-> ifid.valid, pc |-> ifid.pc, op |-> signal, isEnd |-> FALSE,
       imm |-> Immediate(ifid.pc, i), readReg1 |-> i.rs, readReg2 |-> i.rt,
       readData1 |-> registers[i.rs], readData2 |-> registers[i.rt],
       writeReg |-> WriteRegister(signal, i),
       nextPc |-> CASE signal = "JR"            -> registers[i.rs]
                    [] signal \in {"J", "JAL"}  -> i.imm
                    [] OTHER                    -> ifid.pc]

Decode(ifid, registers) == DecodeWith(DecodedSignal(ifid), ifid, registers)

Execute(idex) ==
  LET aluValue == AluValue(idex.op, idex.pc, idex.imm,
                           idex.readData1, idex.readData2)
  IN  [valid |-> idex.valid, pc |-> idex.pc, op |-> idex.op,
       isEnd |-> idex.isEnd, aluValue |-> aluValue,
       readData2 |-> idex.readData2, writeReg |-> idex.writeReg,
       nextPc |-> idex.imm, branch |-> IsBranch(idex.op) /\ aluValue = 1]

(* What memoryAccess hands on, and the memory it leaves.  Neither this     *)
(* stage nor the next looks at valid: only the signals count.              *)
MemoryAccess(exma, memory) ==
  [valid |-> exma.valid, pc |-> exma.pc, op |-> exma.op, isEnd |-> exma.isEnd,
   regWriteValue |-> IF MemRead(exma.op) THEN ReadWord(memory, exma.aluValue)
                     ELSE exma.aluValue,
   writeReg |-> exma.writeReg]

Stored(exma, memory) ==
  IF MemWrite(exma.op) THEN WriteWord(memory, exma.aluValue, exma.readData2)
  ELSE memory

WriteBack(mawb, registers) ==
  IF RegWrite(mawb.op)
  THEN [registers EXCEPT ![mawb.writeReg] = mawb.regWriteValue]
  ELSE registers
=============================================================================
