------------------------- MODULE ForwardingPipeline -------------------------
(***************************************************************************)
(* ForwardingPipelineControlUnit: data hazards are avoided by handing the  *)
(* operands of the instruction in execute the results of the two ahead of  *)
(* it (ForwardingUnit).  It never puts its StallUnit to sleep, so the unit *)
(* passes every address and stays valid.                                   *)
(***************************************************************************)
EXTENDS PipelineControlUnit

vars == pipelineVars

(* Mutation: the older result wins.                                        *)
ForwardedFromOlder(readReg, data) ==
  LET from(latch) == /\ latch.writeReg # 0
                     /\ RegWrite(latch.op)
                     /\ readReg = latch.writeReg
  IN  IF from(mawb) THEN mawb.regWriteValue
      ELSE IF from(exma) THEN exma.aluValue ELSE data

(* Both forwarding paths of one operand: the younger result wins.          *)
ForwardedOperand(readReg, data) ==
  LET from(latch) == /\ latch.writeReg # 0
                     /\ RegWrite(latch.op)
                     /\ readReg = latch.writeReg
  IN  IF from(exma) THEN exma.aluValue
      ELSE IF from(mawb) THEN mawb.regWriteValue ELSE data

ForwardedIdEx ==
  [idex EXCEPT !.readData1 = ForwardedOperand(idex.readReg1, @),
               !.readData2 = ForwardedOperand(idex.readReg2, @)]

(* cycleExecution.  writeBack comes first: decode reads what it wrote.     *)
Cycle ==
  /\ MayCycle(~Ended, nextPc)
  /\ \E fetched  \in {Fetch(~Ended, program, nextPc)},
        decoded  \in {Decode(ifid, WriteBack(mawb, registers))},
        executed \in {Execute(ForwardedIdEx)} :
       FinishCycle(nextPc, fetched, decoded, executed)
  /\ MemoryAccessAndWriteBack

Terminated == halted /\ UNCHANGED vars

Next == Cycle \/ Terminated

Spec == Init /\ [][Next]_vars /\ WF_vars(Cycle)
-----------------------------------------------------------------------------
(* Whatever is read in execute is the value program order gives it.        *)
OperandsCurrent ==
  idex.valid =>
    /\ ForwardedIdEx.readData1 = SettledRegisters[idex.readReg1]
    /\ ForwardedIdEx.readData2 = SettledRegisters[idex.readReg2]

(* The architectural state of the pipeline, see PipelineControlUnit.       *)
Arch == INSTANCE Architecture WITH
          pc <- OldestPc(nextPc), registers <- RetiredRegisters

(* The pipeline implements the architecture: instructions take effect one  *)
(* by one in program order, whatever was fetched, squashed or held back ...*)
TakesEffectInOrder == Arch!SafeSpec

(* ... and it goes on until the program ends.                              *)
NeverStopsShort == Arch!Progress

(* Once the last instruction has happened the loop is left in the cycle    *)
(* that follows: the mark has come along with it, through every latch.     *)
EndIsNoticed == OldestPc(nextPc) = End => mawb.isEnd \/ halted
=============================================================================
