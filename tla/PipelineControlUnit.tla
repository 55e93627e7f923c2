------------------------ MODULE PipelineControlUnit ------------------------
(***************************************************************************)
(* SingleProcessingPipelineControlUnit: the state of a pipelined control   *)
(* unit, its main loop process(), and what a pipeline promises whichever   *)
(* way it deals with data hazards.  ForwardingPipeline and StallingPipeline*)
(* extend it with their cycleExecution.                                    *)
(*                                                                         *)
(* One action is one cycle: the latches are read at its start and flushed  *)
(* at its end, so nothing of a cycle is visible before it is complete.     *)
(***************************************************************************)
EXTENDS PcUnits

CONSTANTS
  Programs,   \* the programs that may be loaded: address -> instruction
  Units       \* the program counter units a run may be built with

ASSUME ProgramsAssumption == \A text \in Programs : IsProgram(text)

ASSUME UnitsAssumption == Units \subseteq PcUnit

VARIABLES
  program,                  \* the loaded text
  pcUnit,                   \* the program counter unit and what it has learnt
  registers, memory,
  ifid, idex, exma, mawb,   \* the outputs of the four latches
  nextPc,                   \* cycleResult.nextPc
  isEnd,                    \* the loop's isEnd, as of the previous cycle
  halted                    \* the loop was left

pipelineVars == <<program, pcUnit, registers, memory, ifid, idex, exma, mawb,
                  nextPc, isEnd, halted>>

Init ==
  /\ program \in Programs
  /\ pcUnit \in Units
  /\ registers = InitialRegisters
  /\ memory = InitialData
  /\ ifid = EmptyIfId
  /\ idex = EmptyIdEx
  /\ exma = EmptyExMa
  /\ mawb = EmptyMaWb
  /\ nextPc = 0
  /\ isEnd = FALSE
  /\ halted = FALSE

(* Once an instruction has led to -1 nothing more is fetched: the end is   *)
(* sticky.                                                                 *)
Ended == isEnd \/ nextPc = End

(* The loop goes on; reading memory at a negative address would raise.     *)
MayCycle(valid, pc) == ~halted /\ (valid => pc >= 0)

(* Mutation: the loop is left when the last instruction accesses memory.   *)
LeftOnMemoryAccess == exma.isEnd

(* The instruction written back in this cycle is the last one.             *)
LastCycle == mawb.isEnd

(* The end of a cycle: findNext sees what the first three stages produced; *)
(* what it leaves goes to the latches.  The loop is left in the last cycle;*)
(* the latches are not read again then.                                    *)
FinishCycle(pc, fetched, decoded, executed) ==
  /\ \E next \in {FindNext(pcUnit, pc, fetched, decoded, executed)} :
       /\ pcUnit' = next.unit
       /\ ifid' = next.ifid
       /\ idex' = next.idex
       /\ exma' = next.exma
       /\ nextPc' = next.pc
  /\ isEnd' = Ended
  /\ halted' = LastCycle
  /\ UNCHANGED program

(* memoryAccess and writeBack, for the instructions two and three ahead.   *)
MemoryAccessAndWriteBack ==
  /\ mawb' = MemoryAccess(exma, memory)
  /\ memory' = Stored(exma, memory)
  /\ registers' = WriteBack(mawb, registers)
-----------------------------------------------------------------------------
TypeOK ==
  /\ IsProgram(program)
  /\ pcUnit \in PcUnit
  /\ registers \in [Register -> Word]
  /\ memory \in [DataAddress -> Word]
  /\ ifid \in FetchResult
  /\ idex \in DecodeResult
  /\ exma \in ExecutionResult
  /\ mawb \in MemoryAccessResult
  /\ nextPc \in Int
  /\ isEnd \in BOOLEAN
  /\ halted \in BOOLEAN
-----------------------------------------------------------------------------
(* The architectural state a pipeline stands for: what is in mawb counts   *)
(* as written, what is in exma or before has not happened yet.             *)
RetiredRegisters == WriteBack(mawb, registers)

(* The oldest instruction that has not happened yet; fetchPc is where the  *)
(* fetch will resume when nothing is in flight.                            *)
OldestPc(fetchPc) ==
  IF exma.valid THEN exma.pc
  ELSE IF idex.valid THEN idex.pc
  ELSE IF ifid.valid THEN ifid.pc
  ELSE IF Ended THEN End
  ELSE NextInstruction(program, fetchPc)

(* What the registers hold once everything ahead of decode has retired.    *)
SettledRegisters ==
  WriteBack(MemoryAccess(exma, memory), WriteBack(mawb, registers))

(* An instruction that was squashed, or a no-op, can no longer do anything:*)
(* memoryAccess and writeBack only look at its signals.                    *)
SquashedIsInert ==
  \A latch \in {idex, exma, mawb} :
    ~latch.valid => ~RegWrite(latch.op) /\ ~MemWrite(latch.op)

(* The loop is left only after the program has ended and everything that   *)
(* came before its last instruction has been written back.                 *)
HaltedWhenDrained ==
  halted => /\ Ended
            /\ \A latch \in {ifid, idex, exma, mawb} : ~latch.valid
=============================================================================
