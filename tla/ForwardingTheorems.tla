------------------------- MODULE ForwardingTheorems -------------------------
(***************************************************************************)
(* ForwardingPipelineControlUnit, for every program, unit and word size.   *)
(***************************************************************************)
EXTENDS ForwardingPipeline, PipelineTheorems

(* Forwarding replaces operands by words.                                  *)
LEMMA ForwardedType == TypeOK => ForwardedIdEx \in DecodeResult
<1> SUFFICES ASSUME TypeOK PROVE ForwardedIdEx \in DecodeResult
  OBVIOUS
<1>1. /\ idex \in DecodeResult
      /\ exma.aluValue \in Word /\ mawb.regWriteValue \in Word
  BY DEF TypeOK, ExecutionResult, MemoryAccessResult
<1>2. \A reg, data : data \in Word => ForwardedOperand(reg, data) \in Word
  BY <1>1 DEF ForwardedOperand
<1>3. /\ ForwardedOperand(idex.readReg1, idex.readData1) \in Word
      /\ ForwardedOperand(idex.readReg2, idex.readData2) \in Word
  BY <1>1, <1>2 DEF DecodeResult
<1> QED
  BY <1>1, <1>3 DEF ForwardedIdEx, DecodeResult

(* What the first three stages produce in a cycle.                         *)
Fetched  == Fetch(~Ended, program, nextPc)
Decoded  == Decode(ifid, WriteBack(mawb, registers))
Executed == Execute(ForwardedIdEx)

(* They are of the latches' types.                                          *)
LEMMA StageTypes ==
  ASSUME TypeOK, Cycle
  PROVE  /\ Fetched \in FetchResult /\ Decoded \in DecodeResult
         /\ Executed \in ExecutionResult
<1>1. Fetched \in FetchResult
  BY FetchType DEF Fetched, Cycle, MayCycle, TypeOK, Ended
<1>2. Decoded \in DecodeResult
  BY DecodeType, WriteBackType DEF Decoded, TypeOK
<1>3. Executed \in ExecutionResult
  BY ForwardedType, ExecuteType DEF Executed
<1> QED
  BY <1>1, <1>2, <1>3

(* A cycle is the stages, findNext and the flush of the latches.           *)
LEMMA CycleRunsStages ==
  ASSUME TypeOK, Cycle
  PROVE  StagesRan(nextPc, Fetched, Decoded, Executed)
<1>1. /\ FinishCycle(nextPc, Fetched, Decoded, Executed)
      /\ mawb' = MemoryAccess(exma, memory)
  BY DEF Cycle, MemoryAccessAndWriteBack, Fetched, Decoded, Executed
<1>2. Fetched.valid => /\ ~Ended
                       /\ Fetched.pc = nextPc
                       /\ Fetched.instruction = InstructionAt(program, nextPc)
                       /\ Fetched.instruction # Nop
  BY FetchFields DEF Fetched
<1>3. /\ Decoded.valid => ifid.valid /\ Decoded.op = ifid.instruction.op
      /\ ~Decoded.valid => Decoded.op = "NONE"
      /\ ~Decoded.isEnd
  BY DEF Decoded, Decode, DecodeWith, DecodedSignal
<1>4. /\ Executed.valid = idex.valid
      /\ Executed.op = idex.op
      /\ Executed.isEnd = idex.isEnd
      /\ Executed.branch => IsBranch(Executed.op)
  <2>1. /\ ForwardedIdEx.valid = idex.valid
        /\ ForwardedIdEx.op = idex.op
        /\ ForwardedIdEx.isEnd = idex.isEnd
    BY DEF ForwardedIdEx, TypeOK, DecodeResult
  <2> QED
    BY <2>1 DEF Executed, Execute
<1> QED
  BY <1>1, <1>2, <1>3, <1>4 DEF StagesRan

(* Every cycle keeps the types.                                            *)
LEMMA StepTypes == TypeOK /\ [Next]_vars => TypeOK'
<1> SUFFICES ASSUME TypeOK, [Next]_vars PROVE TypeOK'
  OBVIOUS
<1>1. CASE Cycle
  <2>1. MemoryAccessAndWriteBack
    BY <1>1 DEF Cycle
  <2> QED
    BY <1>1, <2>1, StageTypes, CycleRunsStages, CycleTypes DEF StagesRan, TypeOK
<1>2. CASE UNCHANGED vars
  BY <1>2 DEF vars, pipelineVars, TypeOK
<1> QED
  BY <1>1, <1>2 DEF Next, Terminated

(* The latches, the registers, the memory and what the program counter     *)
(* unit has learnt keep their types, with every unit: nothing a stage      *)
(* computes or findNext chooses leaves the width of Int or a line.         *)
THEOREM TypeCorrect == Spec => []TypeOK
BY InitialTypes, StepTypes, PTL DEF Spec
-----------------------------------------------------------------------------
(* Every cycle moves the marks of the end on.                              *)
LEMMA StepEnd == TypeOK /\ EndTravels /\ [Next]_vars => EndTravels'
<1> SUFFICES ASSUME TypeOK, EndTravels, [Next]_vars PROVE EndTravels'
  OBVIOUS
<1>1. CASE Cycle
  BY <1>1, StageTypes, CycleRunsStages, CycleEnd
<1>2. CASE UNCHANGED vars
  BY <1>2 DEF vars, pipelineVars, EndTravels, HaltedWhenDrained, Ended
<1> QED
  BY <1>1, <1>2 DEF Next, Terminated

(* The loop of process() is left with nothing behind in the latches, even  *)
(* under the units that buffer targets.                                    *)
THEOREM DrainedAtTheEnd == Spec => []HaltedWhenDrained
<1>1. EndTravels => HaltedWhenDrained
  BY DEF EndTravels
<1> QED
  BY <1>1, InitialEnd, StepEnd, TypeCorrect, PTL DEF Spec
-----------------------------------------------------------------------------
(* Every cycle keeps the shadow of a branch empty.                         *)
LEMMA StepShadow == TypeOK /\ NothingShadowed /\ [Next]_vars => NothingShadowed'
<1> SUFFICES ASSUME TypeOK, NothingShadowed, [Next]_vars PROVE NothingShadowed'
  OBVIOUS
<1>1. CASE Cycle
  <2>1. nextPc \in Int
    BY DEF TypeOK
  <2> QED
    BY <1>1, <2>1, StageTypes, CycleRunsStages, CycleShadow
<1>2. CASE UNCHANGED vars
  BY <1>2 DEF vars, pipelineVars, NothingShadowed, CleanRun, SquashedIsInert
<1> QED
  BY <1>1, <1>2 DEF Next, Terminated

(* With a unit that does not buffer targets, and a no-op behind every      *)
(* branch, an instruction squashed in any latch can no longer write: the   *)
(* only signals still up when findNext squashes are those of a no-op.      *)
THEOREM SquashesLeaveNoTrace ==
  ASSUME \A unit \in Units : unit.kind # "History",
         \A text \in Programs : DelaySlotsAreNops(text)
  PROVE  Spec => []SquashedIsInert
<1>1. Init => CleanRun
  BY DEF Init, CleanRun
<1>2. NothingShadowed => SquashedIsInert
  BY DEF NothingShadowed
<1> QED
  BY <1>1, <1>2, InitialShadow, StepShadow, TypeCorrect, PTL DEF Spec
-----------------------------------------------------------------------------
(***************************************************************************)
(* From here on: compiled programs; under the units that buffer targets,   *)
(* with room between their branches.                                       *)
(***************************************************************************)
CompiledRun ==
  Compiled(program) /\ (pcUnit.kind = "History" => Spaced(program))

(* What the conventions say of an instruction that is not a no-op.         *)
LEMMA ConventionsKept ==
  ASSUME NEW text, IsProgram(text), Compiled(text),
         NEW a \in Nat, InstructionAt(text, a) # Nop
  PROVE  LET i == InstructionAt(text, a)
             next == InstructionAt(text, a + 4)
         IN  /\ RegWrite(i.op) => WriteRegister(i.op, i) # 0
             /\ i.op = "LW" => WriteRegister(i.op, i) \notin {next.rs, next.rt}
             /\ IsBranch(i.op) => Immediate(a, i) # End /\ next = Nop
             /\ i.op = "JR" =>
                  /\ \A d \in {4, 8} :
                       LET j == InstructionAt(text, a - d)
                       IN  j # Nop /\ RegWrite(j.op) => WriteRegister(j.op, j) # i.rs
                  /\ \A b : InstructionAt(text, b).op = "JAL"
                              => InstructionAt(text, b).imm # a
<1> DEFINE i == InstructionAt(text, a)
<1>1. a \in DOMAIN text /\ i = text[a]
  BY DEF InstructionAt
<1>2. RegWrite(i.op) => WriteRegister(i.op, i) # 0
  BY <1>1 DEF Compiled, Conventional, Writes
<1>3. i.op = "LW" => WriteRegister(i.op, i) = i.rt
  BY DEF WriteRegister, RegDest, RType
<1>4. i.op = "LW" => i.rt \notin {InstructionAt(text, a + 4).rs, InstructionAt(text, a + 4).rt}
  BY <1>1 DEF Compiled, LoadDelayKept, Reads
<1>5. IsBranch(i.op) => Immediate(a, i) # End /\ InstructionAt(text, a + 4) = Nop
  BY <1>1 DEF Compiled, Conventional, InstructionAt, End, IsProgram
<1>6. ASSUME i.op = "JR", NEW d \in {4, 8}, InstructionAt(text, a - d) # Nop,
             RegWrite(InstructionAt(text, a - d).op)
      PROVE  WriteRegister(InstructionAt(text, a - d).op, InstructionAt(text, a - d)) # i.rs
  BY <1>1, <1>6 DEF Compiled, JumpOperandSettled, Writes
<1>7. ASSUME i.op = "JR", NEW b, InstructionAt(text, b).op = "JAL"
      PROVE  InstructionAt(text, b).imm # a
  <2>1. b \in DOMAIN text /\ InstructionAt(text, b) = text[b]
    BY <1>7 DEF InstructionAt, Nop
  <2> QED
    BY <1>1, <1>7, <2>1 DEF Compiled, JumpOperandSettled
<1> QED
  BY <1>2, <1>3, <1>4, <1>5, <1>6, <1>7

(* Fetch: nothing once the end is reached, and no no-op.                    *)
LEMMA FetchedFields ==
  /\ Fetched.valid <=> ~Ended /\ InstructionAt(program, nextPc) # Nop
  /\ ~Ended => Fetched.pc = nextPc
  /\ Fetched.valid => Fetched.instruction = InstructionAt(program, nextPc)
BY FetchFields DEF Fetched

(* Decode: the operands come from the file after this cycle's write back.   *)
LEMMA DecodedFields ==
  LET i == ifid.instruction
      file == WriteBack(mawb, registers)
  IN  /\ Decoded.valid = ifid.valid
      /\ Decoded.pc = ifid.pc
      /\ Decoded.readReg1 = i.rs /\ Decoded.readReg2 = i.rt
      /\ Decoded.readData1 = file[i.rs] /\ Decoded.readData2 = file[i.rt]
      /\ Decoded.imm = Immediate(ifid.pc, i)
      /\ ifid.valid =>
           /\ Decoded.op = i.op
           /\ Decoded.writeReg = WriteRegister(i.op, i)
           /\ i.op = "JR" => Decoded.nextPc = file[i.rs]
           /\ i.op \in {"J", "JAL"} => Decoded.nextPc = i.imm
BY DecodeFields DEF Decoded

(* Execute: the ALU gets the forwarded operands.                            *)
LEMMA ExecutedFields ==
  ASSUME TypeOK
  PROVE  LET s == ForwardedOperand(idex.readReg1, idex.readData1)
             t == ForwardedOperand(idex.readReg2, idex.readData2)
             v == AluValue(idex.op, idex.pc, idex.imm, s, t)
         IN  /\ Executed.valid = idex.valid /\ Executed.pc = idex.pc
             /\ Executed.op = idex.op /\ Executed.writeReg = idex.writeReg
             /\ Executed.nextPc = idex.imm
             /\ Executed.aluValue = v /\ Executed.readData2 = t
             /\ Executed.branch <=> IsBranch(idex.op) /\ v = 1
<1> DEFINE s == ForwardedOperand(idex.readReg1, idex.readData1)
           t == ForwardedOperand(idex.readReg2, idex.readData2)
           v == AluValue(idex.op, idex.pc, idex.imm, s, t)
<1>1. /\ ForwardedIdEx.valid = idex.valid /\ ForwardedIdEx.pc = idex.pc
      /\ ForwardedIdEx.op = idex.op /\ ForwardedIdEx.writeReg = idex.writeReg
      /\ ForwardedIdEx.imm = idex.imm
      /\ ForwardedIdEx.readData1 = s /\ ForwardedIdEx.readData2 = t
  BY DEF ForwardedIdEx, TypeOK, DecodeResult
<1> HIDE DEF s, t
<1>2. /\ Executed.valid = idex.valid /\ Executed.pc = idex.pc
      /\ Executed.op = idex.op /\ Executed.writeReg = idex.writeReg
      /\ Executed.nextPc = idex.imm
      /\ Executed.aluValue = v /\ Executed.readData2 = t
      /\ Executed.branch <=> IsBranch(idex.op) /\ v = 1
  BY <1>1, ExecuteFields DEF Executed
<1> QED
  BY <1>2 DEF s, t

(* What the latches hold after the cycle: a squash takes the validity of a  *)
(* result, nothing else that later stages use.                              *)
LEMMA FlushedFields ==
  ASSUME TypeOK, Cycle
  PROVE  /\ ifid'.pc = Fetched.pc /\ ifid'.instruction = Fetched.instruction
         /\ ifid'.valid => Fetched.valid
         /\ idex'.pc = Decoded.pc /\ idex'.op = Decoded.op /\ idex'.imm = Decoded.imm
         /\ idex'.readReg1 = Decoded.readReg1 /\ idex'.readReg2 = Decoded.readReg2
         /\ idex'.readData1 = Decoded.readData1 /\ idex'.readData2 = Decoded.readData2
         /\ idex'.writeReg = Decoded.writeReg /\ idex'.nextPc = Decoded.nextPc
         /\ idex'.valid => ifid.valid
         /\ exma'.valid = idex.valid /\ exma'.pc = Executed.pc /\ exma'.op = Executed.op
         /\ exma'.aluValue = Executed.aluValue /\ exma'.readData2 = Executed.readData2
         /\ exma'.writeReg = Executed.writeReg /\ exma'.nextPc = Executed.nextPc
         /\ exma'.branch = Executed.branch
<1>1. FinishCycle(nextPc, Fetched, Decoded, Executed)
  BY DEF Cycle, Fetched, Decoded, Executed
<1>2. Decoded.valid = ifid.valid /\ Executed.valid = idex.valid
  BY DecodedFields, ExecutedFields
<1> QED
  BY <1>1, <1>2, StageTypes, CycleFlushed DEF Flushed

(* What a cycle leaves alone, and what it writes.                          *)
LEMMA CycleFacts ==
  ASSUME TypeOK, Cycle
  PROVE  /\ program' = program /\ pcUnit'.kind = pcUnit.kind
         /\ nextPc \in Int /\ (~Ended => nextPc >= 0)
         /\ isEnd' = Ended /\ halted' = mawb.isEnd
         /\ Ended' <=> Ended \/ nextPc' = End
         /\ mawb' = MemoryAccess(exma, memory)
         /\ memory' = Stored(exma, memory)
         /\ registers' = WriteBack(mawb, registers)
<1>1. /\ FinishCycle(nextPc, Fetched, Decoded, Executed)
      /\ MemoryAccessAndWriteBack
      /\ nextPc \in Int /\ (~Ended => nextPc >= 0)
  BY DEF Cycle, Fetched, Decoded, Executed, MayCycle, TypeOK
<1> QED
  BY <1>1, StageTypes, CycleWrites
-----------------------------------------------------------------------------
(* How far apart the instructions in flight are: neighbours, unless a      *)
(* no-op was between them or one of them turned the fetch; it is turned by *)
(* an instruction in decode or, when its target was buffered, in fetch.    *)
FetchFollows ==
  /\ idex.valid /\ ifid.valid => ifid.pc = idex.pc + 4 /\ ~IsJump(idex.op)
  /\ exma.valid /\ idex.valid => idex.pc = exma.pc + 4
  /\ idex.valid /\ ~IsJump(idex.op) => ~Ended
  /\ idex.valid /\ ~ifid.valid =>
       \/ /\ ~IsJump(idex.op) /\ nextPc = idex.pc + 8
          /\ InstructionAt(program, idex.pc + 4) = Nop
          /\ pcUnit.kind = "History" => ifid.pc = idex.pc + 4
       \/ IsJump(idex.op) /\ nextPc = idex.nextPc
       \/ /\ IsBranch(idex.op) /\ nextPc = idex.imm
          /\ pcUnit.kind \notin {"None", "History"}
       \/ /\ IsBranch(idex.op) /\ nextPc = idex.imm + 4
          /\ pcUnit.kind = "History" /\ ifid.pc = idex.imm
  /\ exma.valid /\ ifid.valid /\ ~idex.valid =>
       \/ ifid.pc = exma.pc + 8
       \/ ~RegWrite(exma.op)
       \/ exma.op = "JAL" /\ ifid.pc = InstructionAt(program, exma.pc).imm

(* The buffer holds targets of the program's own branches, and is looked   *)
(* up with addresses of words.                                             *)
BufferTrue ==
  pcUnit.kind = "History" =>
    /\ BufferHolds(pcUnit.buffer, program)
    /\ ~Ended => nextPc % 4 = 0

(* The instruction in a latch keeps the conventions.                       *)
LEMMA InFlightConventional ==
  ASSUME TypeOK, CompiledRun, LatchesCarry, NEW latch \in {idex, exma, mawb},
         latch.valid
  PROVE  LET i == InstructionAt(program, latch.pc)
             next == InstructionAt(program, latch.pc + 4)
         IN  /\ latch.pc \in Nat /\ i \in Instruction /\ latch.op = i.op
             /\ latch.writeReg = WriteRegister(i.op, i)
             /\ RegWrite(i.op) => latch.writeReg # 0
             /\ i.op = "LW" => latch.writeReg \notin {next.rs, next.rt}
             /\ IsBranch(i.op) => Immediate(latch.pc, i) # End /\ next = Nop
<1>1. latch.pc \in Nat
  BY DEF TypeOK, DecodeResult, ExecutionResult, MemoryAccessResult
<1>2. InstructionAt(program, latch.pc) # Nop
  BY DEF LatchesCarry
<1>3. latch.op = InstructionAt(program, latch.pc).op
  BY DEF LatchesCarry
<1>4. latch.writeReg = WriteRegister(latch.op, InstructionAt(program, latch.pc))
  BY DEF LatchesCarry
<1>5. IsProgram(program) /\ Compiled(program)
  BY DEF TypeOK, CompiledRun
<1>6. InstructionAt(program, latch.pc) \in Instruction
  BY <1>1, <1>5, InstructionType
<1> QED
  BY <1>1, <1>2, <1>3, <1>4, <1>5, <1>6, ConventionsKept

(* What room between branches means for one of them.                       *)
LEMMA RoomKept ==
  ASSUME TypeOK, CompiledRun, pcUnit.kind = "History",
         NEW a \in Nat, IsBranch(InstructionAt(program, a).op)
  PROVE  LET target == Immediate(a, InstructionAt(program, a))
         IN  /\ a % 4 = 0 /\ target % 4 = 0 /\ target \in Nat /\ target # End
             /\ InstructionAt(program, target) = Nop
             /\ InstructionAt(program, a + 4) = Nop
             /\ \A b \in {a + 8, target + 4} :
                  ~IsBranch(InstructionAt(program, b).op)
BY RoomBetween DEF TypeOK, CompiledRun, Compiled

(* A buffered target leads the fetch away only from a branch, with nothing *)
(* in decode that would turn it and nothing in execute that could.         *)
LEMMA HitIsPredicted ==
  ASSUME TypeOK, CompiledRun, LatchesCarry, FetchFollows, FetchLeads, BufferTrue,
         Cycle, pcUnit.kind = "History", ~Ended, IsHit(pcUnit.buffer, Fetched.pc)
  PROVE  /\ Fetched.valid /\ IsBranch(Fetched.instruction.op)
         /\ TargetAddress(pcUnit.buffer, Fetched.pc)
              = Immediate(nextPc, Fetched.instruction)
         /\ ifid.valid => ~IsJump(ifid.instruction.op)
         /\ ~(idex.valid /\ IsBranch(idex.op))
<1>1. nextPc \in Nat /\ Fetched.pc = nextPc
  BY FetchedFields DEF Cycle, MayCycle, TypeOK
<1>2. /\ nextPc \in DOMAIN program /\ IsBranch(program[nextPc].op)
      /\ TargetAddress(pcUnit.buffer, nextPc) = Immediate(nextPc, program[nextPc])
  <2>1. /\ BufferHolds(pcUnit.buffer, program) /\ IsProgram(program)
        /\ \A a \in DOMAIN program : a % 4 = 0
        /\ nextPc % 4 = 0 /\ IsHit(pcUnit.buffer, nextPc)
    BY <1>1 DEF BufferTrue, TypeOK, CompiledRun, Spaced
  <2> QED
    BY <1>1, <2>1, HitIsBranch
<1>3. IsBranch(InstructionAt(program, nextPc).op) /\ InstructionAt(program, nextPc) # Nop
  BY <1>2 DEF InstructionAt, Nop, IsBranch
<1>4. Fetched.valid /\ Fetched.instruction = program[nextPc]
  BY <1>2, <1>3, FetchedFields DEF InstructionAt
<1>5. ASSUME ifid.valid
      PROVE  ~IsJump(ifid.instruction.op)
  <2> SUFFICES ASSUME IsJump(ifid.instruction.op) PROVE FALSE
    OBVIOUS
  <2>1. nextPc = ifid.pc + 4 /\ ifid.instruction = InstructionAt(program, ifid.pc)
    BY <1>5 DEF FetchLeads, LatchesCarry, IsJump, IsBranch
  <2>2. ifid.pc \in DOMAIN program
    BY <2>1 DEF InstructionAt, Nop, IsJump
  <2>3. InstructionAt(program, ifid.pc + 4) = Nop
    BY <2>1, <2>2 DEF CompiledRun, Compiled, Conventional, InstructionAt
  <2> QED
    BY <1>3, <2>1, <2>3
<1>6. ASSUME idex.valid, IsBranch(idex.op)
      PROVE  FALSE
  <2>1. /\ idex.pc \in Nat /\ ~ifid.valid /\ ~IsJump(idex.op)
        /\ IsBranch(InstructionAt(program, idex.pc).op)
        /\ idex.imm = Immediate(idex.pc, InstructionAt(program, idex.pc))
    BY <1>6 DEF FetchLeads, LatchesCarry, TypeOK, DecodeResult, IsBranch, IsJump
  <2>2. nextPc = idex.pc + 8 \/ nextPc = idex.imm + 4
    BY <1>6, <2>1 DEF FetchFollows
  <2> QED
    BY <1>3, <2>1, <2>2, RoomKept
<1> QED
  BY <1>1, <1>2, <1>4, <1>5, <1>6

(* The three ways a cycle ends, in terms of what the latches hold then:    *)
(* the fetch runs on, a jump or a prediction in decode turns it, or a      *)
(* branch in execute does.                                                 *)
SettledThere ==
  IsBranch(idex.op) /\ idex.valid =>
    CASE pcUnit.kind = "None"    -> ~exma'.branch
      [] pcUnit.kind = "History" -> exma'.branch <=> ifid.pc = idex.imm
      [] OTHER                   -> exma'.branch <=> Fetched.pc = idex.imm

GoesOn ==
  /\ SettledThere
  /\ ~Ended => \/ nextPc' = nextPc + 4
               \/ /\ pcUnit.kind = "History"
                  /\ Fetched.valid /\ IsBranch(Fetched.instruction.op)
                  /\ nextPc' = Immediate(nextPc, Fetched.instruction)
  /\ ifid'.valid = Fetched.valid /\ idex'.valid = ifid.valid
  /\ idex'.valid => ~IsJump(idex'.op)

TurnsInDecode ==
  /\ SettledThere
  /\ ~ifid'.valid /\ idex'.valid /\ ifid.valid
  /\ \/ IsJump(idex'.op) /\ nextPc' = idex'.nextPc
     \/ /\ IsBranch(idex'.op) /\ nextPc' = idex'.imm
        /\ pcUnit.kind \notin {"None", "History"}

TurnsInExecute ==
  /\ ~ifid'.valid /\ ~idex'.valid
  /\ idex.valid /\ IsBranch(idex.op)
  /\ nextPc' = IF exma'.branch THEN idex.imm ELSE idex.pc + 8

(* What a unit that buffers targets has learnt after a cycle.              *)
Learns ==
  \/ pcUnit' = pcUnit
  \/ idex.valid /\ IsBranch(idex.op) /\ pcUnit' = Learnt(pcUnit, Executed)

(* What the stages hand to the program counter unit.                       *)
LEMMA StagesHand ==
  ASSUME TypeOK, Cycle
  PROVE  /\ Fetched \in FetchResult /\ Decoded \in DecodeResult
         /\ Executed \in ExecutionResult
         /\ FinishCycle(nextPc, Fetched, Decoded, Executed)
         /\ Decoded.valid = ifid.valid /\ Decoded.pc = ifid.pc
         /\ ifid.valid => Decoded.op = ifid.instruction.op
         /\ Executed.valid = idex.valid /\ Executed.op = idex.op
         /\ Executed.pc = idex.pc /\ Executed.nextPc = idex.imm
         /\ Executed.branch \in BOOLEAN
         /\ Executed.branch => IsBranch(Executed.op)
<1>1. /\ Fetched \in FetchResult /\ Decoded \in DecodeResult
      /\ Executed \in ExecutionResult
      /\ FinishCycle(nextPc, Fetched, Decoded, Executed)
  BY StageTypes DEF Cycle, Fetched, Decoded, Executed
<1>2. Executed.branch \in BOOLEAN
  BY <1>1 DEF ExecutionResult
<1>3. Executed.branch => IsBranch(Executed.op)
  BY ExecutedFields
<1> QED
  BY <1>1, <1>2, <1>3, DecodedFields, ExecutedFields

(* Which of the three a cycle is: first under the units that do not buffer *)
(* targets ...                                                             *)
LEMMA UnbufferedCycle ==
  ASSUME TypeOK, Cycle, pcUnit.kind # "History"
  PROVE  GoesOn \/ TurnsInDecode \/ TurnsInExecute
<1>1. \/ FetchRunsOn(nextPc, Fetched, Decoded, Executed)
      \/ DecodeTurns(nextPc, Fetched, Decoded, Executed)
      \/ ExecuteTurns(Executed)
  BY StagesHand, CycleFlushes
<1>2. Settled(pcUnit.kind, Fetched, Executed) => SettledThere
  BY StagesHand, FlushedFields
     DEF Settled, SettledThere, Resolving, TakenCorrect
<1>3. FetchRunsOn(nextPc, Fetched, Decoded, Executed) => GoesOn
  BY <1>2, StagesHand, FlushedFields DEF FetchRunsOn, GoesOn
<1>4. DecodeTurns(nextPc, Fetched, Decoded, Executed) => TurnsInDecode
  BY <1>2, StagesHand, FlushedFields DEF DecodeTurns, TurnsInDecode
<1>5. ExecuteTurns(Executed) => TurnsInExecute
  BY StagesHand, FlushedFields DEF ExecuteTurns, TurnsInExecute, Resolving, Corrected
<1> QED
  BY <1>1, <1>3, <1>4, <1>5

(* ... then under those that do: a hit leads the fetch on, and is never in *)
(* the way of a jump in decode or of a branch in execute.                  *)
LEMMA BufferedCycle ==
  ASSUME TypeOK, CompiledRun, LatchesCarry, FetchFollows, FetchLeads, BufferTrue,
         Cycle, pcUnit.kind = "History"
  PROVE  /\ GoesOn \/ TurnsInDecode \/ TurnsInExecute
         /\ Learns
         /\ ~Ended /\ ifid' = Fetched /\ idex' = Decoded /\ exma' = Executed
              => nextPc' # End
<1> DEFINE f == Fetched
           d == Decoded
           e == Executed
           next == FindNext(pcUnit, nextPc, f, d, e)
           awaits == ~(idex.valid /\ IsBranch(idex.op))
<1>1. /\ ifid' = next.ifid /\ idex' = next.idex /\ exma' = next.exma
      /\ nextPc' = next.pc /\ pcUnit' = next.unit
  BY StagesHand DEF FinishCycle
<1>2. /\ d.valid = ifid.valid /\ (ifid.valid => d.op = ifid.instruction.op)
      /\ e.valid = idex.valid /\ e.op = idex.op /\ ~d.isEnd
      /\ f \in FetchResult /\ d \in DecodeResult
  BY StagesHand, CycleRunsStages DEF StagesRan
<1>3. Resolving(e) <=> idex.valid /\ IsBranch(idex.op)
  BY <1>2 DEF Resolving
<1>4. Resolving(e) => ~ifid.valid /\ ~Ended
  BY <1>3 DEF FetchLeads, FetchFollows, IsBranch, IsJump
<1>5. \/ /\ RunsOn(next, f, d, e) /\ next.unit = pcUnit
         /\ IsHit(pcUnit.buffer, f.pc)
         /\ next.pc = TargetAddress(pcUnit.buffer, f.pc)
      \/ /\ RunsOn(next, f, d, e) /\ next.unit = pcUnit /\ next.pc = nextPc + 4
         /\ ~Resolving(e) /\ ~(d.valid /\ IsJump(d.op))
      \/ /\ TurnedInDecode(next, f, d, e) /\ next.unit = pcUnit
         /\ ~Resolving(e) /\ IsJump(d.op) /\ next.pc = d.nextPc
      \/ /\ RunsOn(next, f, d, e) /\ next.unit = Learnt(pcUnit, e)
         /\ Resolving(e) /\ TakenCorrect(e, d) /\ next.pc = nextPc + 4
      \/ /\ TurnedInExecute(next, f, d, e) /\ next.unit = Learnt(pcUnit, e)
         /\ Resolving(e) /\ next.pc = Corrected(e)
  BY BufferedTurns
<1>6. nextPc \in Int /\ (~Ended => nextPc \in Nat)
  BY DEF Cycle, MayCycle, TypeOK
<1>7. awaits => SettledThere
  BY DEF SettledThere
<1> HIDE DEF next, f, d, e
<1>8. CASE /\ RunsOn(next, f, d, e) /\ next.unit = pcUnit
           /\ IsHit(pcUnit.buffer, f.pc)
           /\ next.pc = TargetAddress(pcUnit.buffer, f.pc)
  <2>1. ifid' = f /\ idex' = d /\ exma' = e /\ Learns
    BY <1>1, <1>8 DEF RunsOn, Learns
  <2>2. CASE Ended
    <3>1. ~ifid.valid /\ awaits
      BY <1>3, <1>4, <2>2 DEF LatchesCarry
    <3> QED
      BY <1>2, <1>7, <2>1, <2>2, <3>1 DEF GoesOn, f
  <2>3. CASE ~Ended
    <3>1. /\ f.valid /\ IsBranch(f.instruction.op)
          /\ nextPc' = Immediate(nextPc, f.instruction)
          /\ ifid.valid => ~IsJump(ifid.instruction.op)
          /\ awaits
      BY <1>1, <1>8, <2>3, HitIsPredicted DEF f
    <3>2. nextPc' # End
      BY <1>6, <2>3, <3>1, FetchedFields, RoomKept DEF f
    <3> QED
      BY <1>2, <1>7, <2>1, <3>1, <3>2 DEF GoesOn, f
  <2> QED
    BY <2>2, <2>3
<1>9. CASE /\ RunsOn(next, f, d, e) /\ next.unit = pcUnit /\ next.pc = nextPc + 4
           /\ ~Resolving(e) /\ ~(d.valid /\ IsJump(d.op))
  <2>1. ifid' = f /\ idex' = d /\ exma' = e /\ Learns /\ nextPc' = nextPc + 4
    BY <1>1, <1>9 DEF RunsOn, Learns
  <2> QED
    BY <1>2, <1>3, <1>6, <1>7, <1>9, <2>1 DEF GoesOn, f, End
<1>10. CASE /\ TurnedInDecode(next, f, d, e) /\ next.unit = pcUnit
            /\ ~Resolving(e) /\ IsJump(d.op) /\ next.pc = d.nextPc
  <2>1. /\ d.valid /\ ifid' = Squashed(f) /\ idex' = MarkedEnd(d, nextPc') /\ Learns
        /\ nextPc' = d.nextPc
    BY <1>1, <1>10 DEF TurnedInDecode, Learns
  <2>2. /\ ~ifid'.valid /\ idex'.valid /\ idex'.op = d.op
        /\ idex'.nextPc = d.nextPc
        /\ idex'.isEnd <=> nextPc' = End
    BY <1>2, <2>1 DEF Squashed, MarkedEnd, FetchResult, DecodeResult
  <2> QED
    BY <1>2, <1>3, <1>7, <1>10, <2>1, <2>2 DEF TurnsInDecode, d
<1>11. CASE /\ RunsOn(next, f, d, e) /\ next.unit = Learnt(pcUnit, e)
            /\ Resolving(e) /\ TakenCorrect(e, d) /\ next.pc = nextPc + 4
  <2>1. ifid' = f /\ idex' = d /\ exma' = e /\ Learns /\ nextPc' = nextPc + 4
    BY <1>1, <1>3, <1>11 DEF RunsOn, Learns, e
  <2>2. SettledThere
    BY <1>11, <2>1, StagesHand DEF SettledThere, TakenCorrect, d, e
  <2> QED
    BY <1>2, <1>4, <1>6, <1>11, <2>1, <2>2 DEF GoesOn, f, End
<1>12. CASE /\ TurnedInExecute(next, f, d, e) /\ next.unit = Learnt(pcUnit, e)
            /\ Resolving(e) /\ next.pc = Corrected(e)
  <2>1. /\ ifid' = Squashed(f) /\ idex' = Squashed(d) /\ Learns
        /\ nextPc' = Corrected(e)
    BY <1>1, <1>3, <1>12 DEF TurnedInExecute, Learns, e
  <2>2. ~ifid'.valid /\ ~idex'.valid
    BY <1>2, <2>1 DEF Squashed, FetchResult, DecodeResult
  <2>3. nextPc' = IF exma'.branch THEN idex.imm ELSE idex.pc + 8
    BY <2>1, StagesHand, FlushedFields DEF Corrected, e
  <2>4. nextPc' # End
    <3>1. idex.pc \in Nat /\ idex.imm # End
      BY <1>3, <1>12, InFlightConventional DEF LatchesCarry
    <3> QED
      BY <2>3, <3>1 DEF End
  <2> QED
    BY <1>3, <1>12, <2>1, <2>2, <2>3, <2>4 DEF TurnsInExecute
<1> QED
  BY <1>5, <1>8, <1>9, <1>10, <1>11, <1>12

(* Together.                                                               *)
LEMMA CycleTurns ==
  ASSUME TypeOK, CompiledRun, LatchesCarry, FetchFollows, FetchLeads, BufferTrue,
         Cycle
  PROVE  GoesOn \/ TurnsInDecode \/ TurnsInExecute
BY UnbufferedCycle, BufferedCycle

(* What decode reads: the register file after the cycle's write back.  The *)
(* address a jump register leads to is settled by then.                    *)
OperandsRead ==
  idex.valid =>
    /\ idex.readData1 = registers[idex.readReg1]
    /\ idex.readData2 = registers[idex.readReg2]
    /\ idex.op = "JR" => idex.nextPc = SettledRegisters[idex.readReg1]

(* The next instruction to come out of fetch, and out of decode.           *)
OnwardFromFetch ==
  IF ifid.valid THEN ifid.pc
  ELSE IF Ended THEN End ELSE NextInstruction(program, nextPc)

OnwardFromDecode == IF idex.valid THEN idex.pc ELSE OnwardFromFetch

(* What comes behind the instruction that happens next is its successor.   *)
PathAhead ==
  exma.valid =>
    LET i == InstructionAt(program, exma.pc)
    IN  OnwardFromDecode =
          NextInstruction(program, Arch!Successor(i, exma.pc,
                              RetiredRegisters[i.rs], RetiredRegisters[i.rt]))

(* Each latch hands on what its instruction says.                          *)
LEMMA StepCarries ==
  ASSUME TypeOK, CompiledRun, LatchesCarry, FetchFollows, FetchLeads, BufferTrue,
         Cycle
  PROVE  LatchesCarry'
<1> DEFINE file == WriteBack(mawb, registers)
<1>1. Decoded = Decode(ifid, file)
  BY DEF Decoded
<1>2. /\ Executed.valid = idex.valid /\ Executed.pc = idex.pc
      /\ Executed.op = idex.op /\ Executed.writeReg = idex.writeReg
      /\ Executed.nextPc = idex.imm
  BY ExecutedFields
<1>3. StagesRan(nextPc, Fetched, Decoded, Executed)
  BY CycleRunsStages
<1>4. ifid'.valid => nextPc' # End
  <2> SUFFICES ASSUME ifid'.valid PROVE nextPc' # End
    OBVIOUS
  <2>1. GoesOn /\ Fetched.valid /\ ~Ended
    BY CycleTurns, FetchedFields DEF GoesOn, TurnsInDecode, TurnsInExecute
  <2>2. nextPc \in Nat
    BY <2>1 DEF Cycle, MayCycle, TypeOK
  <2>3. CASE nextPc' = nextPc + 4
    BY <2>2, <2>3 DEF End
  <2>4. CASE /\ IsBranch(Fetched.instruction.op)
             /\ nextPc' = Immediate(nextPc, Fetched.instruction)
    BY <2>1, <2>2, <2>4, FetchedFields, ConventionsKept DEF TypeOK, CompiledRun
  <2> QED
    BY <2>1, <2>3, <2>4 DEF GoesOn
<1> HIDE DEF file
<1> QED
  BY <1>1, <1>2, <1>3, <1>4, StageTypes, CycleCarries

(* What the next two lemmas say of a cycle.                                *)
LEMMA CycleLatches ==
  ASSUME TypeOK, CompiledRun, LatchesCarry, FetchFollows, FetchLeads, BufferTrue,
         Cycle
  PROVE  /\ GoesOn \/ TurnsInDecode \/ TurnsInExecute
         /\ ifid'.pc = Fetched.pc /\ idex'.pc = ifid.pc
         /\ ifid'.instruction = Fetched.instruction
         /\ idex'.imm = Immediate(ifid.pc, ifid.instruction)
         /\ ifid.valid => idex'.op = ifid.instruction.op
         /\ exma'.valid = idex.valid /\ exma'.pc = idex.pc /\ exma'.op = idex.op
         /\ idex.pc \in Nat /\ ifid.pc \in Nat
         /\ ifid.valid => /\ ~Ended /\ nextPc \in Nat
                          /\ ifid.instruction = InstructionAt(program, ifid.pc)
                          /\ ifid.instruction # Nop
         /\ Fetched.valid <=> ~Ended /\ InstructionAt(program, nextPc) # Nop
         /\ ~Ended => Fetched.pc = nextPc
BY CycleTurns, FlushedFields, DecodedFields, ExecutedFields, FetchedFields
   DEF TypeOK, FetchResult, DecodeResult, LatchesCarry, Cycle, MayCycle

(* A target that was buffered is a no-op, and so is the word behind any    *)
(* branch: the word fetched behind a branch is never valid.                *)
LEMMA BehindBranch ==
  ASSUME TypeOK, CompiledRun, LatchesCarry, FetchLeads,
         ifid.valid, IsBranch(ifid.instruction.op)
  PROVE  /\ InstructionAt(program, ifid.pc + 4) = Nop
         /\ InstructionAt(program, nextPc) = Nop
         /\ Immediate(ifid.pc, ifid.instruction) # End
<1>1. /\ ifid.pc \in Nat /\ ifid.instruction = InstructionAt(program, ifid.pc)
      /\ ifid.instruction # Nop
  BY DEF TypeOK, FetchResult, LatchesCarry
<1>2. /\ InstructionAt(program, ifid.pc + 4) = Nop
      /\ Immediate(ifid.pc, ifid.instruction) # End
  BY <1>1, ConventionsKept DEF TypeOK, CompiledRun
<1>3. CASE nextPc = ifid.pc + 4
  BY <1>2, <1>3
<1>4. CASE /\ pcUnit.kind = "History"
           /\ nextPc = Immediate(ifid.pc, ifid.instruction)
  BY <1>1, <1>2, <1>4, RoomKept
<1> QED
  BY <1>3, <1>4 DEF FetchLeads

(* The distances in the pipeline are kept.                                 *)
LEMMA CycleFollows ==
  ASSUME TypeOK, CompiledRun, LatchesCarry, FetchFollows, FetchLeads, BufferTrue,
         Cycle
  PROVE  FetchFollows'
<1> USE CycleFacts
<1>1. GoesOn \/ TurnsInDecode \/ TurnsInExecute
  BY CycleLatches
<1>2. /\ ifid'.pc = Fetched.pc /\ idex'.pc = ifid.pc
      /\ idex'.imm = Immediate(ifid.pc, ifid.instruction)
      /\ ifid.valid => idex'.op = ifid.instruction.op
      /\ exma'.valid = idex.valid /\ exma'.pc = idex.pc /\ exma'.op = idex.op
      /\ idex.pc \in Nat /\ ifid.pc \in Nat
      /\ ifid.valid => ~Ended /\ nextPc \in Nat
      /\ Fetched.valid <=> ~Ended /\ InstructionAt(program, nextPc) # Nop
      /\ ~Ended => Fetched.pc = nextPc
  BY CycleLatches
<1>3. ifid.valid =>
        \/ nextPc = ifid.pc + 4
        \/ pcUnit.kind = "History" /\ IsBranch(idex'.op) /\ nextPc = idex'.imm
  BY <1>2 DEF FetchLeads
<1>4. ifid.valid /\ IsBranch(idex'.op) =>
        /\ InstructionAt(program, ifid.pc + 4) = Nop
        /\ InstructionAt(program, nextPc) = Nop
        /\ idex'.imm # End
  BY <1>2, BehindBranch
<1>5. CASE GoesOn
  <2>1. /\ ifid'.valid = Fetched.valid /\ idex'.valid = ifid.valid
        /\ idex'.valid => ~IsJump(idex'.op)
    BY <1>5 DEF GoesOn
  <2>2. ~Ended /\ ~ifid'.valid => nextPc' = nextPc + 4
    BY <1>5, <2>1 DEF GoesOn
  <2>3. idex'.valid /\ ifid'.valid => ifid'.pc = idex'.pc + 4 /\ ~IsJump(idex'.op)
    BY <1>2, <1>3, <1>4, <2>1
  <2>4. exma'.valid /\ idex'.valid => idex'.pc = exma'.pc + 4
    BY <1>2, <2>1 DEF FetchFollows
  <2>5. idex'.valid => ~Ended'
    <3>1. ifid'.valid => ~Ended'
      BY StepCarries DEF LatchesCarry
    <3> QED
      BY <1>2, <2>1, <2>2, <3>1 DEF End
  <2>6. ASSUME idex'.valid, ~ifid'.valid
        PROVE  \/ /\ ~IsJump(idex'.op) /\ nextPc' = idex'.pc + 8
                  /\ InstructionAt(program', idex'.pc + 4) = Nop
                  /\ pcUnit'.kind = "History" => ifid'.pc = idex'.pc + 4
               \/ /\ IsBranch(idex'.op) /\ nextPc' = idex'.imm + 4
                  /\ pcUnit'.kind = "History" /\ ifid'.pc = idex'.imm
    <3>1. nextPc' = nextPc + 4 /\ ifid'.pc = nextPc /\ InstructionAt(program, nextPc) = Nop
      BY <1>2, <2>1, <2>2, <2>6
    <3>2. CASE nextPc = ifid.pc + 4
      BY <1>2, <2>1, <2>6, <3>1, <3>2
    <3>3. CASE pcUnit.kind = "History" /\ IsBranch(idex'.op) /\ nextPc = idex'.imm
      BY <3>1, <3>3
    <3> QED
      BY <1>3, <2>1, <2>6, <3>2, <3>3
  <2>7. ASSUME exma'.valid, ifid'.valid, ~idex'.valid
        PROVE  \/ ifid'.pc = exma'.pc + 8
               \/ ~RegWrite(exma'.op)
               \/ /\ exma'.op = "JAL"
                  /\ ifid'.pc = InstructionAt(program', exma'.pc).imm
    <3>1. /\ idex.valid /\ ~ifid.valid /\ ifid'.pc = nextPc
          /\ exma'.pc = idex.pc /\ exma'.op = idex.op
      BY <1>2, <2>1, <2>7
    <3>2. CASE nextPc = idex.pc + 8
      BY <3>1, <3>2
    <3>3. CASE IsJump(idex.op) /\ nextPc = idex.nextPc
      BY <3>1, <3>3 DEF IsJump, RegWrite, LatchesCarry
    <3>4. CASE IsBranch(idex.op)
      BY <3>1, <3>4 DEF IsBranch, RegWrite
    <3> QED
      BY <3>1, <3>2, <3>3, <3>4 DEF FetchFollows
  <2> QED
    BY <2>3, <2>4, <2>5, <2>6, <2>7 DEF FetchFollows
<1>6. CASE TurnsInDecode
  <2>1. /\ ~ifid'.valid /\ idex'.valid /\ ifid.valid
        /\ \/ IsJump(idex'.op) /\ nextPc' = idex'.nextPc
           \/ /\ IsBranch(idex'.op) /\ nextPc' = idex'.imm
              /\ pcUnit'.kind \notin {"None", "History"}
    BY <1>6 DEF TurnsInDecode
  <2>2. exma'.valid /\ idex'.valid => idex'.pc = exma'.pc + 4
    BY <1>2, <2>1 DEF FetchFollows
  <2>3. ~IsJump(idex'.op) => ~Ended'
    BY <1>2, <1>4, <2>1
  <2> QED
    BY <2>1, <2>2, <2>3 DEF FetchFollows
<1>7. CASE TurnsInExecute
  BY <1>7 DEF TurnsInExecute, FetchFollows
<1> QED
  BY <1>1, <1>5, <1>6, <1>7

(* The fetch goes on leading, and nothing that is squashed writes.         *)
LEMMA CycleLeadsFetch ==
  ASSUME TypeOK, CompiledRun, LatchesCarry, FetchFollows, FetchLeads, BufferTrue,
         Cycle
  PROVE  FetchLeads'
<1> USE CycleFacts
<1>1. /\ GoesOn \/ TurnsInDecode \/ TurnsInExecute
      /\ ifid'.pc = Fetched.pc /\ ifid'.instruction = Fetched.instruction
      /\ ifid.valid => idex'.op = ifid.instruction.op
      /\ Fetched.valid => ~Ended /\ InstructionAt(program, nextPc) # Nop
      /\ ~Ended => Fetched.pc = nextPc
  BY CycleLatches
<1>2. ifid'.valid => GoesOn /\ Fetched.valid /\ idex'.valid = ifid.valid
  BY <1>1 DEF GoesOn, TurnsInDecode, TurnsInExecute
<1>3. ifid'.valid =>
        \/ nextPc' = ifid'.pc + 4
        \/ /\ pcUnit'.kind = "History" /\ IsBranch(ifid'.instruction.op)
           /\ nextPc' = Immediate(ifid'.pc, ifid'.instruction)
  BY <1>1, <1>2 DEF GoesOn
<1>4. idex'.valid /\ IsBranch(idex'.op) => ~ifid'.valid
  <2> SUFFICES ASSUME idex'.valid, IsBranch(idex'.op), ifid'.valid PROVE FALSE
    OBVIOUS
  <2>1. ifid.valid /\ IsBranch(ifid.instruction.op)
    BY <1>1, <1>2
  <2> QED
    BY <1>1, <1>2, <2>1, BehindBranch
<1>5. SquashedIsInert'
  <2>1. ~idex'.valid => idex'.op = "NONE"
    <3>1. idex'.op = Decoded.op /\ (~ifid.valid => Decoded.op = "NONE")
      BY FlushedFields, DecodedFields, CycleRunsStages DEF StagesRan
    <3>2. ASSUME ~idex'.valid PROVE ~ifid.valid
      BY <1>1, <3>2 DEF GoesOn, TurnsInDecode, TurnsInExecute, FetchLeads
    <3> QED
      BY <3>1, <3>2
  <2>2. /\ exma'.valid = idex.valid /\ exma'.op = idex.op
        /\ mawb'.valid = exma.valid /\ mawb'.op = exma.op
    BY CycleLatches DEF MemoryAccess
  <2> QED
    BY <2>1, <2>2 DEF FetchLeads, SquashedIsInert, RegWrite, MemWrite
<1> QED
  BY <1>3, <1>4, <1>5 DEF FetchLeads

(* What is learnt is true, and the fetch stays on words.                   *)
LEMMA CycleBuffers ==
  ASSUME TypeOK, CompiledRun, LatchesCarry, FetchFollows, FetchLeads, BufferTrue,
         Cycle, LatchesCarry', AlignedRun'
  PROVE  BufferTrue'
<1> SUFFICES ASSUME pcUnit.kind = "History"
             PROVE  /\ BufferHolds(pcUnit'.buffer, program)
                    /\ ~Ended' => nextPc' % 4 = 0
  BY CycleFacts DEF BufferTrue
<1>1. /\ BufferHolds(pcUnit.buffer, program) /\ IsProgram(program) /\ pcUnit \in PcUnit
      /\ \A a \in DOMAIN program : a % 4 = 0 /\ a \in Nat
      /\ Learns
  BY BufferedCycle DEF BufferTrue, TypeOK, CompiledRun, Spaced, IsProgram
<1>2. BufferHolds(pcUnit'.buffer, program)
  <2>1. CASE pcUnit' = pcUnit
    BY <1>1, <2>1
  <2>2. CASE idex.valid /\ IsBranch(idex.op) /\ pcUnit' = Learnt(pcUnit, Executed)
    <3>1. /\ Executed.pc = idex.pc
          /\ Executed.nextPc = Immediate(idex.pc, InstructionAt(program, idex.pc))
          /\ IsBranch(InstructionAt(program, idex.pc).op)
      BY <2>2, StagesHand DEF LatchesCarry
    <3>2. /\ idex.pc \in DOMAIN program
          /\ InstructionAt(program, idex.pc) = program[idex.pc]
      BY <3>1 DEF InstructionAt, Nop, IsBranch
    <3> QED
      BY <1>1, <2>2, <3>1, <3>2, LearntHolds
  <2> QED
    BY <1>1, <2>1, <2>2 DEF Learns
<1>3. ASSUME ~Ended' PROVE nextPc' % 4 = 0
  <2>1. /\ ~Ended /\ nextPc' # End /\ nextPc \in Nat /\ nextPc % 4 = 0
    BY <1>3, CycleFacts DEF BufferTrue
  <2>2. CASE GoesOn
    <3>1. CASE nextPc' = nextPc + 4
      BY <2>1, <3>1
    <3>2. CASE /\ Fetched.valid /\ IsBranch(Fetched.instruction.op)
               /\ nextPc' = Immediate(nextPc, Fetched.instruction)
      BY <2>1, <3>2, FetchedFields, RoomKept
    <3> QED
      BY <2>1, <2>2, <3>1, <3>2 DEF GoesOn
  <2>3. CASE TurnsInDecode
    <3>1. idex'.valid /\ IsJump(idex'.op) /\ nextPc' = idex'.nextPc
      BY <2>3 DEF TurnsInDecode
    <3>2. CASE idex'.op = "JR"
      BY <2>1, <3>1, <3>2, CycleFacts DEF AlignedRun, ReturnsAligned
    <3>3. CASE idex'.op \in {"J", "JAL"}
      <4> DEFINE i == InstructionAt(program, idex'.pc)
      <4>1. nextPc' = i.imm /\ i.op \in {"J", "JAL"}
        BY <3>1, <3>3, CycleFacts DEF LatchesCarry
      <4>2. idex'.pc \in DOMAIN program /\ i = program[idex'.pc]
        BY <4>1 DEF InstructionAt, Nop
      <4>3. i.imm \in DOMAIN program
        BY <4>1, <4>2 DEF CompiledRun, Compiled, Conventional
      <4> QED
        BY <1>1, <4>1, <4>3
    <3> QED
      BY <3>1, <3>2, <3>3 DEF IsJump
  <2>4. CASE TurnsInExecute
    <3>1. /\ nextPc' = idex.imm \/ nextPc' = idex.pc + 8
          /\ idex.pc \in Nat /\ IsBranch(InstructionAt(program, idex.pc).op)
          /\ idex.imm = Immediate(idex.pc, InstructionAt(program, idex.pc))
      BY <2>4 DEF TurnsInExecute, LatchesCarry, TypeOK, DecodeResult
    <3>2. idex.pc % 4 = 0 /\ idex.imm % 4 = 0
      BY <3>1, RoomKept
    <3> QED
      BY <3>1, <3>2
  <2> QED
    BY <2>2, <2>3, <2>4, CycleTurns
<1> QED
  BY <1>2, <1>3

(* No instruction in flight writes the register of a jump in decode.       *)
LEMMA JumpUndisturbed ==
  ASSUME TypeOK, CompiledRun, LatchesCarry, FetchFollows, SquashedIsInert,
         ifid.valid, ifid.instruction.op = "JR"
  PROVE  \A latch \in {idex, exma} :
           ~(RegWrite(latch.op) /\ latch.writeReg = ifid.instruction.rs)
<1>1. /\ ifid.pc \in Nat /\ idex.pc \in Nat /\ exma.pc \in Nat
      /\ ifid.instruction = InstructionAt(program, ifid.pc)
      /\ ifid.instruction # Nop /\ IsProgram(program) /\ Compiled(program)
  BY DEF TypeOK, FetchResult, DecodeResult, ExecutionResult, LatchesCarry, CompiledRun
<1>2. /\ \A d \in {4, 8} :
           LET j == InstructionAt(program, ifid.pc - d)
           IN  j # Nop /\ RegWrite(j.op) => WriteRegister(j.op, j) # ifid.instruction.rs
      /\ \A b : InstructionAt(program, b).op = "JAL"
                  => InstructionAt(program, b).imm # ifid.pc
  BY <1>1, ConventionsKept
<1>3. ASSUME NEW latch \in {idex, exma}, latch.valid, NEW d \in {4, 8},
             latch.pc = ifid.pc - d, RegWrite(latch.op)
      PROVE  latch.writeReg # ifid.instruction.rs
  BY <1>2, <1>3 DEF LatchesCarry
<1>4. CASE idex.valid
  <2>1. idex.pc = ifid.pc - 4 /\ (exma.valid => exma.pc = ifid.pc - 8)
    BY <1>1, <1>4 DEF FetchFollows
  <2> QED
    BY <1>3, <1>4, <2>1 DEF SquashedIsInert
<1>5. CASE ~idex.valid /\ exma.valid
  <2>1. \/ exma.pc = ifid.pc - 8
        \/ ~RegWrite(exma.op)
        \/ exma.op = "JAL" /\ ifid.pc = InstructionAt(program, exma.pc).imm
    BY <1>1, <1>5 DEF FetchFollows
  <2>2. exma.op = InstructionAt(program, exma.pc).op
    BY <1>5 DEF LatchesCarry
  <2>3. exma.pc = ifid.pc - 8 \/ ~RegWrite(exma.op)
    BY <1>2, <2>1, <2>2
  <2> QED
    BY <1>3, <1>5, <2>3 DEF SquashedIsInert
<1>6. CASE ~idex.valid /\ ~exma.valid
  BY <1>6 DEF SquashedIsInert
<1> QED
  BY <1>4, <1>5, <1>6

(* Decode reads the register file, and a jump what is settled.             *)
LEMMA CycleReads ==
  ASSUME TypeOK, TypeOK', CompiledRun, SquashedIsInert, LatchesCarry,
         FetchFollows, Cycle
  PROVE  OperandsRead'
<1> SUFFICES ASSUME idex'.valid
             PROVE  /\ idex'.readData1 = registers'[idex'.readReg1]
                    /\ idex'.readData2 = registers'[idex'.readReg2]
                    /\ idex'.op = "JR" =>
                         idex'.nextPc = SettledRegisters'[idex'.readReg1]
  BY DEF OperandsRead
<1>1. ifid.valid
  BY FlushedFields
<1>2. registers' = WriteBack(mawb, registers)
  BY CycleFacts
<1>3. /\ idex'.readReg1 = ifid.instruction.rs /\ idex'.readReg2 = ifid.instruction.rt
      /\ idex'.readData1 = registers'[idex'.readReg1]
      /\ idex'.readData2 = registers'[idex'.readReg2]
      /\ idex'.op = ifid.instruction.op
      /\ idex'.op = "JR" => idex'.nextPc = registers'[idex'.readReg1]
  BY <1>1, <1>2, FlushedFields, DecodedFields
<1>4. ASSUME idex'.op = "JR"
      PROVE  SettledRegisters'[idex'.readReg1] = registers'[idex'.readReg1]
  <2> DEFINE r == idex'.readReg1
  <2>1. \A latch \in {idex, exma} : ~(RegWrite(latch.op) /\ latch.writeReg = r)
    BY <1>1, <1>3, <1>4, JumpUndisturbed
  <2>2. /\ exma'.op = idex.op /\ exma'.writeReg = idex.writeReg
        /\ mawb'.op = exma.op /\ mawb'.writeReg = exma.writeReg
    BY FlushedFields, ExecutedFields, CycleFacts DEF MemoryAccess
  <2>3. r \in Register /\ registers' \in [Register -> Word]
    BY DEF TypeOK, DecodeResult
  <2>4. SettledRegisters'[r] = RetiredRegisters'[r]
    <3>1. SettledByExecute'
      BY SettledRegister, PTL
    <3> QED
      BY <2>1, <2>2, <2>3, <3>1 DEF SettledByExecute
  <2>5. RetiredRegisters'[r] = registers'[r]
    BY <2>1, <2>2, <2>3, WrittenBack DEF RetiredRegisters
  <2> QED
    BY <2>4, <2>5
<1> QED
  BY <1>3, <1>4

(* What is forwarded, or else was read, is what the register will hold     *)
(* when everything ahead has happened.                                     *)
LEMMA ForwardedCurrent ==
  TypeOK /\ CompiledRun /\ SquashedIsInert /\ LatchesCarry /\ FetchFollows
    /\ OperandsRead => OperandsCurrent
<1> SUFFICES ASSUME TypeOK, CompiledRun, SquashedIsInert, LatchesCarry,
                    FetchFollows, OperandsRead, idex.valid
             PROVE  /\ ForwardedIdEx.readData1 = SettledRegisters[idex.readReg1]
                    /\ ForwardedIdEx.readData2 = SettledRegisters[idex.readReg2]
  BY DEF OperandsCurrent
<1>1. /\ idex.readReg1 \in Register /\ idex.readReg2 \in Register
      /\ registers \in [Register -> Word]
  BY DEF TypeOK, DecodeResult
<1>2. ASSUME NEW r \in {idex.readReg1, idex.readReg2}
      PROVE  ForwardedOperand(r, registers[r]) = SettledRegisters[r]
  <2>1. SettledRegisters[r] =
          IF RegWrite(exma.op) /\ exma.writeReg = r
          THEN MemoryAccess(exma, memory).regWriteValue
          ELSE RetiredRegisters[r]
    BY <1>1, SettledRegister DEF SettledByExecute
  <2>2. RetiredRegisters[r] =
          IF RegWrite(mawb.op) /\ mawb.writeReg = r THEN mawb.regWriteValue
          ELSE registers[r]
    BY <1>1, WrittenBack DEF RetiredRegisters
  <2>3. \A latch \in {exma, mawb} : RegWrite(latch.op) => latch.writeReg # 0
    BY InFlightConventional DEF SquashedIsInert
  <2>4. ASSUME RegWrite(exma.op), exma.writeReg = r
        PROVE  MemoryAccess(exma, memory).regWriteValue = exma.aluValue
    <3>1. exma.valid /\ idex.pc = exma.pc + 4
      BY <2>4 DEF SquashedIsInert, FetchFollows
    <3>2. r \in {InstructionAt(program, exma.pc + 4).rs,
                 InstructionAt(program, exma.pc + 4).rt}
      BY <3>1 DEF LatchesCarry
    <3>3. exma.op # "LW"
      BY <2>4, <3>1, <3>2, InFlightConventional
    <3> QED
      BY <3>3 DEF MemoryAccess, MemRead
  <2> QED
    BY <2>1, <2>2, <2>3, <2>4 DEF ForwardedOperand
<1>3. /\ ForwardedIdEx.readData1 = ForwardedOperand(idex.readReg1, idex.readData1)
      /\ ForwardedIdEx.readData2 = ForwardedOperand(idex.readReg2, idex.readData2)
  BY DEF ForwardedIdEx, TypeOK, DecodeResult
<1> QED
  BY <1>2, <1>3 DEF OperandsRead

(* The instruction that leaves execute has been computed from the state    *)
(* the instruction before it leaves.                                       *)
LEMMA CycleExecutes ==
  ASSUME TypeOK, CompiledRun, LatchesCarry, OperandsCurrent, Cycle
  PROVE  ExecutedCurrent' /\ RetiredRegisters' = SettledRegisters
<1>1. RetiredRegisters' = SettledRegisters
  BY CycleFacts DEF RetiredRegisters, SettledRegisters
<1>2. ASSUME exma'.valid, NEW i, i = InstructionAt(program', exma'.pc)
      PROVE  /\ exma'.aluValue = AluValue(i.op, exma'.pc, Immediate(exma'.pc, i),
                                   RetiredRegisters'[i.rs], RetiredRegisters'[i.rt])
             /\ exma'.readData2 = RetiredRegisters'[i.rt]
  <2> DEFINE s == ForwardedOperand(idex.readReg1, idex.readData1)
             t == ForwardedOperand(idex.readReg2, idex.readData2)
  <2>1. /\ exma'.valid = idex.valid /\ exma'.pc = idex.pc
        /\ exma'.aluValue = AluValue(idex.op, idex.pc, idex.imm, s, t)
        /\ exma'.readData2 = t
    BY FlushedFields, ExecutedFields
  <2>2. s = ForwardedIdEx.readData1 /\ t = ForwardedIdEx.readData2
    BY DEF ForwardedIdEx, TypeOK, DecodeResult
  <2>3. s = RetiredRegisters'[idex.readReg1] /\ t = RetiredRegisters'[idex.readReg2]
    BY <1>1, <1>2, <2>1, <2>2 DEF OperandsCurrent
  <2>4. /\ idex.op = i.op /\ idex.imm = Immediate(idex.pc, i)
        /\ idex.readReg1 = i.rs /\ idex.readReg2 = i.rt
    BY <1>2, <2>1, CycleFacts DEF LatchesCarry
  <2> HIDE DEF s, t
  <2> QED
    BY <2>1, <2>3, <2>4
<1>3. ExecutedCurrent'
  BY <1>2 DEF ExecutedCurrent
<1> QED
  BY <1>1, <1>3
-----------------------------------------------------------------------------
(* The architecture is instantiated with this module's constants: both     *)
(* speak of the same instruction set.                                      *)
LEMMA SameWords ==
  /\ \A x : Arch!Wrap(x) = Wrap(x)
  /\ \A b : Arch!Bool(b) = Bool(b)
  /\ \A mem, a : Arch!ReadWord(mem, a) = ReadWord(mem, a)
  /\ \A mem, a, v : Arch!WriteWord(mem, a, v) = WriteWord(mem, a, v)
  /\ Arch!InitialRegisters = InitialRegisters
BY DEF Arch!Wrap, Wrap, Arch!Bool, Bool, Arch!ReadWord, ReadWord,
       Arch!WriteWord, WriteWord, Arch!InitialRegisters, InitialRegisters

(* So they agree on what a program is, and on where no-ops lead.           *)
LEMMA SamePrograms ==
  /\ \A text : Arch!IsProgram(text) <=> IsProgram(text)
  /\ \A text, a : Arch!InstructionAt(text, a) = InstructionAt(text, a)
  /\ \A text, a : Arch!NextInstruction(text, a) = NextInstruction(text, a)
<1>1. Arch!Nop = Nop /\ Arch!Off = Off
  BY DEF Arch!Nop, Nop, Arch!Off, Off
<1>2. Arch!Instruction = Instruction
  BY DEF Arch!Instruction, Instruction, Arch!Opcode, Opcode, Arch!RType, RType,
         Arch!IType, IType, Arch!JType, JType, Arch!Word, Word
<1>3. \A text, a : Arch!InstructionAt(text, a) = InstructionAt(text, a)
  BY <1>1 DEF Arch!InstructionAt, InstructionAt
<1>4. \A text, a : Arch!NextInstruction(text, a) = NextInstruction(text, a)
  BY <1>1, <1>3 DEF Arch!NextInstruction, NextInstruction
<1> QED
  BY <1>2, <1>3, <1>4 DEF Arch!IsProgram, IsProgram

(* The signals of an operation ask for what the architecture defines.      *)
LEMMA SignalsAgree ==
  ASSUME NEW i \in Instruction
  PROVE  /\ RegWrite(i.op) <=> Arch!Defines(i)
         /\ Arch!Defines(i) => WriteRegister(i.op, i) = Arch!Target(i)
         /\ MemWrite(i.op) <=> i.op = "SW"
BY DEF Instruction, Opcode, RType, IType, JType, RegWrite, RegDest, MemWrite,
       WriteRegister, Arch!Defines, Arch!Target

(* What execute and memoryAccess compute is the architecture's result.     *)
LEMMA ResultsAgree ==
  ASSUME NEW i \in Instruction, NEW a \in Nat, NEW s \in Word, NEW t \in Word,
         NEW mem, Arch!Defines(i)
  PROVE  LET v == AluValue(i.op, a, Immediate(a, i), s, t)
         IN  (IF MemRead(i.op) THEN ReadWord(mem, v) ELSE v)
               = Arch!Result(i, a, s, t, mem)
<1> USE SameWords
    DEF AluValue, Operate, AluSrc, RegDest, IsBranch, IsShift, MemRead,
        Immediate, RType, Arch!Result, Arch!Defines
<1>1. CASE i.op \in {"ADDU", "SUBU", "SLT", "SLL"}
  BY <1>1
<1>2. CASE i.op \in {"ADDI", "ADDIU", "SLTI", "ORI"}
  BY <1>2
<1>3. CASE i.op \in {"LUI", "LW", "JAL"}
  BY <1>3
<1> QED
  BY <1>1, <1>2, <1>3 DEF Instruction, Opcode, IType, JType

(* Where control goes, as execute and decode find it.                      *)
LEMMA Destinations ==
  ASSUME NEW i, NEW a, NEW s, NEW t
  PROVE  LET to == Arch!Successor(i, a, s, t)
             v  == AluValue(i.op, a, Immediate(a, i), s, t)
         IN  /\ IsBranch(i.op) => to = IF v = 1 THEN Immediate(a, i) ELSE a + 4
             /\ i.op \in {"J", "JAL"} => to = i.imm
             /\ i.op = "JR" => to = s
             /\ ~IsBranch(i.op) /\ ~IsJump(i.op) => to = a + 4
<1> DEFINE to == Arch!Successor(i, a, s, t)
           v  == AluValue(i.op, a, Immediate(a, i), s, t)
<1>1. CASE IsBranch(i.op)
  <2>1. Immediate(a, i) = Wrap(a + 4 + i.imm)
    BY <1>1 DEF Immediate
  <2>2. /\ i.op = "BEQ" => v = Bool(s = t)
        /\ i.op = "BNE" => v = Bool(s # t)
    BY <1>1 DEF AluValue, Operate, AluSrc, RegDest, IsBranch, IsShift, RType
  <2>3. to = IF v = 1 THEN Immediate(a, i) ELSE a + 4
    BY <1>1, <2>1, <2>2, SameWords DEF IsBranch, Bool, Arch!Successor
  <2> QED
    BY <1>1, <2>3 DEF IsBranch, IsJump
<1>2. CASE ~IsBranch(i.op)
  BY <1>2 DEF IsBranch, IsJump, Arch!Successor
<1> QED
  BY <1>1, <1>2

(* A no-op fetched, or nothing, leaves what comes next as it was.          *)
LEMMA FetchGoesOn ==
  ASSUME TypeOK, Cycle, GoesOn
  PROVE  OnwardFromFetch' = IF Ended THEN End ELSE NextInstruction(program, nextPc)
<1> USE CycleFacts
<1>1. /\ ifid'.valid = Fetched.valid /\ (~Ended /\ ~Fetched.valid => nextPc' = nextPc + 4)
      /\ ifid'.pc = Fetched.pc
      /\ Fetched.valid <=> ~Ended /\ InstructionAt(program, nextPc) # Nop
      /\ ~Ended => Fetched.pc = nextPc
  BY FlushedFields, FetchedFields DEF GoesOn
<1>2. CASE Ended
  BY <1>1, <1>2 DEF OnwardFromFetch
<1>3. CASE ~Ended /\ InstructionAt(program, nextPc) # Nop
  BY <1>1, <1>3 DEF OnwardFromFetch, NextInstruction
<1>4. CASE ~Ended /\ InstructionAt(program, nextPc) = Nop
  <2>1. ~Ended' /\ ~ifid'.valid
    BY <1>1, <1>4 DEF End
  <2>2. OnwardFromFetch' = NextInstruction(program, nextPc + 4)
    BY <1>1, <1>4, <2>1 DEF OnwardFromFetch
  <2> QED
    BY <1>4, <2>2, NextInstructionSkips DEF TypeOK
<1> QED
  BY <1>2, <1>3, <1>4

(* What fetch had to give is what decode has to give a cycle later, unless *)
(* the branch in execute turns the fetch.                                  *)
LEMMA DecodeGoesOn ==
  ASSUME TypeOK, Cycle, GoesOn \/ TurnsInDecode
  PROVE  OnwardFromDecode' = OnwardFromFetch
<1>1. idex'.pc = ifid.pc
  BY FlushedFields, DecodedFields
<1>2. CASE ifid.valid
  BY <1>1, <1>2 DEF GoesOn, TurnsInDecode, OnwardFromDecode, OnwardFromFetch
<1>3. CASE ~ifid.valid
  <2>1. GoesOn /\ ~idex'.valid
    BY <1>3 DEF GoesOn, TurnsInDecode
  <2> QED
    BY <1>3, <2>1, FetchGoesOn DEF OnwardFromDecode, OnwardFromFetch
<1> QED
  BY <1>2, <1>3

(* The fetch is on the path of the instruction in execute, or is turned to *)
(* it in this cycle.                                                       *)
LEMMA CyclePath ==
  ASSUME TypeOK, CompiledRun, LatchesCarry, FetchFollows, FetchLeads, BufferTrue,
         OperandsRead, OperandsCurrent, Cycle
  PROVE  PathAhead'
<1> USE CycleFacts
<1> SUFFICES ASSUME exma'.valid, NEW i, i = InstructionAt(program, exma'.pc),
                    NEW s, s = RetiredRegisters'[i.rs],
                    NEW t, t = RetiredRegisters'[i.rt]
             PROVE  OnwardFromDecode' =
                      NextInstruction(program, Arch!Successor(i, exma'.pc, s, t))
  BY DEF PathAhead
<1> DEFINE a  == idex.pc
           to == Arch!Successor(i, a, s, t)
           v  == AluValue(i.op, a, Immediate(a, i), s, t)
<1>1. /\ idex.valid /\ exma'.pc = a /\ i = InstructionAt(program, a)
      /\ exma'.branch <=> IsBranch(idex.op) /\ exma'.aluValue = 1
      /\ GoesOn \/ TurnsInDecode \/ TurnsInExecute
  BY FlushedFields, ExecutedFields, CycleTurns
<1>2. /\ a \in Nat /\ i # Nop /\ idex.op = i.op /\ idex.imm = Immediate(a, i)
      /\ idex.readReg1 = i.rs /\ ~isEnd
      /\ i.op \in {"J", "JAL"} => idex.nextPc = i.imm
      /\ IsBranch(i.op) => Immediate(a, i) # End /\ InstructionAt(program, a + 4) = Nop
  BY <1>1, InFlightConventional DEF LatchesCarry
<1>3. exma'.aluValue = v
  BY <1>1, CycleExecutes DEF ExecutedCurrent
<1>4. i.op = "JR" => idex.nextPc = s
  BY <1>1, <1>2, CycleExecutes DEF OperandsRead
<1>5. /\ IsBranch(i.op) => to = IF exma'.branch THEN Immediate(a, i) ELSE a + 4
      /\ IsJump(i.op) => to = idex.nextPc
      /\ ~IsBranch(i.op) /\ ~IsJump(i.op) => to = a + 4
  BY <1>1, <1>2, <1>3, <1>4, Destinations DEF IsJump
<1> HIDE DEF to, v
<1>6. ASSUME InstructionAt(program, a + 4) = Nop
      PROVE  NextInstruction(program, a + 8) = NextInstruction(program, a + 4)
  <2>1. a + 4 \in Nat /\ (a + 4) + 4 = a + 8
    BY <1>2
  <2> QED
    BY <1>6, <2>1, NextInstructionSkips DEF TypeOK
<1>7. CASE TurnsInExecute
  <2>1. /\ ~ifid'.valid /\ ~idex'.valid /\ IsBranch(i.op)
        /\ nextPc' = IF exma'.branch THEN Immediate(a, i) ELSE a + 8
    BY <1>2, <1>7 DEF TurnsInExecute
  <2>2. ~Ended'
    <3>1. ~Ended
      BY <1>1, <1>2, <2>1 DEF FetchFollows, IsBranch, IsJump
    <3> QED
      BY <1>2, <2>1, <3>1 DEF End
  <2>3. OnwardFromDecode' = NextInstruction(program, nextPc')
    BY <2>1, <2>2 DEF OnwardFromDecode, OnwardFromFetch
  <2> QED
    BY <1>1, <1>2, <1>5, <1>6, <2>1, <2>3 DEF to
<1>8. CASE GoesOn \/ TurnsInDecode
  <2>1. OnwardFromDecode' = OnwardFromFetch /\ SettledThere
    BY <1>8, DecodeGoesOn DEF GoesOn, TurnsInDecode
  <2>2. CASE ifid.valid
    <3>1. ifid.pc = a + 4 /\ ~IsJump(i.op) /\ ~IsBranch(i.op)
      BY <1>1, <1>2, <2>2 DEF FetchFollows, FetchLeads
    <3>2. InstructionAt(program, a + 4) # Nop
      BY <2>2, <3>1 DEF LatchesCarry
    <3>3. NextInstruction(program, a + 4) = a + 4
      BY <3>2 DEF NextInstruction
    <3> QED
      BY <1>1, <1>5, <2>1, <2>2, <3>1, <3>3 DEF OnwardFromFetch, to
  <2>3. CASE ~ifid.valid /\ IsJump(i.op)
    <3>1. nextPc = to
      BY <1>1, <1>2, <1>5, <2>3 DEF FetchFollows, IsBranch, IsJump
    <3>2. Ended => nextPc = End /\ NextInstruction(program, nextPc) = End
      BY <1>2 DEF Ended, NextInstruction, End
    <3> QED
      BY <1>1, <2>1, <2>3, <3>1, <3>2 DEF OnwardFromFetch, to
  <2>4. CASE ~ifid.valid /\ ~IsJump(i.op)
    <3>1. /\ ~Ended
          /\ OnwardFromFetch = NextInstruction(program, nextPc)
      BY <1>1, <1>2, <2>4 DEF FetchFollows, OnwardFromFetch
    <3>2. IsBranch(i.op) =>
            CASE pcUnit.kind = "None"    -> ~exma'.branch
              [] pcUnit.kind = "History" -> exma'.branch <=> ifid.pc = Immediate(a, i)
              [] OTHER                   -> exma'.branch <=> nextPc = Immediate(a, i)
      BY <1>1, <1>2, <2>1, <3>1, FetchedFields DEF SettledThere
    <3>3. CASE /\ nextPc = a + 8 /\ InstructionAt(program, a + 4) = Nop
               /\ pcUnit.kind = "History" => ifid.pc = a + 4
      <4>1. to = nextPc \/ to = a + 4
        BY <1>5, <2>4, <3>2, <3>3
      <4>2. OnwardFromDecode' = NextInstruction(program, to)
        BY <1>6, <2>1, <3>1, <3>3, <4>1
      <4> QED
        BY <1>1, <4>2 DEF to
    <3>4. CASE /\ IsBranch(i.op) /\ nextPc = Immediate(a, i)
               /\ pcUnit.kind \notin {"None", "History"}
      BY <1>1, <1>5, <2>1, <3>1, <3>2, <3>4 DEF to
    <3>5. CASE /\ IsBranch(i.op) /\ nextPc = Immediate(a, i) + 4
               /\ pcUnit.kind = "History" /\ ifid.pc = Immediate(a, i)
      <4>1. to = Immediate(a, i)
        BY <1>5, <3>2, <3>5
      <4>2. /\ Immediate(a, i) \in Nat
            /\ InstructionAt(program, Immediate(a, i)) = Nop
        BY <1>1, <1>2, <3>5, RoomKept
      <4>3. NextInstruction(program, nextPc) = NextInstruction(program, to)
        BY <3>5, <4>1, <4>2, NextInstructionSkips DEF TypeOK
      <4> QED
        BY <1>1, <2>1, <3>1, <4>3 DEF to
    <3> QED
      BY <1>1, <1>2, <2>4, <3>3, <3>4, <3>5 DEF FetchFollows
  <2> QED
    BY <2>2, <2>3, <2>4
<1> QED
  BY <1>1, <1>7, <1>8

(* The oldest instruction is the next to come out of decode, once the one  *)
(* in exma has happened.                                                   *)
LEMMA CycleLeads ==
  ASSUME TypeOK, CompiledRun, LatchesCarry, FetchFollows, FetchLeads, BufferTrue,
         Cycle
  PROVE  OldestPc(nextPc)' = OnwardFromDecode
<1>1. exma'.valid = idex.valid /\ exma'.pc = idex.pc
  BY FlushedFields, ExecutedFields
<1>2. CASE idex.valid
  BY <1>1, <1>2 DEF OldestPc, OnwardFromDecode
<1>3. CASE ~idex.valid
  <2>1. GoesOn \/ TurnsInDecode
    BY <1>3, CycleTurns DEF TurnsInExecute
  <2>2. OldestPc(nextPc)' = OnwardFromDecode'
    BY <1>1, <1>3 DEF OldestPc, OnwardFromDecode, OnwardFromFetch
  <2> QED
    BY <1>3, <2>1, <2>2, DecodeGoesOn DEF OnwardFromDecode
<1> QED
  BY <1>2, <1>3

(* When the oldest instruction has been executed it happens: its results   *)
(* are those of the architecture.  Otherwise nothing happens in a cycle.   *)
LEMMA CycleRefines ==
  ASSUME TypeOK, CompiledRun, LatchesCarry, FetchFollows, FetchLeads, BufferTrue,
         ExecutedCurrent, PathAhead, OperandsCurrent, Cycle
  PROVE  [Arch!Next]_(Arch!vars)
<1>1. /\ program' = program
      /\ RetiredRegisters' = WriteBack(MemoryAccess(exma, memory), RetiredRegisters)
      /\ memory' = Stored(exma, memory)
      /\ OldestPc(nextPc)' = OnwardFromDecode
  BY CycleFacts, CycleExecutes, CycleLeads DEF RetiredRegisters, SettledRegisters
<1>2. CASE ~exma.valid
  <2>1. ~RegWrite(exma.op) /\ ~MemWrite(exma.op)
    BY <1>2 DEF FetchLeads, SquashedIsInert
  <2>2. RetiredRegisters' = RetiredRegisters /\ memory' = memory
    BY <1>1, <2>1 DEF WriteBack, MemoryAccess, Stored
  <2>3. OldestPc(nextPc) = OnwardFromDecode
    BY <1>2 DEF OldestPc, OnwardFromDecode, OnwardFromFetch
  <2> QED
    BY <1>1, <2>2, <2>3 DEF Arch!vars
<1>3. CASE exma.valid
  <2> DEFINE a == exma.pc
             i == InstructionAt(program, a)
             s == RetiredRegisters[i.rs]
             t == RetiredRegisters[i.rt]
             v == AluValue(i.op, a, Immediate(a, i), s, t)
  <2>1. /\ a \in Nat /\ i \in Instruction
        /\ exma.op = i.op /\ exma.writeReg = WriteRegister(i.op, i)
        /\ exma.aluValue = v /\ exma.readData2 = t
    BY <1>3, InFlightConventional DEF ExecutedCurrent
  <2>2. s \in Word /\ t \in Word
    <3>1. RetiredRegisters \in [Register -> Word]
      BY WriteBackType DEF TypeOK, RetiredRegisters
    <3> QED
      BY <2>1, <3>1 DEF Instruction
  <2>3. OnwardFromDecode = NextInstruction(program, Arch!Successor(i, a, s, t))
    BY <1>3 DEF PathAhead
  <2>4. OldestPc(nextPc) = a
    BY <1>3 DEF OldestPc
  <2>5. Arch!InstructionAt(program, a) = i
    BY SamePrograms
  <2>6. Arch!Defines(i) => (IF MemRead(i.op) THEN ReadWord(memory, v) ELSE v)
                             = Arch!Result(i, a, s, t, memory)
    BY <2>1, <2>2, ResultsAgree
  <2>7. i.op = "SW" => v = Wrap(s + i.imm)
    BY DEF AluValue, Operate, AluSrc, RegDest, IsBranch, IsShift, Immediate, RType
  <2> HIDE DEF a, i, s, t, v
  <2>8. RetiredRegisters' = IF Arch!Defines(i)
                            THEN [RetiredRegisters EXCEPT ![Arch!Target(i)] =
                                    Arch!Result(i, a, s, t, memory)]
                            ELSE RetiredRegisters
    <3>1. RetiredRegisters' =
            IF RegWrite(i.op)
            THEN [RetiredRegisters EXCEPT ![WriteRegister(i.op, i)] =
                    IF MemRead(i.op) THEN ReadWord(memory, v) ELSE v]
            ELSE RetiredRegisters
      BY <1>1, <2>1 DEF WriteBack, MemoryAccess
    <3> QED
      BY <2>1, <2>6, <3>1, SignalsAgree
  <2>9. memory' = IF i.op = "SW" THEN Arch!WriteWord(memory, Arch!Wrap(s + i.imm), t)
                  ELSE memory
    BY <1>1, <2>1, <2>7, SignalsAgree, SameWords DEF Stored
  <2>10. OldestPc(nextPc)' = Arch!NextInstruction(program, Arch!Successor(i, a, s, t))
    BY <1>1, <2>3, SamePrograms DEF i, s, t, a
  <2>11. Arch!Step
    BY <1>1, <2>1, <2>4, <2>5, <2>8, <2>9, <2>10 DEF Arch!Step, s, t
  <2> QED
    BY <2>11 DEF Arch!Next
<1> QED
  BY <1>2, <1>3
-----------------------------------------------------------------------------
(* The inductive invariant of a run of compiled code.                      *)
InOrder ==
  /\ CompiledRun
  /\ LatchesCarry /\ FetchFollows /\ FetchLeads /\ BufferTrue
  /\ OperandsRead /\ ExecutedCurrent /\ PathAhead

(* Units as they are built, and code that fits them.                       *)
FittingRun ==
  /\ CompiledRun
  /\ pcUnit.kind = "History" => pcUnit.buffer = EmptyBuffer

(* Nothing is in flight, and nothing buffered, when a run starts ...       *)
LEMMA InitialOrder == Init /\ FittingRun => InOrder
<1> SUFFICES ASSUME Init, FittingRun PROVE InOrder
  OBVIOUS
<1>1. /\ ~ifid.valid /\ ~idex.valid /\ ~exma.valid /\ ~mawb.valid
      /\ LatchesCarry
  BY InitialLatches
<1>2. SquashedIsInert
  BY DEF Init, SquashedIsInert, EmptyIdEx, EmptyExMa, EmptyMaWb, RegWrite, MemWrite
<1>3. BufferTrue
  BY EmptyBufferHolds DEF Init, FittingRun, BufferTrue
<1> QED
  BY <1>1, <1>2, <1>3
     DEF FittingRun, InOrder, FetchFollows, FetchLeads, OperandsRead,
         ExecutedCurrent, PathAhead

(* ... and every cycle keeps the order.                                    *)
LEMMA StepOrder ==
  TypeOK /\ TypeOK' /\ InOrder /\ AlignedRun' /\ [Next]_vars => InOrder'
<1> SUFFICES ASSUME TypeOK, TypeOK', InOrder, AlignedRun', [Next]_vars PROVE InOrder'
  OBVIOUS
<1>1. CASE Cycle
  <2>1. /\ CompiledRun /\ SquashedIsInert /\ LatchesCarry /\ FetchFollows
        /\ FetchLeads /\ BufferTrue /\ OperandsRead
    BY DEF InOrder, FetchLeads
  <2>2. OperandsCurrent
    BY <2>1, ForwardedCurrent
  <2>3. CompiledRun'
    BY <1>1, <2>1, CycleFacts DEF CompiledRun
  <2>4. LatchesCarry' /\ FetchFollows' /\ OperandsRead'
    BY <1>1, <2>1, StepCarries, CycleFollows, CycleReads
  <2>5. FetchLeads' /\ BufferTrue'
    BY <1>1, <2>1, <2>4, CycleLeadsFetch, CycleBuffers
  <2>6. ExecutedCurrent' /\ PathAhead'
    BY <1>1, <2>1, <2>2, CycleExecutes, CyclePath
  <2> QED
    BY <2>3, <2>4, <2>5, <2>6 DEF InOrder
<1>2. CASE UNCHANGED vars
  <2>1. /\ program' = program /\ pcUnit' = pcUnit /\ registers' = registers
        /\ memory' = memory /\ ifid' = ifid /\ idex' = idex /\ exma' = exma
        /\ mawb' = mawb /\ nextPc' = nextPc /\ isEnd' = isEnd
    BY <1>2 DEF vars, pipelineVars
  <2>2. /\ RetiredRegisters' = RetiredRegisters
        /\ SettledRegisters' = SettledRegisters
        /\ Ended' = Ended
    BY <2>1 DEF RetiredRegisters, SettledRegisters, Ended
  <2>3. OnwardFromDecode' = OnwardFromDecode
    BY <2>1, <2>2 DEF OnwardFromDecode, OnwardFromFetch
  <2>4. CompiledRun' /\ LatchesCarry' /\ BufferTrue'
    BY <2>1, <2>2 DEF InOrder, CompiledRun, LatchesCarry, BufferTrue
  <2>5. FetchFollows' /\ FetchLeads' /\ OperandsRead'
    BY <2>1, <2>2 DEF InOrder, FetchFollows, FetchLeads, SquashedIsInert, OperandsRead
  <2>6. ExecutedCurrent' /\ PathAhead'
    BY <2>1, <2>2, <2>3 DEF InOrder, ExecutedCurrent, PathAhead
  <2> QED
    BY <2>4, <2>5, <2>6 DEF InOrder
<1> QED
  BY <1>1, <1>2 DEF Next, Terminated

(* Code that fits its unit runs in order.                                  *)
LEMMA RunsInOrder ==
  Spec /\ FittingRun /\ []AlignedRun => [](TypeOK /\ InOrder)
<1>1. Init /\ FittingRun => TypeOK /\ InOrder
  BY InitialTypes, InitialOrder
<1>2. TypeOK /\ InOrder /\ AlignedRun' /\ [Next]_vars => (TypeOK /\ InOrder)'
  <2>1. TypeOK /\ [Next]_vars => TypeOK'
    BY StepTypes
  <2> QED
    BY <2>1, StepOrder
<1> QED
  BY <1>1, <1>2, PTL DEF Spec

(* Compiled code fits the units that do not buffer targets ...             *)
Unbuffered == pcUnit.kind # "History"

LEMMA UnbufferedInOrder ==
  ASSUME \A unit \in Units : unit.kind # "History",
         \A text \in Programs : Compiled(text)
  PROVE  Spec => [](TypeOK /\ InOrder)
<1>1. Init => FittingRun /\ Unbuffered
  BY DEF Init, FittingRun, CompiledRun, Unbuffered
<1>2. Unbuffered => AlignedRun
  BY DEF Unbuffered, AlignedRun
<1>3. TypeOK /\ Unbuffered /\ [Next]_vars => Unbuffered'
  <2> SUFFICES ASSUME TypeOK, Unbuffered, [Next]_vars PROVE Unbuffered'
    OBVIOUS
  <2>1. CASE Cycle
    BY <2>1, CycleFacts DEF Unbuffered
  <2>2. CASE UNCHANGED vars
    BY <2>2 DEF vars, pipelineVars, Unbuffered
  <2> QED
    BY <2>1, <2>2 DEF Next, Terminated
<1> QED
  BY <1>1, <1>2, <1>3, RunsInOrder, TypeCorrect, PTL DEF Spec

(* ... and, where there is room between its branches and its returns lead  *)
(* to words, every unit as it is built.                                    *)
LEMMA BufferedInOrder ==
  ASSUME Units \subseteq EveryPcUnit,
         \A text \in Programs : Compiled(text) /\ Spaced(text)
  PROVE  Spec /\ []ReturnsAligned => [](TypeOK /\ InOrder)
<1>1. \A unit \in EveryPcUnit : unit.kind = "History" => unit.buffer = EmptyBuffer
  BY DEF EveryPcUnit, NoPrediction, StaticUnit, DynamicUnit, HistoryUnit
<1>2. Init => FittingRun
  BY <1>1 DEF Init, FittingRun, CompiledRun
<1>3. ReturnsAligned => AlignedRun
  BY DEF AlignedRun
<1> QED
  BY <1>2, <1>3, RunsInOrder, PTL DEF Spec

(* A run in order is a run of the architecture: it starts as one ...       *)
LEMMA StartsAsArchitecture == Init => Arch!Init
<1> SUFFICES ASSUME Init PROVE Arch!Init
  OBVIOUS
<1>1. OldestPc(nextPc) = NextInstruction(program, 0)
  BY DEF Init, OldestPc, Ended, End, EmptyIfId, EmptyIdEx, EmptyExMa
<1>2. RetiredRegisters = InitialRegisters
  BY DEF Init, RetiredRegisters, WriteBack, EmptyMaWb, RegWrite
<1> QED
  BY <1>1, <1>2, ProgramsAssumption, SameWords, SamePrograms
     DEF Init, Arch!Init

(* ... and each of its steps is a step of it, or none.                     *)
LEMMA StepsAsArchitecture ==
  TypeOK /\ InOrder /\ [Next]_vars => [Arch!Next]_(Arch!vars)
<1> SUFFICES ASSUME TypeOK, InOrder, [Next]_vars PROVE [Arch!Next]_(Arch!vars)
  OBVIOUS
<1>1. CASE Cycle
  BY <1>1, ForwardedCurrent, CycleRefines DEF InOrder, FetchLeads
<1>2. CASE UNCHANGED vars
  BY <1>2 DEF vars, pipelineVars, Arch!vars, OldestPc, RetiredRegisters, Ended
<1> QED
  BY <1>1, <1>2 DEF Next, Terminated

(* What is forwarded is what program order gives: for compiled code, a     *)
(* load is never so close that its value would be wanted before memory     *)
(* access has it, and a squashed instruction never forwards.               *)
THEOREM OperandsCurrentAlways ==
  ASSUME \A unit \in Units : unit.kind # "History",
         \A text \in Programs : Compiled(text)
  PROVE  Spec => []OperandsCurrent
<1>1. TypeOK /\ InOrder => OperandsCurrent
  BY ForwardedCurrent DEF InOrder, FetchLeads
<1>2. Spec => [](TypeOK /\ InOrder)
  BY UnbufferedInOrder
<1> QED
  BY <1>1, <1>2, PTL

(* ForwardingPipelineControlUnit implements the architecture: instructions *)
(* take effect one at a time in program order, whatever was fetched ahead, *)
(* predicted wrongly and squashed.                                         *)
THEOREM ImplementsArchitecture ==
  ASSUME \A unit \in Units : unit.kind # "History",
         \A text \in Programs : Compiled(text)
  PROVE  Spec => TakesEffectInOrder
<1>1. Spec => [](TypeOK /\ InOrder)
  BY UnbufferedInOrder
<1> QED
  BY <1>1, StartsAsArchitecture, StepsAsArchitecture, PTL
     DEF Spec, TakesEffectInOrder, Arch!SafeSpec
-----------------------------------------------------------------------------
(* The mark of the end is set when the end is reached and moves on.        *)
LEMMA StepMark ==
  TypeOK /\ InOrder /\ EndCarried /\ [Next]_vars => EndCarried'
<1> SUFFICES ASSUME TypeOK, InOrder, EndCarried, [Next]_vars
             PROVE  EndCarried'
  OBVIOUS
<1>1. CASE Cycle
  <2>1. ~halted /\ nextPc \in Int /\ (~Ended => nextPc >= 0)
    BY <1>1 DEF Cycle, MayCycle, TypeOK
  <2>2. idex.valid /\ IsBranch(idex.op) => ~Ended
    BY DEF InOrder, FetchFollows, IsBranch, IsJump
  <2>3. pcUnit.kind = "History" /\ ~Ended
        /\ ifid' = Fetched /\ idex' = Decoded /\ exma' = Executed
          => nextPc' # End
    BY <1>1, BufferedCycle DEF InOrder
  <2> QED
    BY <1>1, <2>1, <2>2, <2>3, StageTypes, CycleRunsStages, CycleMark
<1>2. CASE UNCHANGED vars
  BY <1>2 DEF vars, pipelineVars, EndCarried, Ended
<1> QED
  BY <1>1, <1>2 DEF Next, Terminated

(* The mark is nowhere while the end is not reached, and then on its way.  *)
LEMMA MarkIsNoticed ==
  /\ Init => EndCarried
  /\ TypeOK /\ EndCarried => EndIsNoticed
<1>1. Init => EndCarried
  BY DEF Init, EndCarried, Ended, End
<1>2. TypeOK => nextPc \in Int
  BY DEF TypeOK
<1>3. ~Ended => nextPc # End
  BY DEF Ended
<1> QED
  BY <1>1, <1>2, <1>3, OldestIsEnd DEF EndIsNoticed, EndCarried

(* process() leaves its loop in the cycle after the last instruction has   *)
(* happened: the mark that comes along with it is never lost on the way,   *)
(* nor overwritten by a branch that is resolved meanwhile.                 *)
THEOREM EndIsNoticedAlways ==
  ASSUME \A unit \in Units : unit.kind # "History",
         \A text \in Programs : Compiled(text)
  PROVE  Spec => []EndIsNoticed
<1>1. Spec => [](TypeOK /\ InOrder)
  BY UnbufferedInOrder
<1> QED
  BY <1>1, StepMark, MarkIsNoticed, PTL DEF Spec
-----------------------------------------------------------------------------
(* HistoryBufferedBranchPredictionPcUnit, with which the application is    *)
(* built, turns the fetch by what it has buffered before the branch is     *)
(* decoded, and looks at nothing else in a cycle with a hit.  Where every  *)
(* branch leads to a no-op and no second branch is fetched before the      *)
(* first is resolved, instructions take effect in program order under it   *)
(* as under every other unit.                                              *)
THEOREM BufferedImplementsArchitecture ==
  ASSUME Units \subseteq EveryPcUnit,
         \A text \in Programs : Compiled(text) /\ Spaced(text)
  PROVE  Spec /\ []ReturnsAligned => TakesEffectInOrder
<1>1. Spec /\ []ReturnsAligned => [](TypeOK /\ InOrder)
  BY BufferedInOrder
<1> QED
  BY <1>1, StartsAsArchitecture, StepsAsArchitecture, PTL
     DEF Spec, TakesEffectInOrder, Arch!SafeSpec

(* There, too, operands are current, nothing squashed can still write, and *)
(* the end is noticed in time: a hit never leads past it, nor hides a jump *)
(* in decode or a branch in execute that would.                            *)
THEOREM BufferedRunsAreSound ==
  ASSUME Units \subseteq EveryPcUnit,
         \A text \in Programs : Compiled(text) /\ Spaced(text)
  PROVE  Spec /\ []ReturnsAligned =>
           [](OperandsCurrent /\ SquashedIsInert /\ EndIsNoticed)
<1>1. Spec /\ []ReturnsAligned => [](TypeOK /\ InOrder)
  BY BufferedInOrder
<1>2. TypeOK /\ InOrder => OperandsCurrent /\ SquashedIsInert
  BY ForwardedCurrent DEF InOrder, FetchLeads
<1> QED
  BY <1>1, <1>2, StepMark, MarkIsNoticed, PTL DEF Spec
=============================================================================
