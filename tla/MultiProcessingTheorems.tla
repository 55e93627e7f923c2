----------------------- MODULE MultiProcessingTheorems -----------------------
(***************************************************************************)
(* Interleaving programs in one pipeline: with five programs or more the   *)
(* stages hold different ones, each runs as it would alone, and copies     *)
(* that share a memory do the same things one after the other.             *)
(***************************************************************************)
EXTENDS MultiProcessing, IsaTheorems, FiniteSetTheorems

(* The scheduler's bookkeeping: nobody is ever taken out of the round (for *)
(* that, four would have to be out already), so the programs are fetched   *)
(* in turn, and an instruction is as far behind as its stage.              *)
EverybodyKeepsTheirTurn == \A p \in ProgramNumber : infos[p].fetchAlive

After(p)  == IF p = Size - 1 THEN 0 ELSE p + 1
Before(p) == IF p = 0 THEN Size - 1 ELSE p - 1

InTurn ==
  /\ lastProcessIndex = -1 =>
       ~ifid.valid /\ ~idex.valid /\ ~exma.valid /\ ~mawb.valid
  /\ ifid.valid => ifid.pn = lastProcessIndex
  /\ idex.valid => idex.pn = Before(lastProcessIndex)
  /\ exma.valid => exma.pn = Before(Before(lastProcessIndex))
  /\ mawb.valid => mawb.pn = Before(Before(Before(lastProcessIndex)))

Scheduled == TypeOK /\ EverybodyKeepsTheirTurn /\ InTurn

(* Round robin: who comes after whom.                                      *)
LEMMA Turns ==
  ASSUME NEW p \in ProgramNumber
  PROVE  /\ After(p) \in ProgramNumber /\ Before(p) \in ProgramNumber
         /\ Before(After(p)) = p
BY SizeAssumption DEF ProgramNumber, After, Before

(* With everybody in the round, next() takes the program after the last.   *)
LEMMA NextInTurn ==
  ASSUME Scheduled
  PROVE  NextProgram(infos, lastProcessIndex) =
           IF lastProcessIndex = -1 THEN 0 ELSE After(lastProcessIndex)
<1> DEFINE last == lastProcessIndex
           next == IF last = -1 THEN 0 ELSE After(last)
<1>1. last \in ProgramNumber \cup {-1} /\ Size \in Nat \ {0}
  BY SizeAssumption DEF Scheduled, TypeOK
<1>2. \A n \in Nat \ {0} : n % n = 0 /\ \A x \in 0 .. (n - 1) : x % n = x
  OBVIOUS
<1>3. Candidate(last, 1) = next /\ next \in ProgramNumber
  BY <1>1, <1>2 DEF Candidate, ProgramNumber, After
<1>4. infos[Candidate(last, 1)].fetchAlive
  BY <1>3 DEF Scheduled, EverybodyKeepsTheirTurn
<1>5. \A i \in 1 .. (Size + 1) :
        (\A j \in 1 .. (i - 1) : ~infos[Candidate(last, j)].fetchAlive) => i = 1
  BY <1>4, SizeAssumption
<1>6. (CHOOSE i \in 1 .. (Size + 1) :
         /\ infos[Candidate(last, i)].fetchAlive
         /\ \A j \in 1 .. (i - 1) : ~infos[Candidate(last, j)].fetchAlive) = 1
  BY <1>4, <1>5, SizeAssumption
<1> QED
  BY <1>3, <1>6 DEF NextProgram

(* The number next() returns is a program's.                               *)
LEMMA NextIsProgram ==
  ASSUME Scheduled
  PROVE  NextProgram(infos, lastProcessIndex) \in ProgramNumber
<1>1. lastProcessIndex \in ProgramNumber \cup {-1}
  BY DEF Scheduled, TypeOK
<1>2. 0 \in ProgramNumber
  BY SizeAssumption DEF ProgramNumber
<1> QED
  BY <1>1, <1>2, NextInTurn, Turns
-----------------------------------------------------------------------------
(* Each stage hands on a result of its type.                               *)
IsFetched(x)  == x \in FetchResult /\ (x.valid => x.pn \in ProgramNumber)
IsDecoded(x)  == x \in DecodeResult /\ (x.valid => x.pn \in ProgramNumber)
IsExecuted(x) == x \in ExecutionResult /\ (x.valid => x.pn \in ProgramNumber)
IsAccessed(x) == /\ x \in MemoryAccessResult /\ (x.valid => x.pn \in ProgramNumber)
                 /\ ~x.valid => x.pn = NoProgram

(* The types of the latches, one by one.                                   *)
LEMMA LatchesTyped ==
  TypeOK <=> /\ program \in [Memories -> Programs]
             /\ memory \in [Memories -> [DataAddress -> Word]]
             /\ registers \in [ProgramNumber -> [Register -> Word]]
             /\ infos \in [ProgramNumber -> ProgramInfo]
             /\ lastProcessIndex \in ProgramNumber \cup {-1}
             /\ IsFetched(ifid) /\ IsDecoded(idex)
             /\ IsExecuted(exma) /\ IsAccessed(mawb)
BY DEF TypeOK, IsFetched, IsDecoded, IsExecuted, IsAccessed

(* An empty result is one of the latch it is put in.                       *)
LEMMA EmptyResults ==
  IsDecoded(EmptyIdEx) /\ IsExecuted(EmptyExMa) /\ IsAccessed(EmptyMaWb)
<1>1. 0 \in Word /\ 0 \in Register /\ "NONE" \in Signal /\ NoProgram \in Int
  BY IsaAssumption, ZeroOneWords DEF Signal, NoProgram
<1>2. EmptyIdEx \in DecodeResult /\ EmptyExMa \in ExecutionResult
  BY <1>1 DEF EmptyIdEx, EmptyExMa, DecodeResult, ExecutionResult
<1>3. EmptyMaWb \in MemoryAccessResult
  BY <1>1 DEF EmptyMaWb, MemoryAccessResult
<1> QED
  BY <1>2, <1>3 DEF IsDecoded, IsExecuted, IsAccessed, EmptyIdEx, EmptyExMa, EmptyMaWb

(* The memory of a program holds a text.                                   *)
LEMMA TextOfProgram ==
  ASSUME TypeOK, NEW p \in ProgramNumber
  PROVE  MemoryOf[p] \in Memories /\ IsProgram(program[MemoryOf[p]])
BY ProgramsAssumption, MemoryAssumption DEF TypeOK, Memories

(* Each stage turns a result of its type into one of the next, which       *)
(* belongs to the same program.                                            *)
LEMMA FetchTyped ==
  ASSUME TypeOK, NEW valid \in BOOLEAN, NEW p \in ProgramNumber,
         NEW a \in Int, valid => a >= 0
  PROVE  IsFetched(Fetch(valid, p, a))
<1>1. Nop \in Instruction /\ InstructionAt(program[MemoryOf[p]], a) \in Instruction
  BY TextOfProgram, InstructionType
<1>2. p \in Int
  BY SizeAssumption DEF ProgramNumber
<1>3. Fetch(valid, p, a) \in FetchResult
  BY <1>1, <1>2 DEF Fetch, FetchResult
<1> QED
  BY <1>3 DEF IsFetched, Fetch

(* ... decode ...                                                          *)
LEMMA DecodeTyped ==
  ASSUME TypeOK, NEW x, IsFetched(x)
  PROVE  IsDecoded(Decode(x))
<1>1. CASE ~x.valid
  BY <1>1, EmptyResults DEF Decode
<1>2. CASE x.valid
  <2> DEFINE i    == x.instruction
             file == registers[x.pn]
             d    == [valid |-> TRUE, pn |-> x.pn, pc |-> x.pc, op |-> i.op,
                      imm |-> Immediate(x.pc, i),
                      readData1 |-> file[i.rs], readData2 |-> file[i.rt],
                      writeReg |-> WriteRegister(i.op, i),
                      nextPc |-> CASE i.op = "JR"           -> file[i.rs]
                                   [] i.op \in {"J", "JAL"} -> i.imm
                                   [] OTHER                 -> x.pc]
  <2>1. x.pn \in ProgramNumber /\ x.pn \in Int /\ x.pc \in Nat /\ i \in Instruction
    BY <1>2 DEF IsFetched, FetchResult
  <2>2. /\ i.op \in Signal /\ i.rs \in Register /\ i.rt \in Register
        /\ i.imm \in Word /\ \A w \in Word : w \in Int
    BY <2>1, IsaAssumption DEF Instruction, Signal, Word
  <2>3. file \in [Register -> Word]
    BY <2>1 DEF TypeOK
  <2> HIDE DEF i, file
  <2>4. /\ Immediate(x.pc, i) \in Word /\ WriteRegister(i.op, i) \in Register
        /\ file[i.rs] \in Word /\ file[i.rt] \in Word
    BY <2>1, <2>2, <2>3, ImmediateType, WriteRegisterType
  <2>5. d.nextPc \in Int
    BY <2>1, <2>2, <2>4
  <2>6. d \in DecodeResult
    BY <2>1, <2>2, <2>4, <2>5 DEF DecodeResult
  <2>7. Decode(x) = d
    BY <1>2 DEF Decode, i, file
  <2> QED
    BY <2>1, <2>6, <2>7 DEF IsDecoded
<1> QED
  BY <1>1, <1>2

(* ... execute ...                                                         *)
LEMMA ExecuteTyped ==
  ASSUME NEW x, IsDecoded(x)
  PROVE  IsExecuted(Execute(x))
<1>1. CASE ~x.valid
  BY <1>1, EmptyResults DEF Execute
<1>2. CASE x.valid
  <2> DEFINE v == AluValue(x.op, x.pc, x.imm, x.readData1, x.readData2)
             e == [valid |-> TRUE, pn |-> x.pn, op |-> x.op, aluValue |-> v,
                   readData2 |-> x.readData2, writeReg |-> x.writeReg,
                   nextPc |-> Resolved(x, v)]
  <2>1. /\ x.pn \in ProgramNumber /\ x.pn \in Int /\ x.pc \in Nat /\ x.op \in Signal
        /\ x.imm \in Word /\ x.readData1 \in Word /\ x.readData2 \in Word
        /\ x.writeReg \in Register /\ x.nextPc \in Int
    BY <1>2 DEF IsDecoded, DecodeResult
  <2>2. v \in Word
    BY <2>1, AluValueType
  <2>3. x.imm \in Int
    BY <2>1, IsaAssumption DEF Word
  <2> HIDE DEF v
  <2>4. Resolved(x, v) \in Int
    BY <2>1, <2>3 DEF Resolved
  <2>5. e \in ExecutionResult
    BY <2>1, <2>2, <2>4 DEF ExecutionResult
  <2>6. Execute(x) = e
    BY <1>2 DEF Execute, v
  <2> QED
    BY <2>1, <2>5, <2>6 DEF IsExecuted
<1> QED
  BY <1>1, <1>2

(* ... and memory access, whose store keeps the memories' type.            *)
LEMMA MemoryAccessTyped ==
  ASSUME TypeOK, NEW x, IsExecuted(x)
  PROVE  /\ IsAccessed(MemoryAccess(x))
         /\ Stored(x) \in [Memories -> [DataAddress -> Word]]
<1>1. CASE ~x.valid
  BY <1>1, EmptyResults DEF MemoryAccess, Stored, TypeOK
<1>2. CASE x.valid
  <2> DEFINE data == memory[MemoryOf[x.pn]]
             value == IF MemRead(x.op) THEN ReadWord(data, x.aluValue) ELSE x.aluValue
             m == [valid |-> TRUE, pn |-> x.pn, op |-> x.op, regWriteValue |-> value,
                   writeReg |-> x.writeReg, nextPc |-> x.nextPc]
  <2>1. /\ x.pn \in ProgramNumber /\ x.pn \in Int /\ x.op \in Signal
        /\ x.aluValue \in Word /\ x.readData2 \in Word
        /\ x.writeReg \in Register /\ x.nextPc \in Int
    BY <1>2 DEF IsExecuted, ExecutionResult
  <2>2. MemoryOf[x.pn] \in Memories /\ data \in [DataAddress -> Word]
    BY <2>1, MemoryAssumption DEF TypeOK, Memories
  <2>3. value \in Word /\ WriteWord(data, x.aluValue, x.readData2) \in [DataAddress -> Word]
    BY <2>1, <2>2, MemoryType
  <2> HIDE DEF value
  <2>4. m \in MemoryAccessResult
    BY <2>1, <2>3 DEF MemoryAccessResult
  <2>5. MemoryAccess(x) = m
    BY <1>2 DEF MemoryAccess, value
  <2>6. Stored(x) \in [Memories -> [DataAddress -> Word]]
    BY <2>2, <2>3 DEF Stored, TypeOK
  <2> QED
    BY <2>1, <2>4, <2>5, <2>6 DEF IsAccessed
<1> QED
  BY <1>1, <1>2

(* The write back keeps the register files' type.                          *)
LEMMA WriteBackTyped ==
  ASSUME TypeOK
  PROVE  WriteBack(mawb) \in [ProgramNumber -> [Register -> Word]]
<1>1. CASE mawb.valid
  <2>1. mawb.pn \in ProgramNumber /\ mawb.writeReg \in Register /\ mawb.regWriteValue \in Word
    BY <1>1 DEF TypeOK, MemoryAccessResult
  <2> QED
    BY <2>1 DEF WriteBack, TypeOK
<1>2. CASE ~mawb.valid
  BY <1>2 DEF WriteBack, TypeOK
<1> QED
  BY <1>1, <1>2

(* With nobody out of the round, update() takes nobody out.                *)
LEMMA UpdatedTyped ==
  ASSUME TypeOK, EverybodyKeepsTheirTurn,
         infos' = Updated(infos, mawb.pn, mawb.nextPc)
  PROVE  infos' \in [ProgramNumber -> ProgramInfo] /\ EverybodyKeepsTheirTurn'
<1>1. CASE ~mawb.valid
  BY <1>1 DEF TypeOK, Updated, EverybodyKeepsTheirTurn
<1>2. CASE mawb.valid
  <2> DEFINE out  == {p \in ProgramNumber : ~infos[p].fetchAlive}
             ended == mawb.nextPc = -1
             alive == ~(ended /\ Cardinality(out) > 3)
             info == [nextPc |-> mawb.nextPc, processEnd |-> ended, fetchAlive |-> alive]
  <2>1. mawb.pn \in ProgramNumber /\ mawb.pn # NoProgram /\ mawb.nextPc \in Int
    BY <1>2 DEF TypeOK, MemoryAccessResult, ProgramNumber, NoProgram
  <2>2. Cardinality(out) = 0
    <3>1. out = {}
      BY DEF EverybodyKeepsTheirTurn
    <3> QED
      BY <3>1, FS_EmptySet
  <2>3. info \in ProgramInfo /\ info.fetchAlive
    <3>1. ended \in BOOLEAN /\ alive = TRUE
      BY <2>2
    <3> HIDE DEF ended, alive
    <3> QED
      BY <2>1, <3>1 DEF ProgramInfo
  <2>4. infos' = [infos EXCEPT ![mawb.pn] = info]
    BY <2>1 DEF Updated
  <2> HIDE DEF info
  <2>5. infos' \in [ProgramNumber -> ProgramInfo]
    BY <2>3, <2>4 DEF TypeOK
  <2>6. \A p \in ProgramNumber : infos'[p] = IF p = mawb.pn THEN info ELSE infos[p]
    BY <2>1, <2>4 DEF TypeOK
  <2>7. EverybodyKeepsTheirTurn'
    BY <2>3, <2>6 DEF EverybodyKeepsTheirTurn
  <2> QED
    BY <2>5, <2>7
<1> QED
  BY <1>1, <1>2

(* Who is where after a cycle.                                             *)
LEMMA LatchesMoveOn ==
  /\ \A valid, p, a : Fetch(valid, p, a).valid = valid /\ Fetch(valid, p, a).pn = p
  /\ \A x : /\ Decode(x).valid <=> x.valid
            /\ x.valid => Decode(x).pn = x.pn
            /\ Execute(x).valid <=> x.valid
            /\ x.valid => Execute(x).pn = x.pn
            /\ MemoryAccess(x).valid <=> x.valid
            /\ x.valid => MemoryAccess(x).pn = x.pn
<1>1. \A valid, p, a : Fetch(valid, p, a).valid = valid /\ Fetch(valid, p, a).pn = p
  BY DEF Fetch
<1>2. ASSUME NEW x
      PROVE  /\ Decode(x).valid <=> x.valid
             /\ x.valid => Decode(x).pn = x.pn
  BY DEF Decode, EmptyIdEx
<1>3. ASSUME NEW x
      PROVE  /\ Execute(x).valid <=> x.valid
             /\ x.valid => Execute(x).pn = x.pn
  BY DEF Execute, EmptyExMa
<1>4. ASSUME NEW x
      PROVE  /\ MemoryAccess(x).valid <=> x.valid
             /\ x.valid => MemoryAccess(x).pn = x.pn
  BY DEF MemoryAccess, EmptyMaWb
<1> QED
  BY <1>1, <1>2, <1>3, <1>4

(* The scheduling invariant holds in the first state ...                   *)
LEMMA InitScheduled == Init => Scheduled
<1> SUFFICES ASSUME Init
             PROVE  Scheduled
  OBVIOUS
<1>1. TypeOK
  <2>1. ifid \in FetchResult
    BY InstructionType DEF Init, FetchResult, NoProgram
  <2>2. infos \in [ProgramNumber -> ProgramInfo]
    BY DEF Init, InitialInfos, ProgramInfo
  <2>3. /\ program \in [Memories -> Programs]
        /\ memory \in [Memories -> [DataAddress -> Word]]
        /\ registers \in [ProgramNumber -> [Register -> Word]]
        /\ lastProcessIndex \in ProgramNumber \cup {-1}
    BY InitialWords DEF Init
  <2>4. IsDecoded(idex) /\ IsExecuted(exma) /\ IsAccessed(mawb)
    BY EmptyResults DEF Init
  <2>5. ~ifid.valid
    BY DEF Init
  <2> QED
    BY <2>1, <2>2, <2>3, <2>4, <2>5, LatchesTyped DEF IsFetched
<1>2. EverybodyKeepsTheirTurn
  BY DEF Init, InitialInfos, EverybodyKeepsTheirTurn
<1>3. ~ifid.valid /\ ~idex.valid /\ ~exma.valid /\ ~mawb.valid
  BY DEF Init, EmptyIdEx, EmptyExMa, EmptyMaWb
<1> QED
  BY <1>1, <1>2, <1>3 DEF Scheduled, InTurn

(* ... each cycle moves every turn one latch on ...                        *)
LEMMA StepScheduled == Scheduled /\ [Next]_vars => Scheduled'
<1> SUFFICES ASSUME Scheduled, [Next]_vars
             PROVE  Scheduled'
  OBVIOUS
<1> USE DEF Scheduled
<1>1. CASE CycleExecution
  <2> DEFINE next == NextProgram(infos, lastProcessIndex)
             info == infos[next]
  <2>1. next \in ProgramNumber
    BY NextIsProgram
  <2>2. /\ info.processEnd \in BOOLEAN /\ info.nextPc \in Int
        /\ ~info.processEnd => info.nextPc >= 0
    BY <1>1, <2>1 DEF CycleExecution, TypeOK, ProgramInfo
  <2>3. /\ lastProcessIndex' = next /\ ifid' = Fetch(~info.processEnd, next, info.nextPc)
        /\ idex' = Decode(ifid) /\ exma' = Execute(idex) /\ mawb' = MemoryAccess(exma)
        /\ memory' = Stored(exma) /\ registers' = WriteBack(mawb)
        /\ infos' = Updated(infos, mawb.pn, mawb.nextPc) /\ program' = program
    BY <1>1 DEF CycleExecution
  <2> HIDE DEF next, info
  <2>4. infos' \in [ProgramNumber -> ProgramInfo] /\ EverybodyKeepsTheirTurn'
    BY <2>3, UpdatedTyped
  <2>5. TypeOK'
    <3>1. IsFetched(ifid)' /\ IsDecoded(idex)' /\ IsExecuted(exma)' /\ IsAccessed(mawb)'
      <4>1. IsFetched(ifid)'
        BY <2>1, <2>2, <2>3, FetchTyped DEF IsFetched
      <4>2. IsDecoded(idex)'
        BY <2>3, LatchesTyped, DecodeTyped DEF IsDecoded
      <4>3. IsExecuted(exma)'
        BY <2>3, LatchesTyped, ExecuteTyped DEF IsExecuted
      <4>4. IsAccessed(mawb)'
        BY <2>3, LatchesTyped, MemoryAccessTyped DEF IsAccessed
      <4> QED
        BY <4>1, <4>2, <4>3, <4>4
    <3>2. /\ memory' \in [Memories -> [DataAddress -> Word]]
          /\ registers' \in [ProgramNumber -> [Register -> Word]]
      BY <2>3, LatchesTyped, MemoryAccessTyped, WriteBackTyped
    <3> QED
      BY <2>1, <2>3, <2>4, <3>1, <3>2
         DEF TypeOK, IsFetched, IsDecoded, IsExecuted, IsAccessed
  <2>6. InTurn'
    <3>1. next # -1
      BY <2>1 DEF ProgramNumber
    <3>2. ifid'.pn = next
      BY <2>3, LatchesMoveOn
    <3>3. lastProcessIndex # -1 => next = After(lastProcessIndex) /\ Before(next) = lastProcessIndex
      BY NextInTurn, Turns DEF TypeOK, next
    <3>4. /\ idex'.valid <=> ifid.valid
          /\ exma'.valid <=> idex.valid
          /\ mawb'.valid <=> exma.valid
          /\ ifid.valid => idex'.pn = ifid.pn
          /\ idex.valid => exma'.pn = idex.pn
          /\ exma.valid => mawb'.pn = exma.pn
      BY <2>3, LatchesMoveOn
    <3> QED
      BY <2>3, <3>1, <3>2, <3>3, <3>4 DEF InTurn
  <2> QED
    BY <2>4, <2>5, <2>6
<1>2. CASE UNCHANGED vars
  BY <1>2 DEF vars, latches, TypeOK, EverybodyKeepsTheirTurn, InTurn
<1> QED
  BY <1>1, <1>2 DEF Next, Terminated

(* ... so it always holds.                                                 *)
LEMMA SchedulingInvariance == Spec => []Scheduled
BY InitScheduled, StepScheduled, PTL DEF Spec

(* Every latch, register and program counter keeps its type, whatever the  *)
(* number of programs and whether they share a memory.                     *)
THEOREM TypeCorrect == Spec => []TypeOK
BY SchedulingInvariance, PTL DEF Scheduled

(* With five programs the stages of a cycle belong to different ones.      *)
LEMMA DifferentPrograms ==
  ASSUME Size >= 5, Scheduled
  PROVE  /\ ifid.valid /\ idex.valid => ifid.pn # idex.pn
         /\ ifid.valid /\ exma.valid => ifid.pn # exma.pn
         /\ ifid.valid /\ mawb.valid => ifid.pn # mawb.pn
         /\ idex.valid /\ exma.valid => idex.pn # exma.pn
         /\ idex.valid /\ mawb.valid => idex.pn # mawb.pn
         /\ exma.valid /\ mawb.valid => exma.pn # mawb.pn
         /\ LET next == NextProgram(infos, lastProcessIndex)
            IN  /\ ifid.valid => ifid.pn # next
                /\ idex.valid => idex.pn # next
                /\ exma.valid => exma.pn # next
                /\ mawb.valid => mawb.pn # next
<1>1. CASE lastProcessIndex = -1
  BY <1>1 DEF Scheduled, InTurn
<1>2. CASE lastProcessIndex \in ProgramNumber
  BY <1>2, NextInTurn, SizeAssumption
     DEF Scheduled, InTurn, ProgramNumber, Before, After
<1> QED
  BY <1>1, <1>2 DEF Scheduled, TypeOK

(* What the README builds on holds with five programs or more: the stages  *)
(* of a cycle, the fetch included, never hold two instructions of one      *)
(* program.                                                                *)
THEOREM DifferentProgramsAlways ==
  ASSUME Size >= 5
  PROVE  Spec => []StagesHoldDifferentPrograms
<1>1. Scheduled => StagesHoldDifferentPrograms
  <2> SUFFICES ASSUME Scheduled, NEW k \in 1 .. 4, latches[k].valid
               PROVE  /\ \A j \in 1 .. 4 : latches[j].valid /\ j # k =>
                           latches[j].pn # latches[k].pn
                      /\ latches[k].pn # NextProgram(infos, lastProcessIndex)
    BY DEF StagesHoldDifferentPrograms
  <2>1. /\ latches[1] = ifid /\ latches[2] = idex
        /\ latches[3] = exma /\ latches[4] = mawb
    BY DEF latches
  <2> QED
    BY <2>1, DifferentPrograms
<1> QED
  BY <1>1, SchedulingInvariance, PTL
-----------------------------------------------------------------------------
(* What is in flight is what a program would compute now: since nobody     *)
(* else is at its registers, they are as they were when they were read.    *)
Fetched(p) == Fetch(TRUE, p, infos[p].nextPc)

UpToDate ==
  \A p \in ProgramNumber :
    /\ ifid.valid /\ ifid.pn = p => infos[p].nextPc >= 0 /\ ifid = Fetched(p)
    /\ idex.valid /\ idex.pn = p => infos[p].nextPc >= 0 /\ idex = Decode(Fetched(p))
    /\ exma.valid /\ exma.pn = p =>
         infos[p].nextPc >= 0 /\ exma = Execute(Decode(Fetched(p)))

(* A cycle writes back to no program but the one in mawb.                  *)
LEMMA OthersUntouched ==
  ASSUME TypeOK, CycleExecution, NEW p \in ProgramNumber, ~(mawb.valid /\ mawb.pn = p)
  PROVE  /\ registers'[p] = registers[p] /\ infos'[p] = infos[p]
         /\ Fetched(p)' = Fetched(p)
         /\ Decode(Fetched(p))' = Decode(Fetched(p))
         /\ Execute(Decode(Fetched(p)))' = Execute(Decode(Fetched(p)))
<1>1. program' = program /\ registers' = WriteBack(mawb)
      /\ infos' = Updated(infos, mawb.pn, mawb.nextPc)
  BY DEF CycleExecution
<1>2. registers'[p] = registers[p]
  BY <1>1 DEF WriteBack, TypeOK
<1>3. infos'[p] = infos[p]
  BY <1>1 DEF Updated, TypeOK, ProgramNumber
<1>4. Fetched(p)' = Fetched(p)
  BY <1>1, <1>3 DEF Fetched, Fetch
<1>5. Decode(Fetched(p))' = Decode(Fetched(p))
  <2>1. Fetched(p).pn = p
    BY DEF Fetched, Fetch
  <2> QED
    BY <1>2, <1>4, <2>1 DEF Decode
<1>6. Execute(Decode(Fetched(p)))' = Execute(Decode(Fetched(p)))
  BY <1>5 DEF Execute
<1> QED
  BY <1>2, <1>3, <1>4, <1>5, <1>6

(* Nothing is in flight in the first state ...                             *)
LEMMA InitUpToDate == Init => UpToDate
BY DEF Init, UpToDate, EmptyIdEx, EmptyExMa

(* ... what is fetched, decoded and executed in a cycle reads a state that *)
(* nothing older in the pipeline will change ...                           *)
LEMMA StepUpToDate ==
  ASSUME Size >= 5
  PROVE  Scheduled /\ UpToDate /\ [Next]_vars => UpToDate'
<1> SUFFICES ASSUME Scheduled, UpToDate, [Next]_vars
             PROVE  UpToDate'
  OBVIOUS
<1>1. CASE CycleExecution
  <2> DEFINE next == NextProgram(infos, lastProcessIndex)
  <2>1. next \in ProgramNumber /\ ~(mawb.valid /\ mawb.pn = next)
    BY NextIsProgram, DifferentPrograms
  <2>2. /\ ifid' = Fetch(~infos[next].processEnd, next, infos[next].nextPc)
        /\ ~infos[next].processEnd => infos[next].nextPc >= 0
        /\ infos[next].processEnd \in BOOLEAN
        /\ idex' = Decode(ifid) /\ exma' = Execute(idex)
    BY <1>1, <2>1 DEF CycleExecution, Scheduled, TypeOK, ProgramInfo
  <2> HIDE DEF next
  <2> SUFFICES ASSUME NEW p \in ProgramNumber
               PROVE  /\ ifid'.valid /\ ifid'.pn = p =>
                           infos'[p].nextPc >= 0 /\ ifid' = Fetched(p)'
                      /\ idex'.valid /\ idex'.pn = p =>
                           infos'[p].nextPc >= 0 /\ idex' = Decode(Fetched(p))'
                      /\ exma'.valid /\ exma'.pn = p =>
                           /\ infos'[p].nextPc >= 0
                           /\ exma' = Execute(Decode(Fetched(p)))'
    BY DEF UpToDate
  <2>3. ~(mawb.valid /\ mawb.pn = p) =>
          /\ infos'[p] = infos[p] /\ Fetched(p)' = Fetched(p)
          /\ Decode(Fetched(p))' = Decode(Fetched(p))
          /\ Execute(Decode(Fetched(p)))' = Execute(Decode(Fetched(p)))
    BY <1>1, OthersUntouched DEF Scheduled
  <2>4. ASSUME ifid'.valid, ifid'.pn = p
        PROVE  infos'[p].nextPc >= 0 /\ ifid' = Fetched(p)'
    <3>1. ~infos[next].processEnd /\ p = next
      <4>1. ifid'.pn = next
        BY <2>2 DEF Fetch
      <4>2. ifid'.valid = ~infos[next].processEnd
        BY <2>2 DEF Fetch
      <4> QED
        BY <2>2, <2>4, <4>1, <4>2
    <3>2. ifid' = Fetched(p)
      BY <2>2, <3>1 DEF Fetched
    <3> QED
      BY <2>1, <2>2, <2>3, <3>1, <3>2
  <2>5. ASSUME idex'.valid, idex'.pn = p
        PROVE  infos'[p].nextPc >= 0 /\ idex' = Decode(Fetched(p))'
    <3>1. ifid.valid /\ ifid.pn = p
      BY <2>2, <2>5, LatchesMoveOn
    <3>2. ~(mawb.valid /\ mawb.pn = p)
      BY <3>1, DifferentPrograms
    <3>3. infos[p].nextPc >= 0 /\ ifid = Fetched(p)
      BY <3>1 DEF UpToDate
    <3> QED
      BY <2>2, <2>3, <3>2, <3>3
  <2>6. ASSUME exma'.valid, exma'.pn = p
        PROVE  infos'[p].nextPc >= 0 /\ exma' = Execute(Decode(Fetched(p)))'
    <3>1. idex.valid /\ idex.pn = p
      BY <2>2, <2>6, LatchesMoveOn
    <3>2. ~(mawb.valid /\ mawb.pn = p)
      BY <3>1, DifferentPrograms
    <3>3. infos[p].nextPc >= 0 /\ idex = Decode(Fetched(p))
      BY <3>1 DEF UpToDate
    <3> QED
      BY <2>2, <2>3, <3>2, <3>3
  <2> QED
    BY <2>4, <2>5, <2>6
<1>2. CASE UNCHANGED vars
  <2>1. /\ program' = program /\ registers' = registers /\ infos' = infos
        /\ ifid' = ifid /\ idex' = idex /\ exma' = exma
    BY <1>2 DEF vars, latches
  <2>2. ASSUME NEW p \in ProgramNumber
        PROVE  /\ Fetched(p)' = Fetched(p)
               /\ Decode(Fetched(p))' = Decode(Fetched(p))
               /\ Execute(Decode(Fetched(p)))' = Execute(Decode(Fetched(p)))
    <3>1. Fetched(p)' = Fetched(p)
      BY <2>1 DEF Fetched, Fetch
    <3>2. Decode(Fetched(p))' = Decode(Fetched(p))
      BY <2>1, <3>1 DEF Decode
    <3> QED
      BY <3>1, <3>2 DEF Execute
  <2> QED
    BY <2>1, <2>2 DEF UpToDate
<1> QED
  BY <1>1, <1>2 DEF Next, Terminated

(* ... so what the latches hold is never out of date.                      *)
LEMMA UpToDateInvariance ==
  ASSUME Size >= 5
  PROVE  Spec => [](Scheduled /\ UpToDate)
BY InitUpToDate, StepUpToDate, SchedulingInvariance, PTL DEF Spec
-----------------------------------------------------------------------------
(* The architecture each program is compared with is instantiated with the *)
(* constants of this module.                                               *)
LEMMA SameWords ==
  ASSUME NEW p
  PROVE  /\ \A x : Arch(p)!Wrap(x) = Wrap(x)
         /\ \A b : Arch(p)!Bool(b) = Bool(b)
         /\ \A mem, a : Arch(p)!ReadWord(mem, a) = ReadWord(mem, a)
         /\ \A mem, a, v : Arch(p)!WriteWord(mem, a, v) = WriteWord(mem, a, v)
         /\ Arch(p)!InitialRegisters = InitialRegisters
BY DEF Arch!Wrap, Wrap, Arch!Bool, Bool, Arch!ReadWord, ReadWord,
       Arch!WriteWord, WriteWord, Arch!InitialRegisters, InitialRegisters

(* ... and reads texts as this module does.                                *)
LEMMA SamePrograms ==
  ASSUME NEW p
  PROVE  /\ \A text : Arch(p)!IsProgram(text) <=> IsProgram(text)
         /\ \A text, a : Arch(p)!InstructionAt(text, a) = InstructionAt(text, a)
         /\ \A text, a : Arch(p)!NextInstruction(text, a) = NextInstruction(text, a)
<1>1. Arch(p)!Nop = Nop /\ Arch(p)!Off = Off
  BY DEF Arch!Nop, Nop, Arch!Off, Off
<1>2. Arch(p)!Instruction = Instruction
  BY DEF Arch!Instruction, Instruction, Arch!Opcode, Opcode, Arch!RType, RType,
         Arch!IType, IType, Arch!JType, JType, Arch!Word, Word
<1>3. \A text, a : Arch(p)!InstructionAt(text, a) = InstructionAt(text, a)
  BY <1>1 DEF Arch!InstructionAt, InstructionAt
<1>4. \A text, a : Arch(p)!NextInstruction(text, a) = NextInstruction(text, a)
  BY <1>1, <1>3 DEF Arch!NextInstruction, NextInstruction
<1> QED
  BY <1>2, <1>3, <1>4 DEF Arch!IsProgram, IsProgram

(* The control signals say which register an instruction defines.          *)
LEMMA SignalsAgree ==
  ASSUME NEW p, NEW i \in Instruction
  PROVE  /\ RegWrite(i.op) <=> Arch(p)!Defines(i)
         /\ Arch(p)!Defines(i) => WriteRegister(i.op, i) = Arch(p)!Target(i)
         /\ MemWrite(i.op) <=> i.op = "SW"
BY DEF Instruction, Opcode, RType, IType, JType, RegWrite, RegDest, MemWrite,
       WriteRegister, Arch!Defines, Arch!Target

(* The value that is written is the one the architecture computes.         *)
LEMMA ResultsAgree ==
  ASSUME NEW p, NEW i \in Instruction, NEW a \in Nat, NEW s \in Word, NEW t \in Word,
         NEW mem, Arch(p)!Defines(i)
  PROVE  LET v == AluValue(i.op, a, Immediate(a, i), s, t)
         IN  (IF MemRead(i.op) THEN ReadWord(mem, v) ELSE v)
               = Arch(p)!Result(i, a, s, t, mem)
<1> USE SameWords
    DEF AluValue, Operate, AluSrc, RegDest, IsBranch, IsShift, MemRead,
        Immediate, RType, Arch!Result, Arch!Defines
<1>1. CASE i.op \in {"ADDU", "SUBU", "SLT", "SLL"}
  BY <1>1
<1>2. CASE i.op \in {"ADDI", "ADDIU", "SLTI", "ORI"}
  BY <1>2
<1>3. CASE i.op \in {"LUI", "LW", "JAL"}
  BY <1>3
<1> QED
  BY <1>1, <1>2, <1>3 DEF Instruction, Opcode, IType, JType

(* What the stages up to execute make of an instruction.                   *)
LEMMA ExecutedFields ==
  ASSUME TypeOK, NEW p \in ProgramNumber, infos[p].nextPc >= 0,
         NEW a, a = infos[p].nextPc,
         NEW i, i = InstructionAt(program[MemoryOf[p]], a),
         NEW s, s = registers[p][i.rs], NEW t, t = registers[p][i.rt],
         NEW v, v = AluValue(i.op, a, Immediate(a, i), s, t),
         NEW x, x = Execute(Decode(Fetched(p)))
  PROVE  /\ x.op = i.op /\ x.aluValue = v /\ x.readData2 = t
         /\ x.writeReg = WriteRegister(i.op, i)
         /\ x.nextPc = Arch(p)!Successor(i, a, s, t)
         /\ i.op = "SW" => v = Wrap(s + i.imm)
<1>1. a \in Nat /\ i \in Instruction
  BY TextOfProgram, InstructionType DEF TypeOK, ProgramInfo
<1>2. /\ Fetched(p).valid /\ Fetched(p).pn = p
      /\ Fetched(p).pc = a /\ Fetched(p).instruction = i
  BY DEF Fetched, Fetch
<1> DEFINE d == Decode(Fetched(p))
<1>3. /\ d.valid /\ d.pc = a /\ d.op = i.op /\ d.imm = Immediate(a, i)
      /\ d.readData1 = s /\ d.readData2 = t
      /\ d.writeReg = WriteRegister(i.op, i)
      /\ d.nextPc = CASE i.op = "JR"           -> s
                       [] i.op \in {"J", "JAL"} -> i.imm
                       [] OTHER                 -> a
  BY <1>2 DEF Decode
<1> HIDE DEF d
<1>4. /\ x.op = i.op /\ x.aluValue = v /\ x.readData2 = t
      /\ x.writeReg = WriteRegister(i.op, i)
      /\ x.nextPc = Resolved(d, v)
  BY <1>3 DEF Execute, d
<1>5. i.op = "SW" => v = Wrap(s + i.imm)
  BY DEF AluValue, Operate, AluSrc, RegDest, IsBranch, IsShift, Immediate, RType
<1>6. Resolved(d, v) = Arch(p)!Successor(i, a, s, t)
  <2>1. CASE IsBranch(i.op)
    <3>1. Immediate(a, i) = Wrap(a + 4 + i.imm)
      BY <2>1 DEF Immediate
    <3>2. /\ i.op = "BEQ" => v = IF s = t THEN 1 ELSE 0
          /\ i.op = "BNE" => v = IF s # t THEN 1 ELSE 0
      <4>1. v = Operate(i.op, s, t)
        BY <2>1 DEF AluValue, AluSrc, RegDest, IsBranch, IsShift, RType
      <4>2. /\ Operate("BEQ", s, t) = IF s = t THEN 1 ELSE 0
            /\ Operate("BNE", s, t) = IF s # t THEN 1 ELSE 0
        BY DEF Operate, Bool
      <4> QED
        BY <4>1, <4>2
    <3>3. \A y : Arch(p)!Wrap(y) = Wrap(y)
      BY SameWords
    <3>4. Resolved(d, v) = IF v = 1 THEN Immediate(a, i) ELSE a + 4
      BY <1>3, <2>1 DEF Resolved, IsBranch, IsJump
    <3>5. CASE i.op = "BEQ"
      <4>1. Arch(p)!Successor(i, a, s, t) = IF s = t THEN Wrap(a + 4 + i.imm) ELSE a + 4
        BY <3>3, <3>5 DEF Arch!Successor
      <4>2. CASE s = t
        <5>1. v = 1
          BY <3>2, <3>5, <4>2
        <5> QED
          BY <3>1, <3>4, <4>1, <4>2, <5>1
      <4>3. CASE s # t
        <5>1. v = 0
          BY <3>2, <3>5, <4>3
        <5> QED
          BY <3>4, <4>1, <4>3, <5>1
      <4> QED
        BY <4>2, <4>3
    <3>6. CASE i.op = "BNE"
      <4>1. Arch(p)!Successor(i, a, s, t) = IF s # t THEN Wrap(a + 4 + i.imm) ELSE a + 4
        BY <3>3, <3>6 DEF Arch!Successor
      <4>2. CASE s # t
        <5>1. v = 1
          BY <3>2, <3>6, <4>2
        <5> QED
          BY <3>1, <3>4, <4>1, <4>2, <5>1
      <4>3. CASE s = t
        <5>1. v = 0
          BY <3>2, <3>6, <4>3
        <5>2. Resolved(d, v) = a + 4
          BY <3>4, <5>1
        <5>3. Arch(p)!Successor(i, a, s, t) = a + 4
          BY <4>1, <4>3
        <5> QED
          BY <5>2, <5>3
      <4> QED
        BY <4>2, <4>3
    <3> QED
      BY <2>1, <3>5, <3>6 DEF IsBranch
  <2>2. CASE ~IsBranch(i.op)
    BY <1>3, <2>2 DEF Resolved, IsBranch, IsJump, Arch!Successor
  <2> QED
    BY <2>1, <2>2
<1> QED
  BY <1>4, <1>5, <1>6

(* Its own state, as the architecture sees it, while an instruction of it  *)
(* is not yet in mawb.                                                     *)
LEMMA NotRetiring ==
  ASSUME NEW p, ~(mawb.valid /\ mawb.pn = p)
  PROVE  RetiredPc(p) = infos[p].nextPc /\ RetiredRegisters(p) = registers[p]
BY DEF RetiredPc, RetiredRegisters

(* Retiring: what counted as written is written.                           *)
LEMMA Retirement ==
  ASSUME TypeOK, CycleExecution, NEW p \in ProgramNumber
  PROVE  registers'[p] = RetiredRegisters(p) /\ infos'[p].nextPc = RetiredPc(p)
<1>1. registers' = WriteBack(mawb) /\ infos' = Updated(infos, mawb.pn, mawb.nextPc)
  BY DEF CycleExecution
<1>2. CASE mawb.valid /\ mawb.pn = p
  <2>1. mawb.pn # NoProgram
    BY <1>2 DEF ProgramNumber, NoProgram
  <2>2. infos'[p].nextPc = mawb.nextPc
    BY <1>1, <1>2, <2>1 DEF Updated, TypeOK
  <2> QED
    BY <1>1, <1>2, <2>2 DEF RetiredPc, RetiredRegisters
<1>3. CASE ~(mawb.valid /\ mawb.pn = p)
  BY <1>3, NotRetiring, OthersUntouched
<1> QED
  BY <1>2, <1>3

(* A cycle in which no instruction of a program leaves the memory stage    *)
(* changes nothing of what it sees, unless its memory is stored to.        *)
LEMMA CycleIsInvisible ==
  ASSUME TypeOK, CycleExecution, NEW p \in ProgramNumber,
         Stored(exma)[MemoryOf[p]] = memory[MemoryOf[p]],
         ~(exma.valid /\ exma.pn = p)
  PROVE  UNCHANGED Arch(p)!vars
<1>1. mawb' = MemoryAccess(exma) /\ memory' = Stored(exma) /\ program' = program
  BY DEF CycleExecution
<1>2. ~(mawb'.valid /\ mawb'.pn = p)
  BY <1>1, LatchesMoveOn
<1>3. RetiredPc(p)' = infos'[p].nextPc /\ RetiredRegisters(p)' = registers'[p]
  BY <1>2 DEF RetiredPc, RetiredRegisters
<1>4. memory'[MemoryOf[p]] = memory[MemoryOf[p]]
  BY <1>1
<1>5. RetiredPc(p)' = RetiredPc(p) /\ RetiredRegisters(p)' = RetiredRegisters(p)
  BY <1>3, Retirement
<1> QED
  BY <1>1, <1>4, <1>5, SamePrograms DEF Arch!vars

(* When it leaves the memory stage, an instruction takes effect; a no-op   *)
(* does so without a trace.                                                *)
LEMMA CycleTakesEffect ==
  ASSUME Size >= 5, Scheduled, UpToDate, CycleExecution,
         NEW p \in ProgramNumber, exma.valid, exma.pn = p
  PROVE  [Arch(p)!Next]_(Arch(p)!vars)
<1> DEFINE text  == program[MemoryOf[p]]
           data  == memory[MemoryOf[p]]
           a     == infos[p].nextPc
           i     == InstructionAt(text, a)
           s     == registers[p][i.rs]
           t     == registers[p][i.rt]
           v     == AluValue(i.op, a, Immediate(a, i), s, t)
           value == IF MemRead(i.op) THEN ReadWord(data, v) ELSE v
           dest  == WriteRegister(i.op, i)
<1>1. /\ a \in Nat /\ exma = Execute(Decode(Fetched(p)))
      /\ ~(mawb.valid /\ mawb.pn = p) /\ TypeOK
  <2>1. infos[p].nextPc \in Int
    BY DEF Scheduled, TypeOK, ProgramInfo
  <2> QED
    BY <2>1, DifferentPrograms DEF UpToDate, Scheduled
<1>2. IsProgram(text) /\ i \in Instruction /\ MemoryOf[p] \in Memories
  BY <1>1, TextOfProgram, InstructionType
<1>3. s \in Word /\ t \in Word /\ dest \in Register /\ registers[p] \in [Register -> Word]
  BY <1>1, <1>2, WriteRegisterType DEF TypeOK, Instruction
<1>4. /\ exma.op = i.op /\ exma.aluValue = v /\ exma.readData2 = t /\ exma.writeReg = dest
      /\ exma.nextPc = Arch(p)!Successor(i, a, s, t)
      /\ i.op = "SW" => v = Wrap(s + i.imm)
  BY <1>1, ExecutedFields
<1>5. Arch(p)!Defines(i) => value = Arch(p)!Result(i, a, s, t, data)
  BY <1>1, <1>2, <1>3, ResultsAgree
<1>6. /\ mawb' = MemoryAccess(exma) /\ memory' = Stored(exma) /\ program' = program
      /\ registers'[p] = registers[p] /\ registers' \in [ProgramNumber -> [Register -> Word]]
  BY <1>1, OthersUntouched, WriteBackTyped DEF CycleExecution
<1> HIDE DEF text, i, s, t, v, value, dest
<1>7. RetiredPc(p) = a /\ RetiredRegisters(p) = registers[p]
  BY <1>1, NotRetiring
<1> HIDE DEF a
<1>8. /\ mawb'.valid /\ mawb'.pn = p /\ mawb'.op = i.op /\ mawb'.regWriteValue = value
      /\ mawb'.writeReg = dest /\ mawb'.nextPc = exma.nextPc
  BY <1>4, <1>6 DEF MemoryAccess, value
<1>9. RetiredPc(p)' = Arch(p)!Successor(i, a, s, t)
  BY <1>4, <1>8 DEF RetiredPc
<1>10. RetiredRegisters(p)' = IF RegWrite(i.op)
                              THEN [registers[p] EXCEPT ![dest] = value] ELSE registers[p]
  <2>1. RetiredRegisters(p)' = IF RegWrite(i.op)
                               THEN [registers' EXCEPT ![p][dest] = value][p]
                               ELSE registers'[p]
    BY <1>8 DEF RetiredRegisters, WriteBack
  <2>2. [registers' EXCEPT ![p][dest] = value][p] = [registers'[p] EXCEPT ![dest] = value]
    BY <1>6
  <2> QED
    BY <1>6, <2>1, <2>2
<1>11. memory'[MemoryOf[p]] = IF i.op = "SW" THEN WriteWord(data, Wrap(s + i.imm), t)
                              ELSE data
  <2>1. CASE MemWrite(i.op)
    BY <1>1, <1>2, <1>4, <1>6, <2>1 DEF Stored, MemWrite, TypeOK
  <2>2. CASE ~MemWrite(i.op)
    BY <1>4, <1>6, <2>2 DEF Stored, MemWrite
  <2> QED
    BY <2>1, <2>2
<1>12. program'[MemoryOf[p]] = text /\ program[MemoryOf[p]] = text
       /\ memory[MemoryOf[p]] = data
  BY <1>6 DEF text
<1> HIDE DEF data
<1>13. CASE i = Nop
  <2>1. /\ i.op = "SLL" /\ i.rs = 0 /\ i.rt = 0 /\ i.rd = 0 /\ i.imm = 0
        /\ Immediate(a, i) = 0 /\ dest = 0
    BY <1>13 DEF Nop, Immediate, IsBranch, WriteRegister, RegDest, RType, dest
  <2>2. s = registers[p][0] /\ t = registers[p][0]
    BY <2>1 DEF s, t
  <2>3. v = ShiftLeft(t, 0) /\ ShiftLeft(t, 0) = t
    BY <1>3, <2>1, IsaAssumption DEF v, AluValue, Operate, IsShift
  <2>4. value = t /\ RegWrite(i.op)
    BY <2>1, <2>3 DEF value, MemRead, RegWrite
  <2>5. RetiredRegisters(p)' = RetiredRegisters(p)
    BY <1>3, <1>7, <1>10, <2>1, <2>2, <2>4
  <2>6. memory'[MemoryOf[p]] = memory[MemoryOf[p]]
    BY <1>11, <1>12, <2>1
  <2>7. NextInstruction(text, a + 4) = NextInstruction(text, a)
    BY <1>1, <1>2, <1>13, NextInstructionSkips DEF i, a
  <2>8. Arch(p)!Successor(i, a, s, t) = a + 4
    BY <2>1 DEF Arch!Successor
  <2>9. NextInstruction(program'[MemoryOf[p]], RetiredPc(p)')
          = NextInstruction(program[MemoryOf[p]], RetiredPc(p))
    BY <1>7, <1>9, <1>12, <2>7, <2>8
  <2> QED
    BY <1>6, <1>12, <2>5, <2>6, <2>9, SamePrograms DEF Arch!vars
<1>14. CASE i # Nop
  <2>1. NextInstruction(text, a) = a /\ a >= 0
    BY <1>1, <1>14 DEF NextInstruction, i, a
  <2>2. Arch(p)!InstructionAt(text, a) = i
    BY SamePrograms DEF i
  <2>3. RetiredRegisters(p)' = IF Arch(p)!Defines(i)
                               THEN [registers[p] EXCEPT ![Arch(p)!Target(i)] =
                                       Arch(p)!Result(i, a, s, t, data)]
                               ELSE registers[p]
    BY <1>2, <1>5, <1>10, SignalsAgree DEF dest
  <2>4. memory'[MemoryOf[p]] =
          IF i.op = "SW" THEN Arch(p)!WriteWord(data, Arch(p)!Wrap(s + i.imm), t) ELSE data
    BY <1>11, SameWords
  <2>5. NextInstruction(program'[MemoryOf[p]], RetiredPc(p)')
          = Arch(p)!NextInstruction(text, Arch(p)!Successor(i, a, s, t))
    BY <1>9, <1>12, SamePrograms
  <2>6. NextInstruction(program[MemoryOf[p]], RetiredPc(p)) = a
    BY <1>7, <1>12, <2>1
  <2>7. s = RetiredRegisters(p)[i.rs] /\ t = RetiredRegisters(p)[i.rt]
    BY <1>7 DEF s, t
  <2>8. RetiredRegisters(p)' = IF Arch(p)!Defines(i)
                               THEN [RetiredRegisters(p) EXCEPT ![Arch(p)!Target(i)] =
                                       Arch(p)!Result(i, a, s, t, data)]
                               ELSE RetiredRegisters(p)
    BY <1>7, <2>3
  <2>9. Arch(p)!Step
    BY <1>12, <2>1, <2>2, <2>4, <2>5, <2>6, <2>7, <2>8 DEF Arch!Step
  <2> QED
    BY <2>9 DEF Arch!Next
<1> QED
  BY <1>13, <1>14

(* Each program starts as the architecture does.                           *)
LEMMA StartsAlone ==
  ASSUME Init, NEW p \in ProgramNumber
  PROVE  Arch(p)!Init
<1>1. /\ ~mawb.valid /\ infos[p].nextPc = 0 /\ registers[p] = InitialRegisters
      /\ memory[MemoryOf[p]] = InitialData
  BY MemoryAssumption DEF Init, EmptyMaWb, InitialInfos, Memories
<1>2. RetiredPc(p) = 0 /\ RetiredRegisters(p) = InitialRegisters
  BY <1>1, NotRetiring
<1>3. IsProgram(program[MemoryOf[p]])
  BY InitScheduled, TextOfProgram DEF Scheduled
<1> QED
  BY <1>1, <1>2, <1>3, SameWords, SamePrograms DEF Arch!Init
-----------------------------------------------------------------------------
(* Copies of a program on one memory: p does what p - 1 did a cycle        *)
(* earlier, so what the stage after p's holds is what p's will turn its    *)
(* own into.  Two results are alike when only the program differs.         *)
AlikeFetched(x, y) ==
  /\ x.valid <=> y.valid
  /\ x.valid => x.pc = y.pc /\ x.instruction = y.instruction

AlikeDecoded(x, y) ==
  /\ x.valid <=> y.valid
  /\ x.valid => /\ x.pc = y.pc /\ x.op = y.op /\ x.imm = y.imm
                /\ x.readData1 = y.readData1 /\ x.readData2 = y.readData2
                /\ x.writeReg = y.writeReg /\ x.nextPc = y.nextPc

AlikeExecuted(x, y) ==
  /\ x.valid <=> y.valid
  /\ x.valid => /\ x.op = y.op /\ x.aluValue = y.aluValue
                /\ x.readData2 = y.readData2
                /\ x.writeReg = y.writeReg /\ x.nextPc = y.nextPc

AlikeAccessed(x, y) ==
  /\ x.valid <=> y.valid
  /\ x.valid => /\ x.op = y.op /\ x.regWriteValue = y.regWriteValue
                /\ x.writeReg = y.writeReg /\ x.nextPc = y.nextPc

AlikeInfos(x, y) == x.nextPc = y.nextPc /\ (x.processEnd <=> y.processEnd)

(* How many turns ago a program was fetched.                               *)
Age(p) == IF lastProcessIndex >= p THEN lastProcessIndex - p
          ELSE lastProcessIndex - p + Size

InStep(p) ==
  /\ Age(p) = Size - 1 =>
       AlikeFetched(ifid, Fetch(~infos[p].processEnd, p, infos[p].nextPc))
  /\ Age(p) = 0 => AlikeDecoded(idex, Decode(ifid))
  /\ Age(p) = 1 => AlikeExecuted(exma, Execute(idex))
  /\ Age(p) = 2 => AlikeAccessed(mawb, MemoryAccess(exma))
  /\ Age(p) = 3 =>
       /\ registers[p - 1] = WriteBack(mawb)[p]
       /\ mawb.valid => /\ infos[p - 1].nextPc = mawb.nextPc
                        /\ infos[p - 1].processEnd <=> mawb.nextPc = -1
       /\ ~mawb.valid => AlikeInfos(infos[p - 1], infos[p])
  /\ Age(p) # 3 =>
       registers[p - 1] = registers[p] /\ AlikeInfos(infos[p - 1], infos[p])

CopiesInStep ==
  \A p \in ProgramNumber \ {0} : MemoryOf[p] = MemoryOf[p - 1] => InStep(p)

(* A program's age tells which latch its instruction is in.                *)
LatchesByAge ==
  \A p \in ProgramNumber :
    /\ Age(p) \in 0 .. (Size - 1)
    /\ ifid.valid => (Age(p) = 0 <=> ifid.pn = p)
    /\ idex.valid => (Age(p) = 1 <=> idex.pn = p)
    /\ exma.valid => (Age(p) = 2 <=> exma.pn = p)
    /\ mawb.valid => (Age(p) = 3 <=> mawb.pn = p)

LEMMA AgesOfLatches ==
  ASSUME Size >= 5
  PROVE  Scheduled => LatchesByAge
<1> SUFFICES ASSUME Scheduled
             PROVE  LatchesByAge
  OBVIOUS
<1>1. CASE lastProcessIndex = -1
  BY <1>1, SizeAssumption DEF Scheduled, InTurn, Age, ProgramNumber, LatchesByAge
<1>2. CASE lastProcessIndex \in ProgramNumber
  BY <1>2, SizeAssumption DEF Scheduled, InTurn, Age, ProgramNumber, Before, LatchesByAge
<1> QED
  BY <1>1, <1>2 DEF Scheduled, TypeOK

(* The copy before a program is one turn older.                            *)
LEMMA OneTurnOlder ==
  ASSUME Size >= 5, Scheduled, NEW p \in ProgramNumber \ {0}
  PROVE  /\ p - 1 \in ProgramNumber
         /\ Age(p - 1) = IF Age(p) = Size - 1 THEN 0 ELSE Age(p) + 1
<1>1. CASE lastProcessIndex = -1
  BY <1>1, SizeAssumption DEF Age, ProgramNumber
<1>2. CASE lastProcessIndex \in ProgramNumber
  BY <1>2, SizeAssumption DEF Age, ProgramNumber
<1> QED
  BY <1>1, <1>2 DEF Scheduled, TypeOK

(* A cycle fetches the oldest program and makes the others a turn older.   *)
LEMMA AgesAdvance ==
  ASSUME Size >= 5, Scheduled, CycleExecution, NEW p \in ProgramNumber
  PROVE  /\ Age(p)' = IF Age(p) = Size - 1 THEN 0 ELSE Age(p) + 1
         /\ Age(p) = Size - 1 <=> NextProgram(infos, lastProcessIndex) = p
<1>1. lastProcessIndex' = IF lastProcessIndex = -1 THEN 0 ELSE After(lastProcessIndex)
  BY NextInTurn DEF CycleExecution
<1>2. CASE lastProcessIndex = -1
  BY <1>1, <1>2, NextInTurn, SizeAssumption DEF Age, ProgramNumber
<1>3. CASE lastProcessIndex \in ProgramNumber
  BY <1>1, <1>3, NextInTurn, SizeAssumption DEF Age, ProgramNumber, After
<1> QED
  BY <1>2, <1>3 DEF Scheduled, TypeOK

(* Execute makes results that are alike of results that are alike.         *)
LEMMA AlikeExecutions ==
  ASSUME NEW x, NEW y, AlikeDecoded(x, y)
  PROVE  AlikeExecuted(Execute(x), Execute(y))
<1>1. CASE x.valid
  BY <1>1 DEF AlikeDecoded, AlikeExecuted, Execute, Resolved
<1>2. CASE ~x.valid
  BY <1>2 DEF AlikeDecoded, AlikeExecuted, Execute, EmptyExMa
<1> QED
  BY <1>1, <1>2

(* Copies start in step ...                                                *)
LEMMA InitInStep ==
  ASSUME Size >= 5
  PROVE  Init => CopiesInStep
<1> SUFFICES ASSUME Init, NEW p \in ProgramNumber \ {0}
             PROVE  InStep(p)
  BY DEF CopiesInStep
<1>1. ~ifid.valid /\ ~idex.valid /\ ~exma.valid /\ ~mawb.valid /\ lastProcessIndex = -1
  BY DEF Init, EmptyIdEx, EmptyExMa, EmptyMaWb
<1>2. p - 1 \in ProgramNumber /\ Age(p) # Size - 1
  BY <1>1, SizeAssumption DEF ProgramNumber, Age
<1>3. registers[p - 1] = registers[p] /\ AlikeInfos(infos[p - 1], infos[p])
  BY <1>2 DEF Init, InitialInfos, AlikeInfos
<1>4. ~Decode(ifid).valid /\ ~Execute(idex).valid /\ ~MemoryAccess(exma).valid
  BY <1>1, LatchesMoveOn
<1>5. WriteBack(mawb) = registers
  BY <1>1 DEF WriteBack
<1> QED
  BY <1>1, <1>2, <1>3, <1>4, <1>5
     DEF InStep, AlikeDecoded, AlikeExecuted, AlikeAccessed

(* ... each cycle keeps two neighbours in step ...                         *)
LEMMA CycleKeepsStep ==
  ASSUME Size >= 5, Scheduled, CycleExecution, NEW p \in ProgramNumber \ {0},
         MemoryOf[p] = MemoryOf[p - 1], InStep(p)
  PROVE  InStep(p)'
<1> DEFINE next == NextProgram(infos, lastProcessIndex)
<1>1. /\ TypeOK /\ Size \in Nat /\ p \in ProgramNumber
      /\ Age(p) \in 0 .. (Size - 1)
  BY AgesOfLatches, SizeAssumption DEF Scheduled, LatchesByAge
<1>2. /\ p - 1 \in ProgramNumber
      /\ Age(p - 1) = IF Age(p) = Size - 1 THEN 0 ELSE Age(p) + 1
      /\ Age(p)' = IF Age(p) = Size - 1 THEN 0 ELSE Age(p) + 1
      /\ Age(p) = Size - 1 <=> next = p
      /\ Age(p - 1) = Size - 1 <=> next = p - 1
  BY <1>1, OneTurnOlder, AgesAdvance
<1>3. /\ ifid' = Fetch(~infos[next].processEnd, next, infos[next].nextPc)
      /\ idex' = Decode(ifid) /\ exma' = Execute(idex) /\ mawb' = MemoryAccess(exma)
      /\ memory' = Stored(exma) /\ registers' = WriteBack(mawb)
      /\ infos' = Updated(infos, mawb.pn, mawb.nextPc) /\ program' = program
  BY DEF CycleExecution
<1> HIDE DEF next
<1>4. /\ ifid.valid => (Age(p - 1) = 0 <=> ifid.pn = p - 1)
      /\ exma.valid => (Age(p - 1) = 2 <=> exma.pn = p - 1)
      /\ idex.valid => (Age(p) = 1 <=> idex.pn = p)
      /\ exma.valid => (Age(p) = 2 <=> exma.pn = p)
      /\ mawb.valid => (Age(p) = 3 <=> mawb.pn = p)
      /\ mawb.valid => (Age(p - 1) = 3 <=> mawb.pn = p - 1)
  BY <1>1, <1>2, AgesOfLatches DEF LatchesByAge
<1>5. /\ Age(p) # 3 => registers'[p] = registers[p] /\ infos'[p] = infos[p]
      /\ Age(p) # 2 => registers'[p - 1] = registers[p - 1] /\ infos'[p - 1] = infos[p - 1]
  BY <1>1, <1>2, <1>4, OthersUntouched
<1>6. mawb.valid => /\ infos'[mawb.pn].nextPc = mawb.nextPc
                    /\ infos'[mawb.pn].processEnd <=> mawb.nextPc = -1
  <2> SUFFICES ASSUME mawb.valid
               PROVE  /\ infos'[mawb.pn].nextPc = mawb.nextPc
                      /\ infos'[mawb.pn].processEnd <=> mawb.nextPc = -1
    OBVIOUS
  <2>1. mawb.pn \in ProgramNumber /\ mawb.pn # NoProgram
    BY <1>1 DEF TypeOK, ProgramNumber, NoProgram
  <2>2. PICK alive : infos'[mawb.pn] = [nextPc |-> mawb.nextPc,
                                        processEnd |-> mawb.nextPc = -1,
                                        fetchAlive |-> alive]
    BY <1>1, <1>3, <2>1 DEF Updated, TypeOK
  <2>3. infos'[mawb.pn].nextPc = mawb.nextPc
    BY <2>2
  <2>4. infos'[mawb.pn].processEnd = (mawb.nextPc = -1)
    BY <2>2
  <2>5. infos'[mawb.pn].processEnd \in BOOLEAN
    BY <1>3, <2>1, UpdatedTyped DEF Scheduled, ProgramInfo
  <2> QED
    BY <2>3, <2>4, <2>5
<1>7. ~mawb.valid => infos' = infos /\ registers' = registers
  BY <1>1, <1>3 DEF Updated, WriteBack, TypeOK
<1>8. Age(p) # 2 => registers'[p - 1] = registers'[p] /\ AlikeInfos(infos'[p - 1], infos'[p])
  <2>1. CASE Age(p) = 3
    <3>1. registers'[p - 1] = registers'[p]
      BY <1>3, <1>5, <2>1 DEF InStep
    <3>2. CASE mawb.valid
      BY <1>1, <1>4, <1>5, <1>6, <2>1, <3>1, <3>2 DEF InStep, AlikeInfos
    <3>3. CASE ~mawb.valid
      BY <1>5, <1>7, <2>1, <3>1, <3>3 DEF InStep, AlikeInfos
    <3> QED
      BY <3>2, <3>3
  <2>2. CASE Age(p) # 2 /\ Age(p) # 3
    BY <1>5, <2>2 DEF InStep
  <2> QED
    BY <2>1, <2>2
<1>9. Age(p) = Size - 2 =>
        AlikeFetched(ifid', Fetch(~infos[p].processEnd, p, infos[p].nextPc)')
  <2> SUFFICES ASSUME Age(p) = Size - 2
               PROVE  AlikeFetched(ifid', Fetch(~infos[p].processEnd, p, infos[p].nextPc)')
    OBVIOUS
  <2>1. next = p - 1 /\ Age(p) # 2
    BY <1>1, <1>2
  <2>2. AlikeInfos(infos[p - 1], infos'[p])
    BY <1>5, <1>8, <2>1
  <2>3. ifid' = Fetch(~infos[p - 1].processEnd, p - 1, infos[p - 1].nextPc)
    BY <1>3, <2>1
  <2> QED
    BY <1>3, <2>2, <2>3 DEF AlikeFetched, AlikeInfos, Fetch
<1>10. Age(p) = Size - 1 => AlikeDecoded(idex', Decode(ifid)')
  <2> SUFFICES ASSUME Age(p) = Size - 1
               PROVE  AlikeDecoded(idex', Decode(ifid)')
    OBVIOUS
  <2>1. ifid' = Fetch(~infos[p].processEnd, p, infos[p].nextPc)
    BY <1>2, <1>3
  <2>2. AlikeFetched(ifid, ifid') /\ ifid'.pn = p
    BY <2>1, LatchesMoveOn DEF InStep
  <2>3. registers[p - 1] = registers'[p]
    BY <1>1, <1>5 DEF InStep
  <2>4. ifid.valid => ifid.pn = p - 1
    BY <1>2, <1>4
  <2>5. CASE ifid.valid
    <3>1. /\ ifid'.valid /\ ifid'.pc = ifid.pc /\ ifid'.instruction = ifid.instruction
          /\ registers'[ifid'.pn] = registers[ifid.pn]
      BY <2>2, <2>3, <2>4, <2>5 DEF AlikeFetched
    <3> QED
      BY <1>3, <2>5, <3>1 DEF Decode, AlikeDecoded
  <2>6. CASE ~ifid.valid
    BY <1>3, <2>2, <2>6, LatchesMoveOn DEF AlikeDecoded, AlikeFetched, Decode, EmptyIdEx
  <2> QED
    BY <2>5, <2>6
<1>11. Age(p) = 0 => AlikeExecuted(exma', Execute(idex)')
  <2> SUFFICES ASSUME Age(p) = 0
               PROVE  AlikeExecuted(exma', Execute(idex)')
    OBVIOUS
  <2>1. AlikeDecoded(idex, idex')
    BY <1>3 DEF InStep
  <2>2. Execute(idex)' = Execute(idex')
    BY DEF Execute
  <2> QED
    BY <1>3, <2>1, <2>2, AlikeExecutions
<1>12. Age(p) = 1 => AlikeAccessed(mawb', MemoryAccess(exma)')
  <2> SUFFICES ASSUME Age(p) = 1
               PROVE  AlikeAccessed(mawb', MemoryAccess(exma)')
    OBVIOUS
  <2>1. AlikeExecuted(exma, exma')
    BY <1>3 DEF InStep
  <2>2. CASE exma.valid
    <3>1. exma.pn = p - 1 /\ exma'.pn = p
      <4>1. idex.valid
        BY <1>3, <2>1, <2>2, LatchesMoveOn DEF AlikeExecuted
      <4> QED
        BY <1>1, <1>2, <1>3, <1>4, <2>2, <4>1, LatchesMoveOn
    <3>2. MemRead(exma.op) => memory' = memory
      BY <1>3 DEF Stored, MemRead, MemWrite
    <3> QED
      BY <1>3, <2>1, <2>2, <3>1, <3>2 DEF AlikeExecuted, AlikeAccessed, MemoryAccess
  <2>3. CASE ~exma.valid
    BY <1>3, <2>1, <2>3 DEF AlikeExecuted, AlikeAccessed, MemoryAccess, EmptyMaWb
  <2> QED
    BY <2>2, <2>3
<1>13. Age(p) = 2 =>
         /\ registers'[p - 1] = WriteBack(mawb)'[p]
         /\ mawb'.valid => /\ infos'[p - 1].nextPc = mawb'.nextPc
                           /\ infos'[p - 1].processEnd <=> mawb'.nextPc = -1
         /\ ~mawb'.valid => AlikeInfos(infos'[p - 1], infos'[p])
  <2> SUFFICES ASSUME Age(p) = 2
               PROVE  /\ registers'[p - 1] = WriteBack(mawb)'[p]
                      /\ mawb'.valid => /\ infos'[p - 1].nextPc = mawb'.nextPc
                                        /\ infos'[p - 1].processEnd <=> mawb'.nextPc = -1
                      /\ ~mawb'.valid => AlikeInfos(infos'[p - 1], infos'[p])
    OBVIOUS
  <2>1. AlikeAccessed(mawb, mawb')
    BY <1>3 DEF InStep
  <2>2. /\ registers[p - 1] = registers[p] /\ AlikeInfos(infos[p - 1], infos[p])
        /\ registers'[p] = registers[p] /\ infos'[p] = infos[p]
    BY <1>5 DEF InStep
  <2>3. registers' \in [ProgramNumber -> [Register -> Word]]
    BY <1>1, <1>3, WriteBackTyped
  <2>4. CASE mawb.valid
    <3>1. mawb.pn = p - 1 /\ mawb'.valid /\ mawb'.pn = p
      <4>1. exma.valid /\ mawb'.valid
        BY <1>3, <2>1, <2>4, LatchesMoveOn DEF AlikeAccessed
      <4> QED
        BY <1>1, <1>2, <1>3, <1>4, <2>4, <4>1, LatchesMoveOn
    <3>2. registers'[p - 1] = IF RegWrite(mawb.op)
                              THEN [registers[p - 1] EXCEPT ![mawb.writeReg] = mawb.regWriteValue]
                              ELSE registers[p - 1]
      BY <1>1, <1>2, <1>3, <2>4, <3>1 DEF WriteBack, TypeOK
    <3>3. WriteBack(mawb)'[p] =
            IF RegWrite(mawb'.op)
            THEN [registers'[p] EXCEPT ![mawb'.writeReg] = mawb'.regWriteValue]
            ELSE registers'[p]
      BY <1>1, <2>3, <3>1 DEF WriteBack
    <3>4. registers'[p - 1] = WriteBack(mawb)'[p]
      BY <2>1, <2>2, <2>4, <3>2, <3>3 DEF AlikeAccessed
    <3>5. /\ infos'[p - 1].nextPc = mawb'.nextPc
          /\ infos'[p - 1].processEnd <=> mawb'.nextPc = -1
      BY <1>6, <2>1, <2>4, <3>1 DEF AlikeAccessed
    <3> QED
      BY <3>1, <3>4, <3>5
  <2>5. CASE ~mawb.valid
    <3>1. ~mawb'.valid
      BY <2>1, <2>5 DEF AlikeAccessed
    <3>2. WriteBack(mawb)' = registers'
      BY <3>1 DEF WriteBack
    <3> QED
      BY <1>7, <2>2, <2>5, <3>1, <3>2
  <2> QED
    BY <2>4, <2>5
<1> QED
  <2>1. /\ Age(p)' = Size - 1 => Age(p) = Size - 2
        /\ Age(p)' = 0 => Age(p) = Size - 1
        /\ Age(p)' = 1 => Age(p) = 0
        /\ Age(p)' = 2 => Age(p) = 1
        /\ Age(p)' = 3 => Age(p) = 2
        /\ Age(p)' # 3 => Age(p) # 2
    BY <1>1, <1>2
  <2> QED
    BY <1>8, <1>9, <1>10, <1>11, <1>12, <1>13, <2>1 DEF InStep

(* ... so they always are.                                                 *)
LEMMA StepInStep ==
  ASSUME Size >= 5
  PROVE  Scheduled /\ CopiesInStep /\ [Next]_vars => CopiesInStep'
<1> SUFFICES ASSUME Scheduled, CopiesInStep, [Next]_vars
             PROVE  CopiesInStep'
  OBVIOUS
<1>1. CASE CycleExecution
  BY <1>1, CycleKeepsStep DEF CopiesInStep
<1>2. CASE UNCHANGED vars
  <2> USE <1>2 DEF vars, latches
  <2>1. ASSUME NEW p \in ProgramNumber
        PROVE  /\ Age(p)' = Age(p)
               /\ Fetch(~infos[p].processEnd, p, infos[p].nextPc)' =
                    Fetch(~infos[p].processEnd, p, infos[p].nextPc)
    BY DEF Age, Fetch
  <2>2. /\ Decode(ifid)' = Decode(ifid) /\ Execute(idex)' = Execute(idex)
        /\ MemoryAccess(exma)' = MemoryAccess(exma) /\ WriteBack(mawb)' = WriteBack(mawb)
    BY DEF Decode, Execute, MemoryAccess, WriteBack
  <2> QED
    BY <2>1, <2>2 DEF CopiesInStep, InStep
<1> QED
  BY <1>1, <1>2 DEF Next, Terminated

(* Copies of a program on one memory stay in step, five programs or more:  *)
(* each does what the one before it did a cycle earlier, although all of   *)
(* them store to the memory they all read.                                 *)
THEOREM CopiesStayInStepAlways ==
  ASSUME Size >= 5
  PROVE  Spec => CopiesStayInStep
<1>1. Scheduled /\ CopiesInStep' /\ LatchesByAge' /\ [Next]_vars
        => [CycleExecution =>
              \A p \in ProgramNumber \ {0} :
                MemoryOf[p] = MemoryOf[p - 1] =>
                  RetiredRegisters(p)' = RetiredRegisters(p - 1)]_vars
  <2> SUFFICES ASSUME Scheduled, CopiesInStep', LatchesByAge', CycleExecution,
                      NEW p \in ProgramNumber \ {0}, MemoryOf[p] = MemoryOf[p - 1]
               PROVE  RetiredRegisters(p)' = RetiredRegisters(p - 1)
    OBVIOUS
  <2>1. InStep(p)' /\ p - 1 \in ProgramNumber
    BY OneTurnOlder DEF CopiesInStep
  <2>2. RetiredRegisters(p - 1) = registers'[p - 1]
    BY <2>1, Retirement DEF Scheduled
  <2>3. mawb'.valid => (Age(p)' = 3 <=> mawb'.pn = p)
    BY DEF LatchesByAge
  <2>4. CASE Age(p)' = 3
    BY <2>1, <2>2, <2>3, <2>4 DEF InStep, RetiredRegisters, WriteBack
  <2>5. CASE Age(p)' # 3
    BY <2>1, <2>2, <2>3, <2>5 DEF InStep, RetiredRegisters
  <2> QED
    BY <2>4, <2>5
<1>2. Spec => [](Scheduled /\ CopiesInStep /\ LatchesByAge)
  BY InitInStep, StepInStep, AgesOfLatches, SchedulingInvariance, PTL DEF Spec
<1> QED
  BY <1>1, <1>2, PTL DEF Spec, CopiesStayInStep
-----------------------------------------------------------------------------
(* A memory may be shared, by neighbours in the round.  A copy stores what *)
(* the one before it stored a cycle earlier: the memory stays as it is.    *)
CopiesAreNeighbours ==
  \A p \in ProgramNumber : p \in Owner \/ MemoryOf[p] = MemoryOf[p - 1]

StoresRepeat ==
  \A p \in ProgramNumber \ {0} :
    /\ MemoryOf[p] = MemoryOf[p - 1]
    /\ exma.valid /\ exma.pn = p
    => Stored(exma) = memory

(* What was stored a second time was already there.                        *)
LEMMA StepStoresRepeat ==
  ASSUME Size >= 5
  PROVE  Scheduled /\ CopiesInStep /\ StoresRepeat /\ [Next]_vars => StoresRepeat'
<1> SUFFICES ASSUME Scheduled, CopiesInStep, StoresRepeat, [Next]_vars
             PROVE  StoresRepeat'
  OBVIOUS
<1>1. CASE CycleExecution
  <2> SUFFICES ASSUME NEW p \in ProgramNumber \ {0}, MemoryOf[p] = MemoryOf[p - 1],
                      exma'.valid, exma'.pn = p
               PROVE  Stored(exma)' = memory'
    BY DEF StoresRepeat
  <2>1. /\ exma' = Execute(idex) /\ memory' = Stored(exma)
        /\ memory \in [Memories -> [DataAddress -> Word]]
    BY <1>1 DEF CycleExecution, Scheduled, TypeOK
  <2>2. idex.valid /\ idex.pn = p
    BY <2>1, LatchesMoveOn
  <2>3. Age(p) = 1 /\ p - 1 \in ProgramNumber /\ Age(p - 1) = 2
    <3>1. Age(p) = 1
      BY <2>2, AgesOfLatches DEF LatchesByAge
    <3> QED
      BY <3>1, OneTurnOlder, SizeAssumption
  <2>4. AlikeExecuted(exma, exma')
    BY <2>1, <2>3 DEF CopiesInStep, InStep
  <2>5. exma.valid /\ exma.pn = p - 1
    <3>1. exma.valid
      BY <2>4 DEF AlikeExecuted
    <3> QED
      BY <2>3, <3>1, AgesOfLatches DEF LatchesByAge
  <2>6. MemoryOf[p] \in Memories
    BY DEF Memories
  <2>7. CASE MemWrite(exma.op)
    <3>1. memory' = [memory EXCEPT ![MemoryOf[p]] = WriteWord(@, exma.aluValue, exma.readData2)]
      BY <2>1, <2>5, <2>7 DEF Stored
    <3>2. Stored(exma)' =
            [memory' EXCEPT ![MemoryOf[p]] = WriteWord(@, exma.aluValue, exma.readData2)]
      BY <2>4, <2>5, <2>7 DEF Stored, AlikeExecuted
    <3>3. memory'[MemoryOf[p]] =
            WriteWord(memory[MemoryOf[p]], exma.aluValue, exma.readData2)
      BY <2>1, <2>6, <3>1
    <3>4. WriteWord(memory'[MemoryOf[p]], exma.aluValue, exma.readData2) = memory'[MemoryOf[p]]
      BY <3>3 DEF WriteWord
    <3>5. memory' = [memory' EXCEPT ![MemoryOf[p]] = memory'[MemoryOf[p]]]
      BY <2>1, <3>1
    <3> QED
      BY <3>2, <3>4, <3>5
  <2>8. CASE ~MemWrite(exma.op)
    <3>1. ~MemWrite(exma'.op)
      BY <2>4, <2>5, <2>8 DEF AlikeExecuted
    <3> QED
      BY <3>1 DEF Stored
  <2> QED
    BY <2>7, <2>8
<1>2. CASE UNCHANGED vars
  BY <1>2 DEF vars, latches, StoresRepeat, Stored
<1> QED
  BY <1>1, <1>2 DEF Next, Terminated

(* Five programs or more, each on a memory of its own or copies side by    *)
(* side on one, run in the one pipeline as each of them would alone,       *)
(* although nothing in it detects a hazard: their instructions take effect *)
(* one at a time and in order.                                             *)
THEOREM RunsAsIfAlone ==
  ASSUME Size >= 5, CopiesAreNeighbours
  PROVE  Spec => AsIfAlone
<1>1. Init => \A p \in Owner : Arch(p)!Init
  BY StartsAlone DEF Owner
<1>2. Scheduled /\ UpToDate /\ StoresRepeat /\ [Next]_vars
        => [\A p \in Owner : [Arch(p)!Next]_(Arch(p)!vars)]_vars
  <2> SUFFICES ASSUME Scheduled, UpToDate, StoresRepeat, CycleExecution, NEW p \in Owner
               PROVE  [Arch(p)!Next]_(Arch(p)!vars)
    BY DEF Next, Terminated
  <2>1. p \in ProgramNumber /\ TypeOK
    BY DEF Owner, Scheduled
  <2>2. CASE exma.valid /\ exma.pn = p
    BY <2>1, <2>2, CycleTakesEffect
  <2>3. CASE ~(exma.valid /\ exma.pn = p)
    <3>1. Stored(exma)[MemoryOf[p]] = memory[MemoryOf[p]]
      <4>1. CASE exma.valid /\ MemoryOf[exma.pn] = MemoryOf[p]
        <5>1. exma.pn \in ProgramNumber \ Owner
          BY <2>1, <2>3, <4>1 DEF Owner, TypeOK, ProgramNumber
        <5>2. exma.pn # 0 /\ MemoryOf[exma.pn] = MemoryOf[exma.pn - 1]
          BY <5>1 DEF Owner, CopiesAreNeighbours
        <5> QED
          BY <4>1, <5>1, <5>2 DEF StoresRepeat
      <4>2. CASE ~(exma.valid /\ MemoryOf[exma.pn] = MemoryOf[p])
        BY <2>1, <4>2 DEF Stored, TypeOK
      <4> QED
        BY <4>1, <4>2
    <3> QED
      BY <2>1, <2>3, <3>1, CycleIsInvisible
  <2> QED
    BY <2>2, <2>3
<1>3. Spec => [](Scheduled /\ UpToDate)
  BY UpToDateInvariance
<1>4. Init => StoresRepeat
  BY DEF Init, StoresRepeat, EmptyExMa
<1>5. Spec => []StoresRepeat
  BY <1>3, <1>4, StepStoresRepeat, InitInStep, StepInStep, PTL DEF Spec
<1> QED
  BY <1>1, <1>2, <1>3, <1>5, PTL DEF Spec, AsIfAlone
=============================================================================
