--------------------------- MODULE MultiProcessing ---------------------------
(***************************************************************************)
(* MultiProcessingPipelineControlUnit: one pipeline that takes an          *)
(* instruction of another program in every cycle.  Nothing in it deals     *)
(* with hazards: the idea is that the stages never hold two instructions   *)
(* of one program.  One action is one cycle, as in the other pipelines.    *)
(***************************************************************************)
EXTENDS Isa, SchedulingUnit

CONSTANTS
  Programs,   \* the programs a memory may be loaded with
  MemoryOf    \* the memory the cache of a program stands for

ASSUME MemoryAssumption == MemoryOf \in [ProgramNumber -> ProgramNumber]

Memories == {MemoryOf[p] : p \in ProgramNumber}

ASSUME ProgramsAssumption == \A text \in Programs : IsProgram(text)

VARIABLES
  program,                  \* the text in each memory
  memory,                   \* the data in each memory
  registers,                \* the register file of each program
  infos, lastProcessIndex,  \* the scheduling unit
  ifid, idex, exma, mawb    \* the outputs of the four latches

latches == <<ifid, idex, exma, mawb>>

vars == <<program, memory, registers, infos, lastProcessIndex, latches>>

(* What the latches hold; pn is the program an instruction belongs to.     *)
FetchResult == [valid : BOOLEAN, pn : Int, pc : Nat, instruction : Instruction]

DecodeResult == [valid : BOOLEAN, pn : Int, pc : Nat, op : Signal, imm : Word,
                 readData1 : Word, readData2 : Word, writeReg : Register,
                 nextPc : Int]

ExecutionResult == [valid : BOOLEAN, pn : Int, op : Signal, aluValue : Word,
                    readData2 : Word, writeReg : Register, nextPc : Int]

MemoryAccessResult == [valid : BOOLEAN, pn : Int, op : Signal,
                       regWriteValue : Word, writeReg : Register, nextPc : Int]

EmptyIdEx == [valid |-> FALSE, pn |-> NoProgram, pc |-> 0, op |-> "NONE",
              imm |-> 0, readData1 |-> 0, readData2 |-> 0, writeReg |-> 0,
              nextPc |-> 0]

EmptyExMa == [valid |-> FALSE, pn |-> NoProgram, op |-> "NONE", aluValue |-> 0,
              readData2 |-> 0, writeReg |-> 0, nextPc |-> 0]

EmptyMaWb == [valid |-> FALSE, pn |-> NoProgram, op |-> "NONE",
              regWriteValue |-> 0, writeReg |-> 0, nextPc |-> 0]
-----------------------------------------------------------------------------
(* The stages.  A no-op is an instruction like any other here.             *)
Fetch(valid, pn, pc) ==
  [valid |-> valid, pn |-> pn, pc |-> IF valid THEN pc ELSE 0,
   instruction |-> IF valid THEN InstructionAt(program[MemoryOf[pn]], pc)
                   ELSE Nop]

(* Mutation: the register file is found as the memory is.                  *)
WriteBackByMemory(accessed) ==
  IF accessed.valid /\ RegWrite(accessed.op)
  THEN [registers EXCEPT ![MemoryOf[accessed.pn]][accessed.writeReg] =
          accessed.regWriteValue]
  ELSE registers

WriteBack(accessed) ==
  IF accessed.valid /\ RegWrite(accessed.op)
  THEN [registers EXCEPT ![accessed.pn][accessed.writeReg] =
          accessed.regWriteValue]
  ELSE registers

(* decode reads the registers before this cycle's write back.              *)
Decode(fetched) ==
  LET i    == fetched.instruction
      file == registers[fetched.pn]
  IN  IF ~fetched.valid THEN EmptyIdEx
      ELSE [valid |-> TRUE, pn |-> fetched.pn, pc |-> fetched.pc, op |-> i.op,
            imm |-> Immediate(fetched.pc, i),
            readData1 |-> file[i.rs], readData2 |-> file[i.rt],
            writeReg |-> WriteRegister(i.op, i),
            nextPc |-> CASE i.op = "JR"           -> file[i.rs]
                         [] i.op \in {"J", "JAL"} -> i.imm
                         [] OTHER                 -> fetched.pc]

(* Mutation: a branch that is not taken is fetched again.                  *)
ResolvedStaying(decoded, aluValue) ==
  CASE IsJump(decoded.op)                   -> decoded.nextPc
    [] IsBranch(decoded.op) /\ aluValue = 1 -> decoded.imm
    [] OTHER -> IF IsBranch(decoded.op) THEN decoded.pc ELSE decoded.pc + 4

(* Where the program goes on: a jump wins over a branch.                   *)
Resolved(decoded, aluValue) ==
  CASE IsJump(decoded.op)                   -> decoded.nextPc
    [] IsBranch(decoded.op) /\ aluValue = 1 -> decoded.imm
    [] OTHER                                -> decoded.pc + 4

Execute(decoded) ==
  LET aluValue == AluValue(decoded.op, decoded.pc, decoded.imm,
                           decoded.readData1, decoded.readData2)
  IN  IF ~decoded.valid THEN EmptyExMa
      ELSE [valid |-> TRUE, pn |-> decoded.pn, op |-> decoded.op,
            aluValue |-> aluValue, readData2 |-> decoded.readData2,
            writeReg |-> decoded.writeReg,
            nextPc |-> Resolved(decoded, aluValue)]

MemoryAccess(executed) ==
  LET data == memory[MemoryOf[executed.pn]]
  IN  IF ~executed.valid THEN EmptyMaWb
      ELSE [valid |-> TRUE, pn |-> executed.pn, op |-> executed.op,
            regWriteValue |-> IF MemRead(executed.op)
                              THEN ReadWord(data, executed.aluValue)
                              ELSE executed.aluValue,
            writeReg |-> executed.writeReg, nextPc |-> executed.nextPc]

Stored(executed) ==
  IF executed.valid /\ MemWrite(executed.op)
  THEN [memory EXCEPT ![MemoryOf[executed.pn]] =
          WriteWord(@, executed.aluValue, executed.readData2)]
  ELSE memory
-----------------------------------------------------------------------------
Init ==
  /\ program \in [Memories -> Programs]
  /\ memory = [m \in Memories |-> InitialData]
  /\ registers = [p \in ProgramNumber |-> InitialRegisters]
  /\ infos = InitialInfos
  /\ lastProcessIndex = -1
  /\ ifid = [valid |-> FALSE, pn |-> NoProgram, pc |-> 0, instruction |-> Nop]
  /\ idex = EmptyIdEx
  /\ exma = EmptyExMa
  /\ mawb = EmptyMaWb

(* cycleExecution, between the scheduling unit's next and update.  An      *)
(* ended program keeps its turn and is fetched as an empty result; reading *)
(* memory at any other negative address raises.                            *)
CycleExecution ==
  /\ ~IsAllEnd(infos)
  /\ SomethingToFetch(infos)
  /\ LET pn   == NextProgram(infos, lastProcessIndex)
         info == infos[pn]
     IN  /\ ~info.processEnd => info.nextPc >= 0
         /\ lastProcessIndex' = pn
         /\ ifid' = Fetch(~info.processEnd, pn, info.nextPc)
  /\ idex' = Decode(ifid)
  /\ exma' = Execute(idex)
  /\ mawb' = MemoryAccess(exma)
  /\ memory' = Stored(exma)
  /\ registers' = WriteBack(mawb)
  /\ infos' = Updated(infos, mawb.pn, mawb.nextPc)
  /\ UNCHANGED program

(* process() leaves its loop when every program has ended.                 *)
Terminated == IsAllEnd(infos) /\ UNCHANGED vars

Next == CycleExecution \/ Terminated

Spec == Init /\ [][Next]_vars /\ WF_vars(CycleExecution)
-----------------------------------------------------------------------------
TypeOK ==
  /\ program \in [Memories -> Programs]
  /\ memory \in [Memories -> [DataAddress -> Word]]
  /\ registers \in [ProgramNumber -> [Register -> Word]]
  /\ infos \in [ProgramNumber -> ProgramInfo]
  /\ lastProcessIndex \in ProgramNumber \cup {-1}
  /\ ifid \in FetchResult /\ (ifid.valid => ifid.pn \in ProgramNumber)
  /\ idex \in DecodeResult /\ (idex.valid => idex.pn \in ProgramNumber)
  /\ exma \in ExecutionResult /\ (exma.valid => exma.pn \in ProgramNumber)
  /\ mawb \in MemoryAccessResult /\ (mawb.valid => mawb.pn \in ProgramNumber)
  /\ ~mawb.valid => mawb.pn = NoProgram

(* What the README builds on: the stages of a cycle, the fetch included,   *)
(* never hold two instructions of one program.                             *)
StagesHoldDifferentPrograms ==
  LET busy == {k \in 1 .. 4 : latches[k].valid}
  IN  /\ \A j, k \in busy : j # k => latches[j].pn # latches[k].pn
      /\ ~IsAllEnd(infos) =>
           \A k \in busy : latches[k].pn # NextProgram(infos, lastProcessIndex)

(* A program's own state: what is in mawb counts as written.               *)
RetiredRegisters(p) ==
  IF mawb.valid /\ mawb.pn = p THEN WriteBack(mawb)[p] ELSE registers[p]

RetiredPc(p) ==
  IF mawb.valid /\ mawb.pn = p THEN mawb.nextPc ELSE infos[p].nextPc

Arch(p) == INSTANCE Architecture WITH
  program   <- program[MemoryOf[p]],
  pc        <- NextInstruction(program[MemoryOf[p]], RetiredPc(p)),
  registers <- RetiredRegisters(p),
  memory    <- memory[MemoryOf[p]]

(* The first program on a memory is the one whose stores change it.        *)
Owner == {p \in ProgramNumber : \A q \in 0 .. (p - 1) : MemoryOf[q] # MemoryOf[p]}

(* Every program runs as it would alone: its instructions take effect one  *)
(* at a time and in order, whatever the others do ...                      *)
AsIfAlone ==
  /\ \A p \in Owner : Arch(p)!Init
  /\ [][\A p \in Owner : [Arch(p)!Next]_(Arch(p)!vars)]_vars

(* ... it goes on until it ends ...                                        *)
NobodyStarves == \A p \in Owner : Arch(p)!Progress

(* ... and when all have ended, process() notices.                         *)
EndsWithTheLast ==
  (\A p \in ProgramNumber : RetiredPc(p) = End) ~> IsAllEnd(infos)

(* Copies of a program on one memory stay in step: each does what the one  *)
(* before it did a cycle earlier, although all of them store to the memory *)
(* they all read.                                                          *)
CopiesStayInStep ==
  [][CycleExecution =>
       \A p \in ProgramNumber \ {0} :
         MemoryOf[p] = MemoryOf[p - 1] =>
           RetiredRegisters(p)' = RetiredRegisters(p - 1)]_vars
=============================================================================
