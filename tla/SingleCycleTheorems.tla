------------------------ MODULE SingleCycleTheorems ------------------------
(***************************************************************************)
(* SingleCycleControlUnit keeps the width of every word and implements the *)
(* architecture, for every program, word width and data memory.            *)
(***************************************************************************)
EXTENDS SingleCycle, MachineCode, IsaTheorems, SequenceTheorems

(* The next program counter is an integer; whether it is an address is up  *)
(* to the program.                                                         *)
LEMMA NextPcType ==
  ASSUME NEW i \in Instruction, NEW a \in Nat, NEW value, NEW data1 \in Word
  PROVE  NextPc(i, a, value, data1) \in Int
<1>1. \A w \in Word : w \in Int
  BY IsaAssumption DEF Word
<1>2. i.imm \in Int /\ data1 \in Int /\ Immediate(a, i) \in Int
  BY <1>1, ImmediateType DEF Instruction
<1> QED
  BY <1>2 DEF NextPc

(* The control unit starts well typed ...                                  *)
LEMMA InitTypeOK == Init => TypeOK
BY ProgramsAssumption, InitialWords DEF Init, Reset, TypeOK

(* ... and stays so in every cycle.                                        *)
LEMMA StepTypeOK == TypeOK /\ [Next]_vars => TypeOK'
<1> SUFFICES ASSUME TypeOK, [Next]_vars PROVE TypeOK'
  OBVIOUS
<1>1. CASE CycleExecution
  <2> DEFINE i        == InstructionAt(program, pc)
             data1    == registers[i.rs]
             data2    == registers[i.rt]
             aluValue == AluValue(i.op, pc, Immediate(pc, i), data1, data2)
             value    == IF MemRead(i.op) THEN ReadWord(memory, aluValue)
                         ELSE aluValue
  <2>1. pc \in Nat
    BY <1>1 DEF CycleExecution, TypeOK
  <2>2. i \in Instruction
    BY InstructionType DEF TypeOK
  <2>3. i.op \in Signal /\ data1 \in Word /\ data2 \in Word
    BY <2>2 DEF Instruction, Signal, TypeOK
  <2>4. aluValue \in Word
    <3>1. Immediate(pc, i) \in Word
      BY <2>1, <2>2, ImmediateType
    <3> QED
      BY <2>1, <2>3, <3>1, AluValueType
  <2>5. value \in Word
    BY <2>4, MemoryType DEF TypeOK
  <2>6. WriteRegister(i.op, i) \in Register
    BY <2>2, WriteRegisterType
  <2>7. NextPc(i, pc, aluValue, data1) \in Int
    BY <2>1, <2>2, <2>3, NextPcType
  <2> HIDE DEF i, data1, data2, aluValue, value
  <2>8. /\ memory' = IF MemWrite(i.op)
                     THEN WriteWord(memory, aluValue, data2) ELSE memory
        /\ registers' = IF RegWrite(i.op)
                        THEN [registers EXCEPT ![WriteRegister(i.op, i)] = value]
                        ELSE registers
        /\ pc' = NextPc(i, pc, aluValue, data1)
        /\ program' = program
    BY <1>1 DEF CycleExecution, i, data1, data2, aluValue, value
  <2>9. memory' \in [DataAddress -> Word]
    BY <2>3, <2>8, MemoryType DEF TypeOK
  <2>10. registers' \in [Register -> Word]
    BY <2>5, <2>6, <2>8 DEF TypeOK
  <2> QED
    BY <2>7, <2>8, <2>9, <2>10 DEF TypeOK
<1>2. CASE UNCHANGED vars
  BY <1>2 DEF vars, TypeOK
<1> QED
  BY <1>1, <1>2 DEF Next, Terminated

(* Every register, memory word and program counter keeps its type: nothing *)
(* computed in a cycle leaves the width of Int.                            *)
THEOREM TypeCorrect == Spec => []TypeOK
BY InitTypeOK, StepTypeOK, PTL DEF Spec
-----------------------------------------------------------------------------
(* The architecture is instantiated with this module's constants: both     *)
(* speak of the same instruction set.                                      *)
LEMMA SameWords ==
  /\ \A x : Arch!Wrap(x) = Wrap(x)
  /\ \A b : Arch!Bool(b) = Bool(b)
  /\ \A mem, a : Arch!ReadWord(mem, a) = ReadWord(mem, a)
  /\ \A mem, a, v : Arch!WriteWord(mem, a, v) = WriteWord(mem, a, v)
  /\ Arch!InitialRegisters = InitialRegisters
BY DEF Arch!Wrap, Wrap, Arch!Bool, Bool, Arch!ReadWord, ReadWord,
       Arch!WriteWord, WriteWord, Arch!InitialRegisters, InitialRegisters

(* So they agree on what a program is, and on where no-ops lead.           *)
LEMMA SamePrograms ==
  /\ \A text : Arch!IsProgram(text) <=> IsProgram(text)
  /\ \A text, a : Arch!InstructionAt(text, a) = InstructionAt(text, a)
  /\ \A text, a : Arch!NextInstruction(text, a) = NextInstruction(text, a)
<1>1. Arch!Nop = Nop /\ Arch!Off = Off
  BY DEF Arch!Nop, Nop, Arch!Off, Off
<1>2. Arch!Instruction = Instruction
  BY DEF Arch!Instruction, Instruction, Arch!Opcode, Opcode, Arch!RType, RType,
         Arch!IType, IType, Arch!JType, JType, Arch!Word, Word
<1>3. \A text, a : Arch!InstructionAt(text, a) = InstructionAt(text, a)
  BY <1>1 DEF Arch!InstructionAt, InstructionAt
<1>4. \A text, a : Arch!NextInstruction(text, a) = NextInstruction(text, a)
  BY <1>1, <1>3 DEF Arch!NextInstruction, NextInstruction
<1> QED
  BY <1>2, <1>3, <1>4 DEF Arch!IsProgram, IsProgram

(* The signals of an operation ask for what the architecture defines.      *)
LEMMA SignalsAgree ==
  ASSUME NEW i \in Instruction
  PROVE  /\ RegWrite(i.op) <=> Arch!Defines(i)
         /\ Arch!Defines(i) => WriteRegister(i.op, i) = Arch!Target(i)
         /\ MemWrite(i.op) <=> i.op = "SW"
BY DEF Instruction, Opcode, RType, IType, JType, RegWrite, RegDest, MemWrite,
       WriteRegister, Arch!Defines, Arch!Target

(* What execute and memoryAccess compute is the architecture's result.     *)
LEMMA ResultsAgree ==
  ASSUME NEW i \in Instruction, NEW a \in Nat, NEW s \in Word, NEW t \in Word,
         NEW mem, Arch!Defines(i)
  PROVE  LET v == AluValue(i.op, a, Immediate(a, i), s, t)
         IN  (IF MemRead(i.op) THEN ReadWord(mem, v) ELSE v)
               = Arch!Result(i, a, s, t, mem)
<1> USE SameWords
    DEF AluValue, Operate, AluSrc, RegDest, IsBranch, IsShift, MemRead,
        Immediate, RType, Arch!Result, Arch!Defines
<1>1. CASE i.op \in {"ADDU", "SUBU", "SLT", "SLL"}
  BY <1>1
<1>2. CASE i.op \in {"ADDI", "ADDIU", "SLTI", "ORI"}
  BY <1>2
<1>3. CASE i.op \in {"LUI", "LW", "JAL"}
  BY <1>3
<1> QED
  BY <1>1, <1>2, <1>3 DEF Instruction, Opcode, IType, JType

(* A store's address, and where control goes.                              *)
LEMMA AddressesAgree ==
  ASSUME NEW i \in Instruction, NEW a \in Nat, NEW s \in Word, NEW t \in Word
  PROVE  LET v == AluValue(i.op, a, Immediate(a, i), s, t)
         IN  /\ i.op = "SW" => v = Wrap(s + i.imm)
             /\ NextPc(i, a, v, s) = Arch!Successor(i, a, s, t)
<1> DEFINE v == AluValue(i.op, a, Immediate(a, i), s, t)
<1>1. i.op = "SW" => v = Wrap(s + i.imm)
  BY DEF AluValue, Operate, AluSrc, RegDest, IsBranch, IsShift, Immediate, RType
<1>2. CASE IsBranch(i.op)
  <2>1. Immediate(a, i) = Wrap(a + 4 + i.imm)
    BY <1>2 DEF Immediate
  <2>2. /\ i.op = "BEQ" => v = Bool(s = t)
        /\ i.op = "BNE" => v = Bool(s # t)
    BY <1>2 DEF AluValue, Operate, AluSrc, RegDest, IsBranch, IsShift, RType
  <2> QED
    BY <1>1, <1>2, <2>1, <2>2, SameWords
       DEF NextPc, IsBranch, Bool, Arch!Successor
<1>3. CASE ~IsBranch(i.op)
  BY <1>1, <1>3 DEF NextPc, IsBranch, Arch!Successor
<1> QED
  BY <1>2, <1>3

(* A no-op runs through the stages without a trace.                        *)
LEMMA NopIsInvisible ==
  ASSUME TypeOK, CycleExecution, InstructionAt(program, pc) = Nop
  PROVE  UNCHANGED <<program, NextInstruction(program, pc), registers, memory>>
<1>1. /\ Nop.op = "SLL" /\ Nop.rs = 0 /\ Nop.rt = 0 /\ Nop.rd = 0 /\ Nop.imm = 0
      /\ Immediate(pc, Nop) = 0
      /\ WriteRegister("SLL", Nop) = 0
  BY DEF Nop, Immediate, IsBranch, WriteRegister, RegDest, RType
<1>2. AluValue("SLL", pc, 0, registers[0], registers[0]) = registers[0]
  <2>1. registers[0] \in Word
    BY IsaAssumption DEF TypeOK
  <2>2. AluValue("SLL", pc, 0, registers[0], registers[0])
          = ShiftLeft(registers[0], 0)
    BY DEF AluValue, Operate, IsShift
  <2> QED
    BY <2>1, <2>2, IsaAssumption
<1>3. memory' = memory /\ program' = program
  BY <1>1 DEF CycleExecution, MemWrite
<1>4. registers' = registers
  BY <1>1, <1>2 DEF CycleExecution, RegWrite, MemRead, TypeOK
<1>5. pc \in Nat /\ pc' = pc + 4
  BY <1>1 DEF CycleExecution, NextPc, IsBranch, TypeOK
<1>6. NextInstruction(program, pc + 4) = NextInstruction(program, pc)
  BY <1>5, NextInstructionSkips DEF TypeOK
<1> QED
  BY <1>3, <1>4, <1>5, <1>6

(* Any other instruction takes effect.                                     *)
LEMMA CycleIsStep ==
  ASSUME TypeOK, CycleExecution, InstructionAt(program, pc) # Nop
  PROVE  Arch!Step
<1> DEFINE i        == InstructionAt(program, pc)
           s        == registers[i.rs]
           t        == registers[i.rt]
           aluValue == AluValue(i.op, pc, Immediate(pc, i), s, t)
           value    == IF MemRead(i.op) THEN ReadWord(memory, aluValue)
                       ELSE aluValue
<1>1. pc \in Nat /\ NextInstruction(program, pc) = pc
  BY DEF CycleExecution, TypeOK, NextInstruction
<1>2. i \in Instruction /\ s \in Word /\ t \in Word
  <2>1. i \in Instruction
    BY InstructionType DEF TypeOK
  <2> QED
    BY <2>1 DEF Instruction, TypeOK
<1>3. Arch!Defines(i) => value = Arch!Result(i, pc, s, t, memory)
  BY <1>1, <1>2, ResultsAgree
<1>4. /\ i.op = "SW" => aluValue = Wrap(s + i.imm)
      /\ NextPc(i, pc, aluValue, s) = Arch!Successor(i, pc, s, t)
  BY <1>1, <1>2, AddressesAgree
<1> HIDE DEF i, s, t, aluValue, value
<1>5. /\ memory' = IF MemWrite(i.op) THEN WriteWord(memory, aluValue, t)
                   ELSE memory
      /\ registers' = IF RegWrite(i.op)
                      THEN [registers EXCEPT ![WriteRegister(i.op, i)] = value]
                      ELSE registers
      /\ pc' = NextPc(i, pc, aluValue, s)
      /\ program' = program
  BY DEF CycleExecution, i, s, t, aluValue, value
<1>6. registers' = IF Arch!Defines(i)
                   THEN [registers EXCEPT ![Arch!Target(i)] =
                           Arch!Result(i, pc, s, t, memory)]
                   ELSE registers
  BY <1>2, <1>3, <1>5, SignalsAgree
<1>7. memory' = IF i.op = "SW" THEN WriteWord(memory, Wrap(s + i.imm), t)
                ELSE memory
  BY <1>2, <1>4, <1>5, SignalsAgree
<1>8. NextInstruction(program, pc)'
        = NextInstruction(program, Arch!Successor(i, pc, s, t))
  BY <1>4, <1>5
<1>9. /\ NextInstruction(program, pc) >= 0
      /\ Arch!InstructionAt(program, NextInstruction(program, pc)) = i
  BY <1>1, SamePrograms DEF i
<1>10. memory' = IF i.op = "SW" THEN Arch!WriteWord(memory, Arch!Wrap(s + i.imm), t)
                 ELSE memory
  BY <1>7, SameWords
<1>11. NextInstruction(program, pc)'
         = Arch!NextInstruction(program, Arch!Successor(i, pc, s, t))
  BY <1>8, SamePrograms
<1> QED
  BY <1>1, <1>5, <1>6, <1>9, <1>10, <1>11 DEF Arch!Step, s, t

(* The first state is one of the architecture ...                          *)
LEMMA InitRefines == Init => Arch!Init
BY ProgramsAssumption, SameWords, SamePrograms DEF Init, Reset, Arch!Init

(* ... and every cycle is a step of it, or leaves no trace.                *)
LEMMA StepRefines == TypeOK /\ [Next]_vars => [Arch!Next]_(Arch!vars)
<1> SUFFICES ASSUME TypeOK, [Next]_vars PROVE [Arch!Next]_(Arch!vars)
  OBVIOUS
<1>1. CASE CycleExecution /\ InstructionAt(program, pc) = Nop
  BY <1>1, NopIsInvisible DEF Arch!vars
<1>2. CASE CycleExecution /\ InstructionAt(program, pc) # Nop
  BY <1>2, CycleIsStep DEF Arch!Next
<1>3. CASE UNCHANGED vars
  BY <1>3 DEF vars, Arch!vars
<1> QED
  BY <1>1, <1>2, <1>3 DEF Next, Terminated

(* SingleCycleControlUnit implements the architecture: each cycle is one   *)
(* instruction taking effect in program order, or a no-op without a trace. *)
THEOREM ImplementsArchitecture == Spec => TakesEffectInOrder
<1>1. Init => Arch!Init
  BY InitRefines
<1>2. TypeOK /\ [Next]_vars => [Arch!Next]_(Arch!vars)
  BY StepRefines
<1>3. Spec => []TypeOK
  BY TypeCorrect
<1> QED
  BY <1>1, <1>2, <1>3, PTL DEF Spec, TakesEffectInOrder, Arch!SafeSpec
-----------------------------------------------------------------------------
(* Loading: the bytes of a file and the words they are read as.            *)

(* The buffers that hold a file end less than a buffer behind it, on the   *)
(* boundary of a word.                                                     *)
LEMMA LoadedSizeBounds ==
  ASSUME NEW file \in Seq(0 .. 255)
  PROVE  /\ LoadedSize(file) \in Nat
         /\ LoadedSize(file) < Len(file) + BufferSize
         /\ LoadedSize(file) % 4 = 0
<1> DEFINE n == Len(file) + BufferSize - 1
           k == n \div BufferSize
           c == BufferSize \div 4
<1>1. n \in Nat /\ BufferSize \in Nat /\ BufferSize > 0 /\ BufferSize % 4 = 0
  BY BufferAssumption
<1>2. ASSUME NEW m \in Nat, NEW d \in Nat, d > 0
      PROVE  m \div d \in Nat /\ (m \div d) * d <= m
  BY <1>2
<1>3. k \in Nat /\ k * BufferSize <= n
  BY <1>1, <1>2
<1>4. BufferSize = c * 4 /\ c \in Nat
  BY <1>1
<1> HIDE DEF k, c
<1>5. k * BufferSize = 4 * (k * c) /\ k * c \in Nat
  BY <1>3, <1>4
<1>6. LoadedSize(file) = k * BufferSize
  BY DEF LoadedSize, k
<1>7. \A j \in Nat : (4 * j) % 4 = 0
  OBVIOUS
<1>8. LoadedSize(file) \in Nat /\ LoadedSize(file) % 4 = 0
  BY <1>5, <1>6, <1>7
<1>9. LoadedSize(file) < Len(file) + BufferSize
  BY <1>1, <1>3, <1>6, <1>8
<1> QED
  BY <1>8, <1>9

(* A word that starts in a whole number of words lies in it.               *)
LEMMA WholeWords ==
  ASSUME NEW a \in Nat, a % 4 = 0, NEW n \in Nat, n % 4 = 0, a < n
  PROVE  a + 3 < n
OBVIOUS

(* load changes the order of the bytes of a word, read puts them together  *)
(* the other way round: a word of a loaded file is the big-endian one.     *)
LEMMA WordOfBytes ==
  ASSUME NEW file, NEW a \in Nat, a % 4 = 0
  PROVE  WordAt(file, a) =
           [hi |-> 256 * Buffered(file, a) + Buffered(file, a + 1),
            lo |-> 256 * Buffered(file, a + 2) + Buffered(file, a + 3)]
<1>1. /\ 4 * (a \div 4) + (3 - (a % 4)) = a + 3
      /\ 4 * ((a + 1) \div 4) + (3 - ((a + 1) % 4)) = a + 2
      /\ 4 * ((a + 2) \div 4) + (3 - ((a + 2) % 4)) = a + 1
      /\ 4 * ((a + 3) \div 4) + (3 - ((a + 3) % 4)) = a
  OBVIOUS
<1>2. /\ Loaded(file, a) = Buffered(file, a + 3)
      /\ Loaded(file, a + 1) = Buffered(file, a + 2)
      /\ Loaded(file, a + 2) = Buffered(file, a + 1)
      /\ Loaded(file, a + 3) = Buffered(file, a)
  BY <1>1, Zenon DEF Loaded
<1> QED
  BY <1>2, Zenon DEF WordAt

(* The bytes of the memory are those of the file, and those a buffer's     *)
(* length before behind its end.                                           *)
LEMMA LoadedBytes ==
  ASSUME NEW file \in Seq(0 .. 255), NEW a \in 0 .. (LoadedSize(file) - 1)
  PROVE  /\ Buffered(file, a) \in 0 .. 255
         /\ a >= Len(file) /\ a >= BufferSize =>
              Buffered(file, a) = Buffered(file, a - BufferSize)
<1>1. LoadedSize(file) \in Nat /\ LoadedSize(file) < Len(file) + BufferSize
  BY LoadedSizeBounds
<1>2. BufferSize \in Nat /\ BufferSize > 0 /\ Len(file) \in Nat /\ a \in Nat
  BY <1>1, BufferAssumption
<1>3. \A k \in 1 .. Len(file) : file[k] \in 0 .. 255
  BY ElementOfSeq
<1>4. CASE a < Len(file)
  <2>1. a + 1 \in 1 .. Len(file)
    BY <1>2, <1>4
  <2>2. Buffered(file, a) = file[a + 1]
    BY <1>4, SMT DEF Buffered
  <2> QED
    BY <1>3, <1>4, <2>1, <2>2
<1>5. CASE a >= Len(file) /\ a >= BufferSize
  <2>1. a - BufferSize + 1 \in 1 .. Len(file) /\ a - BufferSize < Len(file)
    BY <1>1, <1>2, <1>5
  <2>2. ~(a < Len(file)) /\ ~(a < BufferSize)
    BY <1>2, <1>5
  <2>3. Buffered(file, a) = file[a - BufferSize + 1]
    BY <1>5, <2>2, SMT DEF Buffered
  <2>4. Buffered(file, a - BufferSize) = file[a - BufferSize + 1]
    <3>1. \A b \in Int : b < Len(file) => Buffered(file, b) = file[b + 1]
      BY <1>2 DEF Buffered
    <3> QED
      BY <1>2, <2>1, <3>1
  <2> QED
    BY <1>3, <2>1, <2>2, <2>3, <2>4
<1>6. CASE a >= Len(file) /\ a < BufferSize
  <2>1. ~(a < Len(file)) /\ ~(a >= BufferSize)
    BY <1>2, <1>6
  <2>2. Buffered(file, a) = 0
    BY <2>1, SMT DEF Buffered
  <2> QED
    BY <1>6, <2>1, <2>2
<1>7. \/ a < Len(file)
      \/ a >= Len(file) /\ a >= BufferSize
      \/ a >= Len(file) /\ a < BufferSize
  BY <1>2
<1> QED
  BY <1>4, <1>5, <1>6, <1>7, Zenon

(* Memory.load and Memory.read: every word of a file is read as the        *)
(* big-endian word it is in the file.  The rest of the last buffer holds   *)
(* zeros when the file fits in one buffer, and otherwise the words of the  *)
(* buffer before once more.  Of a word the file ends within nothing is     *)
(* said.                                                                   *)
THEOREM LoadedWords ==
  ASSUME NEW file \in Seq(0 .. 255), NEW a \in Nat, a % 4 = 0,
         a < LoadedSize(file)
  PROVE  /\ a + 3 < Len(file) =>
              WordAt(file, a) = [hi |-> 256 * file[a + 1] + file[a + 2],
                                 lo |-> 256 * file[a + 3] + file[a + 4]]
         /\ a >= Len(file) =>
              WordAt(file, a) = IF a < BufferSize THEN [hi |-> 0, lo |-> 0]
                                ELSE WordAt(file, a - BufferSize)
<1>1. /\ LoadedSize(file) \in Nat /\ LoadedSize(file) % 4 = 0
      /\ LoadedSize(file) < Len(file) + BufferSize
      /\ BufferSize \in Nat /\ BufferSize > 0 /\ BufferSize % 4 = 0 /\ Len(file) \in Nat
  BY LoadedSizeBounds, BufferAssumption
<1>2. \A k \in 0 .. 3 : a + k \in 0 .. (LoadedSize(file) - 1)
  <2>1. a + 3 < LoadedSize(file)
    BY <1>1, WholeWords
  <2> QED
    BY <1>1, <2>1
<1>3. ASSUME a + 3 < Len(file)
      PROVE  WordAt(file, a) = [hi |-> 256 * file[a + 1] + file[a + 2],
                                lo |-> 256 * file[a + 3] + file[a + 4]]
  <2>1. a < Len(file) /\ a + 1 < Len(file) /\ a + 2 < Len(file)
    BY <1>1, <1>3
  <2>2. /\ Buffered(file, a) = file[a + 1]
        /\ Buffered(file, a + 1) = file[a + 1 + 1]
        /\ Buffered(file, a + 2) = file[a + 2 + 1]
        /\ Buffered(file, a + 3) = file[a + 3 + 1]
    BY <1>3, <2>1, SMT DEF Buffered
  <2>3. a + 1 + 1 = a + 2 /\ a + 2 + 1 = a + 3 /\ a + 3 + 1 = a + 4
    OBVIOUS
  <2> QED
    BY <2>2, <2>3, WordOfBytes
<1>4. ASSUME a >= Len(file), a < BufferSize
      PROVE  WordAt(file, a) = [hi |-> 0, lo |-> 0]
  <2>1. \A k \in 0 .. 3 : a + k >= Len(file) /\ a + k < BufferSize
    BY <1>1, <1>4
  <2>2. \A k \in 0 .. 3 : Buffered(file, a + k) = 0
    <3> TAKE k \in 0 .. 3
    <3>1. a + k \in Nat /\ ~(a + k < Len(file)) /\ ~(a + k >= BufferSize)
      BY <1>1, <2>1
    <3> QED
      BY <3>1, SMT DEF Buffered
  <2>3. /\ Buffered(file, a) = 0 /\ Buffered(file, a + 1) = 0
        /\ Buffered(file, a + 2) = 0 /\ Buffered(file, a + 3) = 0
    BY <2>2
  <2> QED
    BY <2>3, WordOfBytes
<1>5. ASSUME a >= Len(file), a >= BufferSize
      PROVE  WordAt(file, a) = WordAt(file, a - BufferSize)
  <2>1. a - BufferSize \in Nat /\ (a - BufferSize) % 4 = 0
    BY <1>1, <1>5
  <2>2. \A b \in 0 .. (LoadedSize(file) - 1) :
          b >= Len(file) /\ b >= BufferSize
            => Buffered(file, b) = Buffered(file, b - BufferSize)
    BY LoadedBytes, Zenon
  <2>3. /\ a >= Len(file) /\ a + 1 >= Len(file) /\ a + 2 >= Len(file)
        /\ a + 3 >= Len(file)
        /\ a >= BufferSize /\ a + 1 >= BufferSize /\ a + 2 >= BufferSize
        /\ a + 3 >= BufferSize
    BY <1>1, <1>5
  <2>4. /\ a \in 0 .. (LoadedSize(file) - 1) /\ a + 1 \in 0 .. (LoadedSize(file) - 1)
        /\ a + 2 \in 0 .. (LoadedSize(file) - 1)
        /\ a + 3 \in 0 .. (LoadedSize(file) - 1)
    BY <1>2
  <2>5. /\ Buffered(file, a) = Buffered(file, a - BufferSize)
        /\ Buffered(file, a + 1) = Buffered(file, (a + 1) - BufferSize)
        /\ Buffered(file, a + 2) = Buffered(file, (a + 2) - BufferSize)
        /\ Buffered(file, a + 3) = Buffered(file, (a + 3) - BufferSize)
    <3>1. \A b \in Int : b \in {a, a + 1, a + 2, a + 3}
            => Buffered(file, b) = Buffered(file, b - BufferSize)
      BY <2>2, <2>3, <2>4
    <3>2. a \in Int /\ a + 1 \in Int /\ a + 2 \in Int /\ a + 3 \in Int
      OBVIOUS
    <3> QED
      BY <3>1, <3>2, Zenon
  <2>6. /\ (a + 1) - BufferSize = (a - BufferSize) + 1
        /\ (a + 2) - BufferSize = (a - BufferSize) + 2
        /\ (a + 3) - BufferSize = (a - BufferSize) + 3
    BY <1>1
  <2> QED
    BY <2>1, <2>5, <2>6, WordOfBytes
<1> QED
  BY <1>1, <1>3, <1>4, <1>5
-----------------------------------------------------------------------------
(* Decoding: the words of a file and the instructions they stand for.      *)

(* No two operations share their code, neither in the field of the         *)
(* operation nor in that of the function.                                  *)
LEMMA CodesDiffer ==
  /\ \A op, other \in RType : Code[op] = Code[other] => op = other
  /\ \A op, other \in Opcode \ RType : Code[op] = Code[other] => op = other
  /\ \A op \in Opcode : Code[op] \in 0 .. 63
BY DEF Code, Opcode, RType, IType, JType

(* Opcode.of: a word stands for one operation at most.                     *)
LEMMA OpcodeIsUnique ==
  ASSUME NEW word, IsInstructionWord(word)
  PROVE  OpcodesOf(word) = {Parsed(word).op}
<1> DEFINE found == CHOOSE opcode \in OpcodesOf(word) : TRUE
<1>1. found \in OpcodesOf(word)
  BY DEF IsInstructionWord
<1>2. Parsed(word).op = found
  BY DEF Parsed
<1>3. \A op, other \in OpcodesOf(word) : op = other
  BY CodesDiffer DEF OpcodesOf
<1> HIDE DEF found
<1> QED
  BY <1>1, <1>2, <1>3

(* The words of 32 bits as Memory.read puts them together.                 *)
Half16   == {n \in Nat : n < 65536}
FileWord == [hi : Half16, lo : Half16]

(* Their halves are numbers of 16 bits, and they are nothing else.         *)
LEMMA Halves ==
  ASSUME NEW word \in FileWord
  PROVE  /\ word.hi \in Nat /\ word.hi < 65536
         /\ word.lo \in Nat /\ word.lo < 65536
         /\ word = [hi |-> word.hi, lo |-> word.lo]
<1>1. /\ word.hi \in Half16 /\ word.lo \in Half16
      /\ word = [hi |-> word.hi, lo |-> word.lo]
  BY DEF FileWord
<1> QED
  BY <1>1 DEF Half16

(* Shifting five bits out of a number, and what is left of it.             *)
LEMMA FiveBits ==
  ASSUME NEW n \in Nat
  PROVE  n = 32 * (n \div 32) + (n % 32) /\ n \div 32 \in Nat /\ n % 32 \in 0 .. 31
BY Z3

(* Ten bits are five and five more ...                                     *)
LEMMA TenBits ==
  ASSUME NEW n \in Nat
  PROVE  n \div 1024 = (n \div 32) \div 32
BY Z3

(* ... and eleven are six and five more.                                   *)
LEMMA ElevenBits ==
  ASSUME NEW n \in Nat
  PROVE  n \div 2048 = (n \div 64) \div 32
BY Z3

(* The fields of the upper half of a word make it up again ...             *)
LEMMA UpperFields ==
  ASSUME NEW n \in Nat, n < 65536
  PROVE  /\ (n \div 32) % 32 \in 0 .. 31 /\ n % 32 \in 0 .. 31
         /\ n % 1024 \in 0 .. 1023
         /\ n = 32 * (32 * (n \div 1024) + ((n \div 32) % 32)) + (n % 32)
<1>1. n % 1024 \in Nat /\ n % 1024 < 1024
  BY Z3
<1>2. n \div 32 \in Nat /\ n % 32 \in 0 .. 31 /\ n = 32 * (n \div 32) + (n % 32)
  BY FiveBits
<1>3. (n \div 32) % 32 \in 0 .. 31
  BY <1>2, FiveBits
<1>4. n \div 32 = 32 * ((n \div 32) \div 32) + ((n \div 32) % 32)
  BY <1>2, FiveBits
<1>5. n \div 32 = 32 * (n \div 1024) + ((n \div 32) % 32)
  BY <1>4, TenBits
<1>6. n = 32 * (32 * (n \div 1024) + ((n \div 32) % 32)) + (n % 32)
  BY <1>2, <1>5
<1> QED
  BY <1>1, <1>2, <1>3, <1>6

(* ... and so do those of the lower half.                                  *)
LEMMA LowerFields ==
  ASSUME NEW n \in Nat, n < 65536
  PROVE  /\ n \div 2048 \in 0 .. 31 /\ (n \div 64) % 32 \in 0 .. 31 /\ n % 64 \in 0 .. 63
         /\ n = 64 * (32 * (n \div 2048) + ((n \div 64) % 32)) + (n % 64)
<1>1. n \div 64 \in Nat /\ n = 64 * (n \div 64) + (n % 64)
  BY Z3
<1>2. n % 64 \in 0 .. 63
  BY Z3
<1>3. /\ (n \div 64) % 32 \in 0 .. 31
      /\ n \div 64 = 32 * ((n \div 64) \div 32) + ((n \div 64) % 32)
  BY <1>1, FiveBits
<1>4. n \div 64 = 32 * (n \div 2048) + ((n \div 64) % 32)
  BY <1>3, ElevenBits
<1>5. n \div 2048 \in 0 .. 31
  <2>1. n \div 2048 \in Nat /\ 2048 * (n \div 2048) <= n
    BY Z3
  <2> QED
    BY <2>1
<1>6. n = 64 * (32 * (n \div 2048) + ((n \div 64) % 32)) + (n % 64)
  BY <1>1, <1>4
<1> QED
  BY <1>2, <1>3, <1>5, <1>6

(* Sign extension keeps halves apart; four times as much is still apart.   *)
LEMMA SignExtendedFacts ==
  ASSUME NEW x \in Nat, NEW y \in Nat, x < 65536, y < 65536
  PROVE  /\ SignExtended(x) = SignExtended(y) => x = y
         /\ SignExtended(x) * 4 = SignExtended(y) * 4 => x = y
<1>1. SignExtended(x) = SignExtended(y) => x = y
  BY Z3 DEF SignExtended
<1>2. SignExtended(x) \in Int /\ SignExtended(y) \in Int
  BY Z3 DEF SignExtended
<1> QED
  BY <1>1, <1>2, Z3

(* Every operand fits a register of 29 bits or more.                       *)
LEMMA OperandType ==
  ASSUME WordLimit >= 4 * 1024 * 65536,
         NEW hi \in Nat, NEW lo \in Nat, hi < 65536, lo < 65536
  PROVE  /\ SignExtended(lo) \in Word /\ SignExtended(lo) * 4 \in Word
         /\ lo \in Word /\ 0 \in Word
         /\ ((hi % 1024) * 65536 + lo) * 4 \in Word
         /\ (lo \div 64) % 32 \in Word
<1> DEFINE t == hi % 1024
           s == (lo \div 64) % 32
<1>1. WordLimit \in Nat
  BY IsaAssumption
<1>2. t \in Nat /\ t < 1024 /\ s \in Nat /\ s < 32
  BY UpperFields, LowerFields
<1> HIDE DEF t, s
<1>3. \A n \in Int : -WordLimit <= n /\ n < WordLimit => n \in Word
  BY <1>1, Z3 DEF Word
<1>4. /\ SignExtended(lo) \in Int /\ -32768 <= SignExtended(lo)
      /\ SignExtended(lo) < 32768
  BY Z3 DEF SignExtended
<1>5. SignExtended(lo) \in Word /\ SignExtended(lo) * 4 \in Word
  BY <1>1, <1>3, <1>4, Z3
<1>6. lo \in Word /\ 0 \in Word /\ s \in Word
  BY <1>1, <1>2, <1>3, Z3
<1>7. (t * 65536 + lo) * 4 \in Word
  BY <1>1, <1>2, <1>3, Z3
<1> QED
  BY <1>5, <1>6, <1>7, SMT DEF t, s
(* ParsedInstruction: the fields of a word are those of an instruction.    *)
LEMMA ParsedType ==
  ASSUME Register = 0 .. 31, WordLimit >= 4 * 1024 * 65536,
         NEW word \in FileWord, IsInstructionWord(word)
  PROVE  Parsed(word) \in Instruction
<1> DEFINE op == Parsed(word).op
           hi == word.hi
           lo == word.lo
<1>1. op \in Opcode
  BY OpcodeIsUnique DEF OpcodesOf, Opcode
<1>2. hi \in Nat /\ hi < 65536 /\ lo \in Nat /\ lo < 65536
  BY Halves
<1>3. Parsed(word) = [op |-> op, rs |-> (hi \div 32) % 32, rt |-> hi % 32,
                      rd |-> lo \div 2048, imm |-> OperandOf(op, word)]
  BY DEF Parsed
<1>4. OperandOf(op, word) \in Word
  <2>1. /\ SignExtended(lo) \in Word /\ SignExtended(lo) * 4 \in Word
        /\ lo \in Word /\ 0 \in Word
        /\ ((hi % 1024) * 65536 + lo) * 4 \in Word
        /\ ShiftAmount(word) \in Word
    BY <1>2, OperandType DEF ShiftAmount
  <2> HIDE DEF op
  <2> QED
    BY <2>1 DEF OperandOf
<1>5. /\ (hi \div 32) % 32 \in Register /\ hi % 32 \in Register
      /\ lo \div 2048 \in Register
  BY <1>2, UpperFields, LowerFields
<1> HIDE DEF op, hi, lo
<1> QED
  BY <1>1, <1>3, <1>4, <1>5 DEF Instruction

(* ParsedInstruction loses nothing: two words that are decoded alike are   *)
(* the same word, except that only SLL has use for the shift amount.       *)
THEOREM DecodingLosesNothing ==
  ASSUME NEW u \in FileWord, IsInstructionWord(u),
         NEW v \in FileWord, IsInstructionWord(v),
         Parsed(u) = Parsed(v),
         Parsed(u).op \in RType \ {"SLL"} => ShiftAmount(u) = ShiftAmount(v)
  PROVE  u = v
<1> DEFINE op == Parsed(u).op
<1>1. /\ u.hi \in Nat /\ u.hi < 65536 /\ u.lo \in Nat /\ u.lo < 65536
      /\ v.hi \in Nat /\ v.hi < 65536 /\ v.lo \in Nat /\ v.lo < 65536
      /\ u = [hi |-> u.hi, lo |-> u.lo] /\ v = [hi |-> v.hi, lo |-> v.lo]
  BY Halves
<1>2. op \in OpcodesOf(u) /\ op \in OpcodesOf(v)
  BY OpcodeIsUnique
<1>3. /\ (u.hi \div 32) % 32 = (v.hi \div 32) % 32 /\ u.hi % 32 = v.hi % 32
      /\ u.lo \div 2048 = v.lo \div 2048
  <2>1. \A w : /\ Parsed(w).rs = (w.hi \div 32) % 32
               /\ Parsed(w).rt = w.hi % 32
               /\ Parsed(w).rd = w.lo \div 2048
    BY DEF Parsed
  <2> QED
    BY <2>1
<1>4. OperandOf(op, u) = OperandOf(op, v)
  <2>1. \A w : Parsed(w).imm = OperandOf(Parsed(w).op, w)
    BY DEF Parsed
  <2> QED
    BY <2>1
<1>5. CASE op \in RType
  <2>1. /\ u.hi \div 1024 = 0 /\ v.hi \div 1024 = 0
        /\ u.lo % 64 = Code[op] /\ v.lo % 64 = Code[op]
    BY <1>2, <1>5 DEF OpcodesOf
  <2>2. ShiftAmount(u) = ShiftAmount(v)
    <3>1. op = "SLL" => OperandOf(op, u) = ShiftAmount(u) /\ OperandOf(op, v) = ShiftAmount(v)
      BY DEF OperandOf
    <3> QED
      BY <1>4, <1>5, <3>1
  <2>3. u.hi = v.hi
    <3>1. /\ u.hi = 32 * (32 * (u.hi \div 1024) + ((u.hi \div 32) % 32)) + (u.hi % 32)
          /\ v.hi = 32 * (32 * (v.hi \div 1024) + ((v.hi \div 32) % 32)) + (v.hi % 32)
      BY <1>1, UpperFields
    <3> QED
      BY <1>3, <2>1, <3>1
  <2>4. u.lo = v.lo
    <3>1. /\ u.lo = 64 * (32 * (u.lo \div 2048) + ((u.lo \div 64) % 32)) + (u.lo % 64)
          /\ v.lo = 64 * (32 * (v.lo \div 2048) + ((v.lo \div 64) % 32)) + (v.lo % 64)
      BY <1>1, LowerFields
    <3>2. (u.lo \div 64) % 32 = (v.lo \div 64) % 32
      BY <2>2 DEF ShiftAmount
    <3> QED
      BY <1>3, <2>1, <3>1, <3>2
  <2> QED
    BY <1>1, <2>3, <2>4
<1>6. CASE op \in Opcode \ RType
  <2>1. u.hi \div 1024 = Code[op] /\ v.hi \div 1024 = Code[op]
    BY <1>2, <1>6 DEF OpcodesOf
  <2>2. u.hi = v.hi
    <3>1. /\ u.hi = 32 * (32 * (u.hi \div 1024) + ((u.hi \div 32) % 32)) + (u.hi % 32)
          /\ v.hi = 32 * (32 * (v.hi \div 1024) + ((v.hi \div 32) % 32)) + (v.hi % 32)
      BY <1>1, UpperFields
    <3> QED
      BY <1>3, <2>1, <3>1
  <2>3. u.lo = v.lo
    <3>1. CASE op \in {"ADDIU", "ADDI", "SLTI", "SW", "LW"}
      <4>1. SignExtended(u.lo) = SignExtended(v.lo)
        BY <1>4, <3>1 DEF OperandOf
      <4> QED
        BY <1>1, <4>1, SignExtendedFacts
    <3>2. CASE op \in {"BNE", "BEQ"}
      <4>1. SignExtended(u.lo) * 4 = SignExtended(v.lo) * 4
        BY <1>4, <3>2 DEF OperandOf
      <4> QED
        BY <1>1, <4>1, SignExtendedFacts
    <3>3. CASE op \in {"J", "JAL"}
      <4>1. ((u.hi % 1024) * 65536 + u.lo) * 4 = ((v.hi % 1024) * 65536 + v.lo) * 4
        BY <1>4, <3>3 DEF OperandOf
      <4>2. ((u.hi % 1024) * 65536 + u.lo) * 4 = ((u.hi % 1024) * 65536 + v.lo) * 4
        BY <2>2, <4>1
      <4>3. \A n \in Nat : (n * 65536 + u.lo) * 4 = (n * 65536 + v.lo) * 4 => u.lo = v.lo
        BY <1>1
      <4>4. u.hi % 1024 \in Nat
        BY <1>1, UpperFields
      <4> QED
        BY <4>2, <4>3, <4>4
    <3>4. CASE op \in {"ORI", "LUI"}
      <4> HIDE DEF op
      <4>1. OperandOf(op, u) = u.lo /\ OperandOf(op, v) = v.lo
        BY <3>4 DEF OperandOf
      <4> QED
        BY <1>4, <4>1, Zenon
    <3> QED
      BY <1>6, <3>1, <3>2, <3>3, <3>4 DEF Opcode, RType, IType, JType
  <2> QED
    BY <1>1, <2>2, <2>3
<1> QED
  BY <1>2, <1>5, <1>6 DEF OpcodesOf

(* What is read from a loaded file is a word of two halves.                *)
LEMMA WordType ==
  ASSUME NEW file \in Seq(0 .. 255), NEW a \in 0 .. (LoadedSize(file) - 1),
         a % 4 = 0
  PROVE  WordAt(file, a) \in FileWord
<1>1. LoadedSize(file) \in Nat /\ LoadedSize(file) % 4 = 0 /\ a \in Nat
  BY LoadedSizeBounds
<1>2. a + 3 < LoadedSize(file)
  <2>1. a < LoadedSize(file)
    BY <1>1
  <2> QED
    BY <1>1, <2>1, WholeWords
<1>3. /\ Buffered(file, a) \in 0 .. 255 /\ Buffered(file, a + 1) \in 0 .. 255
      /\ Buffered(file, a + 2) \in 0 .. 255 /\ Buffered(file, a + 3) \in 0 .. 255
  <2>1. /\ a + 1 \in 0 .. (LoadedSize(file) - 1)
        /\ a + 2 \in 0 .. (LoadedSize(file) - 1)
        /\ a + 3 \in 0 .. (LoadedSize(file) - 1)
    BY <1>1, <1>2
  <2>2. \A b \in 0 .. (LoadedSize(file) - 1) : Buffered(file, b) \in 0 .. 255
    BY LoadedBytes
  <2> QED
    BY <2>1, <2>2
<1>4. \A x, y \in 0 .. 255 : 256 * x + y \in Half16
  BY Z3 DEF Half16
<1>5. /\ 256 * Buffered(file, a) + Buffered(file, a + 1) \in Half16
      /\ 256 * Buffered(file, a + 2) + Buffered(file, a + 3) \in Half16
  BY <1>3, <1>4
<1> QED
  BY <1>1, <1>5, WordOfBytes DEF FileWord

(* A loaded file is a program the processors can be given: whatever bytes  *)
(* it holds, what Memory.read and ParsedInstruction make of its words are  *)
(* instructions, at addresses.                                             *)
THEOREM LoadedFilesArePrograms ==
  ASSUME Register = 0 .. 31, WordLimit >= 4 * 1024 * 65536,
         NEW file \in Seq(0 .. 255)
  PROVE  IsProgram(TextOf(file))
<1> DEFINE text == TextOf(file)
<1>1. DOMAIN text \subseteq Nat
  BY LoadedSizeBounds DEF TextOf
<1>2. ASSUME NEW a \in DOMAIN text
      PROVE  text[a] \in Instruction
  <2>1. /\ a \in 0 .. (LoadedSize(file) - 1) /\ a % 4 = 0
        /\ IsInstructionWord(WordAt(file, a))
        /\ text[a] = Parsed(WordAt(file, a))
    BY <1>2 DEF TextOf
  <2>2. WordAt(file, a) \in FileWord
    BY <2>1, WordType
  <2> QED
    BY <2>1, <2>2, ParsedType
<1> QED
  BY <1>1, <1>2 DEF IsProgram
=============================================================================
