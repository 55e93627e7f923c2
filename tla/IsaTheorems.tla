---------------------------- MODULE IsaTheorems ----------------------------
(***************************************************************************)
(* Lemmas about the operators of Isa: what the ALU, the memory and the     *)
(* search for the next instruction return, for every value of the          *)
(* constants.                                                              *)
(***************************************************************************)
EXTENDS Isa, TLAPS

(* Wrapping an integer gives a word.                                       *)
LEMMA WrapType ==
  ASSUME NEW x \in Int
  PROVE  Wrap(x) \in Word
<1> DEFINE m == 2 * WordLimit
<1>1. m \in Nat /\ m > 0 /\ WordLimit \in Nat
  BY IsaAssumption
<1>2. ASSUME NEW n \in Nat, n > 0, NEW y \in Int
      PROVE  y % n \in 0 .. (n - 1)
  BY <1>2
<1>3. (x + WordLimit) % m \in 0 .. (m - 1)
  BY <1>1, <1>2
<1> QED
  BY <1>1, <1>3 DEF Wrap, Word

(* The constants the ALU and the register file use fit a word.             *)
LEMMA ZeroOneWords == 0 \in Word /\ 1 \in Word /\ 16 \in Word /\ -1 \in Word
BY IsaAssumption DEF Word

(* The ALU computes words from words.                                      *)
LEMMA OperateType ==
  ASSUME NEW op \in Signal, NEW x \in Word, NEW y \in Word
  PROVE  Operate(op, x, y) \in Word
<1>1. x \in Int /\ y \in Int
  BY IsaAssumption DEF Word
<1>2. Wrap(x + y) \in Word /\ Wrap(x - y) \in Word
  BY <1>1, WrapType
<1>3. BitOr(x, y) \in Word /\ ShiftLeft(x, y) \in Word
  BY IsaAssumption
<1>4. Bool(x < y) \in Word /\ Bool(x = y) \in Word /\ Bool(x # y) \in Word
  BY ZeroOneWords DEF Bool
<1> QED
  BY <1>2, <1>3, <1>4, ZeroOneWords DEF Operate

(* The result with its operands selected, and the link of JAL, are words.  *)
LEMMA AluValueType ==
  ASSUME NEW op \in Signal, NEW pc \in Int, NEW imm \in Word,
         NEW data1 \in Word, NEW data2 \in Word
  PROVE  AluValue(op, pc, imm, data1, data2) \in Word
<1>1. Wrap(pc + 8) \in Word
  BY WrapType
<1> QED
  BY <1>1, OperateType, ZeroOneWords DEF AluValue

(* The operand an instruction carries, a branch's target included, fits.   *)
LEMMA ImmediateType ==
  ASSUME NEW pc \in Int, NEW i \in Instruction
  PROVE  Immediate(pc, i) \in Word
<1>1. i.imm \in Word /\ i.imm \in Int
  BY IsaAssumption DEF Instruction, Word
<1>2. Wrap(pc + 4 + i.imm) \in Word
  BY <1>1, WrapType
<1> QED
  BY <1>1, <1>2 DEF Immediate

(* Memory reads give words, and writes keep the memory a map to words.     *)
LEMMA MemoryType ==
  ASSUME NEW memory \in [DataAddress -> Word], NEW address
  PROVE  /\ ReadWord(memory, address) \in Word
         /\ \A value \in Word :
              WriteWord(memory, address, value) \in [DataAddress -> Word]
BY ZeroOneWords DEF ReadWord, WriteWord

(* Registers and memory start with words.                                  *)
LEMMA InitialWords ==
  /\ InitialRegisters \in [Register -> Word]
  /\ InitialData \in [DataAddress -> Word]
BY IsaAssumption, ZeroOneWords DEF InitialRegisters

(* What is fetched is an instruction, loaded or not.                       *)
LEMMA InstructionType ==
  /\ Nop \in Instruction
  /\ \A text, a : IsProgram(text) => InstructionAt(text, a) \in Instruction
<1>1. Nop \in Instruction
  BY IsaAssumption, ZeroOneWords
     DEF Nop, Instruction, Opcode, RType
<1> QED
  BY <1>1 DEF IsProgram, InstructionAt

(* The destination of an instruction is a register of the file.            *)
LEMMA WriteRegisterType ==
  ASSUME NEW op, NEW i \in Instruction
  PROVE  WriteRegister(op, i) \in Register
BY IsaAssumption DEF WriteRegister, Instruction

(* Skipping a no-op does not change which instruction comes next.          *)
LEMMA NextInstructionSkips ==
  ASSUME NEW text, IsProgram(text), NEW a \in Nat,
         InstructionAt(text, a) = Nop
  PROVE  NextInstruction(text, a + 4) = NextInstruction(text, a)
<1> DEFINE Ahead(b) == {q \in DOMAIN text : /\ q >= b
                                            /\ (q - b) % 4 = 0
                                            /\ text[q] # Nop}
           First(S) == CHOOSE q \in S : \A other \in S : q <= other
<1>1. Ahead(a + 4) = Ahead(a)
  <2>1. DOMAIN text \subseteq Nat
    BY DEF IsProgram
  <2>2. ASSUME NEW q \in DOMAIN text, text[q] # Nop
        PROVE  (q >= a /\ (q - a) % 4 = 0)
                 <=> (q >= a + 4 /\ (q - (a + 4)) % 4 = 0)
    <3>1. q # a
      BY <2>2 DEF InstructionAt
    <3> QED
      BY <2>1, <3>1
  <2> QED
    BY <2>2
<1>2. CASE InstructionAt(text, a + 4) # Nop
  <2>1. a + 4 \in Ahead(a + 4)
    BY <1>2 DEF InstructionAt
  <2>2. \A q \in Ahead(a + 4) : a + 4 <= q
    BY DEF IsProgram
  <2>3. \A q \in Ahead(a + 4) : (\A other \in Ahead(a + 4) : q <= other) => q = a + 4
    BY <2>1, <2>2 DEF IsProgram
  <2>4. First(Ahead(a + 4)) = a + 4
    BY <2>1, <2>2, <2>3
  <2>5. NextInstruction(text, a + 4) = a + 4
    BY <1>2 DEF NextInstruction
  <2>6. NextInstruction(text, a) = First(Ahead(a))
    BY <1>1, <2>1 DEF NextInstruction
  <2> QED
    BY <1>1, <2>4, <2>5, <2>6
<1>3. CASE InstructionAt(text, a + 4) = Nop
  <2>1. \A b \in Nat : InstructionAt(text, b) = Nop
          => NextInstruction(text, b) = IF Ahead(b) = {} THEN Off
                                        ELSE First(Ahead(b))
    BY DEF NextInstruction
  <2> HIDE DEF Ahead, First
  <2> QED
    BY <1>1, <1>3, <2>1
<1> QED
  BY <1>2, <1>3
-----------------------------------------------------------------------------
(* The memory at the level of its bytes.                                   *)
Bytes == INSTANCE ByteMemory

(* The low eight bits of a number survive the way through a signed byte.   *)
LEMMA LowBits ==
  ASSUME NEW n \in Int
  PROVE  Bytes!ToByte(n) \in Bytes!Byte /\ Bytes!Unsigned(Bytes!ToByte(n)) = n % 256
BY SMTT(30) DEF Bytes!ToByte, Bytes!Unsigned, Bytes!Byte

(* A number is made of its low bits and of the rest.                       *)
LEMMA Recomposed ==
  ASSUME NEW n \in Int
  PROVE  Bytes!Shr8(n) \in Int /\ Bytes!Unsigned(Bytes!ToByte(n)) + 256 * Bytes!Shr8(n) = n
<1>1. n = 256 * (n \div 256) + (n % 256)
  BY SMT
<1> QED
  BY <1>1, LowBits, SMT DEF Bytes!Shr8

(* Four bytes hold a word of 32 bits, its sign included.                   *)
LEMMA FourBytes ==
  ASSUME NEW v \in Bytes!Int32
  PROVE  Bytes!Unsigned(Bytes!ToByte(v))
           + 256 * (Bytes!Unsigned(Bytes!ToByte(Bytes!Shr8(v)))
                      + 256 * (Bytes!Unsigned(Bytes!ToByte(Bytes!Shr8(Bytes!Shr8(v))))
                                 + 256 * Bytes!ToByte(Bytes!Shr8(Bytes!Shr8(Bytes!Shr8(v)))))) = v
<1> DEFINE b == Bytes!Shr8(v)
           c == Bytes!Shr8(b)
           d == Bytes!Shr8(c)
<1>1. v \in Int /\ b \in Int /\ c \in Int /\ d \in Int
  BY Recomposed DEF Bytes!Int32
<1>2. /\ Bytes!Unsigned(Bytes!ToByte(v)) + 256 * b = v
      /\ Bytes!Unsigned(Bytes!ToByte(b)) + 256 * c = b
      /\ Bytes!Unsigned(Bytes!ToByte(c)) + 256 * d = c
  BY <1>1, Recomposed
<1>3. Bytes!ToByte(d) = d
  <2>1. d \in -128 .. 127
    BY DEF Bytes!Int32, Bytes!Byte
  <2> HIDE DEF d
  <2> QED
    BY <2>1, SMT DEF Bytes!ToByte
<1> HIDE DEF b, c, d
<1>4. Bytes!Unsigned(Bytes!ToByte(v))
        + 256 * (Bytes!Unsigned(Bytes!ToByte(b))
                   + 256 * (Bytes!Unsigned(Bytes!ToByte(c)) + 256 * Bytes!ToByte(d))) = v
  BY <1>1, <1>2, <1>3
<1> QED
  BY <1>4 DEF b, c, d

(* Memory.kt is a map from word addresses to words: read returns what was  *)
(* last written to an address, and a write changes no other word.          *)
THEOREM MemoryHoldsWords ==
  ASSUME NEW size \in Nat, NEW memory \in [0 .. (size - 1) -> Bytes!Byte],
         NEW a \in Nat, NEW b \in Nat, a % 4 = 0, b % 4 = 0,
         a + 3 < size, b + 3 < size, NEW v \in Bytes!Int32
  PROVE  /\ Bytes!Written(memory, a, v) \in [0 .. (size - 1) -> Bytes!Byte]
         /\ Bytes!Read(Bytes!Written(memory, a, v), b)
              = IF a = b THEN v ELSE Bytes!Read(memory, b)
<1> DEFINE written == Bytes!Written(memory, a, v)
<1>1. \A k \in 0 .. 3 : a + k \in 0 .. (size - 1) /\ b + k \in 0 .. (size - 1)
  OBVIOUS
<1>2. v \in Int
  BY DEF Bytes!Int32
<1>3. /\ Bytes!ToByte(v) \in Bytes!Byte /\ Bytes!ToByte(Bytes!Shr8(v)) \in Bytes!Byte
      /\ Bytes!ToByte(Bytes!Shr8(Bytes!Shr8(v))) \in Bytes!Byte
      /\ Bytes!ToByte(Bytes!Shr8(Bytes!Shr8(Bytes!Shr8(v)))) \in Bytes!Byte
  <2>1. /\ Bytes!Shr8(v) \in Int /\ Bytes!Shr8(Bytes!Shr8(v)) \in Int
        /\ Bytes!Shr8(Bytes!Shr8(Bytes!Shr8(v))) \in Int
    BY <1>2, Recomposed
  <2> QED
    BY <1>2, <2>1, LowBits
<1>4. written \in [0 .. (size - 1) -> Bytes!Byte]
  BY <1>3 DEF Bytes!Written
<1>5. CASE a = b
  <2>1. /\ written[a] = Bytes!ToByte(v)
        /\ written[a + 1] = Bytes!ToByte(Bytes!Shr8(v))
        /\ written[a + 2] = Bytes!ToByte(Bytes!Shr8(Bytes!Shr8(v)))
        /\ written[a + 3] = Bytes!ToByte(Bytes!Shr8(Bytes!Shr8(Bytes!Shr8(v))))
    BY DEF Bytes!Written
  <2> HIDE DEF written
  <2>2. Bytes!Read(written, b) = v
    BY <1>5, <2>1, FourBytes DEF Bytes!Read
  <2> QED
    BY <1>4, <1>5, <2>2 DEF written
<1>6. CASE a # b
  <2>1. \A j, k \in 0 .. 3 : b + j # a + k
    BY <1>6
  <2>2. /\ written[b] = memory[b]
        /\ written[b + 1] = memory[b + 1]
        /\ written[b + 2] = memory[b + 2]
        /\ written[b + 3] = memory[b + 3]
    BY <2>1 DEF Bytes!Written
  <2> HIDE DEF written
  <2>3. Bytes!Read(written, b) = Bytes!Read(memory, b)
    BY <2>2 DEF Bytes!Read
  <2> QED
    BY <1>4, <1>6, <2>3 DEF written
<1> QED
  BY <1>5, <1>6
=============================================================================
