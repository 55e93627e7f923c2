----------------------------- MODULE MachineCode -----------------------------
(***************************************************************************)
(* From a file of machine code to instructions: Memory.load puts the bytes *)
(* of a big-endian file into the memory, Memory.read makes a word of four  *)
(* of them, Opcode.of and ParsedInstruction take the word apart.           *)
(*                                                                         *)
(* A word is its two halves of 16 bits, as a listing prints it.            *)
(***************************************************************************)
EXTENDS Isa, Sequences

CONSTANT BufferSize   \* bytes that load reads at a time (2048)

ASSUME BufferAssumption == BufferSize \in Nat \ {0} /\ BufferSize % 4 = 0

(* How far load fills the memory: it copies the whole buffer each time.    *)
LoadedSize(file) ==
  ((Len(file) + BufferSize - 1) \div BufferSize) * BufferSize

(* What the buffer held when it was copied to position a and on: behind    *)
(* the end of the file there is still what the read before left.           *)
Buffered(file, a) ==
  CASE a < Len(file)                         -> file[a + 1]
    [] a >= Len(file) /\ a >= BufferSize     -> file[a - BufferSize + 1]
    [] OTHER                                 -> 0

(* load: byte a of the memory; the bytes of a word change their order.     *)
Loaded(file, a) == Buffered(file, 4 * (a \div 4) + (3 - (a % 4)))

(* read: four bytes, the least significant one first.                      *)
WordAt(file, a) ==
  [hi |-> 256 * Loaded(file, a + 3) + Loaded(file, a + 2),
   lo |-> 256 * Loaded(file, a + 1) + Loaded(file, a)]

(* Opcode.kt: the code of an operation, of type R in the function field.   *)
Code ==
  [ADDI |-> \h08, ADDIU |-> \h09, ADDU |-> \h21, BEQ |-> \h04, BNE |-> \h05,
   J |-> \h02, JAL |-> \h03, JR |-> \h08, LUI |-> \h0F, LW |-> \h23,
   ORI |-> \h0D, SLT |-> \h2A, SLTI |-> \h0A, SLL |-> \h00, SW |-> \h2B,
   SUBU |-> \h23]

OpcodesOf(word) ==
  IF word.hi \div 1024 = 0 THEN {op \in RType : Code[op] = word.lo % 64}
  ELSE {op \in Opcode \ RType : Code[op] = word.hi \div 1024}

(* Any other word raises an exception when it is decoded.                  *)
IsInstructionWord(word) == OpcodesOf(word) # {}

(* Mutation: the field is taken without shifting it down.                  *)
ShiftAmountInPlace(word) == word.lo % 32

ShiftAmount(word) == (word.lo \div 64) % 32

SignExtended(half) == IF half < 32768 THEN half ELSE half - 65536

(* The operand an operation takes from its word.  The memory is smaller    *)
(* than 2^28 bytes: the high bits of a jump's target are zero.             *)
OperandOf(op, word) ==
  CASE op \in {"ADDIU", "ADDI", "SLTI", "SW", "LW"} -> SignExtended(word.lo)
    [] op \in {"BNE", "BEQ"} -> SignExtended(word.lo) * 4
    [] op \in {"J", "JAL"}   -> ((word.hi % 1024) * 65536 + word.lo) * 4
    [] op \in {"ORI", "LUI"} -> word.lo
    [] op = "SLL"            -> ShiftAmount(word)
    [] OTHER                 -> 0

(* ParsedInstruction, as the record of its fields Isa works with.          *)
Parsed(word) ==
  LET op == CHOOSE opcode \in OpcodesOf(word) : TRUE
  IN  [op |-> op,
       rs |-> (word.hi \div 32) % 32,
       rt |-> word.hi % 32,
       rd |-> word.lo \div 2048,
       imm |-> OperandOf(op, word)]

(* The text a file is loaded as.  Words that are no instructions are not   *)
(* part of it: the programs never run into one.                            *)
TextOf(file) ==
  [a \in {w \in 0 .. (LoadedSize(file) - 1) :
            w % 4 = 0 /\ IsInstructionWord(WordAt(file, w))}
     |-> Parsed(WordAt(file, a))]
=============================================================================
