----------------------------- MODULE ByteMemory -----------------------------
(***************************************************************************)
(* Memory.kt at the level of its bytes: a word is kept as four signed      *)
(* bytes, the least significant one first.  The other modules take the     *)
(* memory for a map from addresses to words; MemoryHoldsWords of           *)
(* IsaTheorems is what entitles them to.                                   *)
(***************************************************************************)
EXTENDS Integers

Byte == -128 .. 127

(* Int.toByte keeps the low eight bits; `and 0xFF` makes them unsigned;    *)
(* `shr 8` drops eight bits and keeps the sign.                            *)
ToByte(n)   == ((n + 128) % 256) - 128
Unsigned(b) == b % 256
Shr8(n)     == n \div 256

(* The values of Int: what is left of one after three bytes is a byte.     *)
Int32 == {n \in Int : Shr8(Shr8(Shr8(n))) \in Byte}

(* read: the most significant byte gives the sign.                         *)
Read(memory, address) ==
  Unsigned(memory[address])
    + 256 * (Unsigned(memory[address + 1])
               + 256 * (Unsigned(memory[address + 2])
                          + 256 * memory[address + 3]))

(* write: the bytes of a value, from the lowest up.                        *)
Written(memory, address, value) ==
  [memory EXCEPT ![address]     = ToByte(value),
                 ![address + 1] = ToByte(Shr8(value)),
                 ![address + 2] = ToByte(Shr8(Shr8(value))),
                 ![address + 3] = ToByte(Shr8(Shr8(Shr8(value))))]
=============================================================================
