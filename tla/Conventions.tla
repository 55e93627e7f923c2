----------------------------- MODULE Conventions -----------------------------
(***************************************************************************)
(* The code a MIPS I compiler emits for this processor: what the programs  *)
(* keep, and the pipelines rely on.                                        *)
(***************************************************************************)
EXTENDS Isa

Writes(i) == IF RegWrite(i.op) /\ i # Nop THEN {WriteRegister(i.op, i)} ELSE {}

Reads(i) == {i.rs, i.rt}

(* Every branch and jump is followed by a no-op, control never enters at   *)
(* the middle of nowhere, and register 0 is never a destination.           *)
Conventional(text) ==
  \A a \in DOMAIN text :
    LET i == text[a]
    IN  /\ IsBranch(i.op) \/ IsJump(i.op) =>
             a + 4 \in DOMAIN text /\ text[a + 4] = Nop
        /\ IsBranch(i.op) => Immediate(a, i) \in DOMAIN text
        /\ i.op \in {"J", "JAL"} => i.imm \in DOMAIN text
        /\ 0 \notin Writes(i)

(* The instruction after a load does not use what it loads.                *)
LoadDelayKept(text) ==
  \A a \in DOMAIN text :
    text[a].op = "LW" => text[a].rt \notin Reads(InstructionAt(text, a + 4))

(* A jump register's source is written three slots or more before it, and  *)
(* no call jumps straight to it.                                           *)
JumpOperandSettled(text) ==
  \A a \in DOMAIN text :
    text[a].op = "JR" =>
      /\ \A d \in {4, 8} : text[a].rs \notin Writes(InstructionAt(text, a - d))
      /\ \A b \in DOMAIN text : ~(text[b].op = "JAL" /\ text[b].imm = a)

Compiled(text) ==
  Conventional(text) /\ LoadDelayKept(text) /\ JumpOperandSettled(text)

(* Room for a fetch that is led to a branch's target before the branch is  *)
(* decoded: the target is a no-op, and no second branch is fetched while   *)
(* the first is in execute, on either path.                                *)
Spaced(text) ==
  \A a \in DOMAIN text :
    LET target == Immediate(a, text[a])
    IN  /\ a % 4 = 0
        /\ IsBranch(text[a].op) =>
             /\ InstructionAt(text, target) = Nop
             /\ \A b \in {a + 8, target + 4} : ~IsBranch(InstructionAt(text, b).op)
=============================================================================
