-------------------------- MODULE BranchPrediction --------------------------
(***************************************************************************)
(* What a program counter unit predicts with: the static strategies, the   *)
(* bit state machines (cpu/prediction), the branch target buffer, the      *)
(* history registers and the pattern table (cpu/bht).                      *)
(***************************************************************************)
EXTENDS Integers

CONSTANTS
  BufferSize,   \* lines of the target buffer, patterns, local histories (16)
  MaximumHistoryValue   \* 2 to the number of branches remembered (16)

ASSUME PredictionAssumption ==
  /\ BufferSize \in Nat \ {0}
  /\ MaximumHistoryValue \in Nat \ {0}
  /\ MaximumHistoryValue <= BufferSize  \* every history has a pattern
-----------------------------------------------------------------------------
(* Static strategies.                                                      *)
Strategy == {"AlwaysTaken", "AlwaysNotTaken", "BTFNT"}

PredictAsTaken(strategy, nowPc, branchPc) ==
  \/ strategy = "AlwaysTaken"
  \/ strategy = "BTFNT" /\ branchPc <= nowPc
-----------------------------------------------------------------------------
(* Bit state machines: the states, those that predict taken, where each    *)
(* machine starts and where an outcome moves it.                           *)
Machine == {"SingleBit", "Saturation", "Hysteresis"}

MachineState == {"TAKEN", "NOT_TAKEN", "STRONGLY_TAKEN", "WEAKLY_TAKEN",
                 "WEAKLY_NOT_TAKEN", "STRONGLY_NOT_TAKEN"}

Taken(state) == state \in {"TAKEN", "STRONGLY_TAKEN", "WEAKLY_TAKEN"}

InitialState(machine) ==
  IF machine = "SingleBit" THEN "TAKEN" ELSE "WEAKLY_NOT_TAKEN"

AfterTaken(machine, state) ==
  CASE machine = "SingleBit"          -> "TAKEN"
    [] state = "STRONGLY_NOT_TAKEN"   -> "WEAKLY_NOT_TAKEN"
    [] /\ machine = "Saturation"
       /\ state = "WEAKLY_NOT_TAKEN"  -> "WEAKLY_TAKEN"
    [] OTHER                          -> "STRONGLY_TAKEN"

AfterNotTaken(machine, state) ==
  CASE machine = "SingleBit"          -> "NOT_TAKEN"
    [] state = "STRONGLY_TAKEN"       -> IF machine = "Saturation"
                                         THEN "WEAKLY_TAKEN"
                                         ELSE "WEAKLY_NOT_TAKEN"
    [] /\ machine = "Saturation"
       /\ state = "WEAKLY_TAKEN"      -> "WEAKLY_NOT_TAKEN"
    [] OTHER                          -> "STRONGLY_NOT_TAKEN"

Update(machine, state, isTaken) ==
  IF isTaken THEN AfterTaken(machine, state) ELSE AfterNotTaken(machine, state)
-----------------------------------------------------------------------------
(* The word number of an address; Kotlin's division truncates towards 0.   *)
WordNumber(pc) == IF pc < 0 THEN -((-pc) \div 4) ELSE pc \div 4

Index(pc) == WordNumber(pc) % BufferSize
Tag(pc)   == WordNumber(pc) \div BufferSize

Line == 0 .. (BufferSize - 1)

(* Branch target buffer.                                                   *)
EmptyBuffer == [l \in Line |-> [valid |-> FALSE, tag |-> 0, target |-> 0]]

(* Mutation: any word on the line hits.                                    *)
IsHitOnLine(buffer, pc) == buffer[Index(pc)].valid

IsHit(buffer, pc) == LET line == buffer[Index(pc)]
                     IN  line.valid /\ line.tag = Tag(pc)

TargetAddress(buffer, pc) == buffer[Index(pc)].target

Buffered(buffer, pc, target) ==
  [buffer EXCEPT ![Index(pc)] =
     [valid |-> TRUE, tag |-> Tag(pc), target |-> target]]

(* History registers: one per line for the local kind, a single one (kept  *)
(* in line 0) for the global kind.  A register drops its oldest branch.    *)
History == 0 .. (MaximumHistoryValue - 1)

Scope == {"Local", "Global"}

HistoryIndex(scope, pc) == IF scope = "Local" THEN Index(pc) ELSE 0

Shifted(value, isTaken) ==
  (2 * value + (IF isTaken THEN 1 ELSE 0)) % MaximumHistoryValue
=============================================================================
