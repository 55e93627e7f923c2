------------------------------ MODULE PcUnits ------------------------------
(***************************************************************************)
(* The program counter units (cpu/pc).  findNext chooses the next address  *)
(* from the latches a cycle has just produced, and may squash the younger  *)
(* ones, mark the end of the run and learn.  It is modelled as an operator *)
(* that returns the address, the three latches and the unit's new state.   *)
(***************************************************************************)
EXTENDS Stages, BranchPrediction

NoPrediction            == [kind |-> "None"]
StaticUnit(strategy)    == [kind |-> "Static", strategy |-> strategy]
DynamicUnit(machine)    == [kind |-> "Dynamic", machine |-> machine,
                            state |-> InitialState(machine)]
HistoryUnit(scope)      == [kind |-> "History", scope |-> scope,
                            buffer |-> EmptyBuffer,
                            patterns |-> [h \in Line |-> InitialState("Saturation")],
                            history |-> [l \in Line |-> 0]]

(* The states a unit may be in.                                            *)
PcUnit ==
  {NoPrediction}
    \cup [kind : {"Static"}, strategy : Strategy]
    \cup [kind : {"Dynamic"}, machine : Machine, state : MachineState]
    \cup [kind : {"History"}, scope : Scope,
           buffer : [Line -> [valid : BOOLEAN, tag : Int, target : Int]],
           patterns : [Line -> MachineState], history : [Line -> History]]

(* Every unit the test suite builds, in its initial state.                 *)
EveryPcUnit == {NoPrediction} \cup {StaticUnit(s) : s \in Strategy}
                 \cup {DynamicUnit(m) : m \in Machine}
                 \cup {HistoryUnit(s) : s \in Scope}
-----------------------------------------------------------------------------
(* Mutation: nothing is squashed.                                          *)
LeftAlone(latch) == latch

Squashed(latch) == [latch EXCEPT !.valid = FALSE]

(* Mutation: the end is never marked.                                      *)
LeftUnmarked(latch, target) == latch

(* Where a latch redirected the fetch to -1, its instruction is the last.  *)
MarkedEnd(latch, target) == [latch EXCEPT !.isEnd = (target = End)]

Sequential(unit, pc, ifid, idex, exma) ==
  [pc |-> pc + 4, ifid |-> ifid, idex |-> idex, exma |-> exma, unit |-> unit]

(* The instruction in decode redirects the fetch: the word behind it goes. *)
FromDecode(unit, target, ifid, idex, exma) ==
  [pc |-> target, ifid |-> Squashed(ifid), idex |-> MarkedEnd(idex, target),
   exma |-> exma, unit |-> unit]

(* The branch in execute redirects it: both words behind it go.            *)
FromExecute(unit, target, ifid, idex, exma) ==
  [pc |-> target, ifid |-> Squashed(ifid), idex |-> Squashed(idex),
   exma |-> MarkedEnd(exma, target), unit |-> unit]

(* A jump in decode redirects the fetch; anything else lets it run on.     *)
JumpOrSequential(unit, pc, ifid, idex, exma) ==
  IF idex.valid /\ IsJump(idex.op)
  THEN FromDecode(unit, idex.nextPc, ifid, idex, exma)
  ELSE Sequential(unit, pc, ifid, idex, exma)

(* Mutation: a branch wrongly predicted taken is fetched again.            *)
CorrectedToBranch(exma) == IF exma.branch THEN exma.nextPc ELSE exma.pc

(* Where a branch leads when its prediction was wrong.                     *)
Corrected(exma) == IF exma.branch THEN exma.nextPc ELSE exma.pc + 8

(* The prediction was right when the word fetched `after` the branch is at *)
(* the target exactly if the branch is taken.                              *)
TakenCorrect(exma, after) == exma.branch = (after.pc = exma.nextPc)

Resolving(exma) == exma.valid /\ IsBranch(exma.op)
-----------------------------------------------------------------------------
(* NonePredictionPcUnit                                                    *)
NoneNext(unit, pc, ifid, idex, exma) ==
  IF exma.valid /\ exma.branch
  THEN FromExecute(unit, exma.nextPc, ifid, idex, exma)
  ELSE JumpOrSequential(unit, pc, ifid, idex, exma)

(* StaticBranchPredictionPcUnit and DynamicBranchPredictionPcUnit, with    *)
(* their prediction for the branch in decode.                              *)
SpeculativeNext(unit, taken, pc, ifid, idex, exma) ==
  IF Resolving(exma) /\ ~TakenCorrect(exma, ifid)
  THEN FromExecute(unit, Corrected(exma), ifid, idex, exma)
  ELSE IF idex.valid /\ IsBranch(idex.op) /\ taken
  THEN FromDecode(unit, idex.imm, ifid, idex, exma)
  ELSE JumpOrSequential(unit, pc, ifid, idex, exma)

StaticNext(unit, pc, ifid, idex, exma) ==
  SpeculativeNext(unit, PredictAsTaken(unit.strategy, pc, idex.imm),
                  pc, ifid, idex, exma)

(* The state machine learns from the branch in execute before it predicts. *)
DynamicNext(unit, pc, ifid, idex, exma) ==
  LET learnt == IF Resolving(exma)
                THEN [unit EXCEPT !.state = Update(unit.machine, @, exma.branch)]
                ELSE unit
  IN  SpeculativeNext(learnt, Taken(learnt.state), pc, ifid, idex, exma)

(* updateHistory of HistoryBufferedBranchPredictionPcUnit.                 *)
Learnt(unit, exma) ==
  LET at == HistoryIndex(unit.scope, exma.pc)
  IN  [unit EXCEPT
         !.buffer = Buffered(@, exma.pc, exma.nextPc),
         !.patterns[unit.history[at]] = Update("Saturation", @, exma.branch),
         !.history[at] = Shifted(@, exma.branch)]

(* A hit on the word just fetched, predicted taken, goes before anything   *)
(* decode or execute have found.                                           *)
HistoryNext(unit, pc, ifid, idex, exma) ==
  LET pattern == unit.patterns[unit.history[HistoryIndex(unit.scope, pc)]]
      hit     == IsHit(unit.buffer, ifid.pc) /\ Taken(pattern)
  IN  IF hit
      THEN [Sequential(unit, pc, ifid, idex, exma) EXCEPT
              !.pc = TargetAddress(unit.buffer, ifid.pc)]
      ELSE IF ~Resolving(exma)
      THEN JumpOrSequential(unit, pc, ifid, idex, exma)
      ELSE IF TakenCorrect(exma, idex)
      THEN Sequential(Learnt(unit, exma), pc, ifid, idex, exma)
      ELSE FromExecute(Learnt(unit, exma), Corrected(exma), ifid, idex, exma)

FindNext(unit, pc, ifid, idex, exma) ==
  CASE unit.kind = "None"    -> NoneNext(unit, pc, ifid, idex, exma)
    [] unit.kind = "Static"  -> StaticNext(unit, pc, ifid, idex, exma)
    [] unit.kind = "Dynamic" -> DynamicNext(unit, pc, ifid, idex, exma)
    [] unit.kind = "History" -> HistoryNext(unit, pc, ifid, idex, exma)
=============================================================================
