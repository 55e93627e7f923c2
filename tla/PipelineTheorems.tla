-------------------------- MODULE PipelineTheorems --------------------------
(***************************************************************************)
(* What every pipelined control unit relies on, for every value of the     *)
(* constants: the stages and the program counter units keep the types of   *)
(* the latches, and what a program counter unit may do to them.            *)
(***************************************************************************)
EXTENDS PipelineControlUnit, Conventions, IsaTheorems, WellFoundedInduction

(* Words and addresses are integers.                                       *)
LEMMA WordsAreIntegers == \A w \in Word : w \in Int
BY IsaAssumption DEF Word

(* The latches start with results of their types.                          *)
LEMMA EmptyLatches ==
  /\ EmptyIfId \in FetchResult
  /\ EmptyIdEx \in DecodeResult
  /\ EmptyExMa \in ExecutionResult
  /\ EmptyMaWb \in MemoryAccessResult
<1>1. 0 \in Word /\ 0 \in Register /\ "NONE" \in Signal
  BY ZeroOneWords, IsaAssumption DEF Signal
<1> QED
  BY <1>1, InstructionType
     DEF EmptyIfId, FetchResult, EmptyIdEx, DecodeResult, EmptyExMa,
         ExecutionResult, EmptyMaWb, MemoryAccessResult

(* Fetching at an address that is not negative gives a FetchResult.        *)
LEMMA FetchType ==
  ASSUME NEW valid \in BOOLEAN, NEW text, IsProgram(text),
         NEW pc \in Int, valid => pc >= 0
  PROVE  Fetch(valid, text, pc) \in FetchResult
<1>1. InstructionAt(text, pc) \in Instruction
  BY InstructionType
<1> QED
  BY <1>1, EmptyLatches DEF Fetch, FetchResult

(* Decoding it gives operands, a target and a destination that fit.        *)
LEMMA DecodeType ==
  ASSUME NEW latch \in FetchResult, NEW file \in [Register -> Word]
  PROVE  Decode(latch, file) \in DecodeResult
<1> DEFINE i      == latch.instruction
           signal == DecodedSignal(latch)
<1>1. latch.valid \in BOOLEAN /\ latch.pc \in Nat /\ i \in Instruction
  BY DEF FetchResult
<1>2. /\ i.op \in Opcode /\ i.rs \in Register /\ i.rt \in Register
      /\ i.imm \in Word
  BY <1>1 DEF Instruction
<1>3. signal \in Signal
  BY <1>2 DEF DecodedSignal, Signal
<1>4. Immediate(latch.pc, i) \in Word /\ WriteRegister(signal, i) \in Register
  BY <1>1, ImmediateType, WriteRegisterType
<1>5. file[i.rs] \in Word /\ file[i.rt] \in Word
  BY <1>2
<1>6. /\ file[i.rs] \in Int /\ i.imm \in Int /\ latch.pc \in Int
  BY <1>1, <1>2, <1>5, WordsAreIntegers
<1> HIDE DEF i, signal
<1>7. Decode(latch, file) =
        [valid |-> latch.valid, pc |-> latch.pc, op |-> signal,
         isEnd |-> FALSE, imm |-> Immediate(latch.pc, i), readReg1 |-> i.rs,
         readReg2 |-> i.rt, readData1 |-> file[i.rs], readData2 |-> file[i.rt],
         writeReg |-> WriteRegister(signal, i),
         nextPc |-> CASE signal = "JR"           -> file[i.rs]
                      [] signal \in {"J", "JAL"} -> i.imm
                      [] OTHER                   -> latch.pc]
  BY DEF Decode, DecodeWith, i, signal
<1>8. (CASE signal = "JR"           -> file[i.rs]
         [] signal \in {"J", "JAL"} -> i.imm
         [] OTHER                   -> latch.pc) \in Int
  BY <1>6
<1> QED
  BY <1>1, <1>2, <1>3, <1>4, <1>5, <1>7, <1>8 DEF DecodeResult

(* The ALU keeps the width, and a branch its target.                       *)
LEMMA ExecuteType ==
  ASSUME NEW latch \in DecodeResult
  PROVE  Execute(latch) \in ExecutionResult
<1>1. /\ latch.op \in Signal /\ latch.pc \in Int /\ latch.imm \in Word
      /\ latch.readData1 \in Word /\ latch.readData2 \in Word
  BY DEF DecodeResult
<1>2. AluValue(latch.op, latch.pc, latch.imm, latch.readData1, latch.readData2)
        \in Word
  BY <1>1, AluValueType
<1>3. latch.imm \in Int
  BY <1>1, WordsAreIntegers
<1>4. IsBranch(latch.op) \in BOOLEAN
  BY DEF IsBranch
<1> QED
  BY <1>1, <1>2, <1>3, <1>4 DEF Execute, DecodeResult, ExecutionResult

(* A load reads a word, a store writes one.                                *)
LEMMA MemoryAccessType ==
  ASSUME NEW latch \in ExecutionResult, NEW mem \in [DataAddress -> Word]
  PROVE  /\ MemoryAccess(latch, mem) \in MemoryAccessResult
         /\ Stored(latch, mem) \in [DataAddress -> Word]
<1>1. latch.aluValue \in Word /\ latch.readData2 \in Word
  BY DEF ExecutionResult
<1>2. ReadWord(mem, latch.aluValue) \in Word
  BY MemoryType
<1>3. WriteWord(mem, latch.aluValue, latch.readData2) \in [DataAddress -> Word]
  BY <1>1, MemoryType
<1> QED
  BY <1>1, <1>2, <1>3 DEF MemoryAccess, Stored, ExecutionResult, MemoryAccessResult

(* Writing back leaves a file of words.                                    *)
LEMMA WriteBackType ==
  ASSUME NEW latch \in MemoryAccessResult, NEW file \in [Register -> Word]
  PROVE  WriteBack(latch, file) \in [Register -> Word]
BY DEF WriteBack, MemoryAccessResult
-----------------------------------------------------------------------------
(* A predictor state is followed by a predictor state.                     *)
LEMMA UpdateType ==
  ASSUME NEW machine, NEW state, NEW taken
  PROVE  Update(machine, state, taken) \in MachineState
BY DEF Update, AfterTaken, AfterNotTaken, MachineState

(* An address that is not negative has a line; its tag is an integer.      *)
LEMMA LineOfAddress ==
  ASSUME NEW pc \in Nat
  PROVE  Index(pc) \in Line /\ Tag(pc) \in Int
<1>1. WordNumber(pc) \in Nat
  BY DEF WordNumber
<1>2. BufferSize \in Nat /\ BufferSize > 0
  BY PredictionAssumption
<1>3. ASSUME NEW n \in Nat, n > 0, NEW w \in Nat
      PROVE  w % n \in 0 .. (n - 1) /\ w \div n \in Int
  BY <1>3
<1> QED
  BY <1>1, <1>2, <1>3 DEF Index, Tag, Line

(* The history table is looked up in one of its lines.                     *)
LEMMA HistoryLine ==
  ASSUME NEW scope, NEW pc \in Nat
  PROVE  HistoryIndex(scope, pc) \in Line
BY LineOfAddress, PredictionAssumption DEF HistoryIndex, Line

(* A shifted history is again a history, cut to its width.                 *)
LEMMA ShiftedType ==
  ASSUME NEW value \in History, NEW taken
  PROVE  Shifted(value, taken) \in History
<1>1. MaximumHistoryValue \in Nat /\ MaximumHistoryValue > 0
  BY PredictionAssumption
<1>2. ASSUME NEW n \in Nat, n > 0, NEW w \in Nat
      PROVE  w % n \in 0 .. (n - 1)
  BY <1>2
<1>3. 2 * value + (IF taken THEN 1 ELSE 0) \in Nat
  BY DEF History
<1> QED
  BY <1>1, <1>2, <1>3 DEF Shifted, History
-----------------------------------------------------------------------------
(* The three things findNext does to the latches: nothing; squash the word *)
(* behind a transfer in decode; squash the two behind a branch in execute. *)
RunsOn(next, fetched, decoded, executed) ==
  /\ next.ifid = fetched
  /\ next.idex = decoded
  /\ next.exma = executed

TurnedInDecode(next, fetched, decoded, executed) ==
  /\ decoded.valid
  /\ next.ifid = Squashed(fetched)
  /\ next.idex = MarkedEnd(decoded, next.pc)
  /\ next.exma = executed

TurnedInExecute(next, fetched, decoded, executed) ==
  /\ executed.valid
  /\ IsBranch(executed.op) \/ executed.branch
  /\ next.ifid = Squashed(fetched)
  /\ next.idex = Squashed(decoded)
  /\ next.exma = MarkedEnd(executed, next.pc)

(* There are four program counter units.                                   *)
LEMMA UnitKinds ==
  ASSUME NEW unit \in PcUnit
  PROVE  unit.kind \in {"None", "Static", "Dynamic", "History"}
BY DEF PcUnit, NoPrediction

(* The units that do not buffer targets fetch the next word unless an      *)
(* instruction turns the fetch.                                            *)
LEMMA UnbufferedOutcome ==
  ASSUME NEW unit, NEW taken, NEW pc, NEW f, NEW d, NEW e
  PROVE  \A next \in {JumpOrSequential(unit, pc, f, d, e),
                      NoneNext(unit, pc, f, d, e),
                      SpeculativeNext(unit, taken, pc, f, d, e)} :
           \/ RunsOn(next, f, d, e) /\ next.pc = pc + 4
           \/ TurnedInDecode(next, f, d, e)
           \/ TurnedInExecute(next, f, d, e)
<1> USE DEF RunsOn, TurnedInDecode, TurnedInExecute, Sequential, FromDecode,
            FromExecute
<1>1. \A next \in {JumpOrSequential(unit, pc, f, d, e)} :
        \/ RunsOn(next, f, d, e) /\ next.pc = pc + 4
        \/ TurnedInDecode(next, f, d, e)
  BY DEF JumpOrSequential
<1>2. \A next \in {NoneNext(unit, pc, f, d, e)} :
        \/ next = JumpOrSequential(unit, pc, f, d, e)
        \/ TurnedInExecute(next, f, d, e)
  BY DEF NoneNext
<1>3. \A next \in {SpeculativeNext(unit, taken, pc, f, d, e)} :
        \/ next = JumpOrSequential(unit, pc, f, d, e)
        \/ TurnedInDecode(next, f, d, e)
        \/ TurnedInExecute(next, f, d, e)
  BY DEF SpeculativeNext, Resolving
<1> QED
  BY <1>1, <1>2, <1>3

(* A buffer hit, too, leaves the latches alone.                            *)
LEMMA HistoryOutcome ==
  ASSUME NEW unit, NEW pc, NEW f, NEW d, NEW e
  PROVE  LET next == HistoryNext(unit, pc, f, d, e)
         IN  \/ RunsOn(next, f, d, e)
             \/ TurnedInDecode(next, f, d, e)
             \/ TurnedInExecute(next, f, d, e)
<1> DEFINE next == HistoryNext(unit, pc, f, d, e)
<1>1. \/ next = JumpOrSequential(unit, pc, f, d, e)
      \/ RunsOn(next, f, d, e)
      \/ TurnedInExecute(next, f, d, e)
  BY DEF HistoryNext, Sequential, FromExecute, Resolving, RunsOn, TurnedInExecute
<1>2. \/ RunsOn(JumpOrSequential(unit, pc, f, d, e), f, d, e)
      \/ TurnedInDecode(JumpOrSequential(unit, pc, f, d, e), f, d, e)
      \/ TurnedInExecute(JumpOrSequential(unit, pc, f, d, e), f, d, e)
  BY UnbufferedOutcome
<1> QED
  BY <1>1, <1>2

(* Every unit does one of the three; only a buffer hit leads a fetch away. *)
LEMMA FindNextOutcome ==
  ASSUME NEW unit \in PcUnit, NEW pc, NEW f, NEW d, NEW e
  PROVE  LET next == FindNext(unit, pc, f, d, e)
         IN  \/ RunsOn(next, f, d, e) /\ (unit.kind # "History" => next.pc = pc + 4)
             \/ TurnedInDecode(next, f, d, e)
             \/ TurnedInExecute(next, f, d, e)
<1>1. CASE unit.kind = "None"
  BY <1>1, UnbufferedOutcome DEF FindNext
<1>2. CASE unit.kind = "Static"
  BY <1>2, UnbufferedOutcome DEF FindNext, StaticNext
<1>3. CASE unit.kind = "Dynamic"
  BY <1>3, UnbufferedOutcome DEF FindNext, DynamicNext
<1>4. CASE unit.kind = "History"
  BY <1>4, HistoryOutcome DEF FindNext
<1> QED
  BY <1>1, <1>2, <1>3, <1>4, UnitKinds

(* The state of a unit, by kind: a state machine that has learnt is one.   *)
LEMMA DynamicUnitType ==
  ASSUME NEW unit \in PcUnit, unit.kind = "Dynamic", NEW taken
  PROVE  LET learnt == [unit EXCEPT !.state = Update(unit.machine, @, taken)]
         IN  learnt \in PcUnit /\ learnt.kind = "Dynamic"
<1>1. unit \in [kind : {"Dynamic"}, machine : Machine, state : MachineState]
  BY DEF PcUnit, NoPrediction
<1>2. Update(unit.machine, unit.state, taken) \in MachineState
  BY UpdateType
<1> QED
  BY <1>1, <1>2 DEF PcUnit

(* What a unit that lets a branch in execute pass has found: without       *)
(* prediction that it is not taken, else that the prediction was right.    *)
Settled(kind, fetched, executed) ==
  Resolving(executed) =>
    IF kind = "None" THEN ~executed.branch ELSE TakenCorrect(executed, fetched)

(* The prediction for a branch in decode while pc is fetched.              *)
Predicts(unit, pc, target) ==
  \/ unit.kind = "Static" /\ PredictAsTaken(unit.strategy, pc, target)
  \/ unit.kind = "Dynamic" /\ Taken(unit.state)

(* Where a unit that does not buffer targets leads the fetch.              *)
LEMMA UnbufferedTurns ==
  ASSUME NEW unit \in PcUnit, unit.kind # "History",
         NEW pc, NEW f, NEW d, NEW e, e.branch => IsBranch(e.op)
  PROVE  LET next == FindNext(unit, pc, f, d, e)
         IN  \/ /\ RunsOn(next, f, d, e) /\ next.pc = pc + 4
                /\ ~(d.valid /\ IsJump(d.op)) /\ Settled(unit.kind, f, e)
                /\ d.valid /\ IsBranch(d.op) => ~Predicts(next.unit, pc, d.imm)
             \/ /\ TurnedInDecode(next, f, d, e) /\ Settled(unit.kind, f, e)
                /\ \/ IsJump(d.op) /\ next.pc = d.nextPc
                   \/ /\ IsBranch(d.op) /\ next.pc = d.imm
                      /\ unit.kind # "None" /\ Predicts(next.unit, pc, d.imm)
             \/ /\ TurnedInExecute(next, f, d, e) /\ Resolving(e)
                /\ next.pc = Corrected(e)
<1> USE DEF RunsOn, TurnedInDecode, TurnedInExecute, Sequential, FromDecode,
            FromExecute
<1>1. \A u : LET next == JumpOrSequential(u, pc, f, d, e)
             IN  /\ next.unit = u
                 /\ \/ /\ RunsOn(next, f, d, e) /\ next.pc = pc + 4
                       /\ ~(d.valid /\ IsJump(d.op))
                    \/ /\ TurnedInDecode(next, f, d, e)
                       /\ IsJump(d.op) /\ next.pc = d.nextPc
  BY DEF JumpOrSequential
<1>2. CASE unit.kind = "None"
  <2>1. CASE e.valid /\ e.branch
    <3>1. FindNext(unit, pc, f, d, e) = FromExecute(unit, e.nextPc, f, d, e)
      BY <1>2, <2>1 DEF FindNext, NoneNext
    <3> QED
      BY <2>1, <3>1 DEF Resolving, Corrected
  <2>2. CASE ~(e.valid /\ e.branch)
    <3>1. FindNext(unit, pc, f, d, e) = JumpOrSequential(unit, pc, f, d, e)
      BY <1>2, <2>2 DEF FindNext, NoneNext
    <3>2. Settled(unit.kind, f, e)
      BY <1>2, <2>2 DEF Settled, Resolving
    <3>3. ~Predicts(unit, pc, d.imm)
      BY <1>2 DEF Predicts
    <3> QED
      BY <1>1, <3>1, <3>2, <3>3
  <2> QED
    BY <2>1, <2>2
<1>3. CASE unit.kind # "None"
  <2>1. PICK u, taken :
          /\ FindNext(unit, pc, f, d, e) = SpeculativeNext(u, taken, pc, f, d, e)
          /\ taken <=> Predicts(u, pc, d.imm)
    <3>1. CASE unit.kind = "Static"
      BY <3>1 DEF FindNext, StaticNext, Predicts
    <3>2. CASE unit.kind = "Dynamic"
      <4> DEFINE updated == [unit EXCEPT !.state = Update(unit.machine, @, e.branch)]
                 learnt  == IF Resolving(e) THEN updated ELSE unit
      <4>1. updated.kind = "Dynamic"
        BY <3>2, DynamicUnitType
      <4>2. FindNext(unit, pc, f, d, e)
              = SpeculativeNext(learnt, Taken(learnt.state), pc, f, d, e)
        BY <3>2 DEF FindNext, DynamicNext
      <4>3. learnt.kind = "Dynamic"
        BY <3>2, <4>1
      <4> HIDE DEF learnt
      <4> QED
        BY <4>2, <4>3 DEF Predicts
    <3> QED
      BY <1>3, <3>1, <3>2, UnitKinds
  <2>2. CASE Resolving(e) /\ ~TakenCorrect(e, f)
    <3>1. FindNext(unit, pc, f, d, e) = FromExecute(u, Corrected(e), f, d, e)
      BY <2>1, <2>2 DEF SpeculativeNext
    <3> QED
      BY <2>2, <3>1 DEF Resolving
  <2>3. CASE ~(Resolving(e) /\ ~TakenCorrect(e, f))
    <3>1. Settled(unit.kind, f, e)
      BY <1>3, <2>3 DEF Settled
    <3>2. CASE d.valid /\ IsBranch(d.op) /\ taken
      <4>1. FindNext(unit, pc, f, d, e) = FromDecode(u, d.imm, f, d, e)
        BY <2>1, <2>3, <3>2 DEF SpeculativeNext
      <4>2. Predicts(u, pc, d.imm)
        BY <2>1, <3>2
      <4>3. FindNext(unit, pc, f, d, e).unit = u
        BY <4>1
      <4>4. Predicts(FindNext(unit, pc, f, d, e).unit, pc, d.imm)
        BY <4>2, <4>3
      <4> QED
        BY <1>3, <3>1, <3>2, <4>1, <4>4
    <3>3. CASE ~(d.valid /\ IsBranch(d.op) /\ taken)
      <4>1. FindNext(unit, pc, f, d, e) = JumpOrSequential(u, pc, f, d, e)
        BY <2>1, <2>3, <3>3 DEF SpeculativeNext
      <4> QED
        BY <1>1, <2>1, <3>1, <3>3, <4>1
    <3> QED
      BY <3>2, <3>3
  <2> QED
    BY <2>2, <2>3
<1> QED
  BY <1>2, <1>3

(* Where a unit that buffers targets leads it: a hit goes before anything  *)
(* else; only a branch that is resolved teaches it anything.               *)
LEMMA BufferedTurns ==
  ASSUME NEW unit, unit.kind = "History", NEW pc, NEW f, NEW d, NEW e
  PROVE  LET next == FindNext(unit, pc, f, d, e)
         IN  \/ /\ RunsOn(next, f, d, e) /\ next.unit = unit
                /\ IsHit(unit.buffer, f.pc)
                /\ next.pc = TargetAddress(unit.buffer, f.pc)
             \/ /\ RunsOn(next, f, d, e) /\ next.unit = unit /\ next.pc = pc + 4
                /\ ~Resolving(e) /\ ~(d.valid /\ IsJump(d.op))
             \/ /\ TurnedInDecode(next, f, d, e) /\ next.unit = unit
                /\ ~Resolving(e) /\ IsJump(d.op) /\ next.pc = d.nextPc
             \/ /\ RunsOn(next, f, d, e) /\ next.unit = Learnt(unit, e)
                /\ Resolving(e) /\ TakenCorrect(e, d) /\ next.pc = pc + 4
             \/ /\ TurnedInExecute(next, f, d, e) /\ next.unit = Learnt(unit, e)
                /\ Resolving(e) /\ next.pc = Corrected(e)
<1> USE DEF RunsOn, TurnedInDecode, TurnedInExecute, Sequential, FromDecode,
            FromExecute
<1> DEFINE pattern == unit.patterns[unit.history[HistoryIndex(unit.scope, pc)]]
           hit     == IsHit(unit.buffer, f.pc) /\ Taken(pattern)
<1>1. FindNext(unit, pc, f, d, e) = HistoryNext(unit, pc, f, d, e)
  BY DEF FindNext
<1>2. CASE hit
  <2>1. HistoryNext(unit, pc, f, d, e)
          = [Sequential(unit, pc, f, d, e) EXCEPT !.pc = TargetAddress(unit.buffer, f.pc)]
    BY <1>2 DEF HistoryNext
  <2> QED
    BY <1>1, <1>2, <2>1
<1>3. CASE ~hit
  <2>1. HistoryNext(unit, pc, f, d, e) =
          IF ~Resolving(e) THEN JumpOrSequential(unit, pc, f, d, e)
          ELSE IF TakenCorrect(e, d) THEN Sequential(Learnt(unit, e), pc, f, d, e)
          ELSE FromExecute(Learnt(unit, e), Corrected(e), f, d, e)
    BY <1>3 DEF HistoryNext
  <2> HIDE DEF hit
  <2>2. CASE ~Resolving(e)
    BY <1>1, <2>1, <2>2 DEF JumpOrSequential
  <2>3. CASE Resolving(e)
    BY <1>1, <2>1, <2>3 DEF Resolving
  <2> QED
    BY <2>2, <2>3
<1> QED
  BY <1>2, <1>3

(* Only a branch that is resolved teaches a unit anything, and a branch    *)
(* that is taken never makes it predict otherwise.                         *)
LEMMA LearntPredicts ==
  ASSUME NEW unit \in PcUnit, unit.kind # "History",
         NEW pc, NEW f, NEW d, NEW e
  PROVE  LET next == FindNext(unit, pc, f, d, e)
         IN  /\ ~Resolving(e) => next.unit = unit
             /\ e.branch => \A p, t : Predicts(unit, p, t) => Predicts(next.unit, p, t)
<1> USE DEF Sequential, FromDecode, FromExecute, JumpOrSequential
<1>1. \A u, taken : SpeculativeNext(u, taken, pc, f, d, e).unit = u
  BY DEF SpeculativeNext
<1>2. CASE unit.kind = "None"
  BY <1>2 DEF FindNext, NoneNext
<1>3. CASE unit.kind = "Static"
  BY <1>1, <1>3 DEF FindNext, StaticNext
<1>4. CASE unit.kind = "Dynamic"
  <2> DEFINE updated == [unit EXCEPT !.state = Update(unit.machine, @, e.branch)]
             learnt  == IF Resolving(e) THEN updated ELSE unit
  <2>1. FindNext(unit, pc, f, d, e)
          = SpeculativeNext(learnt, Taken(learnt.state), pc, f, d, e)
    BY <1>4 DEF FindNext, DynamicNext
  <2>2. FindNext(unit, pc, f, d, e).unit = learnt
    BY <1>1, <2>1
  <2>3. updated.kind = "Dynamic" /\ updated.state = Update(unit.machine, unit.state, e.branch)
    <3>1. unit \in [kind : {"Dynamic"}, machine : Machine, state : MachineState]
      BY <1>4 DEF PcUnit, NoPrediction
    <3> QED
      BY <3>1
  <2> HIDE DEF updated
  <2>4. e.branch /\ Taken(unit.state) => Taken(updated.state)
    BY <2>3 DEF Update, AfterTaken, Taken
  <2> QED
    BY <1>4, <2>2, <2>3, <2>4 DEF Predicts
<1> QED
  BY <1>2, <1>3, <1>4, UnitKinds
-----------------------------------------------------------------------------
(* The history-based unit is told by its kind.                             *)
LEMMA HistoryUnitType ==
  ASSUME NEW unit \in PcUnit
  PROVE  unit.kind = "History" <=>
           unit \in [kind : {"History"}, scope : Scope,
                     buffer : [Line -> [valid : BOOLEAN, tag : Int, target : Int]],
                     patterns : [Line -> MachineState], history : [Line -> History]]
BY DEF PcUnit, NoPrediction

(* Learning changes one line of each of its tables.                        *)
LEMMA LearntType ==
  ASSUME NEW unit \in PcUnit, unit.kind = "History", NEW e \in ExecutionResult
  PROVE  Learnt(unit, e) \in PcUnit /\ Learnt(unit, e).kind = "History"
<1> DEFINE at       == HistoryIndex(unit.scope, e.pc)
           buffer   == Buffered(unit.buffer, e.pc, e.nextPc)
           pattern  == unit.history[at]
           state    == Update("Saturation", unit.patterns[pattern], e.branch)
           patterns == [unit.patterns EXCEPT ![pattern] = state]
           shifted  == Shifted(unit.history[at], e.branch)
           history  == [unit.history EXCEPT ![at] = shifted]
<1>1. /\ e.pc \in Nat /\ e.nextPc \in Int
      /\ unit.buffer \in [Line -> [valid : BOOLEAN, tag : Int, target : Int]]
      /\ unit.patterns \in [Line -> MachineState]
      /\ unit.history \in [Line -> History]
      /\ unit.scope \in Scope
  BY HistoryUnitType DEF ExecutionResult
<1>2. at \in Line
  BY <1>1, HistoryLine
<1>3. unit.history[at] \in History
  BY <1>1, <1>2
<1>4. pattern \in Line
  BY <1>3, PredictionAssumption DEF History, Line
<1>5. state \in MachineState /\ shifted \in History
  BY <1>3, UpdateType, ShiftedType
<1>6. buffer \in [Line -> [valid : BOOLEAN, tag : Int, target : Int]]
  BY <1>1, LineOfAddress DEF Buffered
<1> HIDE DEF at, buffer, pattern, state, shifted
<1>7. /\ patterns \in [Line -> MachineState]
      /\ history \in [Line -> History]
  BY <1>1, <1>5
<1>8. Learnt(unit, e) = [unit EXCEPT !.buffer = buffer, !.patterns = patterns,
                                     !.history = history]
  BY <1>1, HistoryUnitType DEF Learnt, at, buffer, pattern, state, shifted
<1> HIDE DEF patterns, history
<1> QED
  BY <1>6, <1>7, <1>8, HistoryUnitType DEF PcUnit

(* findNext keeps the unit's type and never changes what kind it is.       *)
LEMMA FindNextUnit ==
  ASSUME NEW unit \in PcUnit, NEW pc \in Int, NEW f \in FetchResult,
         NEW d \in DecodeResult, NEW e \in ExecutionResult
  PROVE  LET next == FindNext(unit, pc, f, d, e)
         IN  next.unit \in PcUnit /\ next.unit.kind = unit.kind
<1> USE DEF Sequential, FromDecode, FromExecute, JumpOrSequential
<1>1. \A u, taken : SpeculativeNext(u, taken, pc, f, d, e).unit = u
  BY DEF SpeculativeNext
<1>2. CASE unit.kind = "None"
  BY <1>2 DEF FindNext, NoneNext
<1>3. CASE unit.kind = "Static"
  BY <1>1, <1>3 DEF FindNext, StaticNext
<1>4. CASE unit.kind = "Dynamic"
  <2> DEFINE updated == [unit EXCEPT !.state = Update(unit.machine, @, e.branch)]
             learnt  == IF Resolving(e) THEN updated ELSE unit
  <2>1. updated \in PcUnit /\ updated.kind = "Dynamic"
    BY <1>4, DynamicUnitType
  <2>2. FindNext(unit, pc, f, d, e)
          = SpeculativeNext(learnt, Taken(learnt.state), pc, f, d, e)
    BY <1>4 DEF FindNext, DynamicNext
  <2> HIDE DEF updated
  <2> QED
    BY <1>1, <1>4, <2>1, <2>2
<1>5. CASE unit.kind = "History"
  BY <1>5, LearntType DEF FindNext, HistoryNext
<1> QED
  BY <1>2, <1>3, <1>4, <1>5, UnitKinds

(* ... and returns an address and results of their types.                  *)
LEMMA FindNextPc ==
  ASSUME NEW unit \in PcUnit, NEW pc \in Int, NEW f \in FetchResult,
         NEW d \in DecodeResult, NEW e \in ExecutionResult
  PROVE  FindNext(unit, pc, f, d, e).pc \in Int
<1>1. /\ d.nextPc \in Int /\ d.imm \in Int
      /\ e.nextPc \in Int /\ e.pc \in Int /\ Corrected(e) \in Int
  BY WordsAreIntegers DEF DecodeResult, ExecutionResult, Corrected
<1> USE <1>1 DEF Sequential, FromDecode, FromExecute, JumpOrSequential
<1>2. \A u, taken : SpeculativeNext(u, taken, pc, f, d, e).pc \in Int
  BY DEF SpeculativeNext
<1>3. CASE unit.kind = "None"
  BY <1>3 DEF FindNext, NoneNext
<1>4. CASE unit.kind = "Static"
  BY <1>2, <1>4 DEF FindNext, StaticNext
<1>5. CASE unit.kind = "Dynamic"
  BY <1>2, <1>5 DEF FindNext, DynamicNext
<1>6. CASE unit.kind = "History"
  <2>1. f.pc \in Nat
    BY DEF FetchResult
  <2>2. TargetAddress(unit.buffer, f.pc) \in Int
    BY <1>6, <2>1, HistoryUnitType, LineOfAddress DEF TargetAddress
  <2> QED
    BY <1>6, <2>2 DEF FindNext, HistoryNext
<1> QED
  BY <1>3, <1>4, <1>5, <1>6, UnitKinds

(* Together: findNext returns what the latches hold.                       *)
LEMMA FindNextType ==
  ASSUME NEW unit \in PcUnit, NEW pc \in Int, NEW f \in FetchResult,
         NEW d \in DecodeResult, NEW e \in ExecutionResult
  PROVE  LET next == FindNext(unit, pc, f, d, e)
         IN  /\ next.unit \in PcUnit /\ next.pc \in Int
             /\ next.ifid \in FetchResult
             /\ next.idex \in DecodeResult
             /\ next.exma \in ExecutionResult
<1> DEFINE next == FindNext(unit, pc, f, d, e)
<1>1. \/ RunsOn(next, f, d, e)
      \/ TurnedInDecode(next, f, d, e)
      \/ TurnedInExecute(next, f, d, e)
  BY FindNextOutcome
<1>2. Squashed(f) \in FetchResult
  BY DEF Squashed, FetchResult
<1>3. Squashed(d) \in DecodeResult /\ MarkedEnd(d, next.pc) \in DecodeResult
  BY DEF Squashed, MarkedEnd, DecodeResult
<1>4. MarkedEnd(e, next.pc) \in ExecutionResult
  BY DEF MarkedEnd, ExecutionResult
<1> HIDE DEF next
<1>5. /\ next.ifid \in FetchResult /\ next.idex \in DecodeResult
      /\ next.exma \in ExecutionResult
  BY <1>1, <1>2, <1>3, <1>4 DEF RunsOn, TurnedInDecode, TurnedInExecute
<1> QED
  BY <1>5, FindNextUnit, FindNextPc DEF next
-----------------------------------------------------------------------------
(* The whole cycle, common to both control units: a run starts well typed, *)
LEMMA InitialTypes == Init => TypeOK
<1> SUFFICES ASSUME Init PROVE TypeOK
  OBVIOUS
<1>1. IsProgram(program) /\ pcUnit \in PcUnit
  BY ProgramsAssumption, UnitsAssumption DEF Init
<1>2. registers \in [Register -> Word] /\ memory \in [DataAddress -> Word]
  BY InitialWords DEF Init
<1>3. /\ ifid \in FetchResult /\ idex \in DecodeResult
      /\ exma \in ExecutionResult /\ mawb \in MemoryAccessResult
  BY EmptyLatches DEF Init
<1>4. nextPc \in Int
  BY DEF Init
<1>5. isEnd \in BOOLEAN /\ halted \in BOOLEAN
  BY DEF Init
<1> QED
  BY <1>1, <1>2, <1>3, <1>4, <1>5 DEF TypeOK

(* and a cycle keeps the types, given what its first stages produced.      *)
LEMMA CycleTypes ==
  ASSUME TypeOK, NEW pc \in Int, NEW f \in FetchResult, NEW d \in DecodeResult,
         NEW e \in ExecutionResult, FinishCycle(pc, f, d, e),
         MemoryAccessAndWriteBack
  PROVE  TypeOK'
<1>1. /\ pcUnit' \in PcUnit /\ nextPc' \in Int /\ ifid' \in FetchResult
      /\ idex' \in DecodeResult /\ exma' \in ExecutionResult
  BY FindNextType DEF FinishCycle, TypeOK
<1>2. /\ mawb' \in MemoryAccessResult
      /\ memory' \in [DataAddress -> Word]
      /\ registers' \in [Register -> Word]
  BY MemoryAccessType, WriteBackType DEF MemoryAccessAndWriteBack, TypeOK
<1>3. isEnd' \in BOOLEAN /\ halted' \in BOOLEAN
  BY DEF FinishCycle, Ended, LastCycle, TypeOK, MemoryAccessResult
<1>4. IsProgram(program')
  BY DEF FinishCycle, TypeOK
<1> QED
  BY <1>1, <1>2, <1>3, <1>4 DEF TypeOK

(* What the stages hand to findNext, whichever way data hazards are met.   *)
StagesRan(pc, f, d, e) ==
  /\ f.valid => /\ ~Ended
                /\ f.pc = pc
                /\ f.instruction = InstructionAt(program, pc)
                /\ f.instruction # Nop
  /\ d.valid => ifid.valid /\ d.op = ifid.instruction.op
  /\ ~d.valid => d.op = "NONE"
  /\ ~d.isEnd
  /\ e.valid = idex.valid
  /\ e.op = idex.op
  /\ e.isEnd = idex.isEnd
  /\ e.branch => IsBranch(e.op)
  /\ mawb' = MemoryAccess(exma, memory)
  /\ FinishCycle(pc, f, d, e)

(* What findNext leaves in the latches.                                    *)
LEMMA CycleOutcome ==
  ASSUME TypeOK, NEW pc, NEW f \in FetchResult, NEW d \in DecodeResult,
         NEW e \in ExecutionResult, FinishCycle(pc, f, d, e)
  PROVE  \/ /\ ifid' = f /\ idex' = d /\ exma' = e
            /\ pcUnit.kind # "History" => nextPc' = pc + 4
         \/ /\ d.valid
            /\ ifid' = Squashed(f) /\ idex' = MarkedEnd(d, nextPc') /\ exma' = e
         \/ /\ e.valid /\ (IsBranch(e.op) \/ e.branch)
            /\ ifid' = Squashed(f) /\ idex' = Squashed(d)
            /\ exma' = MarkedEnd(e, nextPc')
BY FindNextOutcome
   DEF FinishCycle, TypeOK, RunsOn, TurnedInDecode, TurnedInExecute

(* The mark of the end travels with the last instruction: nothing valid is *)
(* behind it, and nothing valid is left when the loop is left.             *)
EndTravels ==
  /\ idex.isEnd => Ended /\ ~ifid.valid
  /\ exma.isEnd => Ended /\ ~ifid.valid /\ ~idex.valid
  /\ mawb.isEnd => Ended /\ ~ifid.valid /\ ~idex.valid /\ ~exma.valid
  /\ HaltedWhenDrained

(* No mark is set when a run starts ...                                    *)
LEMMA InitialEnd == Init => EndTravels
BY DEF Init, EndTravels, HaltedWhenDrained, EmptyIfId, EmptyIdEx, EmptyExMa,
       EmptyMaWb

(* ... and in a cycle each mark moves one latch on, or is taken back.      *)
LEMMA CycleEnd ==
  ASSUME TypeOK, EndTravels, NEW pc, NEW f \in FetchResult,
         NEW d \in DecodeResult, NEW e \in ExecutionResult,
         StagesRan(pc, f, d, e)
  PROVE  EndTravels'
<1>1. /\ Ended => Ended'
      /\ nextPc' = End => Ended'
      /\ halted' = mawb.isEnd
  BY DEF StagesRan, FinishCycle, Ended, LastCycle
<1>2. /\ f.valid => ~Ended
      /\ d.valid => ifid.valid
      /\ e.valid = idex.valid
      /\ e.isEnd = idex.isEnd
      /\ ~d.isEnd
      /\ mawb'.valid = exma.valid
      /\ mawb'.isEnd = exma.isEnd
  BY DEF StagesRan, MemoryAccess
<1>3. /\ ifid'.valid => f.valid
      /\ idex'.valid => d.valid
      /\ exma'.valid => e.valid
      /\ idex'.isEnd => nextPc' = End /\ ~ifid'.valid
      /\ exma'.isEnd => \/ e.isEnd
                        \/ nextPc' = End /\ ~ifid'.valid /\ ~idex'.valid
  <2>1. CASE ifid' = f /\ idex' = d /\ exma' = e
    BY <1>2, <2>1
  <2>2. CASE /\ ifid' = Squashed(f) /\ idex' = MarkedEnd(d, nextPc')
             /\ exma' = e
    BY <2>2 DEF Squashed, MarkedEnd, FetchResult, DecodeResult
  <2>3. CASE /\ ifid' = Squashed(f) /\ idex' = Squashed(d)
             /\ exma' = MarkedEnd(e, nextPc')
    BY <1>2, <2>3
       DEF Squashed, MarkedEnd, FetchResult, DecodeResult, ExecutionResult
  <2> QED
    BY <2>1, <2>2, <2>3, CycleOutcome DEF StagesRan
<1>4. idex.isEnd => Ended' /\ ~ifid'.valid /\ ~idex'.valid
  BY <1>1, <1>2, <1>3 DEF EndTravels
<1>5. exma.isEnd => Ended' /\ ~ifid'.valid /\ ~idex'.valid /\ ~exma'.valid
  BY <1>1, <1>2, <1>3 DEF EndTravels
<1>6. mawb.isEnd => /\ Ended'
                    /\ ~ifid'.valid /\ ~idex'.valid /\ ~exma'.valid /\ ~mawb'.valid
  BY <1>1, <1>2, <1>3 DEF EndTravels
<1>7. HaltedWhenDrained'
  BY <1>1, <1>6 DEF HaltedWhenDrained
<1> QED
  BY <1>1, <1>2, <1>3, <1>4, <1>5, <1>7 DEF EndTravels
-----------------------------------------------------------------------------
(* The convention the squashing relies on: a no-op behind every branch.    *)
DelaySlotsAreNops(text) ==
  \A a \in DOMAIN text :
    IsBranch(text[a].op) => InstructionAt(text, a + 4) = Nop

(* Units that squash an instruction they have already decoded only in the  *)
(* shadow of a branch, and programs with nothing in that shadow.           *)
CleanRun == pcUnit.kind # "History" /\ DelaySlotsAreNops(program)

(* What is fetched, and nothing valid right behind a branch: the word that *)
(* findNext may squash after its signals were decoded is a no-op.          *)
NothingShadowed ==
  /\ CleanRun
  /\ ifid.valid => /\ nextPc = ifid.pc + 4
                   /\ ifid.instruction = InstructionAt(program, ifid.pc)
  /\ idex.valid /\ IsBranch(idex.op) => ~ifid.valid
  /\ SquashedIsInert

(* The latches start empty ...                                             *)
LEMMA InitialShadow == Init /\ CleanRun => NothingShadowed
BY DEF Init, NothingShadowed, SquashedIsInert, EmptyIfId, EmptyIdEx, EmptyExMa,
       EmptyMaWb, RegWrite, MemWrite

(* ... and what a cycle squashes after its decode was a no-op.             *)
LEMMA CycleShadow ==
  ASSUME TypeOK, NothingShadowed, NEW pc \in Int, NEW f \in FetchResult,
         NEW d \in DecodeResult, NEW e \in ExecutionResult,
         StagesRan(pc, f, d, e), ifid.valid => pc = nextPc
  PROVE  NothingShadowed'
<1>1. /\ program' = program /\ pcUnit'.kind = pcUnit.kind
      /\ FinishCycle(pc, f, d, e)
  BY FindNextUnit DEF StagesRan, FinishCycle, TypeOK
<1>2. CleanRun'
  BY <1>1 DEF NothingShadowed, CleanRun
<1>3. /\ ~d.valid => ~RegWrite(d.op) /\ ~MemWrite(d.op)
      /\ ~e.valid => ~RegWrite(e.op) /\ ~MemWrite(e.op)
  BY DEF StagesRan, NothingShadowed, SquashedIsInert, RegWrite, MemWrite
<1>4. ~mawb'.valid => ~RegWrite(mawb'.op) /\ ~MemWrite(mawb'.op)
  BY DEF StagesRan, MemoryAccess, NothingShadowed, SquashedIsInert
<1>5. CASE ifid' = f /\ idex' = d /\ exma' = e /\ nextPc' = pc + 4
  <2>1. f.valid => /\ nextPc' = f.pc + 4
                   /\ f.instruction = InstructionAt(program', f.pc)
    BY <1>1, <1>5 DEF StagesRan
  <2>2. ASSUME d.valid, IsBranch(d.op) PROVE ~f.valid
    <3>1. /\ pc = ifid.pc + 4
          /\ IsBranch(InstructionAt(program, ifid.pc).op)
      BY <2>2 DEF StagesRan, NothingShadowed
    <3>2. ifid.pc \in DOMAIN program
      BY <3>1 DEF InstructionAt, Nop, IsBranch
    <3>3. InstructionAt(program, pc) = Nop
      BY <3>1, <3>2 DEF NothingShadowed, CleanRun, DelaySlotsAreNops, InstructionAt
    <3> QED
      BY <3>3 DEF StagesRan
  <2> QED
    BY <1>2, <1>3, <1>4, <1>5, <2>1, <2>2 DEF NothingShadowed, SquashedIsInert
<1>6. CASE /\ d.valid /\ ifid' = Squashed(f) /\ idex' = MarkedEnd(d, nextPc')
           /\ exma' = e
  <2>1. ~ifid'.valid /\ idex'.valid
    BY <1>6 DEF Squashed, MarkedEnd, FetchResult, DecodeResult
  <2> QED
    BY <1>2, <1>3, <1>4, <1>6, <2>1 DEF NothingShadowed, SquashedIsInert
<1>7. CASE /\ e.valid /\ (IsBranch(e.op) \/ e.branch)
           /\ ifid' = Squashed(f) /\ idex' = Squashed(d)
           /\ exma' = MarkedEnd(e, nextPc')
  <2>1. ~d.valid
    BY <1>7 DEF StagesRan, NothingShadowed
  <2>2. /\ ~ifid'.valid
        /\ ~idex'.valid /\ idex'.op = d.op
        /\ exma'.valid = e.valid /\ exma'.op = e.op
    BY <1>7 DEF Squashed, MarkedEnd, FetchResult, DecodeResult, ExecutionResult
  <2> QED
    BY <1>2, <1>3, <1>4, <2>1, <2>2 DEF NothingShadowed, SquashedIsInert
<1> QED
  BY <1>1, <1>5, <1>6, <1>7, CycleOutcome DEF NothingShadowed, CleanRun
-----------------------------------------------------------------------------
(* The three ways a cycle ends: the fetch runs on; a jump, or a branch     *)
(* predicted taken, in decode turns it; or a branch in execute does.       *)
FetchRunsOn(pc, f, d, e) ==
  /\ nextPc' = pc + 4 /\ Settled(pcUnit.kind, f, e)
  /\ ifid'.valid = f.valid /\ idex'.valid = d.valid
  /\ d.valid => ~IsJump(d.op)
  /\ d.valid /\ IsBranch(d.op) => ~Predicts(pcUnit', pc, d.imm)

DecodeTurns(pc, f, d, e) ==
  /\ Settled(pcUnit.kind, f, e)
  /\ ~ifid'.valid /\ idex'.valid /\ d.valid
  /\ \/ IsJump(d.op) /\ nextPc' = d.nextPc
     \/ /\ IsBranch(d.op) /\ nextPc' = d.imm
        /\ pcUnit.kind # "None" /\ Predicts(pcUnit', pc, d.imm)

ExecuteTurns(e) ==
  ~ifid'.valid /\ ~idex'.valid /\ Resolving(e) /\ nextPc' = Corrected(e)

(* What the latches hold after the cycle, with every unit: a squash takes  *)
(* the validity of a result, nothing else that later stages use.           *)
Flushed(f, d, e) ==
  /\ ifid'.valid => f.valid
  /\ ifid'.pc = f.pc /\ ifid'.instruction = f.instruction
  /\ idex'.valid => d.valid
  /\ idex'.pc = d.pc /\ idex'.op = d.op /\ idex'.imm = d.imm
  /\ idex'.readReg1 = d.readReg1 /\ idex'.readReg2 = d.readReg2
  /\ idex'.readData1 = d.readData1 /\ idex'.readData2 = d.readData2
  /\ idex'.writeReg = d.writeReg /\ idex'.nextPc = d.nextPc
  /\ exma'.valid = e.valid /\ exma'.pc = e.pc /\ exma'.op = e.op
  /\ exma'.aluValue = e.aluValue /\ exma'.readData2 = e.readData2
  /\ exma'.writeReg = e.writeReg /\ exma'.nextPc = e.nextPc
  /\ exma'.branch = e.branch

LEMMA CycleFlushed ==
  ASSUME TypeOK, NEW pc, NEW f \in FetchResult, NEW d \in DecodeResult,
         NEW e \in ExecutionResult, FinishCycle(pc, f, d, e)
  PROVE  Flushed(f, d, e)
<1>1. ASSUME NEW target
      PROVE  /\ MarkedEnd(d, target) = [d EXCEPT !.isEnd = (target = End)]
             /\ MarkedEnd(e, target) = [e EXCEPT !.isEnd = (target = End)]
  BY DEF MarkedEnd
<1>2. CASE ifid' = f /\ idex' = d /\ exma' = e
  BY <1>2 DEF Flushed
<1>3. CASE d.valid /\ ifid' = Squashed(f) /\ idex' = MarkedEnd(d, nextPc') /\ exma' = e
  BY <1>1, <1>3 DEF Flushed, Squashed, FetchResult, DecodeResult
<1>4. CASE ifid' = Squashed(f) /\ idex' = Squashed(d) /\ exma' = MarkedEnd(e, nextPc')
  BY <1>1, <1>4 DEF Flushed, Squashed, FetchResult, DecodeResult, ExecutionResult
<1> QED
  BY <1>2, <1>3, <1>4, CycleOutcome

(* With the units that do not buffer targets.                              *)
LEMMA CycleFlushes ==
  ASSUME TypeOK, pcUnit.kind # "History", NEW pc, NEW f \in FetchResult,
         NEW d \in DecodeResult, NEW e \in ExecutionResult,
         FinishCycle(pc, f, d, e), e.branch => IsBranch(e.op)
  PROVE  /\ FetchRunsOn(pc, f, d, e) \/ DecodeTurns(pc, f, d, e) \/ ExecuteTurns(e)
         /\ Flushed(f, d, e)
<1> DEFINE next == FindNext(pcUnit, pc, f, d, e)
<1>1. /\ ifid' = next.ifid /\ idex' = next.idex /\ exma' = next.exma
      /\ nextPc' = next.pc /\ pcUnit' = next.unit
  BY DEF FinishCycle
<1>2. \/ /\ RunsOn(next, f, d, e) /\ next.pc = pc + 4
         /\ ~(d.valid /\ IsJump(d.op)) /\ Settled(pcUnit.kind, f, e)
         /\ d.valid /\ IsBranch(d.op) => ~Predicts(next.unit, pc, d.imm)
      \/ /\ TurnedInDecode(next, f, d, e) /\ Settled(pcUnit.kind, f, e)
         /\ \/ IsJump(d.op) /\ next.pc = d.nextPc
            \/ /\ IsBranch(d.op) /\ next.pc = d.imm
               /\ pcUnit.kind # "None" /\ Predicts(next.unit, pc, d.imm)
      \/ /\ TurnedInExecute(next, f, d, e) /\ Resolving(e)
         /\ next.pc = Corrected(e)
  BY UnbufferedTurns DEF TypeOK
<1> HIDE DEF next
<1>3. Flushed(f, d, e)
  BY CycleFlushed
<1>4. CASE /\ RunsOn(next, f, d, e) /\ next.pc = pc + 4
           /\ ~(d.valid /\ IsJump(d.op)) /\ Settled(pcUnit.kind, f, e)
           /\ d.valid /\ IsBranch(d.op) => ~Predicts(next.unit, pc, d.imm)
  <2>1. ifid' = f /\ idex' = d /\ exma' = e
    BY <1>1, <1>4 DEF RunsOn
  <2> QED
    BY <1>1, <1>3, <1>4, <2>1 DEF FetchRunsOn
<1>5. CASE /\ TurnedInDecode(next, f, d, e) /\ Settled(pcUnit.kind, f, e)
           /\ \/ IsJump(d.op) /\ next.pc = d.nextPc
              \/ /\ IsBranch(d.op) /\ next.pc = d.imm
                 /\ pcUnit.kind # "None" /\ Predicts(next.unit, pc, d.imm)
  <2>1. ifid' = Squashed(f) /\ idex' = MarkedEnd(d, next.pc) /\ d.valid
    BY <1>1, <1>5 DEF TurnedInDecode
  <2>2. ~ifid'.valid /\ idex'.valid
    BY <2>1 DEF Squashed, MarkedEnd, FetchResult, DecodeResult
  <2> QED
    BY <1>1, <1>3, <1>5, <2>1, <2>2 DEF DecodeTurns
<1>6. CASE /\ TurnedInExecute(next, f, d, e) /\ Resolving(e)
           /\ next.pc = Corrected(e)
  <2>1. ifid' = Squashed(f) /\ idex' = Squashed(d)
    BY <1>1, <1>6 DEF TurnedInExecute
  <2>2. ~ifid'.valid /\ ~idex'.valid
    BY <2>1 DEF Squashed, FetchResult, DecodeResult
  <2> QED
    BY <1>1, <1>3, <1>6, <2>2 DEF ExecuteTurns
<1> QED
  BY <1>2, <1>4, <1>5, <1>6

(* With those that do: a hit leads the fetch on, whatever decode and       *)
(* execute have found; else it is turned as without prediction in decode,  *)
(* or by a branch that went where the word behind it did not.              *)
BufferedRunsOn(pc, f, d, e) ==
  /\ ifid' = f /\ idex' = d /\ exma' = e
  /\ \/ /\ IsHit(pcUnit.buffer, f.pc)
        /\ nextPc' = TargetAddress(pcUnit.buffer, f.pc)
     \/ /\ nextPc' = pc + 4 /\ ~(d.valid /\ IsJump(d.op))
        /\ Resolving(e) => TakenCorrect(e, d)

BufferedDecodeTurns(d, e) ==
  /\ ~ifid'.valid /\ idex'.valid /\ d.valid /\ ~Resolving(e)
  /\ IsJump(d.op) /\ nextPc' = d.nextPc /\ (idex'.isEnd <=> nextPc' = End)

LEMMA CycleBuffered ==
  ASSUME TypeOK, pcUnit.kind = "History", NEW pc, NEW f \in FetchResult,
         NEW d \in DecodeResult, NEW e \in ExecutionResult,
         FinishCycle(pc, f, d, e), Resolving(e) => ~d.valid
  PROVE  /\ BufferedRunsOn(pc, f, d, e) \/ BufferedDecodeTurns(d, e) \/ ExecuteTurns(e)
         /\ pcUnit' = pcUnit \/ (Resolving(e) /\ pcUnit' = Learnt(pcUnit, e))
<1> DEFINE next == FindNext(pcUnit, pc, f, d, e)
<1>1. /\ ifid' = next.ifid /\ idex' = next.idex /\ exma' = next.exma
      /\ nextPc' = next.pc /\ pcUnit' = next.unit
  BY DEF FinishCycle
<1>2. \/ /\ RunsOn(next, f, d, e) /\ next.unit = pcUnit
         /\ IsHit(pcUnit.buffer, f.pc)
         /\ next.pc = TargetAddress(pcUnit.buffer, f.pc)
      \/ /\ RunsOn(next, f, d, e) /\ next.unit = pcUnit /\ next.pc = pc + 4
         /\ ~Resolving(e) /\ ~(d.valid /\ IsJump(d.op))
      \/ /\ TurnedInDecode(next, f, d, e) /\ next.unit = pcUnit
         /\ ~Resolving(e) /\ IsJump(d.op) /\ next.pc = d.nextPc
      \/ /\ RunsOn(next, f, d, e) /\ next.unit = Learnt(pcUnit, e)
         /\ Resolving(e) /\ TakenCorrect(e, d) /\ next.pc = pc + 4
      \/ /\ TurnedInExecute(next, f, d, e) /\ next.unit = Learnt(pcUnit, e)
         /\ Resolving(e) /\ next.pc = Corrected(e)
  BY BufferedTurns
<1> HIDE DEF next
<1>3. CASE /\ TurnedInDecode(next, f, d, e) /\ next.unit = pcUnit
           /\ ~Resolving(e) /\ IsJump(d.op) /\ next.pc = d.nextPc
  <2>1. ifid' = Squashed(f) /\ idex' = MarkedEnd(d, nextPc') /\ d.valid
    BY <1>1, <1>3 DEF TurnedInDecode
  <2>2. /\ ~ifid'.valid /\ idex'.valid
        /\ idex'.isEnd <=> nextPc' = End
    BY <2>1 DEF Squashed, MarkedEnd, FetchResult, DecodeResult
  <2> QED
    BY <1>1, <1>3, <2>1, <2>2 DEF BufferedDecodeTurns
<1>4. CASE /\ TurnedInExecute(next, f, d, e) /\ next.unit = Learnt(pcUnit, e)
           /\ Resolving(e) /\ next.pc = Corrected(e)
  <2>1. ifid' = Squashed(f) /\ idex' = Squashed(d)
    BY <1>1, <1>4 DEF TurnedInExecute
  <2>2. ~ifid'.valid /\ ~idex'.valid
    BY <2>1 DEF Squashed, FetchResult, DecodeResult
  <2> QED
    BY <1>1, <1>4, <2>2 DEF ExecuteTurns
<1> QED
  BY <1>1, <1>2, <1>3, <1>4 DEF BufferedRunsOn, RunsOn
-----------------------------------------------------------------------------
(* What a cycle leaves alone, and what it writes.                          *)
LEMMA CycleWrites ==
  ASSUME TypeOK, NEW pc \in Int, NEW f \in FetchResult, NEW d \in DecodeResult,
         NEW e \in ExecutionResult, FinishCycle(pc, f, d, e),
         MemoryAccessAndWriteBack
  PROVE  /\ program' = program /\ pcUnit'.kind = pcUnit.kind
         /\ isEnd' = Ended /\ halted' = mawb.isEnd
         /\ Ended' <=> Ended \/ nextPc' = End
         /\ mawb' = MemoryAccess(exma, memory)
         /\ memory' = Stored(exma, memory)
         /\ registers' = WriteBack(mawb, registers)
<1>1. program' = program /\ isEnd' = Ended /\ halted' = mawb.isEnd
  BY DEF FinishCycle, LastCycle
<1>2. pcUnit'.kind = pcUnit.kind
  BY FindNextUnit DEF FinishCycle, TypeOK
<1>3. Ended' <=> Ended \/ nextPc' = End
  BY <1>1 DEF Ended
<1> QED
  BY <1>1, <1>2, <1>3 DEF MemoryAccessAndWriteBack

(* Fetch: nothing when the fetch is not valid, and no no-op.               *)
LEMMA FetchFields ==
  ASSUME NEW valid, NEW pc
  PROVE  LET f == Fetch(valid, program, pc)
         IN  /\ f.valid <=> valid /\ InstructionAt(program, pc) # Nop
             /\ valid => f.pc = pc
             /\ f.valid => f.instruction = InstructionAt(program, pc)
<1>1. SUFFICES ASSUME NEW f, f = Fetch(valid, program, pc)
               PROVE  /\ f.valid <=> valid /\ InstructionAt(program, pc) # Nop
                      /\ valid => f.pc = pc
                      /\ f.valid => f.instruction = InstructionAt(program, pc)
  OBVIOUS
<1>2. CASE ~valid
  BY <1>1, <1>2 DEF Fetch, EmptyIfId
<1>3. CASE valid
  <2>1. f = [valid |-> InstructionAt(program, pc) # Nop, pc |-> pc,
             instruction |-> InstructionAt(program, pc)]
    BY <1>1, <1>3 DEF Fetch
  <2>2. f.valid <=> InstructionAt(program, pc) # Nop
    BY <2>1, Zenon
  <2> QED
    BY <1>3, <2>1, <2>2
<1> QED
  BY <1>2, <1>3

(* Decode: the operands come from the register file it is given.           *)
LEMMA DecodeFields ==
  ASSUME NEW file
  PROVE  LET i == ifid.instruction
             d == Decode(ifid, file)
         IN  /\ d.valid = ifid.valid
             /\ d.pc = ifid.pc
             /\ d.readReg1 = i.rs /\ d.readReg2 = i.rt
             /\ d.readData1 = file[i.rs] /\ d.readData2 = file[i.rt]
             /\ d.imm = Immediate(ifid.pc, i)
             /\ ifid.valid =>
                  /\ d.op = i.op
                  /\ d.writeReg = WriteRegister(i.op, i)
                  /\ i.op = "JR" => d.nextPc = file[i.rs]
                  /\ i.op \in {"J", "JAL"} => d.nextPc = i.imm
BY DEF Decode, DecodeWith, DecodedSignal

(* Execute: the ALU and, for a branch, its target.                         *)
LEMMA ExecuteFields ==
  ASSUME NEW latch
  PROVE  LET v == AluValue(latch.op, latch.pc, latch.imm,
                           latch.readData1, latch.readData2)
             e == Execute(latch)
         IN  /\ e.valid = latch.valid /\ e.pc = latch.pc
             /\ e.op = latch.op /\ e.writeReg = latch.writeReg
             /\ e.nextPc = latch.imm
             /\ e.aluValue = v /\ e.readData2 = latch.readData2
             /\ e.branch <=> IsBranch(latch.op) /\ v = 1
<1> DEFINE v == AluValue(latch.op, latch.pc, latch.imm,
                         latch.readData1, latch.readData2)
           e == Execute(latch)
<1>1. e = [valid |-> latch.valid, pc |-> latch.pc, op |-> latch.op,
           isEnd |-> latch.isEnd, aluValue |-> v,
           readData2 |-> latch.readData2, writeReg |-> latch.writeReg,
           nextPc |-> latch.imm, branch |-> IsBranch(latch.op) /\ v = 1]
  BY DEF Execute
<1> HIDE DEF v, e
<1>2. e.branch <=> IsBranch(latch.op) /\ v = 1
  BY <1>1, Zenon
<1> QED
  BY <1>1, <1>2 DEF v, e
-----------------------------------------------------------------------------
(* The latches carry what the instructions at their addresses say.         *)
LatchesCarry ==
  /\ ifid.valid => /\ ~Ended
                   /\ ifid.instruction = InstructionAt(program, ifid.pc)
                   /\ ifid.instruction # Nop
  /\ idex.valid => LET i == InstructionAt(program, idex.pc)
                   IN  /\ ~isEnd /\ i # Nop
                       /\ idex.op = i.op /\ idex.imm = Immediate(idex.pc, i)
                       /\ idex.readReg1 = i.rs /\ idex.readReg2 = i.rt
                       /\ idex.writeReg = WriteRegister(i.op, i)
                       /\ i.op \in {"J", "JAL"} => idex.nextPc = i.imm
  /\ exma.valid => exma.nextPc = Immediate(exma.pc, InstructionAt(program, exma.pc))
  /\ \A latch \in {exma, mawb} :
       latch.valid => LET i == InstructionAt(program, latch.pc)
                      IN  /\ i # Nop /\ latch.op = i.op
                          /\ latch.writeReg = WriteRegister(i.op, i)

(* Nothing is in flight when a run starts ...                              *)
LEMMA InitialLatches ==
  Init => /\ ~ifid.valid /\ ~idex.valid /\ ~exma.valid /\ ~mawb.valid
          /\ LatchesCarry
BY DEF Init, EmptyIfId, EmptyIdEx, EmptyExMa, EmptyMaWb, LatchesCarry

(* ... and each latch hands on what its instruction says.                  *)
LEMMA CycleCarries ==
  ASSUME TypeOK, LatchesCarry, NEW pc, NEW file,
         NEW f \in FetchResult, NEW d \in DecodeResult, NEW e \in ExecutionResult,
         StagesRan(pc, f, d, e), d.valid => d = Decode(ifid, file),
         ifid'.valid => nextPc' # End,
         e.pc = idex.pc, e.writeReg = idex.writeReg, e.nextPc = idex.imm
  PROVE  LatchesCarry'
<1>1. Flushed(f, d, e)
  BY CycleFlushed DEF StagesRan
<1>2. /\ ifid'.pc = f.pc /\ ifid'.instruction = f.instruction
      /\ idex'.pc = d.pc /\ idex'.op = d.op /\ idex'.imm = d.imm
      /\ idex'.readReg1 = d.readReg1 /\ idex'.readReg2 = d.readReg2
      /\ idex'.writeReg = d.writeReg /\ idex'.nextPc = d.nextPc
      /\ exma'.valid = e.valid /\ exma'.pc = e.pc /\ exma'.op = e.op
      /\ exma'.writeReg = e.writeReg /\ exma'.nextPc = e.nextPc
      /\ ifid'.valid => f.valid
      /\ idex'.valid => d.valid
  BY <1>1 DEF Flushed
<1>3. /\ program' = program /\ isEnd' = Ended
      /\ Ended' <=> Ended \/ nextPc' = End
      /\ mawb' = MemoryAccess(exma, memory)
  BY DEF StagesRan, FinishCycle, Ended
<1>4. ASSUME ifid'.valid
      PROVE  /\ ~Ended'
             /\ ifid'.instruction = InstructionAt(program', ifid'.pc)
             /\ ifid'.instruction # Nop
  <2>1. /\ f.valid /\ ~Ended /\ f.pc = pc /\ pc \in Nat
        /\ f.instruction = InstructionAt(program, pc) /\ f.instruction # Nop
    BY <1>2, <1>4 DEF StagesRan, FetchResult
  <2> QED
    BY <1>2, <1>3, <1>4, <2>1
<1>5. ASSUME idex'.valid, NEW i, i = InstructionAt(program', idex'.pc)
      PROVE  /\ ~isEnd' /\ i # Nop
             /\ idex'.op = i.op /\ idex'.imm = Immediate(idex'.pc, i)
             /\ idex'.readReg1 = i.rs /\ idex'.readReg2 = i.rt
             /\ idex'.writeReg = WriteRegister(i.op, i)
             /\ i.op \in {"J", "JAL"} => idex'.nextPc = i.imm
  <2>1. d = Decode(ifid, file) /\ ifid.valid
    BY <1>2, <1>5 DEF StagesRan
  <2>2. d.pc = ifid.pc /\ i = ifid.instruction /\ ~Ended /\ i # Nop
    BY <1>2, <1>3, <1>5, <2>1, DecodeFields DEF LatchesCarry
  <2> QED
    BY <1>2, <1>3, <2>1, <2>2, DecodeFields
<1>6. ASSUME exma'.valid, NEW i, i = InstructionAt(program', exma'.pc)
      PROVE  /\ i # Nop /\ exma'.op = i.op /\ exma'.writeReg = WriteRegister(i.op, i)
             /\ exma'.nextPc = Immediate(exma'.pc, i)
  BY <1>2, <1>3, <1>6 DEF LatchesCarry, StagesRan
<1>7. ASSUME mawb'.valid, NEW i, i = InstructionAt(program', mawb'.pc)
      PROVE  i # Nop /\ mawb'.op = i.op /\ mawb'.writeReg = WriteRegister(i.op, i)
  BY <1>3, <1>7 DEF MemoryAccess, LatchesCarry
<1> QED
  BY <1>4, <1>5, <1>6, <1>7 DEF LatchesCarry

(* A register after a write back.                                          *)
LEMMA WrittenBack ==
  ASSUME NEW latch, NEW file \in [Register -> Word], NEW r \in Register
  PROVE  WriteBack(latch, file)[r] =
           IF RegWrite(latch.op) /\ latch.writeReg = r THEN latch.regWriteValue
           ELSE file[r]
BY DEF WriteBack

(* ... and after the two that come before the instruction in execute.      *)
SettledByExecute ==
  \A r \in Register :
    SettledRegisters[r] =
      IF RegWrite(exma.op) /\ exma.writeReg = r
      THEN MemoryAccess(exma, memory).regWriteValue
      ELSE RetiredRegisters[r]

(* That is what writing both back amounts to.                             *)
LEMMA SettledRegister == TypeOK => SettledByExecute
<1> SUFFICES ASSUME TypeOK, NEW r \in Register
             PROVE  SettledRegisters[r] =
                      IF RegWrite(exma.op) /\ exma.writeReg = r
                      THEN MemoryAccess(exma, memory).regWriteValue
                      ELSE RetiredRegisters[r]
  BY DEF SettledByExecute
<1>1. WriteBack(mawb, registers) \in [Register -> Word]
  BY WriteBackType DEF TypeOK
<1>2. /\ MemoryAccess(exma, memory).op = exma.op
      /\ MemoryAccess(exma, memory).writeReg = exma.writeReg
  BY DEF MemoryAccess
<1> QED
  BY <1>1, <1>2, WrittenBack DEF SettledRegisters, RetiredRegisters

(* What the instruction that happens next has computed.                    *)
ExecutedCurrent ==
  exma.valid =>
    LET i == InstructionAt(program, exma.pc)
        s == RetiredRegisters[i.rs]
        t == RetiredRegisters[i.rt]
        v == AluValue(i.op, exma.pc, Immediate(exma.pc, i), s, t)
    IN  exma.aluValue = v /\ exma.readData2 = t

(* Once the end is reached a mark of it is on its way.                     *)
EndCarried ==
  Ended => \/ halted \/ mawb.isEnd
           \/ exma.valid /\ exma.isEnd
           \/ idex.valid /\ idex.isEnd

(* The mark of the end is set when the end is reached and moves on.        *)
LEMMA CycleMark ==
  ASSUME TypeOK, EndCarried, ~halted,
         NEW pc \in Int, NEW f \in FetchResult, NEW d \in DecodeResult,
         NEW e \in ExecutionResult, StagesRan(pc, f, d, e), ~Ended => pc >= 0,
         pcUnit.kind = "History" /\ ~Ended /\ ifid' = f /\ idex' = d /\ exma' = e
           => nextPc' # End,
         idex.valid /\ IsBranch(idex.op) => ~Ended
  PROVE  EndCarried'
<1>1. SUFFICES ASSUME Ended'
               PROVE  \/ halted' \/ mawb'.isEnd
                      \/ exma'.valid /\ exma'.isEnd
                      \/ idex'.valid /\ idex'.isEnd
  BY DEF EndCarried
<1>2. /\ Ended' <=> Ended \/ nextPc' = End
      /\ mawb' = MemoryAccess(exma, memory) /\ halted' = mawb.isEnd
  BY DEF StagesRan, FinishCycle, Ended, LastCycle
<1>3. /\ e.valid = idex.valid /\ e.isEnd = idex.isEnd /\ e.op = idex.op
      /\ e.branch => IsBranch(e.op)
  BY DEF StagesRan
<1>4. CASE /\ ifid' = f /\ idex' = d /\ exma' = e
           /\ pcUnit.kind # "History" => nextPc' = pc + 4
  <2>1. Ended
    BY <1>1, <1>2, <1>4 DEF End
  <2> QED
    BY <1>2, <1>3, <1>4, <2>1 DEF EndCarried, MemoryAccess
<1>5. CASE d.valid /\ idex' = MarkedEnd(d, nextPc') /\ exma' = e
  <2>1. idex'.valid /\ (idex'.isEnd <=> nextPc' = End)
    BY <1>5 DEF MarkedEnd, DecodeResult
  <2> QED
    BY <1>1, <1>2, <1>3, <1>5, <2>1 DEF EndCarried, MemoryAccess
<1>6. CASE e.valid /\ (IsBranch(e.op) \/ e.branch) /\ exma' = MarkedEnd(e, nextPc')
  <2>1. exma'.valid /\ (exma'.isEnd <=> nextPc' = End)
    BY <1>6 DEF MarkedEnd, ExecutionResult
  <2> QED
    BY <1>1, <1>2, <1>3, <1>6, <2>1
<1>7. FinishCycle(pc, f, d, e)
  BY DEF StagesRan
<1> QED
  BY <1>4, <1>5, <1>6, <1>7, CycleOutcome
-----------------------------------------------------------------------------
(* What the target buffer knows: lines it uses hold the target of a branch *)
(* of the program, under that branch's tag.                                *)
BufferHolds(buffer, text) ==
  \A l \in Line :
    buffer[l].valid =>
      \E a \in DOMAIN text :
        /\ IsBranch(text[a].op)
        /\ l = Index(a) /\ buffer[l].tag = Tag(a)
        /\ buffer[l].target = Immediate(a, text[a])

(* Line and tag together tell words apart.                                 *)
LEMMA LineAndTagOfWord ==
  ASSUME NEW a \in Nat, NEW b \in Nat, a % 4 = 0, b % 4 = 0,
         Index(a) = Index(b), Tag(a) = Tag(b)
  PROVE  a = b
<1>1. BufferSize \in Nat /\ BufferSize > 0
  BY PredictionAssumption
<1>2. ASSUME NEW n \in Nat, n > 0, NEW v \in Nat, NEW w \in Nat,
             v % n = w % n, v \div n = w \div n
      PROVE  v = w
  BY <1>2
<1>3. WordNumber(a) = a \div 4 /\ WordNumber(b) = b \div 4
  BY DEF WordNumber
<1>4. a \div 4 \in Nat /\ b \div 4 \in Nat
  OBVIOUS
<1>5. a \div 4 = b \div 4
  <2>1. /\ (a \div 4) % BufferSize = (b \div 4) % BufferSize
        /\ (a \div 4) \div BufferSize = (b \div 4) \div BufferSize
    BY <1>3 DEF Index, Tag
  <2> QED
    BY <1>1, <1>2, <1>4, <2>1
<1> QED
  BY <1>5

(* A hit is a hit of a branch, and leads to that branch's target.          *)
LEMMA HitIsBranch ==
  ASSUME NEW buffer, NEW text, BufferHolds(buffer, text), IsProgram(text),
         \A a \in DOMAIN text : a % 4 = 0,
         NEW p \in Nat, p % 4 = 0, IsHit(buffer, p)
  PROVE  /\ p \in DOMAIN text /\ IsBranch(text[p].op)
         /\ TargetAddress(buffer, p) = Immediate(p, text[p])
<1>1. Index(p) \in Line /\ buffer[Index(p)].valid /\ buffer[Index(p)].tag = Tag(p)
  BY LineOfAddress DEF IsHit
<1>2. PICK a \in DOMAIN text :
        /\ IsBranch(text[a].op)
        /\ Index(p) = Index(a) /\ Tag(p) = Tag(a)
        /\ buffer[Index(p)].target = Immediate(a, text[a])
  BY <1>1 DEF BufferHolds
<1>3. a \in Nat /\ a % 4 = 0
  BY DEF IsProgram
<1>4. p = a
  BY <1>2, <1>3, LineAndTagOfWord
<1> QED
  BY <1>2, <1>4 DEF TargetAddress

(* What is learnt from a branch of the program is true.                    *)
LEMMA LearntHolds ==
  ASSUME NEW unit \in PcUnit, unit.kind = "History", NEW text, IsProgram(text),
         BufferHolds(unit.buffer, text), NEW e, e.pc \in DOMAIN text,
         IsBranch(text[e.pc].op), e.nextPc = Immediate(e.pc, text[e.pc])
  PROVE  BufferHolds(Learnt(unit, e).buffer, text)
<1> DEFINE line == [valid |-> TRUE, tag |-> Tag(e.pc), target |-> e.nextPc]
<1>1. e.pc \in Nat /\ Index(e.pc) \in Line
  BY LineOfAddress DEF IsProgram
<1>2. /\ unit.buffer \in [Line -> [valid : BOOLEAN, tag : Int, target : Int]]
      /\ Learnt(unit, e).buffer = [unit.buffer EXCEPT ![Index(e.pc)] = line]
  BY HistoryUnitType DEF Learnt, Buffered
<1> QED
  BY <1>1, <1>2 DEF BufferHolds

(* The buffer starts empty.                                                *)
LEMMA EmptyBufferHolds == \A text : BufferHolds(EmptyBuffer, text)
BY DEF BufferHolds, EmptyBuffer

(* The fetch is right behind the instruction in decode or, when that one's *)
(* target was buffered, at its target; nothing valid is behind a branch.   *)
FetchLeads ==
  /\ ifid.valid =>
       \/ nextPc = ifid.pc + 4
       \/ /\ pcUnit.kind = "History" /\ IsBranch(ifid.instruction.op)
          /\ nextPc = Immediate(ifid.pc, ifid.instruction)
  /\ idex.valid /\ IsBranch(idex.op) => ~ifid.valid
  /\ SquashedIsInert

(* The addresses jump registers lead to are those of words.                *)
ReturnsAligned ==
  idex.valid /\ idex.op = "JR" => idex.nextPc = End \/ idex.nextPc % 4 = 0

AlignedRun == pcUnit.kind = "History" => ReturnsAligned

(* What room between branches means for one of them.                       *)
LEMMA RoomBetween ==
  ASSUME NEW text, IsProgram(text), Conventional(text), Spaced(text),
         NEW a \in Nat, IsBranch(InstructionAt(text, a).op)
  PROVE  LET target == Immediate(a, InstructionAt(text, a))
         IN  /\ a % 4 = 0 /\ target % 4 = 0 /\ target \in Nat /\ target # End
             /\ InstructionAt(text, target) = Nop
             /\ InstructionAt(text, a + 4) = Nop
             /\ \A b \in {a + 8, target + 4} :
                  ~IsBranch(InstructionAt(text, b).op)
<1>1. a \in DOMAIN text /\ InstructionAt(text, a) = text[a]
  BY DEF InstructionAt, Nop, IsBranch
<1>2. /\ Immediate(a, text[a]) \in DOMAIN text
      /\ InstructionAt(text, a + 4) = Nop
  BY <1>1 DEF Conventional, InstructionAt
<1>3. /\ \A b \in DOMAIN text : b % 4 = 0 /\ b \in Nat
  BY DEF Spaced, IsProgram
<1> QED
  BY <1>1, <1>2, <1>3 DEF Spaced, End
-----------------------------------------------------------------------------
(* A set of natural numbers that is not empty has a smallest element.      *)
LEMMA LeastElement ==
  ASSUME NEW S, S \subseteq Nat, S # {}
  PROVE  \E q \in S : \A other \in S : q <= other
<1>1. PICK q \in S : \A other \in S : <<other, q>> \notin OpToRel(<, Nat)
  BY NatLessThanWellFounded, WFMin
<1>2. \A other \in S : ~(other < q)
  BY <1>1 DEF OpToRel
<1> QED
  BY <1>2

(* Fetching from an address of the text never leads to -1.                 *)
LEMMA NextInstructionIsEnd ==
  ASSUME NEW text, IsProgram(text), NEW a \in Int, NextInstruction(text, a) = End
  PROVE  a = End
<1> DEFINE ahead == {q \in DOMAIN text : /\ q >= a
                                         /\ (q - a) % 4 = 0
                                         /\ text[q] # Nop}
           first == CHOOSE q \in ahead : \A other \in ahead : q <= other
<1>1. ASSUME ahead # {} PROVE first \in Nat
  <2>1. ahead \subseteq Nat
    BY DEF IsProgram
  <2>2. \E q \in ahead : \A other \in ahead : q <= other
    BY <1>1, <2>1, LeastElement
  <2>3. first \in ahead
    BY <2>2
  <2> QED
    BY <2>1, <2>3
<1>2. CASE a < 0 \/ InstructionAt(text, a) # Nop
  BY <1>2 DEF NextInstruction
<1>3. CASE ~(a < 0 \/ InstructionAt(text, a) # Nop)
  <2>1. NextInstruction(text, a) = IF ahead = {} THEN Off ELSE first
    BY <1>3 DEF NextInstruction
  <2> HIDE DEF ahead, first
  <2> QED
    BY <1>1, <2>1 DEF Off, End
<1> QED
  BY <1>2, <1>3

(* When the next instruction to happen is at -1, nothing is in flight.     *)
LEMMA OldestIsEnd ==
  ASSUME TypeOK, NEW pc \in Int, OldestPc(pc) = End,
         ~Ended => pc # End
  PROVE  Ended /\ ~exma.valid /\ ~idex.valid
<1>1. ~exma.valid /\ ~idex.valid /\ ~ifid.valid
  BY DEF OldestPc, TypeOK, DecodeResult, ExecutionResult, FetchResult, End
<1>2. ASSUME ~Ended PROVE FALSE
  <2>1. NextInstruction(program, pc) = End
    BY <1>1, <1>2 DEF OldestPc
  <2> QED
    BY <1>2, <2>1, NextInstructionIsEnd DEF TypeOK
<1> QED
  BY <1>1, <1>2
=============================================================================
