-------------------------- MODULE StallingPipeline --------------------------
(***************************************************************************)
(* StallingPipelineControlUnit: an instruction that reads a register some  *)
(* instruction ahead of it will write is thrown away in decode and fetched *)
(* again two cycles later.  DataDependencyUnit keeps the scoreboard of the *)
(* registers in flight, StallUnit the delay.                               *)
(***************************************************************************)
EXTENDS PipelineControlUnit

VARIABLES
  stall,       \* StallUnit
  scoreboard   \* Scoreboard: is a register's value settled, who books it

vars == <<pipelineVars, stall, scoreboard>>

StallingInit ==
  /\ Init
  /\ stall = [count |-> 0, freezePc |-> 0, isMelt |-> FALSE, valid |-> TRUE]
  /\ scoreboard = [valid |-> [r \in Register |-> TRUE],
                   tag |-> [r \in Register |-> 0]]
-----------------------------------------------------------------------------
(* Mutation: the count runs on past zero.                                  *)
AdvancedPastZero ==
  IF stall.count = 1
  THEN [stall EXCEPT !.count = 0, !.isMelt = TRUE, !.valid = TRUE]
  ELSE [stall EXCEPT !.count = @ - 1, !.isMelt = FALSE]

(* StallUnit.next, at the start of a cycle.                                *)
Advanced ==
  CASE stall.count = 0 -> [stall EXCEPT !.isMelt = FALSE]
    [] stall.count = 1 -> [stall EXCEPT !.count = 0, !.isMelt = TRUE,
                                        !.valid = TRUE]
    [] OTHER           -> [stall EXCEPT !.count = @ - 1]

(* Mutation: the unit freezes the address after the one it is given.       *)
AsleepPast(unit, count, pc) ==
  [unit EXCEPT !.freezePc = pc + 4, !.valid = FALSE, !.count = count]

(* StallUnit.sleep: without effect while asleep.                           *)
Asleep(unit, count, pc) ==
  IF unit.valid
  THEN [unit EXCEPT !.freezePc = pc, !.valid = FALSE, !.count = count]
  ELSE unit

(* Mutation: only the first operand is looked up.                          *)
HasHazardInFirst(latch) == ~scoreboard.valid[latch.readReg1]

(* DataDependencyUnit                                                      *)
HasHazard(latch) == ~(/\ scoreboard.valid[latch.readReg1]
                      /\ scoreboard.valid[latch.readReg2])

(* Mutation: loads are not booked.                                         *)
BookedUnlessLoad(latch) ==
  IF latch.valid /\ RegWrite(latch.op) /\ latch.writeReg # 0 /\ latch.op # "LW"
  THEN [scoreboard EXCEPT !.valid[latch.writeReg] = FALSE,
                          !.tag[latch.writeReg] = latch.pc]
  ELSE scoreboard

Booked(latch) ==
  IF latch.valid /\ RegWrite(latch.op) /\ latch.writeReg # 0
  THEN [scoreboard EXCEPT !.valid[latch.writeReg] = FALSE,
                          !.tag[latch.writeReg] = latch.pc]
  ELSE scoreboard

(* Mutation: the release is forgotten.                                     *)
NeverReleased(board, latch) == board

(* Only the instruction that booked a register last releases it.           *)
Released(board, latch) ==
  IF /\ latch.valid
     /\ RegWrite(latch.op)
     /\ board.tag[latch.writeReg] = latch.pc
  THEN [board EXCEPT !.valid[latch.writeReg] = TRUE]
  ELSE board

(* An instruction that met a hazard: neither valid nor able to do anything.*)
ThrownAway(latch) == [latch EXCEPT !.valid = FALSE, !.op = "NONE"]
-----------------------------------------------------------------------------
(* cycleExecution.  decode comes before writeBack: it reads old values.    *)
Cycle ==
  LET pc    == IF Advanced.isMelt THEN Advanced.freezePc ELSE nextPc
      valid == Advanced.valid /\ ~Ended
  IN  /\ MayCycle(valid, pc)
      /\ \E fetched  \in {Fetch(valid, program, pc)},
            decoded  \in {Decode(ifid, registers)},
            executed \in {Execute(idex)} :
           IF decoded.valid /\ HasHazard(decoded)
           THEN /\ FinishCycle(pc, Squashed(fetched), ThrownAway(decoded), executed)
                /\ stall' = Asleep(Advanced, 2, decoded.pc)
                /\ scoreboard' = Released(scoreboard, mawb)
           ELSE /\ FinishCycle(pc, fetched, decoded, executed)
                /\ stall' = Advanced
                /\ scoreboard' = Released(Booked(decoded), mawb)
      /\ MemoryAccessAndWriteBack

Terminated == halted /\ UNCHANGED vars

Next == Cycle \/ Terminated

Spec == StallingInit /\ [][Next]_vars /\ WF_vars(Cycle)
-----------------------------------------------------------------------------
StallTypeOK ==
  /\ TypeOK
  /\ stall \in [count : 0 .. 2, freezePc : Nat, isMelt : BOOLEAN,
                valid : BOOLEAN]
  /\ scoreboard \in [valid : [Register -> BOOLEAN], tag : [Register -> Nat]]

(* The instructions that will write a register, younger ones first.        *)
InFlight == {latch \in {idex, exma, mawb} :
               latch.valid /\ RegWrite(latch.op) /\ latch.writeReg # 0}

(* An instruction in decode that reads what one ahead of it will write is  *)
(* held back.  (A booking is only tagged with an address: in a loop of two *)
(* or three cycles an instruction releases the booking of its successor.)  *)
ReadersWait ==
  ifid.valid =>
    \A latch \in InFlight :
      latch.writeReg \in {ifid.instruction.rs, ifid.instruction.rt} =>
        HasHazard(Decode(ifid, registers))

(* A register that is not settled has a writer on its way that will settle *)
(* it: nobody waits for ever.                                              *)
BookingsHaveWriters ==
  \A r \in Register :
    ~scoreboard.valid[r] =>
      \E latch \in InFlight :
        latch.writeReg = r /\ latch.pc = scoreboard.tag[r]

(* sleep() does nothing while the unit is asleep: no hazard may come then. *)
NoHazardIsDropped ==
  ifid.valid /\ HasHazard(Decode(ifid, registers)) => Advanced.valid

(* Whatever was read in decode is the value program order gives it.        *)
OperandsCurrent ==
  idex.valid =>
    /\ idex.readData1 = SettledRegisters[idex.readReg1]
    /\ idex.readData2 = SettledRegisters[idex.readReg2]

(* Where the fetch resumes: at the instruction thrown away, when asleep.   *)
ResumePc == IF stall.count > 0 THEN stall.freezePc ELSE nextPc

(* The architectural state of the pipeline, see PipelineControlUnit.       *)
Arch == INSTANCE Architecture WITH
          pc <- OldestPc(ResumePc), registers <- RetiredRegisters

(* The pipeline implements the architecture: instructions take effect one  *)
(* by one in program order, whatever was fetched, squashed or held back ...*)
TakesEffectInOrder == Arch!SafeSpec

(* ... and it goes on until the program ends.                              *)
NeverStopsShort == Arch!Progress

(* Once the last instruction has happened the loop is left in the cycle    *)
(* that follows: the mark has come along with it, through every latch.     *)
EndIsNoticed == OldestPc(ResumePc) = End => mawb.isEnd \/ halted
=============================================================================
