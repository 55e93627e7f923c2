-------------------------- MODULE StallingTheorems --------------------------
(***************************************************************************)
(* StallingPipelineControlUnit, for every program, unit and word size.     *)
(***************************************************************************)
EXTENDS StallingPipeline, PipelineTheorems

(* The states of a StallUnit and of a Scoreboard.                          *)
Delay == [count : 0 .. 2, freezePc : Nat, isMelt : BOOLEAN, valid : BOOLEAN]
Board == [valid : [Register -> BOOLEAN], tag : [Register -> Nat]]

(* What this cycle fetches, and from where.                                *)
FetchPc == IF Advanced.isMelt THEN Advanced.freezePc ELSE nextPc
Fetched == Fetch(Advanced.valid /\ ~Ended, program, FetchPc)
Decoded == Decode(ifid, registers)

(* The cycle in which the instruction in decode meets a hazard, and the    *)
(* cycle in which it goes on.                                              *)
Held ==
  /\ Decoded.valid /\ HasHazard(Decoded)
  /\ StagesRan(FetchPc, Squashed(Fetched), ThrownAway(Decoded), Execute(idex))
  /\ stall' = Asleep(Advanced, 2, Decoded.pc)
  /\ scoreboard' = Released(scoreboard, mawb)

GoesOn ==
  /\ Decoded.valid => ~HasHazard(Decoded)
  /\ StagesRan(FetchPc, Fetched, Decoded, Execute(idex))
  /\ stall' = Advanced
  /\ scoreboard' = Released(Booked(Decoded), mawb)

(* StallUnit.next counts down to zero and stops there.                     *)
LEMMA AdvancedType == StallTypeOK => Advanced \in Delay
<1> SUFFICES ASSUME stall \in Delay PROVE Advanced \in Delay
  BY DEF StallTypeOK, Delay
<1>1. stall.count \in 0 .. 2
  BY DEF Delay
<1>2. CASE stall.count = 0
  BY <1>2 DEF Advanced, Delay
<1>3. CASE stall.count = 1
  <2>1. Advanced = [stall EXCEPT !.count = 0, !.isMelt = TRUE, !.valid = TRUE]
    BY <1>3 DEF Advanced
  <2>2. 0 \in 0 .. 2 /\ TRUE \in BOOLEAN
    OBVIOUS
  <2> QED
    BY <2>1, <2>2, Zenon DEF Delay
<1>4. CASE stall.count = 2
  BY <1>4 DEF Advanced, Delay
<1> QED
  BY <1>1, <1>2, <1>3, <1>4

(* The first three stages produce what the latches hold.                   *)
LEMMA StageTypes ==
  ASSUME StallTypeOK, MayCycle(Advanced.valid /\ ~Ended, FetchPc)
  PROVE  /\ FetchPc \in Int
         /\ Fetched \in FetchResult /\ Squashed(Fetched) \in FetchResult
         /\ Decoded \in DecodeResult /\ ThrownAway(Decoded) \in DecodeResult
         /\ Execute(idex) \in ExecutionResult
<1>1. FetchPc \in Int
  BY AdvancedType DEF FetchPc, Delay, StallTypeOK, TypeOK
<1>2. (Advanced.valid /\ ~Ended) \in BOOLEAN
  BY AdvancedType DEF Delay
<1>3. Fetched \in FetchResult
  BY <1>1, <1>2, FetchType DEF Fetched, MayCycle, StallTypeOK, TypeOK
<1>4. Decoded \in DecodeResult
  BY DecodeType DEF Decoded, StallTypeOK, TypeOK
<1>5. Execute(idex) \in ExecutionResult
  BY ExecuteType DEF StallTypeOK, TypeOK
<1> QED
  BY <1>1, <1>3, <1>4, <1>5 DEF Squashed, ThrownAway, FetchResult, DecodeResult, Signal

(* A cycle is one of the two.                                              *)
LEMMA CycleCases ==
  ASSUME StallTypeOK, Cycle
  PROVE  Held \/ GoesOn
<1> DEFINE e == Execute(idex)
<1>1. /\ MayCycle(Advanced.valid /\ ~Ended, FetchPc)
      /\ mawb' = MemoryAccess(exma, memory)
      /\ IF Decoded.valid /\ HasHazard(Decoded)
         THEN /\ FinishCycle(FetchPc, Squashed(Fetched), ThrownAway(Decoded), e)
              /\ stall' = Asleep(Advanced, 2, Decoded.pc)
              /\ scoreboard' = Released(scoreboard, mawb)
         ELSE /\ FinishCycle(FetchPc, Fetched, Decoded, e)
              /\ stall' = Advanced
              /\ scoreboard' = Released(Booked(Decoded), mawb)
  BY DEF Cycle, MemoryAccessAndWriteBack, FetchPc, Fetched, Decoded
<1>2. Fetched.valid => /\ ~Ended
                       /\ Fetched.pc = FetchPc
                       /\ Fetched.instruction = InstructionAt(program, FetchPc)
                       /\ Fetched.instruction # Nop
  BY DEF Fetched, Fetch, EmptyIfId
<1>3. /\ Decoded.valid => ifid.valid /\ Decoded.op = ifid.instruction.op
      /\ ~Decoded.valid => Decoded.op = "NONE"
      /\ ~Decoded.isEnd
  BY DEF Decoded, Decode, DecodeWith, DecodedSignal
<1>4. /\ e.valid = idex.valid /\ e.op = idex.op /\ e.isEnd = idex.isEnd
      /\ e.branch => IsBranch(e.op)
  BY DEF Execute
<1>5. ~Squashed(Fetched).valid
  BY <1>1, StageTypes DEF Squashed, FetchResult
<1>6. /\ ~ThrownAway(Decoded).valid /\ ThrownAway(Decoded).op = "NONE"
      /\ ~ThrownAway(Decoded).isEnd
  BY <1>1, <1>3, StageTypes DEF ThrownAway, DecodeResult
<1> HIDE DEF e
<1>7. CASE Decoded.valid /\ HasHazard(Decoded)
  BY <1>1, <1>4, <1>5, <1>6, <1>7 DEF Held, StagesRan, e
<1>8. CASE ~(Decoded.valid /\ HasHazard(Decoded))
  BY <1>1, <1>2, <1>3, <1>4, <1>8 DEF GoesOn, StagesRan, e
<1> QED
  BY <1>7, <1>8

(* Either way findNext is handed the results of three stages.              *)
LEMMA CycleRunsStages ==
  ASSUME StallTypeOK, Cycle
  PROVE  /\ FetchPc \in Int
         /\ \E f \in FetchResult, d \in DecodeResult, e \in ExecutionResult :
              StagesRan(FetchPc, f, d, e)
<1>1. MayCycle(Advanced.valid /\ ~Ended, FetchPc)
  BY DEF Cycle, FetchPc
<1> QED
  BY <1>1, StageTypes, CycleCases DEF Held, GoesOn
-----------------------------------------------------------------------------
(* A run starts well typed ...                                             *)
LEMMA InitialStall == StallingInit => StallTypeOK
<1> SUFFICES ASSUME StallingInit PROVE StallTypeOK
  OBVIOUS
<1>1. TypeOK
  BY InitialTypes DEF StallingInit
<1>2. stall \in Delay /\ scoreboard \in Board
  BY DEF StallingInit, Delay, Board
<1> QED
  BY <1>1, <1>2 DEF StallTypeOK, Delay, Board

(* Booking and releasing touch one register of the scoreboard.             *)
LEMMA BoardType ==
  ASSUME NEW board \in Board, NEW latch \in MemoryAccessResult
  PROVE  Released(board, latch) \in Board
BY DEF Released, Board, MemoryAccessResult

(* ... so do the bookings of the instruction in decode.                    *)
LEMMA BookedType ==
  ASSUME StallTypeOK, NEW latch \in DecodeResult
  PROVE  Booked(latch) \in Board
<1>1. scoreboard \in Board /\ latch.writeReg \in Register /\ latch.pc \in Nat
  BY DEF StallTypeOK, Board, DecodeResult
<1> QED
  BY <1>1 DEF Booked, Board

(* ... and every cycle keeps the types.                                    *)
LEMMA StepTypes == StallTypeOK /\ [Next]_vars => StallTypeOK'
<1> SUFFICES ASSUME StallTypeOK, [Next]_vars PROVE StallTypeOK'
  OBVIOUS
<1>1. CASE Cycle
  <2>1. MayCycle(Advanced.valid /\ ~Ended, FetchPc)
    BY <1>1 DEF Cycle, FetchPc
  <2>2. PICK f \in FetchResult, d \in DecodeResult, e \in ExecutionResult :
          StagesRan(FetchPc, f, d, e)
    BY <1>1, CycleRunsStages
  <2>3. TypeOK'
    BY <1>1, <2>1, <2>2, StageTypes, CycleTypes DEF StagesRan, Cycle, StallTypeOK
  <2>4. stall' \in Delay
    <3>1. Decoded.pc \in Nat
      BY <2>1, StageTypes DEF DecodeResult
    <3>2. Advanced \in Delay /\ Asleep(Advanced, 2, Decoded.pc) \in Delay
      <4>1. 2 \in 0 .. 2 /\ FALSE \in BOOLEAN
        OBVIOUS
      <4> QED
        BY <3>1, <4>1, AdvancedType, Zenon DEF Asleep, Delay
    <3> QED
      BY <1>1, <3>2, CycleCases DEF Held, GoesOn
  <2>5. scoreboard' \in Board
    <3>1. scoreboard \in Board /\ mawb \in MemoryAccessResult
      BY DEF StallTypeOK, TypeOK, Board
    <3>2. Booked(Decoded) \in Board
      BY <2>1, StageTypes, BookedType
    <3> QED
      BY <1>1, <3>1, <3>2, BoardType, CycleCases DEF Held, GoesOn
  <2> QED
    BY <2>3, <2>4, <2>5 DEF StallTypeOK, Delay, Board
<1>2. CASE UNCHANGED vars
  BY <1>2 DEF vars, pipelineVars, StallTypeOK, TypeOK
<1> QED
  BY <1>1, <1>2 DEF Next, Terminated

(* The latches, the stall unit and the scoreboard keep their types: the    *)
(* count never runs below zero, and what is frozen is an address.          *)
THEOREM TypeCorrect == Spec => []StallTypeOK
BY InitialStall, StepTypes, PTL DEF Spec
-----------------------------------------------------------------------------
(* Every cycle moves the marks of the end on.                              *)
LEMMA StepEnd == StallTypeOK /\ EndTravels /\ [Next]_vars => EndTravels'
<1> SUFFICES ASSUME StallTypeOK, EndTravels, [Next]_vars PROVE EndTravels'
  OBVIOUS
<1>1. CASE Cycle
  BY <1>1, CycleRunsStages, CycleEnd DEF StallTypeOK
<1>2. CASE UNCHANGED vars
  BY <1>2 DEF vars, pipelineVars, EndTravels, HaltedWhenDrained, Ended
<1> QED
  BY <1>1, <1>2 DEF Next, Terminated

(* The loop of process() is left only after the program has ended and with *)
(* nothing behind in the latches, even under the units that buffer targets.*)
THEOREM DrainedAtTheEnd == Spec => []HaltedWhenDrained
<1>1. StallingInit => EndTravels
  BY InitialEnd DEF StallingInit
<1>2. EndTravels => HaltedWhenDrained
  BY DEF EndTravels
<1> QED
  BY <1>1, <1>2, StepEnd, TypeCorrect, PTL DEF Spec
-----------------------------------------------------------------------------
(* While the unit sleeps nothing valid waits in decode, and it is valid    *)
(* again as soon as its count is back at zero.                             *)
NothingWaitsAsleep ==
  /\ stall.valid <=> stall.count = 0
  /\ ifid.valid => stall.count = 0

(* The unit starts awake.                                                  *)
LEMMA SleepInitially == StallingInit => NothingWaitsAsleep
BY DEF StallingInit, Init, EmptyIfId, NothingWaitsAsleep

(* When there is something to decode, the unit is awake.                   *)
LEMMA AwakeInDecode ==
  ASSUME StallTypeOK, NothingWaitsAsleep, ifid.valid
  PROVE  Advanced = [stall EXCEPT !.isMelt = FALSE] /\ Advanced.valid
                                                    /\ ~Advanced.isMelt
BY DEF NothingWaitsAsleep, Advanced, StallTypeOK

(* A request to sleep also squashes the word just fetched.                 *)
LEMMA StepSleep ==
  StallTypeOK /\ NothingWaitsAsleep /\ [Next]_vars => NothingWaitsAsleep'
<1> SUFFICES ASSUME StallTypeOK, NothingWaitsAsleep, [Next]_vars
             PROVE  NothingWaitsAsleep'
  OBVIOUS
<1>1. CASE Cycle
  <2>1. MayCycle(Advanced.valid /\ ~Ended, FetchPc)
    BY <1>1 DEF Cycle, FetchPc
  <2>2. \A f \in FetchResult, d \in DecodeResult :
          StagesRan(FetchPc, f, d, Execute(idex)) /\ ~f.valid => ~ifid'.valid
    <3> SUFFICES ASSUME NEW f \in FetchResult, NEW d \in DecodeResult,
                        StagesRan(FetchPc, f, d, Execute(idex)), ~f.valid
                 PROVE  ~ifid'.valid
      OBVIOUS
    <3>1. TypeOK /\ Execute(idex) \in ExecutionResult
      BY <2>1, StageTypes DEF StallTypeOK
    <3>2. FinishCycle(FetchPc, f, d, Execute(idex))
      BY DEF StagesRan
    <3>3. ifid' = f \/ ifid' = Squashed(f)
      BY <3>1, <3>2, CycleOutcome
    <3> QED
      BY <3>3 DEF Squashed, FetchResult
  <2>3. CASE Held
    <3>1. ~ifid'.valid
      BY <2>1, <2>2, <2>3, StageTypes DEF Held, Squashed, FetchResult
    <3>2. ifid.valid
      BY <2>3 DEF Held, Decoded, Decode, DecodeWith
    <3>3. stall' = [Advanced EXCEPT !.freezePc = Decoded.pc, !.valid = FALSE,
                                    !.count = 2]
      BY <2>3, <3>2, AwakeInDecode DEF Held, Asleep
    <3>4. ~stall'.valid /\ stall'.count = 2
      BY <3>3, AdvancedType DEF Delay
    <3> QED
      BY <3>1, <3>4 DEF NothingWaitsAsleep
  <2>4. CASE GoesOn
    <3>1. ~Advanced.valid => ~ifid'.valid
      <4>1. ~Advanced.valid => ~Fetched.valid
        BY DEF Fetched, Fetch, EmptyIfId
      <4> QED
        BY <2>1, <2>2, <2>4, <4>1, StageTypes DEF GoesOn
    <3>2. Advanced.valid <=> Advanced.count = 0
      <4>1. stall \in Delay /\ stall.count \in 0 .. 2
        BY DEF StallTypeOK, Delay
      <4>2. CASE stall.count = 0
        BY <4>1, <4>2 DEF Advanced, Delay, NothingWaitsAsleep
      <4>3. CASE stall.count = 1
        <5>1. Advanced = [stall EXCEPT !.count = 0, !.isMelt = TRUE,
                                       !.valid = TRUE]
          BY <4>3 DEF Advanced
        <5>2. Advanced.count = 0
          BY <4>1, <5>1 DEF Delay
        <5>3. Advanced.valid = TRUE
          BY <4>1, <5>1, Zenon DEF Delay
        <5> QED
          BY <5>2, <5>3
      <4>4. CASE stall.count = 2
        BY <4>1, <4>4 DEF Advanced, Delay, NothingWaitsAsleep
      <4> QED
        BY <4>1, <4>2, <4>3, <4>4
    <3>3. Advanced.valid \in BOOLEAN /\ stall' = Advanced
      BY <2>4, AdvancedType DEF GoesOn, Delay
    <3> QED
      BY <3>1, <3>2, <3>3 DEF NothingWaitsAsleep
  <2> QED
    BY <1>1, <2>3, <2>4, CycleCases
<1>2. CASE UNCHANGED vars
  BY <1>2 DEF vars, pipelineVars, NothingWaitsAsleep
<1> QED
  BY <1>1, <1>2 DEF Next, Terminated

(* StallUnit.sleep ignores a request while the unit sleeps; none is made   *)
(* then, so every instruction thrown away is fetched again.                *)
THEOREM EveryHazardIsHeld == Spec => []NoHazardIsDropped
<1>1. StallTypeOK /\ NothingWaitsAsleep => NoHazardIsDropped
  BY AwakeInDecode DEF NoHazardIsDropped
<1> QED
  BY <1>1, SleepInitially, StepSleep, TypeCorrect, PTL DEF Spec
-----------------------------------------------------------------------------
(* Every cycle keeps the shadow of a branch empty.                         *)
LEMMA StepShadow ==
  /\ StallTypeOK /\ NothingWaitsAsleep /\ NothingShadowed
  /\ [Next]_vars
  => NothingShadowed'
<1> SUFFICES ASSUME StallTypeOK, NothingWaitsAsleep, NothingShadowed, [Next]_vars
             PROVE  NothingShadowed'
  OBVIOUS
<1>1. CASE Cycle
  <2>1. PICK f \in FetchResult, d \in DecodeResult, e \in ExecutionResult :
          StagesRan(FetchPc, f, d, e)
    BY <1>1, CycleRunsStages
  <2>2. FetchPc \in Int
    BY <1>1, CycleRunsStages
  <2>3. ifid.valid => FetchPc = nextPc
    BY AwakeInDecode DEF FetchPc
  <2> QED
    BY <2>1, <2>2, <2>3, CycleShadow DEF StallTypeOK
<1>2. CASE UNCHANGED vars
  BY <1>2 DEF vars, pipelineVars, NothingShadowed, CleanRun, SquashedIsInert
<1> QED
  BY <1>1, <1>2 DEF Next, Terminated

(* With a unit that does not buffer targets, and a no-op behind every      *)
(* branch, an instruction that was squashed or thrown away can no longer   *)
(* write, whatever stalls come between a branch and what follows it.       *)
THEOREM SquashesLeaveNoTrace ==
  ASSUME \A unit \in Units : unit.kind # "History",
         \A text \in Programs : DelaySlotsAreNops(text)
  PROVE  Spec => []SquashedIsInert
<1>1. StallingInit => NothingShadowed
  BY InitialShadow DEF StallingInit, Init, CleanRun
<1>2. NothingShadowed => SquashedIsInert
  BY DEF NothingShadowed
<1> QED
  BY <1>1, <1>2, SleepInitially, StepSleep, StepShadow, TypeCorrect, PTL DEF Spec
-----------------------------------------------------------------------------
(* What a cycle leaves of an instruction but its marks.                    *)
SameWriter(latch, other) ==
  /\ latch.valid = other.valid /\ latch.op = other.op
  /\ latch.writeReg = other.writeReg /\ latch.pc = other.pc

(* Nothing valid is right behind a branch.                                 *)
NothingBehindBranch == idex.valid /\ IsBranch(idex.op) => ~ifid.valid

(* The instructions that may write move one latch on; the one in decode is *)
(* squashed only when it is none of them.                                  *)
LEMMA WritersMove ==
  ASSUME TypeOK, NothingBehindBranch, NEW pc \in Int, NEW f \in FetchResult,
         NEW d \in DecodeResult, StagesRan(pc, f, d, Execute(idex))
  PROVE  /\ SameWriter(mawb', exma)
         /\ SameWriter(exma', idex)
         /\ d.valid => SameWriter(idex', d)
<1> DEFINE e == Execute(idex)
<1>1. SameWriter(mawb', exma)
  BY DEF StagesRan, MemoryAccess, SameWriter
<1>2. e \in ExecutionResult /\ SameWriter(e, idex)
  BY ExecuteType DEF TypeOK, Execute, SameWriter
<1> HIDE DEF e
<1>3. CASE ifid' = f /\ idex' = d /\ exma' = e
  BY <1>1, <1>2, <1>3 DEF SameWriter
<1>4. CASE idex' = MarkedEnd(d, nextPc') /\ exma' = e
  <2>1. SameWriter(MarkedEnd(d, nextPc'), d)
    BY DEF MarkedEnd, SameWriter, DecodeResult
  <2> QED
    BY <1>1, <1>2, <1>4, <2>1
<1>5. CASE e.valid /\ (IsBranch(e.op) \/ e.branch) /\ exma' = MarkedEnd(e, nextPc')
  <2>1. SameWriter(exma', e)
    BY <1>2, <1>5 DEF MarkedEnd, SameWriter, ExecutionResult
  <2>2. ~d.valid
    BY <1>2, <1>5 DEF StagesRan, NothingBehindBranch, e
  <2> QED
    BY <1>1, <1>2, <2>1, <2>2 DEF SameWriter
<1> QED
  BY <1>2, <1>3, <1>4, <1>5, CycleOutcome DEF StagesRan, e

(* One cycle of the scoreboard: the instruction in decode books, the one   *)
(* in the last latch releases what it has booked itself.                   *)
LEMMA CycleBookings ==
  ASSUME StallTypeOK, NothingWaitsAsleep, NothingBehindBranch,
         BookingsHaveWriters, Cycle
  PROVE  BookingsHaveWriters'
<1> DEFINE writes(latch, r, pc) == /\ latch.valid /\ RegWrite(latch.op)
                                   /\ latch.writeReg # 0
                                   /\ latch.writeReg = r /\ latch.pc = pc
<1>1. /\ mawb \in MemoryAccessResult /\ idex \in DecodeResult /\ exma \in ExecutionResult
      /\ scoreboard \in Board
      /\ MayCycle(Advanced.valid /\ ~Ended, FetchPc)
  BY DEF StallTypeOK, TypeOK, Board, Cycle, FetchPc
<1>2. PICK d \in DecodeResult, booked \in Board :
        /\ SameWriter(mawb', exma)
        /\ SameWriter(exma', idex)
        /\ d.valid => SameWriter(idex', d)
        /\ \/ booked = scoreboard
           \/ /\ d.valid /\ RegWrite(d.op) /\ d.writeReg # 0
              /\ booked = [scoreboard EXCEPT !.valid[d.writeReg] = FALSE,
                                             !.tag[d.writeReg] = d.pc]
        /\ scoreboard' = Released(booked, mawb)
  <2>1. CASE Held
    BY <1>1, <2>1, StageTypes, WritersMove DEF Held, StallTypeOK
  <2>2. CASE GoesOn
    <3>1. Booked(Decoded) \in Board
      BY <1>1, StageTypes, BookedType
    <3> QED
      BY <1>1, <2>2, <3>1, StageTypes, WritersMove DEF GoesOn, StallTypeOK, Booked
  <2> QED
    BY <2>1, <2>2, CycleCases
<1>3. SUFFICES ASSUME NEW r \in Register, ~scoreboard'.valid[r]
               PROVE  \/ writes(idex', r, scoreboard'.tag[r])
                      \/ writes(exma', r, scoreboard'.tag[r])
                      \/ writes(mawb', r, scoreboard'.tag[r])
  BY DEF BookingsHaveWriters, InFlight
<1>4. scoreboard'.tag = booked.tag /\ ~booked.valid[r]
  BY <1>1, <1>2, <1>3 DEF Released, Board, MemoryAccessResult
<1>5. CASE booked.valid[r] = scoreboard.valid[r] /\ booked.tag[r] = scoreboard.tag[r]
  <2>1. \/ writes(idex, r, scoreboard.tag[r])
        \/ writes(exma, r, scoreboard.tag[r])
        \/ writes(mawb, r, scoreboard.tag[r])
    BY <1>4, <1>5 DEF BookingsHaveWriters, InFlight
  <2>2. ~writes(mawb, r, scoreboard.tag[r])
    <3>1. SUFFICES ASSUME writes(mawb, r, scoreboard.tag[r]) PROVE FALSE
      OBVIOUS
    <3>2. scoreboard' = [booked EXCEPT !.valid[r] = TRUE]
      BY <1>2, <1>5, <3>1 DEF Released
    <3>3. scoreboard'.valid[r]
      BY <1>2, <3>2 DEF Board
    <3> QED
      BY <1>3, <3>3
  <2> QED
    BY <1>2, <1>4, <1>5, <2>1, <2>2 DEF SameWriter
<1>6. CASE /\ d.valid /\ RegWrite(d.op) /\ d.writeReg # 0
           /\ booked = [scoreboard EXCEPT !.valid[d.writeReg] = FALSE,
                                          !.tag[d.writeReg] = d.pc]
  <2>1. CASE r = d.writeReg
    <3>1. booked.tag[r] = d.pc
      BY <1>1, <1>6, <2>1 DEF Board
    <3> QED
      BY <1>2, <1>4, <1>6, <2>1, <3>1 DEF SameWriter
  <2>2. CASE r # d.writeReg
    BY <1>1, <1>5, <1>6, <2>2 DEF Board
  <2> QED
    BY <2>1, <2>2
<1> QED
  BY <1>2, <1>5, <1>6

(* Every cycle leaves each booking a writer.                               *)
LEMMA StepBookings ==
  /\ StallTypeOK /\ NothingWaitsAsleep /\ NothingBehindBranch
  /\ BookingsHaveWriters /\ [Next]_vars
  => BookingsHaveWriters'
<1> SUFFICES ASSUME StallTypeOK, NothingWaitsAsleep, NothingBehindBranch,
                    BookingsHaveWriters, [Next]_vars
             PROVE  BookingsHaveWriters'
  OBVIOUS
<1>1. CASE Cycle
  BY <1>1, CycleBookings
<1>2. CASE UNCHANGED vars
  BY <1>2 DEF vars, pipelineVars, BookingsHaveWriters, InFlight
<1> QED
  BY <1>1, <1>2 DEF Next, Terminated

(* Under the same conditions, a register that is not settled always has an *)
(* instruction on its way that will settle it: no booking is left behind   *)
(* by a squash, a stall or a second booking of the register.               *)
THEOREM NoBookingIsOrphaned ==
  ASSUME \A unit \in Units : unit.kind # "History",
         \A text \in Programs : DelaySlotsAreNops(text)
  PROVE  Spec => []BookingsHaveWriters
<1>1. StallingInit => NothingShadowed
  BY InitialShadow DEF StallingInit, Init, CleanRun
<1>2. StallingInit => BookingsHaveWriters
  BY DEF StallingInit, BookingsHaveWriters
<1>3. NothingShadowed => NothingBehindBranch
  BY DEF NothingShadowed, NothingBehindBranch
<1> QED
  BY <1>1, <1>2, <1>3, SleepInitially, StepSleep, StepShadow, StepBookings,
     TypeCorrect, PTL DEF Spec
-----------------------------------------------------------------------------
(***************************************************************************)
(* From here on: conventional programs; under the units that buffer        *)
(* targets, with room between their branches.  Nothing is asked of the     *)
(* distance between a load, or the source of a jump register, and its use. *)
(***************************************************************************)
ConventionalRun ==
  Conventional(program) /\ (pcUnit.kind = "History" => Spaced(program))

(* What the conventions say of an instruction that is not a no-op ...      *)
LEMMA ConventionsKept ==
  ASSUME StallTypeOK, ConventionalRun, NEW a, InstructionAt(program, a) # Nop
  PROVE  LET i == InstructionAt(program, a)
         IN  /\ i \in Instruction
             /\ RegWrite(i.op) => WriteRegister(i.op, i) # 0
             /\ IsBranch(i.op) => Immediate(a, i) \in Nat
             /\ IsBranch(i.op) \/ IsJump(i.op) => InstructionAt(program, a + 4) = Nop
             /\ i.op \in {"J", "JAL"} => i.imm \in Nat
<1> DEFINE i == InstructionAt(program, a)
<1>1. a \in DOMAIN program /\ i = program[a] /\ IsProgram(program)
  BY DEF InstructionAt, StallTypeOK, TypeOK
<1>2. RegWrite(i.op) => WriteRegister(i.op, i) # 0
  BY <1>1 DEF ConventionalRun, Conventional, Writes
<1>3. /\ IsBranch(i.op) => Immediate(a, i) \in Nat
      /\ IsBranch(i.op) \/ IsJump(i.op) => InstructionAt(program, a + 4) = Nop
      /\ i.op \in {"J", "JAL"} => i.imm \in Nat
  BY <1>1 DEF ConventionalRun, Conventional, InstructionAt, IsProgram
<1>4. i \in Instruction
  BY <1>1, InstructionType
<1> QED
  BY <1>2, <1>3, <1>4

(* ... and what room between branches means for one of them.               *)
LEMMA RoomKept ==
  ASSUME StallTypeOK, ConventionalRun, pcUnit.kind = "History",
         NEW a \in Nat, IsBranch(InstructionAt(program, a).op)
  PROVE  LET target == Immediate(a, InstructionAt(program, a))
         IN  /\ a % 4 = 0 /\ target % 4 = 0 /\ target \in Nat /\ target # End
             /\ InstructionAt(program, target) = Nop
             /\ InstructionAt(program, a + 4) = Nop
             /\ \A b \in {a + 8, target + 4} :
                  ~IsBranch(InstructionAt(program, b).op)
BY RoomBetween DEF StallTypeOK, TypeOK, ConventionalRun

(* While the unit sleeps the latches behind the hazard empty, and the run  *)
(* has not ended.                                                          *)
AsleepBehind ==
  /\ stall.count > 0 => ~Ended /\ nextPc >= 0 /\ ~ifid.valid /\ ~idex.valid
  /\ stall.count = 1 => ~exma.valid

(* The buffer holds targets of the program's own branches, and is looked   *)
(* up with addresses of words.                                             *)
BufferTrue ==
  pcUnit.kind = "History" =>
    /\ BufferHolds(pcUnit.buffer, program)
    /\ ~Ended => ResumePc % 4 = 0

(* The fetch stays behind the instruction in execute, unless a no-op was   *)
(* between them or it turned the fetch; it is turned by an instruction in  *)
(* decode or, when its target was buffered, in fetch.                      *)
DecodeFollows ==
  /\ idex.valid /\ ifid.valid => ifid.pc = idex.pc + 4 /\ ~IsJump(idex.op)
  /\ idex.valid /\ ~IsJump(idex.op) => ~Ended
  /\ idex.valid /\ ~ifid.valid =>
       \/ /\ ~IsJump(idex.op) /\ nextPc = idex.pc + 8
          /\ InstructionAt(program, idex.pc + 4) = Nop
          /\ pcUnit.kind = "History" => ifid.pc = idex.pc + 4
       \/ IsJump(idex.op) /\ nextPc = idex.nextPc
       \/ /\ IsBranch(idex.op) /\ nextPc = idex.imm
          /\ Predicts(pcUnit, idex.pc + 4, idex.imm)
       \/ /\ IsBranch(idex.op) /\ nextPc = idex.imm + 4
          /\ pcUnit.kind = "History" /\ ifid.pc = idex.imm

(* What is fetched and decoded is in order.                                *)
FetchInOrder ==
  /\ StallTypeOK /\ ConventionalRun
  /\ NothingWaitsAsleep /\ AsleepBehind
  /\ LatchesCarry /\ FetchLeads /\ BufferTrue /\ DecodeFollows

(* Where the fetch is: it resumes at the frozen address in the last cycle  *)
(* of the delay.                                                           *)
LEMMA FetchPlace ==
  ASSUME StallTypeOK, NothingWaitsAsleep
  PROVE  /\ stall.count \in 0 .. 2 /\ stall.freezePc \in Nat
         /\ stall.count = 2 => /\ ~Advanced.valid /\ Advanced.count = 1
                               /\ Advanced.freezePc = stall.freezePc
                               /\ FetchPc \in {stall.freezePc, nextPc}
         /\ stall.count # 2 => /\ Advanced.valid /\ Advanced.count = 0
                               /\ FetchPc = ResumePc
<1>1. stall \in Delay /\ stall.count \in 0 .. 2 /\ stall.freezePc \in Nat
  BY DEF StallTypeOK, Delay
<1>2. CASE stall.count = 0
  <2>1. Advanced = [stall EXCEPT !.isMelt = FALSE] /\ stall.valid
    BY <1>2 DEF Advanced, NothingWaitsAsleep
  <2>2. Advanced.valid /\ Advanced.count = 0 /\ ~Advanced.isMelt
    BY <1>1, <1>2, <2>1 DEF Delay
  <2> QED
    BY <1>1, <1>2, <2>2 DEF FetchPc, ResumePc
<1>3. CASE stall.count = 1
  <2>1. Advanced = [stall EXCEPT !.count = 0, !.isMelt = TRUE, !.valid = TRUE]
    BY <1>3 DEF Advanced
  <2>2. Advanced.valid = TRUE /\ Advanced.isMelt = TRUE
    BY <1>1, <2>1, Zenon DEF Delay
  <2>3. Advanced.count = 0 /\ Advanced.freezePc = stall.freezePc
    BY <1>1, <2>1 DEF Delay
  <2> QED
    BY <1>1, <1>3, <2>2, <2>3 DEF FetchPc, ResumePc
<1>4. CASE stall.count = 2
  <2>1. Advanced = [stall EXCEPT !.count = @ - 1] /\ ~stall.valid
    BY <1>4 DEF Advanced, NothingWaitsAsleep
  <2>2. ~Advanced.valid /\ Advanced.count = 1 /\ Advanced.freezePc = stall.freezePc
    BY <1>1, <1>4, <2>1 DEF Delay
  <2> QED
    BY <1>1, <1>4, <2>2 DEF FetchPc
<1> QED
  BY <1>1, <1>2, <1>3, <1>4

(* What a cycle leaves alone, and what it writes.                          *)
LEMMA CycleFacts ==
  ASSUME StallTypeOK, Cycle
  PROVE  /\ program' = program /\ pcUnit'.kind = pcUnit.kind /\ ~halted
         /\ isEnd' = Ended /\ halted' = mawb.isEnd
         /\ Ended' <=> Ended \/ nextPc' = End
         /\ mawb' = MemoryAccess(exma, memory)
         /\ memory' = Stored(exma, memory)
         /\ registers' = WriteBack(mawb, registers)
<1>1. /\ MayCycle(Advanced.valid /\ ~Ended, FetchPc) /\ MemoryAccessAndWriteBack
      /\ ~halted
  BY DEF Cycle, FetchPc, MayCycle
<1>2. PICK f \in FetchResult, d \in DecodeResult, e \in ExecutionResult :
        FetchPc \in Int /\ FinishCycle(FetchPc, f, d, e)
  BY CycleRunsStages DEF StagesRan
<1> QED
  BY <1>1, <1>2, CycleWrites DEF StallTypeOK

(* The five ways a cycle ends, in terms of what the latches hold then: the *)
(* instruction in decode is held back, the unit sleeps on, the fetch goes  *)
(* on, a jump or a prediction in decode turns it, or a branch in execute.  *)
HeldBack ==
  /\ ifid.valid /\ ~ifid'.valid /\ ~idex'.valid
  /\ nextPc' >= 0 /\ stall'.count = 2 /\ stall'.freezePc = ifid.pc

SleepsOn ==
  /\ stall.count = 2 /\ stall'.count = 1 /\ stall'.freezePc = stall.freezePc
  /\ ~ifid'.valid /\ ~idex'.valid /\ nextPc' >= 0

SettledThere ==
  idex.valid /\ IsBranch(idex.op) /\ ~Ended =>
    CASE pcUnit.kind = "None"    -> ~exma'.branch
      [] pcUnit.kind = "History" -> exma'.branch <=> ifid.pc = idex.imm
      [] OTHER                   -> exma'.branch <=> ResumePc = idex.imm

(* A hit: the word fetched is a branch, and the next one is its target.    *)
LedByBuffer ==
  LET i == InstructionAt(program, ResumePc)
  IN  /\ pcUnit.kind = "History" /\ IsBranch(i.op)
      /\ nextPc' = Immediate(ResumePc, i)

FetchesOn ==
  /\ stall.count # 2 /\ stall'.count = 0 /\ SettledThere
  /\ ~Ended => nextPc' = ResumePc + 4 \/ LedByBuffer
  /\ ~Ended => ifid'.pc = ResumePc /\ ResumePc >= 0
  /\ ifid'.valid <=> ~Ended /\ InstructionAt(program, ResumePc) # Nop
  /\ idex'.valid = ifid.valid
  /\ idex'.valid => ~IsJump(idex'.op)
  /\ idex'.valid /\ IsBranch(idex'.op) => ~Predicts(pcUnit', ResumePc, idex'.imm)

TurnsInDecode ==
  /\ SettledThere
  /\ stall'.count = 0 /\ ~ifid'.valid /\ idex'.valid /\ ifid.valid
  /\ \/ IsJump(idex'.op) /\ nextPc' = idex'.nextPc
     \/ /\ IsBranch(idex'.op) /\ nextPc' = idex'.imm
        /\ Predicts(pcUnit', ResumePc, idex'.imm)

TurnsInExecute ==
  /\ stall'.count = 0 /\ ~ifid'.valid /\ ~idex'.valid
  /\ idex.valid /\ IsBranch(idex.op)
  /\ nextPc' = IF exma'.branch THEN idex.imm ELSE idex.pc + 8

(* What execute hands on.                                                  *)
LEMMA ExecuteLatch ==
  ASSUME StallTypeOK, Cycle
  PROVE  LET v == AluValue(idex.op, idex.pc, idex.imm, idex.readData1, idex.readData2)
         IN  /\ exma'.valid = idex.valid /\ exma'.pc = idex.pc
             /\ exma'.op = idex.op /\ exma'.writeReg = idex.writeReg
             /\ exma'.nextPc = idex.imm
             /\ exma'.aluValue = v /\ exma'.readData2 = idex.readData2
             /\ exma'.branch <=> IsBranch(idex.op) /\ v = 1
<1> DEFINE e == Execute(idex)
<1>1. MayCycle(Advanced.valid /\ ~Ended, FetchPc) /\ TypeOK
  BY DEF Cycle, FetchPc, StallTypeOK
<1>2. PICK f \in FetchResult, d \in DecodeResult : StagesRan(FetchPc, f, d, e)
  BY <1>1, StageTypes, CycleCases DEF Held, GoesOn
<1>3. e \in ExecutionResult /\ FinishCycle(FetchPc, f, d, e)
  BY <1>1, <1>2, StageTypes DEF StagesRan
<1>4. /\ exma'.valid = e.valid /\ exma'.pc = e.pc /\ exma'.op = e.op
      /\ exma'.aluValue = e.aluValue /\ exma'.readData2 = e.readData2
      /\ exma'.writeReg = e.writeReg /\ exma'.nextPc = e.nextPc
      /\ exma'.branch = e.branch
  <2> HIDE DEF e
  <2> QED
    BY <1>1, <1>3, CycleFlushed DEF Flushed
<1> QED
  BY <1>4, ExecuteFields

(* What decode hands on: only an instruction that meets no hazard.         *)
LEMMA DecodeLatch ==
  ASSUME StallTypeOK, Cycle, idex'.valid
  PROVE  LET i == ifid.instruction
         IN  /\ ifid.valid /\ GoesOn /\ ~HasHazard(Decoded)
             /\ idex'.pc = ifid.pc /\ idex'.op = i.op
             /\ idex'.writeReg = WriteRegister(i.op, i)
             /\ idex'.readReg1 = i.rs /\ idex'.readReg2 = i.rt
             /\ idex'.imm = Immediate(ifid.pc, i)
             /\ idex'.readData1 = registers[i.rs] /\ idex'.readData2 = registers[i.rt]
             /\ i.op = "JR" => idex'.nextPc = registers[i.rs]
             /\ i.op \in {"J", "JAL"} => idex'.nextPc = i.imm
<1> DEFINE e == Execute(idex)
<1>1. MayCycle(Advanced.valid /\ ~Ended, FetchPc) /\ TypeOK
  BY DEF Cycle, FetchPc, StallTypeOK
<1>2. e \in ExecutionResult
  BY <1>1, StageTypes
<1>3. \A f \in FetchResult, d \in DecodeResult :
        StagesRan(FetchPc, f, d, e) =>
          /\ d.valid
          /\ idex'.pc = d.pc /\ idex'.op = d.op /\ idex'.imm = d.imm
          /\ idex'.readReg1 = d.readReg1 /\ idex'.readReg2 = d.readReg2
          /\ idex'.readData1 = d.readData1 /\ idex'.readData2 = d.readData2
          /\ idex'.writeReg = d.writeReg /\ idex'.nextPc = d.nextPc
  <2> SUFFICES ASSUME NEW f \in FetchResult, NEW d \in DecodeResult,
                      StagesRan(FetchPc, f, d, e)
               PROVE  /\ d.valid
                      /\ idex'.pc = d.pc /\ idex'.op = d.op /\ idex'.imm = d.imm
                      /\ idex'.readReg1 = d.readReg1 /\ idex'.readReg2 = d.readReg2
                      /\ idex'.readData1 = d.readData1 /\ idex'.readData2 = d.readData2
                      /\ idex'.writeReg = d.writeReg /\ idex'.nextPc = d.nextPc
    OBVIOUS
  <2>1. FinishCycle(FetchPc, f, d, e)
    BY DEF StagesRan
  <2> HIDE DEF e
  <2> QED
    BY <1>1, <1>2, <2>1, CycleFlushed DEF Flushed
<1>4. ~Held
  <2>1. ~ThrownAway(Decoded).valid
    BY <1>1, StageTypes DEF ThrownAway, DecodeResult
  <2> QED
    BY <1>1, <1>3, <2>1, StageTypes DEF Held
<1>5. GoesOn
  BY <1>4, CycleCases
<1>6. /\ Decoded.valid /\ idex'.pc = Decoded.pc /\ idex'.op = Decoded.op
      /\ idex'.imm = Decoded.imm
      /\ idex'.readReg1 = Decoded.readReg1 /\ idex'.readReg2 = Decoded.readReg2
      /\ idex'.readData1 = Decoded.readData1 /\ idex'.readData2 = Decoded.readData2
      /\ idex'.writeReg = Decoded.writeReg /\ idex'.nextPc = Decoded.nextPc
  BY <1>1, <1>3, <1>5, StageTypes DEF GoesOn
<1>7. Decoded = Decode(ifid, registers)
  BY DEF Decoded
<1> HIDE DEF e
<1> QED
  BY <1>5, <1>6, <1>7, DecodeFields DEF GoesOn

(* Where the cycle is when there is something in decode or execute.        *)
LEMMA AwakeAhead ==
  ASSUME FetchInOrder
  PROVE  /\ stall.count \in 0 .. 2 /\ nextPc \in Int
         /\ idex.valid \/ ifid.valid => stall.count = 0 /\ ResumePc = nextPc
         /\ ifid.valid => /\ ~Ended
                          /\ ifid.instruction = InstructionAt(program, ifid.pc)
                          /\ ifid.instruction # Nop
         /\ ifid.valid =>
              \/ nextPc = ifid.pc + 4
              \/ /\ pcUnit.kind = "History" /\ IsBranch(ifid.instruction.op)
                 /\ nextPc = Immediate(ifid.pc, ifid.instruction)
         /\ idex.valid /\ IsBranch(idex.op) => ~ifid.valid
         /\ ifid.pc \in Nat /\ idex.pc \in Nat /\ exma.pc \in Nat /\ mawb.pc \in Nat
BY FetchPlace
   DEF FetchInOrder, AsleepBehind, NothingWaitsAsleep, LatchesCarry, FetchLeads,
       ResumePc, StallTypeOK, TypeOK,
       FetchResult, DecodeResult, ExecutionResult, MemoryAccessResult

(* A target that was buffered is a no-op, and so is the word behind any    *)
(* branch: the word fetched behind a branch is never valid.                *)
LEMMA BehindBranch ==
  ASSUME FetchInOrder, ifid.valid
  PROVE  /\ nextPc \in Nat
         /\ IsBranch(ifid.instruction.op) =>
              /\ InstructionAt(program, ifid.pc + 4) = Nop
              /\ InstructionAt(program, nextPc) = Nop
              /\ Immediate(ifid.pc, ifid.instruction) \in Nat
<1>1. /\ ifid.pc \in Nat /\ ifid.instruction = InstructionAt(program, ifid.pc)
      /\ ifid.instruction # Nop /\ StallTypeOK /\ ConventionalRun
  BY AwakeAhead DEF FetchInOrder
<1>2. IsBranch(ifid.instruction.op) =>
        /\ InstructionAt(program, ifid.pc + 4) = Nop
        /\ Immediate(ifid.pc, ifid.instruction) \in Nat
  BY <1>1, ConventionsKept
<1>3. CASE nextPc = ifid.pc + 4
  BY <1>1, <1>2, <1>3
<1>4. CASE /\ pcUnit.kind = "History" /\ IsBranch(ifid.instruction.op)
           /\ nextPc = Immediate(ifid.pc, ifid.instruction)
  BY <1>1, <1>2, <1>4, RoomKept
<1> QED
  BY <1>3, <1>4, AwakeAhead

(* What the stages hand to the program counter unit, in a cycle that goes  *)
(* on.                                                                     *)
LEMMA StagesHand ==
  ASSUME FetchInOrder, Cycle
  PROVE  LET e == Execute(idex)
         IN  /\ MayCycle(Advanced.valid /\ ~Ended, FetchPc) /\ TypeOK /\ FetchPc \in Int
             /\ Fetched \in FetchResult /\ Decoded \in DecodeResult
             /\ e \in ExecutionResult /\ e.valid = idex.valid /\ e.op = idex.op
             /\ e.pc = idex.pc /\ e.nextPc = idex.imm
             /\ e.branch \in BOOLEAN /\ (exma'.branch <=> e.branch)
             /\ Decoded.valid = ifid.valid /\ Decoded.pc = ifid.pc
             /\ ifid.valid => Decoded.op = ifid.instruction.op
             /\ Resolving(e) <=> idex.valid /\ IsBranch(idex.op)
             /\ Resolving(e) => ~ifid.valid /\ ~Ended
<1> DEFINE e == Execute(idex)
<1>1. /\ MayCycle(Advanced.valid /\ ~Ended, FetchPc) /\ TypeOK /\ StallTypeOK
  BY DEF Cycle, FetchPc, FetchInOrder, StallTypeOK
<1>2. exma'.branch <=> e.branch
  BY <1>1, ExecuteLatch, ExecuteFields
<1>3. e \in ExecutionResult /\ e.branch \in BOOLEAN
  BY <1>1, StageTypes DEF ExecutionResult
<1>4. Resolving(e) <=> idex.valid /\ IsBranch(idex.op)
  BY ExecuteFields DEF Resolving
<1>5. Resolving(e) => ~ifid.valid /\ ~Ended
  BY <1>4 DEF FetchInOrder, FetchLeads, DecodeFollows, IsBranch, IsJump
<1> QED
  BY <1>1, <1>2, <1>3, <1>4, <1>5, StageTypes, ExecuteFields, DecodeFields DEF Decoded

(* The instruction in decode meets a hazard, and nothing turns the fetch.  *)
LEMMA HeldInDecode ==
  ASSUME FetchInOrder, Cycle, Held
  PROVE  /\ stall'.count = 2 /\ stall'.freezePc = ifid.pc
         /\ ifid.valid /\ stall.count = 0 /\ FetchPc = nextPc
         /\ ~Squashed(Fetched).valid /\ ~ThrownAway(Decoded).valid
         /\ Squashed(Fetched) \in FetchResult /\ ThrownAway(Decoded) \in DecodeResult
         /\ ~Resolving(Execute(idex))
<1>1. ifid.valid /\ StallTypeOK /\ NothingWaitsAsleep
  BY StagesHand DEF Held, FetchInOrder
<1>2. Advanced \in Delay /\ Advanced.valid /\ stall.count = 0 /\ FetchPc = nextPc
  BY <1>1, AdvancedType, AwakeInDecode, AwakeAhead, FetchPlace
<1>3. stall' = [Advanced EXCEPT !.freezePc = ifid.pc, !.valid = FALSE, !.count = 2]
  BY <1>2, StagesHand DEF Held, Asleep
<1>4. stall'.count = 2 /\ stall'.freezePc = ifid.pc
  BY <1>2, <1>3 DEF Delay
<1>5. /\ Squashed(Fetched) \in FetchResult /\ ThrownAway(Decoded) \in DecodeResult
      /\ ~Squashed(Fetched).valid /\ ~ThrownAway(Decoded).valid
  BY <1>1, StagesHand, StageTypes DEF Squashed, ThrownAway, FetchResult, DecodeResult
<1> QED
  BY <1>1, <1>2, <1>4, <1>5, StagesHand

(* Which of the five a cycle is: first under the units that do not buffer  *)
(* targets ...                                                             *)
LEMMA UnbufferedCycle ==
  ASSUME FetchInOrder, Cycle, pcUnit.kind # "History"
  PROVE  HeldBack \/ SleepsOn \/ FetchesOn \/ TurnsInDecode \/ TurnsInExecute
<1> DEFINE e == Execute(idex)
<1>1. /\ MayCycle(Advanced.valid /\ ~Ended, FetchPc) /\ TypeOK /\ FetchPc \in Int
      /\ Fetched \in FetchResult /\ Decoded \in DecodeResult
      /\ StallTypeOK /\ NothingWaitsAsleep /\ AsleepBehind
      /\ idex.valid => stall.count = 0
  BY StagesHand, AwakeAhead DEF FetchInOrder
<1>2. /\ e \in ExecutionResult /\ e.valid = idex.valid /\ e.op = idex.op
      /\ e.pc = idex.pc /\ e.nextPc = idex.imm
      /\ e.branch \in BOOLEAN /\ (exma'.branch <=> e.branch)
      /\ Decoded.valid = ifid.valid /\ Decoded.pc = ifid.pc
  BY StagesHand
<1>3. CASE Held
  <2> DEFINE f == Squashed(Fetched)
             d == ThrownAway(Decoded)
  <2>1. /\ f \in FetchResult /\ d \in DecodeResult /\ ~f.valid /\ ~d.valid
        /\ StagesRan(FetchPc, f, d, e) /\ ~Resolving(e) /\ FetchPc = nextPc
        /\ ifid.valid /\ stall'.count = 2 /\ stall'.freezePc = ifid.pc
    BY <1>3, HeldInDecode DEF Held
  <2> HIDE DEF f, d, e
  <2>2. FetchRunsOn(FetchPc, f, d, e) \/ DecodeTurns(FetchPc, f, d, e) \/ ExecuteTurns(e)
    BY <1>1, <1>2, <2>1, CycleFlushes DEF StagesRan
  <2>3. nextPc' = nextPc + 4 /\ ~ifid'.valid /\ ~idex'.valid
    BY <2>1, <2>2 DEF FetchRunsOn, DecodeTurns, ExecuteTurns
  <2>4. nextPc' >= 0
    BY <2>1, <2>3, BehindBranch
  <2> QED
    BY <2>1, <2>3, <2>4 DEF HeldBack
<1> HIDE DEF e
<1>4. CASE GoesOn
  <2>1. StagesRan(FetchPc, Fetched, Decoded, e) /\ stall' = Advanced
    BY <1>4 DEF GoesOn, e
  <2>2. /\ \/ FetchRunsOn(FetchPc, Fetched, Decoded, e)
           \/ DecodeTurns(FetchPc, Fetched, Decoded, e)
           \/ ExecuteTurns(e)
        /\ ifid'.pc = Fetched.pc
        /\ idex'.op = Decoded.op /\ idex'.imm = Decoded.imm
        /\ idex'.nextPc = Decoded.nextPc
    BY <1>1, <1>2, <2>1, CycleFlushes DEF StagesRan, Flushed
  <2>3. /\ Fetched.valid <=> Advanced.valid /\ ~Ended /\ InstructionAt(program, FetchPc) # Nop
        /\ Advanced.valid /\ ~Ended => Fetched.pc = FetchPc
    BY FetchFields DEF Fetched
  <2>4. ASSUME Settled(pcUnit.kind, Fetched, e) PROVE SettledThere
    <3>1. idex.valid => Advanced.valid /\ FetchPc = ResumePc
      BY <1>1, FetchPlace
    <3> QED
      BY <1>2, <2>3, <2>4, <3>1 DEF Settled, SettledThere, Resolving, TakenCorrect
  <2>5. CASE stall.count = 2
    <3>1. /\ ~ifid.valid /\ ~idex.valid /\ ~Fetched.valid
          /\ stall'.count = 1 /\ stall'.freezePc = stall.freezePc
          /\ FetchPc \in {stall.freezePc, nextPc} /\ FetchPc >= 0
      BY <1>1, <2>1, <2>3, <2>5, FetchPlace DEF AsleepBehind
    <3>2. FetchRunsOn(FetchPc, Fetched, Decoded, e)
      BY <1>2, <2>2, <3>1 DEF DecodeTurns, ExecuteTurns, Resolving
    <3> QED
      BY <1>1, <1>2, <2>5, <3>1, <3>2 DEF FetchRunsOn, SleepsOn
  <2>6. CASE stall.count # 2
    <3>1. Advanced.valid /\ stall'.count = 0 /\ FetchPc = ResumePc
      BY <1>1, <2>1, <2>6, FetchPlace
    <3>2. CASE FetchRunsOn(FetchPc, Fetched, Decoded, e)
      <4>1. ~Ended => ifid'.pc = ResumePc /\ ResumePc >= 0
        BY <1>1, <2>2, <2>3, <3>1 DEF MayCycle
      <4>2. ifid'.valid <=> ~Ended /\ InstructionAt(program, ResumePc) # Nop
        BY <2>3, <3>1, <3>2 DEF FetchRunsOn
      <4>3. /\ idex'.valid = ifid.valid
            /\ idex'.valid => ~IsJump(idex'.op)
            /\ idex'.valid /\ IsBranch(idex'.op) => ~Predicts(pcUnit', ResumePc, idex'.imm)
            /\ nextPc' = ResumePc + 4 /\ SettledThere
        BY <1>2, <2>2, <2>4, <3>1, <3>2 DEF FetchRunsOn
      <4> QED
        BY <2>6, <3>1, <4>1, <4>2, <4>3 DEF FetchesOn
    <3>3. CASE DecodeTurns(FetchPc, Fetched, Decoded, e)
      BY <1>2, <2>2, <2>4, <3>1, <3>3 DEF DecodeTurns, TurnsInDecode
    <3>4. CASE ExecuteTurns(e)
      BY <1>2, <3>1, <3>4 DEF ExecuteTurns, TurnsInExecute, Resolving, Corrected
    <3> QED
      BY <2>2, <3>2, <3>3, <3>4
  <2> QED
    BY <2>5, <2>6
<1> QED
  BY <1>1, <1>3, <1>4, CycleCases

(* A buffered target leads the fetch away only from a branch, with nothing *)
(* in decode that would turn it and nothing in execute that could.  The    *)
(* buffer is also looked up in a cycle that fetches nothing, with address  *)
(* 0: then it leads to where the fetch will not resume.                    *)
LEMMA HitIsPredicted ==
  ASSUME FetchInOrder, Cycle, pcUnit.kind = "History", ~Ended,
         IsHit(pcUnit.buffer, Fetched.pc)
  PROVE  LET target == TargetAddress(pcUnit.buffer, Fetched.pc)
             i == InstructionAt(program, FetchPc)
         IN  /\ target \in Nat
             /\ Advanced.valid => IsBranch(i.op) /\ target = Immediate(FetchPc, i)
             /\ ifid.valid => ~IsJump(ifid.instruction.op)
             /\ ~(idex.valid /\ IsBranch(idex.op))
<1>1. /\ BufferHolds(pcUnit.buffer, program) /\ IsProgram(program)
      /\ \A a \in DOMAIN program : a % 4 = 0 /\ a \in Nat
      /\ StallTypeOK /\ ConventionalRun /\ NothingWaitsAsleep
  BY DEF FetchInOrder, BufferTrue, StallTypeOK, TypeOK, ConventionalRun, Spaced, IsProgram
<1>2. ASSUME NEW p \in Nat, p % 4 = 0, p = Fetched.pc
      PROVE  /\ IsBranch(InstructionAt(program, p).op)
             /\ TargetAddress(pcUnit.buffer, p) = Immediate(p, InstructionAt(program, p))
             /\ Immediate(p, InstructionAt(program, p)) \in Nat
  <2>1. /\ p \in DOMAIN program /\ IsBranch(program[p].op)
        /\ TargetAddress(pcUnit.buffer, p) = Immediate(p, program[p])
    BY <1>1, <1>2, HitIsBranch
  <2>2. InstructionAt(program, p) = program[p] /\ InstructionAt(program, p) # Nop
    BY <2>1 DEF InstructionAt, Nop, IsBranch
  <2> QED
    BY <1>1, <2>1, <2>2, ConventionsKept
<1>3. CASE stall.count = 2
  <2>1. ~Advanced.valid /\ ~ifid.valid /\ ~idex.valid
    BY <1>1, <1>3, FetchPlace DEF FetchInOrder, AsleepBehind
  <2>2. Fetched.pc = 0
    BY <2>1 DEF Fetched, Fetch, EmptyIfId
  <2> QED
    BY <1>2, <2>1, <2>2
<1>4. CASE stall.count # 2
  <2>1. Advanced.valid /\ FetchPc = ResumePc
    BY <1>1, <1>4, FetchPlace
  <2>2. Fetched.pc = FetchPc /\ FetchPc \in Nat /\ FetchPc % 4 = 0
    <3>1. FetchPc \in Nat
      BY <2>1, StagesHand DEF MayCycle
    <3>2. Fetched.pc = FetchPc
      BY <2>1, FetchFields DEF Fetched
    <3> QED
      BY <2>1, <3>1, <3>2 DEF FetchInOrder, BufferTrue
  <2>3. /\ IsBranch(InstructionAt(program, FetchPc).op)
        /\ TargetAddress(pcUnit.buffer, FetchPc)
             = Immediate(FetchPc, InstructionAt(program, FetchPc))
        /\ Immediate(FetchPc, InstructionAt(program, FetchPc)) \in Nat
    BY <1>2, <2>2
  <2>4. InstructionAt(program, FetchPc) # Nop
    BY <2>3 DEF Nop, IsBranch
  <2>5. ASSUME ifid.valid, IsJump(ifid.instruction.op) PROVE FALSE
    <3>1. /\ nextPc = ifid.pc + 4 /\ FetchPc = nextPc
          /\ ifid.instruction = InstructionAt(program, ifid.pc)
          /\ ifid.instruction # Nop
      BY <2>1, <2>5, AwakeAhead DEF IsJump, IsBranch
    <3>2. InstructionAt(program, ifid.pc + 4) = Nop
      BY <1>1, <2>5, <3>1, ConventionsKept
    <3> QED
      BY <2>4, <3>1, <3>2
  <2>6. ASSUME idex.valid, IsBranch(idex.op) PROVE FALSE
    <3>1. /\ idex.pc \in Nat /\ ~ifid.valid /\ FetchPc = nextPc /\ ~IsJump(idex.op)
          /\ IsBranch(InstructionAt(program, idex.pc).op)
          /\ idex.imm = Immediate(idex.pc, InstructionAt(program, idex.pc))
      BY <2>1, <2>6, AwakeAhead DEF FetchInOrder, LatchesCarry, IsBranch, IsJump
    <3>2. nextPc = idex.pc + 8 \/ nextPc = idex.imm + 4
      BY <2>6, <3>1 DEF FetchInOrder, DecodeFollows, Predicts
    <3> QED
      BY <1>1, <2>3, <3>1, <3>2, RoomKept
  <2> QED
    BY <2>1, <2>2, <2>3, <2>5, <2>6
<1> QED
  BY <1>3, <1>4

(* ... then under those that do; and what such a unit learns, and how it   *)
(* marks the end.                                                          *)
LEMMA BufferedCycle ==
  ASSUME FetchInOrder, Cycle, pcUnit.kind = "History"
  PROVE  /\ HeldBack \/ SleepsOn \/ FetchesOn \/ TurnsInDecode \/ TurnsInExecute
         /\ \/ pcUnit' = pcUnit
            \/ /\ idex.valid /\ IsBranch(idex.op)
               /\ pcUnit' = Learnt(pcUnit, Execute(idex))
         /\ ~Ended /\ ~idex'.isEnd => nextPc' # End
<1> DEFINE e == Execute(idex)
<1>1. /\ MayCycle(Advanced.valid /\ ~Ended, FetchPc) /\ TypeOK /\ FetchPc \in Int
      /\ Fetched \in FetchResult /\ Decoded \in DecodeResult
      /\ StallTypeOK /\ NothingWaitsAsleep /\ AsleepBehind /\ ConventionalRun
      /\ idex.valid => stall.count = 0
  BY StagesHand, AwakeAhead DEF FetchInOrder
<1>2. /\ e \in ExecutionResult /\ e.valid = idex.valid /\ e.op = idex.op
      /\ e.pc = idex.pc /\ e.nextPc = idex.imm
      /\ e.branch \in BOOLEAN /\ (exma'.branch <=> e.branch)
      /\ Decoded.valid = ifid.valid /\ Decoded.pc = ifid.pc
      /\ ifid.valid => Decoded.op = ifid.instruction.op
      /\ Resolving(e) <=> idex.valid /\ IsBranch(idex.op)
      /\ Resolving(e) => ~ifid.valid /\ ~Ended
  BY StagesHand
<1>3. CASE Held
  <2> DEFINE f == Squashed(Fetched)
             d == ThrownAway(Decoded)
  <2>1. /\ f \in FetchResult /\ d \in DecodeResult /\ ~f.valid /\ ~d.valid
        /\ StagesRan(FetchPc, f, d, e) /\ ~Resolving(e) /\ FetchPc = nextPc
        /\ ifid.valid /\ stall'.count = 2 /\ stall'.freezePc = ifid.pc
    BY <1>3, HeldInDecode DEF Held
  <2>2. f.pc = Fetched.pc
    BY <1>1 DEF Squashed, FetchResult
  <2> HIDE DEF f, d, e
  <2>3. /\ BufferedRunsOn(FetchPc, f, d, e) \/ BufferedDecodeTurns(d, e) \/ ExecuteTurns(e)
        /\ pcUnit' = pcUnit \/ (Resolving(e) /\ pcUnit' = Learnt(pcUnit, e))
    BY <1>1, <1>2, <2>1, CycleBuffered DEF StagesRan
  <2>4. BufferedRunsOn(FetchPc, f, d, e) /\ pcUnit' = pcUnit
    BY <2>1, <2>3 DEF BufferedDecodeTurns, ExecuteTurns
  <2>5. ~ifid'.valid /\ ~idex'.valid
    BY <2>1, <2>4 DEF BufferedRunsOn
  <2>6. nextPc' >= 0 /\ nextPc' # End
    <3>1. ~Ended /\ nextPc \in Nat
      BY <2>1, BehindBranch, AwakeAhead
    <3>2. IsHit(pcUnit.buffer, f.pc) => TargetAddress(pcUnit.buffer, f.pc) \in Nat
      BY <2>2, <3>1, HitIsPredicted
    <3> QED
      BY <2>1, <2>4, <3>1, <3>2 DEF BufferedRunsOn, End
  <2> QED
    BY <2>1, <2>4, <2>5, <2>6 DEF HeldBack
<1>4. CASE GoesOn
  <2>1. StagesRan(FetchPc, Fetched, Decoded, e) /\ stall' = Advanced
    BY <1>4 DEF GoesOn
  <2>2. /\ \/ BufferedRunsOn(FetchPc, Fetched, Decoded, e)
           \/ BufferedDecodeTurns(Decoded, e)
           \/ ExecuteTurns(e)
        /\ pcUnit' = pcUnit \/ (Resolving(e) /\ pcUnit' = Learnt(pcUnit, e))
        /\ ifid'.pc = Fetched.pc
        /\ idex'.op = Decoded.op /\ idex'.nextPc = Decoded.nextPc
    <3> HIDE DEF e
    <3> QED
      BY <1>1, <1>2, <2>1, CycleBuffered, CycleFlushed DEF StagesRan, Flushed
  <2>3. /\ Fetched.valid <=> Advanced.valid /\ ~Ended /\ InstructionAt(program, FetchPc) # Nop
        /\ Advanced.valid /\ ~Ended => Fetched.pc = FetchPc
    BY FetchFields DEF Fetched
  <2>4. /\ pcUnit' = pcUnit
        \/ /\ idex.valid /\ IsBranch(idex.op)
           /\ pcUnit' = Learnt(pcUnit, Execute(idex))
    BY <1>2, <2>2
  <2>5. pcUnit'.kind = "History"
    BY CycleFacts, <1>1
  <2> HIDE DEF e
  <2>6. CASE stall.count = 2
    <3>1. /\ ~Advanced.valid /\ ~ifid.valid /\ ~idex.valid /\ ~Ended
          /\ stall'.count = 1 /\ stall'.freezePc = stall.freezePc
          /\ FetchPc \in {stall.freezePc, nextPc} /\ FetchPc >= 0
      BY <1>1, <2>1, <2>6, FetchPlace DEF AsleepBehind
    <3>2. BufferedRunsOn(FetchPc, Fetched, Decoded, e)
      BY <1>2, <2>2, <3>1 DEF BufferedDecodeTurns, ExecuteTurns
    <3>3. IsHit(pcUnit.buffer, Fetched.pc) => TargetAddress(pcUnit.buffer, Fetched.pc) \in Nat
      BY <3>1, HitIsPredicted
    <3>4. ~ifid'.valid /\ ~idex'.valid /\ nextPc' >= 0 /\ nextPc' # End
      BY <1>1, <1>2, <2>3, <3>1, <3>2, <3>3 DEF BufferedRunsOn, End
    <3> QED
      BY <2>4, <2>6, <3>1, <3>4 DEF SleepsOn
  <2>7. CASE stall.count # 2
    <3>1. /\ Advanced.valid /\ stall'.count = 0 /\ FetchPc = ResumePc
          /\ ~Ended => Fetched.pc = ResumePc /\ ResumePc >= 0
      BY <1>1, <2>1, <2>3, <2>7, FetchPlace DEF MayCycle
    <3>2. CASE BufferedRunsOn(FetchPc, Fetched, Decoded, e)
      <4>1. /\ ifid' = Fetched /\ idex' = Decoded
            /\ ifid'.valid <=> ~Ended /\ InstructionAt(program, ResumePc) # Nop
            /\ ~Ended => ifid'.pc = ResumePc /\ ResumePc >= 0
            /\ idex'.valid = ifid.valid
        BY <1>2, <2>3, <3>1, <3>2 DEF BufferedRunsOn
      <4>2. ASSUME ~Ended, IsHit(pcUnit.buffer, Fetched.pc),
                   nextPc' = TargetAddress(pcUnit.buffer, Fetched.pc)
            PROVE  /\ LedByBuffer /\ ~(idex.valid /\ IsBranch(idex.op)) /\ nextPc' # End
                   /\ ifid.valid => ~IsJump(ifid.instruction.op)
        BY <3>1, <4>2, HitIsPredicted DEF LedByBuffer, End
      <4>3. ASSUME nextPc' = FetchPc + 4, ~(Decoded.valid /\ IsJump(Decoded.op)),
                   Resolving(e) => TakenCorrect(e, Decoded)
            PROVE  /\ SettledThere
                   /\ ~Ended => nextPc' # End
        BY <1>1, <1>2, <3>1, <4>3 DEF SettledThere, TakenCorrect, End
      <4>4. /\ ~Ended => nextPc' = ResumePc + 4 \/ LedByBuffer
            /\ SettledThere
            /\ ~Ended => nextPc' # End
        BY <3>1, <3>2, <4>2, <4>3 DEF BufferedRunsOn, SettledThere
      <4>5. idex'.valid => ~IsJump(idex'.op)
        <5>1. idex'.valid => ~Ended /\ ifid.valid /\ idex'.op = ifid.instruction.op
          BY <1>2, <4>1, AwakeAhead
        <5> QED
          BY <3>2, <4>1, <4>2, <5>1 DEF BufferedRunsOn
      <4>6. FetchesOn
        BY <2>5, <2>7, <3>1, <4>1, <4>4, <4>5 DEF FetchesOn, Predicts
      <4> QED
        BY <2>4, <4>4, <4>6
    <3>3. CASE BufferedDecodeTurns(Decoded, e)
      <4>1. SettledThere
        BY <1>2, <3>3 DEF BufferedDecodeTurns, SettledThere
      <4>2. TurnsInDecode
        BY <1>2, <2>2, <3>1, <3>3, <4>1 DEF BufferedDecodeTurns, TurnsInDecode
      <4> QED
        BY <2>4, <3>3, <4>2 DEF BufferedDecodeTurns
    <3>4. CASE ExecuteTurns(e)
      <4>1. idex.valid /\ IsBranch(idex.op) /\ ~ifid'.valid /\ ~idex'.valid
        BY <1>2, <3>4 DEF ExecuteTurns
      <4>2. nextPc' = IF exma'.branch THEN idex.imm ELSE idex.pc + 8
        BY <1>2, <3>4 DEF ExecuteTurns, Corrected
      <4>3. idex.imm \in Nat /\ idex.pc \in Nat
        BY <1>1, <4>1, AwakeAhead, ConventionsKept DEF FetchInOrder, LatchesCarry
      <4>4. nextPc' # End
        BY <4>2, <4>3 DEF End
      <4> QED
        BY <2>4, <3>1, <4>1, <4>2, <4>4 DEF TurnsInExecute
    <3> QED
      BY <2>2, <3>2, <3>3, <3>4
  <2> QED
    BY <2>6, <2>7
<1> QED
  BY <1>1, <1>3, <1>4, CycleCases

LEMMA CycleTurns ==
  ASSUME FetchInOrder, Cycle
  PROVE  HeldBack \/ SleepsOn \/ FetchesOn \/ TurnsInDecode \/ TurnsInExecute
BY UnbufferedCycle, BufferedCycle

(* Only a branch in execute teaches the unit anything, and one that is     *)
(* taken never makes it predict otherwise.                                 *)
LEMMA UnitLearns ==
  ASSUME FetchInOrder, Cycle
  PROVE  /\ ~(idex.valid /\ IsBranch(idex.op)) => pcUnit' = pcUnit
         /\ exma'.branch =>
              \A p, t : Predicts(pcUnit, p, t) => Predicts(pcUnit', p, t)
<1> DEFINE e == Execute(idex)
<1>1. StallTypeOK
  BY DEF FetchInOrder
<1>2. CASE pcUnit.kind = "History"
  BY <1>2, BufferedCycle DEF Predicts
<1>3. CASE pcUnit.kind # "History"
  <2>1. PICK f, d : FinishCycle(FetchPc, f, d, e)
    BY <1>1, CycleCases DEF Held, GoesOn, StagesRan
  <2>2. e.valid = idex.valid /\ e.op = idex.op /\ (exma'.branch <=> e.branch)
    BY <1>1, ExecuteLatch, ExecuteFields
  <2> HIDE DEF e
  <2>3. pcUnit' = FindNext(pcUnit, FetchPc, f, d, e).unit /\ pcUnit \in PcUnit
    BY <1>1, <2>1 DEF FinishCycle, StallTypeOK, TypeOK
  <2> QED
    BY <1>3, <2>2, <2>3, LearntPredicts DEF Resolving
<1> QED
  BY <1>2, <1>3
-----------------------------------------------------------------------------
(* How far apart the instructions in flight are: neighbours, unless a      *)
(* no-op was between them or one of them turned the fetch.                 *)
ExecuteFollows ==
  /\ exma.valid /\ idex.valid => idex.pc = exma.pc + 4
  /\ exma.valid /\ ~idex.valid /\ ifid.valid =>
       LET i == InstructionAt(program, exma.pc)
       IN  \/ ifid.pc = exma.pc + 8
           \/ /\ IsBranch(i.op) /\ ifid.pc = exma.nextPc
              /\ Predicts(pcUnit, exma.pc + 4, exma.nextPc)
           \/ /\ IsBranch(i.op) /\ ifid.pc = exma.nextPc + 4
              /\ pcUnit.kind = "History" /\ exma.aluValue = 1
           \/ i.op \in {"J", "JAL"} /\ ifid.pc = i.imm
           \/ i.op = "JR" /\ ifid.pc = RetiredRegisters[i.rs]
  /\ exma.valid /\ ~idex.valid /\ ~ifid.valid /\ stall.count = 0 =>
       LET i == InstructionAt(program, exma.pc)
       IN  RegWrite(i.op) =>
             \/ nextPc = exma.pc + 12
             \/ /\ i.op = "JAL" /\ nextPc = i.imm + 4
                /\ InstructionAt(program, i.imm) = Nop

MemoryFollows ==
  /\ mawb.valid /\ exma.valid => exma.pc = mawb.pc + 4
  /\ mawb.valid /\ ~exma.valid =>
       LET i == InstructionAt(program, mawb.pc)
       IN  RegWrite(i.op) =>
             /\ idex.valid => \/ idex.pc = mawb.pc + 8
                              \/ i.op = "JAL" /\ idex.pc = i.imm
             /\ ~idex.valid /\ ifid.valid =>
                  \/ ifid.pc = mawb.pc + 12
                  \/ /\ i.op = "JAL" /\ ifid.pc = i.imm + 4
                     /\ InstructionAt(program, i.imm) = Nop

(* The registers the instruction at an address reads.                      *)
ReadAt(a) == Reads(InstructionAt(program, a))

Writing(latch, r) == latch.valid /\ RegWrite(latch.op) /\ latch.writeReg = r

(* Nothing in flight has read a register that one ahead of it will write.  *)
NothingReadEarly ==
  \A r \in Register :
    /\ idex.valid /\ (Writing(exma, r) \/ Writing(mawb, r)) => r \notin ReadAt(idex.pc)
    /\ exma.valid /\ Writing(mawb, r) => r \notin ReadAt(exma.pc)

(* What decode has read is in the registers still.                         *)
OperandsRead ==
  idex.valid =>
    /\ idex.readData1 = registers[idex.readReg1]
    /\ idex.readData2 = registers[idex.readReg2]
    /\ idex.op = "JR" => idex.nextPc = registers[idex.readReg1]

(* A fetch that goes on goes on to a word, and past a branch to a no-op.   *)
LEMMA FetchAhead ==
  ASSUME FetchInOrder, Cycle, FetchesOn, ~Ended
  PROVE  /\ ResumePc \in Nat /\ nextPc' \in Nat
         /\ \/ nextPc' = ResumePc + 4
            \/ /\ LedByBuffer /\ ifid'.valid
               /\ InstructionAt(program, nextPc') = Nop
               /\ InstructionAt(program, ResumePc + 4) = Nop
<1>1. /\ StallTypeOK /\ ConventionalRun /\ ResumePc \in Int /\ ResumePc >= 0
      /\ nextPc' = ResumePc + 4 \/ LedByBuffer
      /\ ifid'.valid <=> InstructionAt(program, ResumePc) # Nop
  BY FetchPlace DEF FetchInOrder, FetchesOn, ResumePc, StallTypeOK, TypeOK
<1>2. CASE LedByBuffer
  <2>1. InstructionAt(program, ResumePc) # Nop
    BY <1>2 DEF LedByBuffer, Nop, IsBranch
  <2> QED
    BY <1>1, <1>2, <2>1, RoomKept DEF LedByBuffer
<1> QED
  BY <1>1, <1>2

(* Each latch hands on what its instruction says.                          *)
LEMMA StepCarries ==
  ASSUME FetchInOrder, Cycle
  PROVE  LatchesCarry'
<1> DEFINE e == Execute(idex)
<1>1. /\ MayCycle(Advanced.valid /\ ~Ended, FetchPc) /\ TypeOK
      /\ StallTypeOK /\ LatchesCarry
  BY DEF Cycle, FetchPc, FetchInOrder, StallTypeOK
<1>2. e.pc = idex.pc /\ e.writeReg = idex.writeReg /\ e.nextPc = idex.imm
  BY ExecuteFields
<1>3. e \in ExecutionResult
  BY <1>1, StageTypes
<1>4. PICK f \in FetchResult, d \in DecodeResult :
        StagesRan(FetchPc, f, d, e) /\ (d.valid => d = Decode(ifid, registers))
  <2>1. CASE Held
    <3>1. ~ThrownAway(Decoded).valid
      BY <1>1, StageTypes DEF ThrownAway, DecodeResult
    <3> QED
      BY <1>1, <2>1, <3>1, StageTypes DEF Held
  <2>2. CASE GoesOn
    BY <1>1, <2>2, StageTypes DEF GoesOn, Decoded
  <2> QED
    BY <1>1, <2>1, <2>2, CycleCases
<1> HIDE DEF e
<1>5. ifid'.valid => nextPc' # End
  <2>1. ifid'.valid => FetchesOn /\ ~Ended
    BY CycleTurns DEF HeldBack, SleepsOn, FetchesOn, TurnsInDecode, TurnsInExecute
  <2> QED
    BY <2>1, FetchAhead DEF End
<1> QED
  BY <1>1, <1>2, <1>3, <1>4, <1>5, CycleCarries

(* While the unit sleeps, the latches empty.                               *)
LEMMA CycleSleeps ==
  ASSUME FetchInOrder, Cycle
  PROVE  AsleepBehind'
<1>1. HeldBack \/ SleepsOn \/ FetchesOn \/ TurnsInDecode \/ TurnsInExecute
  BY CycleTurns
<1>2. /\ Ended' <=> Ended \/ nextPc' = End
      /\ exma'.valid = idex.valid
      /\ ifid.valid => ~Ended
      /\ stall.count = 2 => ~Ended /\ ~idex.valid
  BY CycleFacts, ExecuteLatch, AwakeAhead DEF FetchInOrder, AsleepBehind
<1>3. CASE HeldBack
  BY <1>2, <1>3 DEF HeldBack, AsleepBehind, End
<1>4. CASE SleepsOn
  BY <1>2, <1>4 DEF SleepsOn, AsleepBehind, End
<1> QED
  BY <1>1, <1>3, <1>4 DEF AsleepBehind, FetchesOn, TurnsInDecode, TurnsInExecute

(* Nothing valid is behind a branch, and what is not valid can do nothing. *)
LEMMA CycleLeadsFetch ==
  ASSUME FetchInOrder, Cycle
  PROVE  FetchLeads'
<1>1. HeldBack \/ SleepsOn \/ FetchesOn \/ TurnsInDecode \/ TurnsInExecute
  BY CycleTurns
<1>2. /\ MayCycle(Advanced.valid /\ ~Ended, FetchPc) /\ TypeOK /\ StallTypeOK
      /\ NothingWaitsAsleep
      /\ program' = program /\ pcUnit'.kind = pcUnit.kind
      /\ mawb'.valid = exma.valid /\ mawb'.op = exma.op
      /\ exma'.valid = idex.valid /\ exma'.op = idex.op
  BY CycleFacts, ExecuteLatch
     DEF Cycle, FetchPc, FetchInOrder, StallTypeOK, MemoryAccess
<1>3. ASSUME ifid'.valid
      PROVE  \/ nextPc' = ifid'.pc + 4
             \/ /\ pcUnit'.kind = "History" /\ IsBranch(ifid'.instruction.op)
                /\ nextPc' = Immediate(ifid'.pc, ifid'.instruction)
  <2>1. /\ ~Ended /\ ifid'.pc = ResumePc
        /\ nextPc' = ResumePc + 4 \/ LedByBuffer
    BY <1>1, <1>3 DEF HeldBack, SleepsOn, FetchesOn, TurnsInDecode, TurnsInExecute
  <2>2. ifid'.instruction = InstructionAt(program, ResumePc)
    BY <1>2, <1>3, <2>1, StepCarries DEF LatchesCarry
  <2> QED
    BY <1>2, <2>1, <2>2 DEF LedByBuffer
<1>4. ASSUME idex'.valid, IsBranch(idex'.op) PROVE ~ifid'.valid
  <2>1. ifid.valid /\ IsBranch(ifid.instruction.op)
    BY <1>2, <1>4, DecodeLatch
  <2>2. InstructionAt(program, ResumePc) = Nop
    BY <2>1, BehindBranch, AwakeAhead
  <2> QED
    BY <1>1, <2>2 DEF HeldBack, SleepsOn, FetchesOn, TurnsInDecode, TurnsInExecute
<1>5. ASSUME ~idex'.valid PROVE idex'.op = "NONE"
  <2> DEFINE e == Execute(idex)
  <2>1. e \in ExecutionResult /\ Decoded \in DecodeResult /\ Fetched \in FetchResult
    BY <1>2, StageTypes
  <2>2. CASE Held
    <3>1. StagesRan(FetchPc, Squashed(Fetched), ThrownAway(Decoded), e)
      BY <2>2 DEF Held
    <3>2. /\ Squashed(Fetched) \in FetchResult /\ ThrownAway(Decoded) \in DecodeResult
          /\ ThrownAway(Decoded).op = "NONE"
      BY <1>2, StageTypes DEF ThrownAway, DecodeResult
    <3> HIDE DEF e
    <3> QED
      BY <1>2, <2>1, <3>1, <3>2, CycleFlushed DEF StagesRan, Flushed
  <2>3. CASE GoesOn
    <3>1. StagesRan(FetchPc, Fetched, Decoded, e) /\ stall' = Advanced
      BY <2>3 DEF GoesOn
    <3>2. ~ifid.valid
      <4>1. ifid.valid => stall'.count = 0 /\ stall.count = 0
        BY <1>2, <3>1, AwakeAhead, FetchPlace
      <4>2. idex.valid /\ IsBranch(idex.op) => ~ifid.valid
        BY AwakeAhead
      <4> QED
        BY <1>1, <1>5, <4>1, <4>2
           DEF HeldBack, SleepsOn, FetchesOn, TurnsInDecode, TurnsInExecute
    <3>3. Decoded.op = "NONE"
      BY <3>2 DEF Decoded, Decode, DecodeWith, DecodedSignal
    <3> HIDE DEF e
    <3> QED
      BY <1>2, <2>1, <3>1, <3>3, CycleFlushed DEF StagesRan, Flushed
  <2> QED
    BY <1>2, <2>2, <2>3, CycleCases
<1>6. SquashedIsInert'
  BY <1>2, <1>5 DEF FetchInOrder, FetchLeads, SquashedIsInert, RegWrite, MemWrite
<1> QED
  BY <1>3, <1>4, <1>6 DEF FetchLeads

(* What is learnt is true, and the fetch stays on words.                   *)
LEMMA CycleBuffers ==
  ASSUME FetchInOrder, Cycle, AlignedRun'
  PROVE  BufferTrue'
<1> SUFFICES ASSUME pcUnit.kind = "History"
             PROVE  /\ BufferHolds(pcUnit'.buffer, program)
                    /\ ~Ended' => ResumePc' % 4 = 0
  BY CycleFacts DEF BufferTrue, FetchInOrder
<1>1. /\ BufferHolds(pcUnit.buffer, program) /\ IsProgram(program) /\ pcUnit \in PcUnit
      /\ \A a \in DOMAIN program : a % 4 = 0 /\ a \in Nat
      /\ StallTypeOK /\ ConventionalRun /\ LatchesCarry
      /\ program' = program /\ pcUnit'.kind = "History"
      /\ Ended' <=> Ended \/ nextPc' = End
      /\ ~Ended => ResumePc % 4 = 0
  BY CycleFacts
     DEF FetchInOrder, BufferTrue, StallTypeOK, TypeOK, ConventionalRun, Spaced, IsProgram
<1>2. BufferHolds(pcUnit'.buffer, program)
  <2>1. CASE pcUnit' = pcUnit
    BY <1>1, <2>1
  <2>2. CASE idex.valid /\ IsBranch(idex.op) /\ pcUnit' = Learnt(pcUnit, Execute(idex))
    <3> DEFINE e == Execute(idex)
    <3>1. /\ e.pc = idex.pc /\ e.nextPc = Immediate(idex.pc, InstructionAt(program, idex.pc))
          /\ IsBranch(InstructionAt(program, idex.pc).op)
      BY <1>1, <2>2, StagesHand DEF LatchesCarry
    <3>2. /\ idex.pc \in DOMAIN program
          /\ InstructionAt(program, idex.pc) = program[idex.pc]
      BY <3>1 DEF InstructionAt, Nop, IsBranch
    <3> HIDE DEF e
    <3> QED
      BY <1>1, <2>2, <3>1, <3>2, LearntHolds DEF e
  <2> QED
    BY <2>1, <2>2, BufferedCycle
<1>3. ASSUME ~Ended' PROVE ResumePc' % 4 = 0
  <2>1. ~Ended /\ nextPc' # End /\ ResumePc % 4 = 0
    BY <1>1, <1>3
  <2>2. CASE HeldBack
    <3>1. ResumePc' = ifid.pc /\ InstructionAt(program, ifid.pc) # Nop
      BY <2>2, AwakeAhead DEF HeldBack, ResumePc
    <3> QED
      BY <1>1, <3>1 DEF InstructionAt
  <2>3. CASE SleepsOn
    BY <2>1, <2>3 DEF SleepsOn, ResumePc
  <2>4. CASE FetchesOn
    <3>1. ResumePc' = nextPc' /\ ResumePc \in Nat /\ (nextPc' = ResumePc + 4 \/ LedByBuffer)
      BY <2>1, <2>4, FetchAhead DEF FetchesOn, ResumePc
    <3> QED
      BY <1>1, <2>1, <3>1, RoomKept DEF LedByBuffer
  <2>5. CASE TurnsInDecode
    <3>1. /\ idex'.valid /\ IsJump(idex'.op) /\ nextPc' = idex'.nextPc
          /\ ResumePc' = nextPc'
      BY <1>1, <2>5 DEF TurnsInDecode, Predicts, ResumePc
    <3>2. CASE idex'.op = "JR"
      BY <1>1, <2>1, <3>1, <3>2 DEF AlignedRun, ReturnsAligned
    <3>3. CASE idex'.op \in {"J", "JAL"}
      <4> DEFINE i == InstructionAt(program, idex'.pc)
      <4>1. nextPc' = i.imm /\ i.op \in {"J", "JAL"}
        BY <1>1, <3>1, <3>3, StepCarries DEF LatchesCarry
      <4>2. idex'.pc \in DOMAIN program /\ i = program[idex'.pc]
        BY <4>1 DEF InstructionAt, Nop
      <4>3. i.imm \in DOMAIN program
        BY <1>1, <4>1, <4>2 DEF ConventionalRun, Conventional
      <4> QED
        BY <1>1, <3>1, <4>1, <4>3
    <3> QED
      BY <3>1, <3>2, <3>3 DEF IsJump
  <2>6. CASE TurnsInExecute
    <3>1. /\ nextPc' = idex.imm \/ nextPc' = idex.pc + 8
          /\ idex.pc \in Nat /\ IsBranch(InstructionAt(program, idex.pc).op)
          /\ idex.imm = Immediate(idex.pc, InstructionAt(program, idex.pc))
          /\ ResumePc' = nextPc'
      BY <1>1, <2>6, AwakeAhead DEF TurnsInExecute, LatchesCarry, ResumePc
    <3>2. idex.pc % 4 = 0 /\ idex.imm % 4 = 0
      BY <1>1, <3>1, RoomKept
    <3> QED
      BY <3>1, <3>2
  <2> QED
    BY <2>2, <2>3, <2>4, <2>5, <2>6, CycleTurns
<1> QED
  BY <1>2, <1>3

(* The fetch stays behind the instruction in decode ...                    *)
LEMMA CycleDecodeFollows ==
  ASSUME FetchInOrder, Cycle
  PROVE  DecodeFollows'
<1> SUFFICES ASSUME idex'.valid
             PROVE  /\ ifid'.valid => ifid'.pc = idex'.pc + 4 /\ ~IsJump(idex'.op)
                    /\ ~IsJump(idex'.op) => ~Ended'
                    /\ ~ifid'.valid =>
                         \/ /\ ~IsJump(idex'.op) /\ nextPc' = idex'.pc + 8
                            /\ InstructionAt(program', idex'.pc + 4) = Nop
                            /\ pcUnit'.kind = "History" => ifid'.pc = idex'.pc + 4
                         \/ IsJump(idex'.op) /\ nextPc' = idex'.nextPc
                         \/ /\ IsBranch(idex'.op) /\ nextPc' = idex'.imm
                            /\ Predicts(pcUnit', idex'.pc + 4, idex'.imm)
                         \/ /\ IsBranch(idex'.op) /\ nextPc' = idex'.imm + 4
                            /\ pcUnit'.kind = "History" /\ ifid'.pc = idex'.imm
  BY DEF DecodeFollows
<1>1. /\ ifid.valid /\ idex'.pc = ifid.pc /\ idex'.op = ifid.instruction.op
      /\ idex'.imm = Immediate(ifid.pc, ifid.instruction)
      /\ program' = program /\ (Ended' <=> Ended \/ nextPc' = End)
      /\ pcUnit'.kind = pcUnit.kind
  BY DecodeLatch, CycleFacts DEF FetchInOrder
<1>2. /\ ResumePc = nextPc /\ ~Ended /\ idex'.pc \in Nat
      /\ \/ nextPc = idex'.pc + 4
         \/ pcUnit.kind = "History" /\ IsBranch(idex'.op) /\ nextPc = idex'.imm
  BY <1>1, AwakeAhead
<1>3. IsBranch(idex'.op) =>
        /\ InstructionAt(program, idex'.pc + 4) = Nop
        /\ InstructionAt(program, nextPc) = Nop
        /\ idex'.imm \in Nat
  BY <1>1, BehindBranch
<1>4. CASE FetchesOn
  <2>1. /\ ~IsJump(idex'.op) /\ ifid'.pc = nextPc /\ ~Ended'
        /\ ifid'.valid <=> InstructionAt(program, nextPc) # Nop
        /\ ~ifid'.valid => nextPc' = nextPc + 4
    BY <1>1, <1>2, <1>4, FetchAhead DEF FetchesOn, End
  <2>2. CASE nextPc = idex'.pc + 4
    BY <1>1, <1>2, <2>1, <2>2
  <2>3. CASE pcUnit.kind = "History" /\ IsBranch(idex'.op) /\ nextPc = idex'.imm
    BY <1>1, <1>3, <2>1, <2>3
  <2> QED
    BY <1>2, <2>2, <2>3
<1>5. CASE TurnsInDecode
  <2>1. ~ifid'.valid
    BY <1>5 DEF TurnsInDecode
  <2>2. CASE IsJump(idex'.op) /\ nextPc' = idex'.nextPc
    BY <2>1, <2>2
  <2>3. CASE /\ IsBranch(idex'.op) /\ nextPc' = idex'.imm
             /\ Predicts(pcUnit', ResumePc, idex'.imm)
    <3>1. pcUnit.kind # "History"
      BY <1>1, <2>3 DEF Predicts
    <3> QED
      BY <1>1, <1>2, <1>3, <2>1, <2>3, <3>1 DEF End
  <2> QED
    BY <1>5, <2>2, <2>3 DEF TurnsInDecode
<1> QED
  BY <1>4, <1>5, CycleTurns DEF HeldBack, SleepsOn, TurnsInExecute

(* What is in flight writes only what its signals say, and no no-op.       *)
LEMMA WritersInFlight ==
  ASSUME StallTypeOK, LatchesCarry, SquashedIsInert
  PROVE  /\ \A latch \in {idex, exma, mawb} :
              RegWrite(latch.op) => latch.valid
         /\ \A latch \in {idex, exma, mawb} :
              latch.valid => LET i == InstructionAt(program, latch.pc)
                             IN  i # Nop /\ latch.op = i.op
                                 /\ latch.writeReg = WriteRegister(i.op, i)
BY DEF LatchesCarry, SquashedIsInert

(* What decode has read is what program order gives.                       *)
LEMMA ReadIsCurrent ==
  ASSUME StallTypeOK, LatchesCarry, SquashedIsInert, NothingReadEarly,
         OperandsRead, idex.valid
  PROVE  /\ idex.readData1 = SettledRegisters[idex.readReg1]
         /\ idex.readData2 = SettledRegisters[idex.readReg2]
         /\ idex.op = "JR" => idex.nextPc = SettledRegisters[idex.readReg1]
<1>1. /\ idex.readReg1 \in Register /\ idex.readReg2 \in Register
      /\ registers \in [Register -> Word] /\ TypeOK
  BY DEF StallTypeOK, TypeOK, DecodeResult
<1>2. ReadAt(idex.pc) = {idex.readReg1, idex.readReg2}
  BY DEF ReadAt, Reads, LatchesCarry
<1>3. ASSUME NEW r \in {idex.readReg1, idex.readReg2}
      PROVE  SettledRegisters[r] = registers[r]
  <2>1. ~Writing(exma, r) /\ ~Writing(mawb, r) /\ r \in Register
    BY <1>1, <1>2 DEF NothingReadEarly
  <2>2. /\ ~(RegWrite(exma.op) /\ exma.writeReg = r)
        /\ ~(RegWrite(mawb.op) /\ mawb.writeReg = r)
    BY <2>1, WritersInFlight DEF Writing
  <2>3. SettledRegisters[r] = RetiredRegisters[r]
    BY <1>1, <2>1, <2>2, SettledRegister DEF SettledByExecute
  <2>4. RetiredRegisters[r] = registers[r]
    BY <1>1, <2>1, <2>2, WrittenBack DEF RetiredRegisters
  <2> QED
    BY <2>3, <2>4
<1> QED
  BY <1>3 DEF OperandsRead

(* ... and behind the one in execute ...                                   *)
LEMMA CycleExecuteFollows ==
  ASSUME FetchInOrder, NothingReadEarly, OperandsRead, Cycle
  PROVE  ExecuteFollows'
<1> DEFINE i == InstructionAt(program, idex.pc)
<1>1. /\ exma'.valid = idex.valid /\ exma'.pc = idex.pc /\ exma'.nextPc = idex.imm
      /\ program' = program /\ pcUnit'.kind = pcUnit.kind
      /\ exma'.branch => exma'.aluValue = 1
      /\ RetiredRegisters' = SettledRegisters
  BY ExecuteLatch, CycleFacts DEF FetchInOrder, RetiredRegisters, SettledRegisters
<1>2. HeldBack \/ SleepsOn \/ FetchesOn \/ TurnsInDecode \/ TurnsInExecute
  BY CycleTurns
<1>3. exma'.valid /\ idex'.valid => idex'.pc = exma'.pc + 4
  BY <1>1, DecodeLatch DEF DecodeFollows, FetchInOrder
<1>4. ASSUME idex.valid
      PROVE  /\ i # Nop /\ idex.op = i.op /\ idex.imm = Immediate(idex.pc, i)
             /\ idex.readReg1 = i.rs
             /\ i.op \in {"J", "JAL"} => idex.nextPc = i.imm /\ i.imm \in Nat
             /\ i.op = "JR" => idex.nextPc = SettledRegisters[i.rs]
             /\ ~isEnd
  <2>1. /\ i # Nop /\ idex.op = i.op /\ idex.imm = Immediate(idex.pc, i)
        /\ idex.readReg1 = i.rs /\ ~isEnd
        /\ i.op \in {"J", "JAL"} => idex.nextPc = i.imm
    BY <1>4 DEF LatchesCarry, FetchInOrder
  <2>2. i.op = "JR" => idex.nextPc = SettledRegisters[i.rs]
    BY <1>4, <2>1, ReadIsCurrent DEF FetchInOrder, FetchLeads
  <2> QED
    BY <2>1, <2>2, ConventionsKept DEF FetchInOrder
<1>5. ASSUME idex.valid, ~idex'.valid, ifid'.valid
      PROVE  \/ ifid'.pc = idex.pc + 8
             \/ /\ IsBranch(i.op) /\ ifid'.pc = idex.imm
                /\ Predicts(pcUnit', idex.pc + 4, idex.imm)
             \/ /\ IsBranch(i.op) /\ ifid'.pc = idex.imm + 4
                /\ pcUnit'.kind = "History" /\ exma'.aluValue = 1
             \/ i.op \in {"J", "JAL"} /\ ifid'.pc = i.imm
             \/ i.op = "JR" /\ ifid'.pc = SettledRegisters[i.rs]
  <2>1. FetchesOn
    BY <1>2, <1>5 DEF HeldBack, SleepsOn, TurnsInDecode, TurnsInExecute
  <2>2. ~ifid.valid /\ ifid'.pc = nextPc /\ ResumePc = nextPc /\ ~Ended
    BY <1>5, <2>1, AwakeAhead DEF FetchesOn
  <2>3. CASE nextPc = idex.pc + 8
    BY <2>2, <2>3
  <2>4. CASE IsJump(idex.op) /\ nextPc = idex.nextPc
    BY <1>4, <1>5, <2>2, <2>4 DEF IsJump
  <2>5. CASE /\ IsBranch(idex.op) /\ nextPc = idex.imm
             /\ Predicts(pcUnit, idex.pc + 4, idex.imm)
    <3>1. exma'.branch
      BY <1>5, <2>1, <2>2, <2>5 DEF FetchesOn, SettledThere, Predicts
    <3>2. Predicts(pcUnit', idex.pc + 4, idex.imm)
      BY <2>5, <3>1, UnitLearns
    <3> QED
      BY <1>4, <1>5, <2>2, <2>5, <3>2
  <2>6. CASE /\ IsBranch(idex.op) /\ nextPc = idex.imm + 4
             /\ pcUnit.kind = "History" /\ ifid.pc = idex.imm
    <3>1. exma'.branch
      BY <1>5, <2>1, <2>2, <2>6 DEF FetchesOn, SettledThere
    <3> QED
      BY <1>1, <1>4, <1>5, <2>2, <2>6, <3>1
  <2> QED
    BY <1>5, <2>2, <2>3, <2>4, <2>5, <2>6 DEF DecodeFollows, FetchInOrder
<1>6. ASSUME idex.valid, ~idex'.valid, ~ifid'.valid, stall'.count = 0, RegWrite(i.op)
      PROVE  \/ nextPc' = idex.pc + 12
             \/ /\ i.op = "JAL" /\ nextPc' = i.imm + 4
                /\ InstructionAt(program, i.imm) = Nop
  <2>1. ~IsBranch(idex.op) /\ (IsJump(idex.op) => i.op = "JAL")
    BY <1>4, <1>6 DEF RegWrite, IsBranch, IsJump
  <2>2. FetchesOn
    BY <1>2, <1>6, <2>1 DEF HeldBack, SleepsOn, TurnsInDecode, TurnsInExecute
  <2>3. ~ifid.valid /\ ResumePc = nextPc
    BY <1>6, <2>2, AwakeAhead DEF FetchesOn
  <2>4. \/ nextPc = idex.pc + 8 /\ ~Ended
        \/ i.op = "JAL" /\ nextPc = i.imm /\ i.imm \in Nat /\ ~Ended
    BY <1>4, <1>6, <2>1, <2>3
       DEF DecodeFollows, FetchInOrder, Ended, End, IsJump
  <2>5. nextPc' = nextPc + 4 /\ nextPc \in Nat
    BY <1>6, <2>2, <2>3, <2>4, FetchAhead
  <2>6. CASE nextPc = idex.pc + 8
    BY <1>6, <2>5, <2>6, AwakeAhead
  <2>7. CASE i.op = "JAL" /\ nextPc = i.imm /\ ~Ended
    BY <1>6, <2>2, <2>3, <2>5, <2>7 DEF FetchesOn
  <2> QED
    BY <2>4, <2>6, <2>7
<1> HIDE DEF i
<1> QED
  BY <1>1, <1>3, <1>5, <1>6 DEF ExecuteFollows, i

(* ... and behind the one in memory access.                                *)
LEMMA CycleMemoryFollows ==
  ASSUME FetchInOrder, ExecuteFollows, Cycle
  PROVE  MemoryFollows'
<1> DEFINE i == InstructionAt(program, exma.pc)
<1>1. /\ mawb'.valid = exma.valid /\ mawb'.pc = exma.pc
      /\ exma'.valid = idex.valid /\ exma'.pc = idex.pc /\ program' = program
  BY ExecuteLatch, CycleFacts DEF FetchInOrder, MemoryAccess
<1>2. HeldBack \/ SleepsOn \/ FetchesOn \/ TurnsInDecode \/ TurnsInExecute
  BY CycleTurns
<1>3. mawb'.valid /\ exma'.valid => exma'.pc = mawb'.pc + 4
  BY <1>1 DEF ExecuteFollows
<1>4. ASSUME exma.valid, ~idex.valid, RegWrite(i.op), idex'.valid
      PROVE  \/ idex'.pc = exma.pc + 8
             \/ i.op = "JAL" /\ idex'.pc = i.imm
  <2>1. ifid.valid /\ idex'.pc = ifid.pc
    BY <1>4, DecodeLatch DEF FetchInOrder
  <2> QED
    BY <1>4, <2>1 DEF ExecuteFollows, RegWrite, IsBranch
<1>5. ASSUME exma.valid, ~idex.valid, RegWrite(i.op), ~idex'.valid, ifid'.valid
      PROVE  \/ ifid'.pc = exma.pc + 12
             \/ /\ i.op = "JAL" /\ ifid'.pc = i.imm + 4
                /\ InstructionAt(program, i.imm) = Nop
  <2>1. FetchesOn
    BY <1>2, <1>5 DEF HeldBack, SleepsOn, TurnsInDecode, TurnsInExecute
  <2>2. stall.count = 0
    BY <1>5, <2>1, FetchPlace DEF FetchInOrder, FetchesOn, AsleepBehind
  <2>3. ~ifid.valid /\ ifid'.pc = nextPc
    BY <1>5, <2>1, <2>2 DEF FetchesOn, ResumePc
  <2> QED
    BY <1>5, <2>2, <2>3 DEF ExecuteFollows
<1> HIDE DEF i
<1> QED
  BY <1>1, <1>3, <1>4, <1>5 DEF MemoryFollows, i

-----------------------------------------------------------------------------
(* Where the jump or branch in decode will lead the fetch: through its     *)
(* target, a no-op, when that was buffered and the branch is taken.        *)
WillLeadTo(x) ==
  LET i == ifid.instruction
      target == Immediate(ifid.pc, i)
  IN  \/ i.op \in {"J", "JAL"} /\ i.imm = x
      \/ i.op = "JR" /\ registers[i.rs] = x
      \/ IsBranch(i.op) /\ target = x /\ Predicts(pcUnit, ifid.pc + 4, x)
      \/ /\ pcUnit.kind = "History" /\ IsBranch(i.op) /\ target + 4 = x
         /\ AluValue(i.op, ifid.pc, target, registers[i.rs], registers[i.rt]) = 1

(* A taken branch in execute that the buffer has not led to its target     *)
(* turns the fetch in this cycle.                                          *)
WillTurn ==
  /\ pcUnit.kind = "History" /\ idex.valid /\ IsBranch(idex.op) /\ ifid.pc # idex.imm
  /\ AluValue(idex.op, idex.pc, idex.imm, idex.readData1, idex.readData2) = 1

(* A register whose booking was released too early, because the writer is  *)
(* in a loop so tight that its previous turn, still in flight, has the     *)
(* same tag: until it is written nothing in that loop reads it.            *)
UnreadFromMemory(r)  == ifid.valid => r \notin ReadAt(ifid.pc)
UnreadFromExecute(r) == /\ UnreadFromMemory(r)
                        /\ stall.count = 0 => r \notin ReadAt(nextPc) \/ WillTurn
UnreadFromDecode(r)  ==
  IF ifid.valid
  THEN /\ r \notin ReadAt(ifid.pc)
       /\ \E x \in Int : WillLeadTo(x) /\ r \notin ReadAt(x)
  ELSE r \notin ReadAt(nextPc) \cup ReadAt(nextPc + 4)

(* The youngest writer of a register has booked it last.                   *)
WritersBooked ==
  \A r \in Register :
    /\ Writing(idex, r) =>
         /\ scoreboard.tag[r] = idex.pc
         /\ ~scoreboard.valid[r] \/ UnreadFromDecode(r)
    /\ Writing(exma, r) =>
         /\ ~Writing(idex, r) => scoreboard.tag[r] = exma.pc
         /\ ~scoreboard.valid[r] \/ UnreadFromExecute(r)
    /\ Writing(mawb, r) =>
         /\ ~Writing(idex, r) /\ ~Writing(exma, r) => scoreboard.tag[r] = mawb.pc
         /\ ~scoreboard.valid[r] \/ UnreadFromMemory(r)

(* A register is settled by its writer alone ...                           *)
LEMMA ReleasedFields ==
  ASSUME NEW board \in Board, NEW latch \in MemoryAccessResult, NEW r \in Register
  PROVE  /\ Released(board, latch).tag[r] = board.tag[r]
         /\ Released(board, latch).valid[r] =>
              board.valid[r] \/ (Writing(latch, r) /\ latch.pc = board.tag[r])
<1>1. CASE latch.valid /\ RegWrite(latch.op) /\ board.tag[latch.writeReg] = latch.pc
  <2>1. Released(board, latch) = [board EXCEPT !.valid[latch.writeReg] = TRUE]
    BY <1>1 DEF Released
  <2>2. /\ Released(board, latch).tag = board.tag
        /\ latch.writeReg # r => Released(board, latch).valid[r] = board.valid[r]
    BY <2>1 DEF Board
  <2>3. latch.writeReg = r => Writing(latch, r) /\ latch.pc = board.tag[r]
    BY <1>1 DEF Writing
  <2> QED
    BY <2>2, <2>3
<1>2. CASE ~(latch.valid /\ RegWrite(latch.op) /\ board.tag[latch.writeReg] = latch.pc)
  <2>1. Released(board, latch) = board
    BY <1>2 DEF Released
  <2> QED
    BY <2>1
<1> QED
  BY <1>1, <1>2

(* ... and booked by one.                                                  *)
LEMMA BookedFields ==
  ASSUME StallTypeOK, NEW latch \in DecodeResult, NEW r \in Register,
         Writing(latch, r) => r # 0
  PROVE  /\ Writing(latch, r) => Booked(latch).tag[r] = latch.pc /\ ~Booked(latch).valid[r]
         /\ ~Writing(latch, r) => /\ Booked(latch).tag[r] = scoreboard.tag[r]
                                  /\ Booked(latch).valid[r] = scoreboard.valid[r]
<1>1. scoreboard \in Board
  BY DEF StallTypeOK, Board
<1>2. CASE Writing(latch, r)
  <2>1. Booked(latch) = [scoreboard EXCEPT !.valid[r] = FALSE, !.tag[r] = latch.pc]
    BY <1>2 DEF Booked, Writing
  <2> QED
    BY <1>1, <1>2, <2>1 DEF Board
<1>3. CASE ~Writing(latch, r)
  BY <1>1, <1>3 DEF Booked, Writing, Board
<1> QED
  BY <1>2, <1>3

(* One cycle of a register on the scoreboard, and the writers of it.       *)
LEMMA BoardFields ==
  ASSUME FetchInOrder, Cycle, NEW r \in Register
  PROVE  /\ Writing(mawb', r) <=> Writing(exma, r)
         /\ Writing(exma', r) <=> Writing(idex, r)
         /\ Writing(idex', r) =>
              /\ scoreboard'.tag[r] = idex'.pc
              /\ scoreboard'.valid[r] => Writing(mawb, r) /\ mawb.pc = idex'.pc
         /\ ~Writing(idex', r) =>
              /\ scoreboard'.tag[r] = scoreboard.tag[r]
              /\ scoreboard'.valid[r] =>
                   \/ scoreboard.valid[r]
                   \/ Writing(mawb, r) /\ mawb.pc = scoreboard.tag[r]
<1>0. /\ ifid.valid /\ ~idex'.valid /\ stall.count = 0 =>
           HeldBack \/ (idex.valid /\ IsBranch(idex.op))
      /\ HeldBack => stall'.count = 2 /\ ~idex'.valid
  <2>1. HeldBack \/ SleepsOn \/ FetchesOn \/ TurnsInDecode \/ TurnsInExecute
    BY CycleTurns
  <2>2. /\ SleepsOn => stall.count = 2
        /\ FetchesOn => idex'.valid = ifid.valid
        /\ TurnsInDecode => idex'.valid
        /\ TurnsInExecute => idex.valid /\ IsBranch(idex.op)
        /\ HeldBack => stall'.count = 2 /\ ~idex'.valid
    BY DEF HeldBack, SleepsOn, FetchesOn, TurnsInDecode, TurnsInExecute
  <2> QED
    BY <2>1, <2>2
<1>1. /\ MayCycle(Advanced.valid /\ ~Ended, FetchPc) /\ TypeOK
      /\ mawb \in MemoryAccessResult /\ scoreboard \in Board /\ StallTypeOK
      /\ NothingWaitsAsleep
      /\ idex.valid /\ IsBranch(idex.op) => ~ifid.valid
  BY AwakeAhead DEF Cycle, FetchPc, FetchInOrder, StallTypeOK, TypeOK, Board
<1>2. Writing(mawb', r) <=> Writing(exma, r)
  BY <1>1, CycleFacts DEF MemoryAccess, Writing
<1>3. Writing(exma', r) <=> Writing(idex, r)
  BY <1>1, ExecuteLatch DEF Writing
<1>4. CASE Held
  <2>1. HeldBack
    <3>1. ifid.valid /\ stall.count = 0
      BY <1>1, <1>4 DEF Held, Decoded, Decode, DecodeWith, NothingWaitsAsleep
    <3>2. ~idex'.valid
      BY <1>1, <1>4, DecodeLatch DEF Held
    <3>3. ~(idex.valid /\ IsBranch(idex.op))
      BY <1>1, <3>1
    <3> QED
      BY <1>0, <3>1, <3>2, <3>3
  <2>2. ~Writing(idex', r) /\ scoreboard' = Released(scoreboard, mawb)
    BY <1>4, <2>1 DEF Held, HeldBack, Writing
  <2> QED
    BY <1>1, <1>2, <1>3, <2>2, ReleasedFields
<1>5. CASE GoesOn
  <2>1. Decoded.valid = ifid.valid /\ Decoded.pc = ifid.pc /\ Decoded \in DecodeResult
    BY <1>1, StageTypes, DecodeFields DEF Decoded
  <2>2. Writing(idex', r) <=> Writing(Decoded, r)
    <3>1. ASSUME Decoded.valid PROVE idex'.valid
      <4>1. stall.count = 0 /\ stall'.count = 0
        BY <1>1, <1>5, <2>1, <3>1, FetchPlace DEF NothingWaitsAsleep, GoesOn
      <4>2. ~(idex.valid /\ IsBranch(idex.op))
        BY <1>1, <2>1, <3>1
      <4> QED
        BY <1>0, <2>1, <3>1, <4>1, <4>2
    <3>2. ASSUME idex'.valid
          PROVE  /\ Decoded.valid /\ idex'.op = Decoded.op
                 /\ idex'.writeReg = Decoded.writeReg
      BY <1>1, <2>1, <3>2, DecodeLatch, DecodeFields DEF Decoded
    <3> QED
      BY <3>1, <3>2 DEF Writing
  <2>3. Writing(idex', r) => r # 0 /\ idex'.pc = Decoded.pc
    <3>1. SUFFICES ASSUME Writing(idex', r) PROVE r # 0 /\ idex'.pc = Decoded.pc
      OBVIOUS
    <3>2. /\ ifid.valid /\ idex'.pc = ifid.pc /\ idex'.op = ifid.instruction.op
          /\ idex'.writeReg = WriteRegister(ifid.instruction.op, ifid.instruction)
      BY <1>1, <3>1, DecodeLatch DEF Writing
    <3> QED
      BY <2>1, <3>1, <3>2, ConventionsKept DEF FetchInOrder, LatchesCarry, Writing
  <2>4. Booked(Decoded) \in Board /\ scoreboard' = Released(Booked(Decoded), mawb)
    BY <1>1, <1>5, <2>1, BookedType DEF GoesOn
  <2> QED
    BY <1>1, <1>2, <1>3, <2>1, <2>2, <2>3, <2>4, ReleasedFields, BookedFields
<1> QED
  BY <1>1, <1>4, <1>5, CycleCases

(* A reader of a register that is still to be written meets a hazard.      *)
LEMMA ReadersAreHeld ==
  ASSUME StallTypeOK, LatchesCarry, WritersBooked, ifid.valid,
         NEW r \in ReadAt(ifid.pc), NEW latch \in {idex, exma, mawb}, Writing(latch, r)
  PROVE  HasHazard(Decoded)
<1>1. r \in {ifid.instruction.rs, ifid.instruction.rt} /\ r \in Register
  BY DEF ReadAt, Reads, LatchesCarry, StallTypeOK, TypeOK, FetchResult, Instruction
<1>2. ~scoreboard.valid[r]
  BY <1>1 DEF WritersBooked, UnreadFromDecode, UnreadFromExecute, UnreadFromMemory
<1>3. Decoded.readReg1 = ifid.instruction.rs /\ Decoded.readReg2 = ifid.instruction.rt
  BY DEF Decoded, Decode, DecodeWith
<1> QED
  BY <1>1, <1>2, <1>3 DEF HasHazard

(* So what leaves decode reads nothing that is on its way ...              *)
LEMMA CycleReads ==
  ASSUME FetchInOrder, NothingReadEarly, WritersBooked, Cycle
  PROVE  NothingReadEarly' /\ OperandsRead'
<1>1. ASSUME idex'.valid, NEW r \in ReadAt(idex'.pc), NEW latch \in {idex, exma, mawb}
      PROVE  ~Writing(latch, r)
  BY <1>1, DecodeLatch, ReadersAreHeld DEF FetchInOrder
<1>2. ASSUME NEW r \in Register
      PROVE  /\ idex'.valid /\ (Writing(exma', r) \/ Writing(mawb', r))
                  => r \notin ReadAt(idex'.pc)
             /\ exma'.valid /\ Writing(mawb', r) => r \notin ReadAt(exma'.pc)
  <2>1. exma'.valid = idex.valid /\ exma'.pc = idex.pc
    BY ExecuteLatch DEF FetchInOrder
  <2> QED
    BY <1>1, <2>1, BoardFields DEF NothingReadEarly
<1>3. \A a : ReadAt(a)' = ReadAt(a)
  BY CycleFacts DEF ReadAt, FetchInOrder
<1>4. NothingReadEarly'
  BY <1>2, <1>3 DEF NothingReadEarly, Writing
<1>5. ASSUME idex'.valid
      PROVE  /\ idex'.readData1 = registers'[idex'.readReg1]
             /\ idex'.readData2 = registers'[idex'.readReg2]
             /\ idex'.op = "JR" => idex'.nextPc = registers'[idex'.readReg1]
  <2> DEFINE i == ifid.instruction
  <2>1. /\ ifid.valid /\ idex'.pc = ifid.pc /\ idex'.op = i.op
        /\ idex'.readReg1 = i.rs /\ idex'.readReg2 = i.rt
        /\ idex'.readData1 = registers[i.rs] /\ idex'.readData2 = registers[i.rt]
        /\ i.op = "JR" => idex'.nextPc = registers[i.rs]
    BY <1>5, DecodeLatch DEF FetchInOrder
  <2>2. i = InstructionAt(program, ifid.pc) /\ i.rs \in Register /\ i.rt \in Register
    BY <2>1 DEF FetchInOrder, LatchesCarry, StallTypeOK, TypeOK, FetchResult, Instruction
  <2>3. ASSUME NEW r \in {i.rs, i.rt} PROVE registers'[r] = registers[r]
    <3>1. r \in ReadAt(idex'.pc) /\ r \in Register
      BY <2>1, <2>2 DEF ReadAt, Reads
    <3>2. ~Writing(mawb, r) /\ (RegWrite(mawb.op) => mawb.valid)
      BY <1>1, <1>5, <3>1 DEF FetchInOrder, FetchLeads, SquashedIsInert
    <3> QED
      BY <3>1, <3>2, CycleFacts, WrittenBack
         DEF Writing, FetchInOrder, StallTypeOK, TypeOK
  <2> QED
    BY <2>1, <2>3
<1> QED
  BY <1>4, <1>5 DEF OperandsRead
-----------------------------------------------------------------------------
(* What is in flight, and the scoreboard, are in order.                    *)
FlightInOrder ==
  /\ FetchInOrder /\ ExecuteFollows /\ MemoryFollows
  /\ NothingReadEarly /\ OperandsRead /\ WritersBooked

(* Which of the five a cycle is, by what is in flight.                     *)
LEMMA TurnsInOrder ==
  ASSUME FlightInOrder, Cycle
  PROVE  /\ ifid'.valid => FetchesOn
         /\ idex'.valid => FetchesOn \/ TurnsInDecode
         /\ idex.valid /\ ~IsBranch(idex.op) =>
              IF ifid.valid THEN HeldBack \/ FetchesOn \/ TurnsInDecode ELSE FetchesOn
<1>1. HeldBack \/ SleepsOn \/ FetchesOn \/ TurnsInDecode \/ TurnsInExecute
  BY CycleTurns DEF FlightInOrder, FetchInOrder
<1>2. idex.valid => stall.count = 0
  BY AwakeAhead DEF FlightInOrder, FetchInOrder
<1>3. /\ HeldBack => ifid.valid /\ ~ifid'.valid /\ ~idex'.valid
      /\ SleepsOn => stall.count = 2 /\ ~ifid'.valid /\ ~idex'.valid
      /\ TurnsInDecode => ifid.valid /\ ~ifid'.valid
      /\ TurnsInExecute => IsBranch(idex.op) /\ ~ifid'.valid /\ ~idex'.valid
  BY DEF HeldBack, SleepsOn, TurnsInDecode, TurnsInExecute
<1> QED
  BY <1>1, <1>2, <1>3

(* What is in flight and writes a register says so in its instruction.     *)
LEMMA Writer ==
  ASSUME FlightInOrder, NEW r \in Register, NEW latch \in {idex, exma, mawb},
         Writing(latch, r)
  PROVE  LET i == InstructionAt(program, latch.pc)
         IN  /\ i # Nop /\ latch.op = i.op /\ RegWrite(i.op) /\ r # 0
             /\ ~IsBranch(i.op) /\ (IsJump(i.op) => i.op = "JAL")
<1> DEFINE i == InstructionAt(program, latch.pc)
<1>1. i # Nop /\ latch.op = i.op /\ latch.writeReg = WriteRegister(i.op, i) /\ RegWrite(i.op)
  BY DEF FlightInOrder, FetchInOrder, LatchesCarry, Writing
<1>2. r # 0
  BY <1>1, ConventionsKept DEF FlightInOrder, FetchInOrder, Writing
<1>3. ~IsBranch(i.op) /\ (IsJump(i.op) => i.op = "JAL")
  BY <1>1 DEF RegWrite, IsBranch, IsJump
<1> QED
  BY <1>1, <1>2, <1>3

(* A no-op reads nothing that is written.                                  *)
LEMMA NopReads ==
  ASSUME NEW a, InstructionAt(program, a) = Nop, NEW r, r # 0
  PROVE  r \notin ReadAt(a)
BY DEF ReadAt, Reads, Nop

(* A booking is released in the cycle it is made only by the same          *)
(* instruction, one turn of a loop of three slots ahead: what is between   *)
(* the two turns is fetched next, and has been seen not to read it.        *)
LEMMA BookedAfresh ==
  ASSUME FlightInOrder, ExecutedCurrent, Cycle, NEW r \in Register,
         Writing(idex', r), Writing(mawb, r), mawb.pc = idex'.pc
  PROVE  /\ UnreadFromDecode(r)'
         /\ Writing(idex, r) => UnreadFromExecute(r)'
         /\ Writing(exma, r) => UnreadFromMemory(r)'
<1>0. PICK x : x = ifid.pc
  OBVIOUS
<1> DEFINE i == InstructionAt(program, x)
<1>1. /\ idex'.valid /\ ifid.valid /\ mawb.valid /\ mawb.pc = x /\ ~HasHazard(Decoded)
      /\ idex'.op = i.op /\ ifid.instruction = i /\ i # Nop
      /\ i.op = "JAL" => idex'.nextPc = i.imm
  BY <1>0, DecodeLatch DEF FlightInOrder, FetchInOrder, LatchesCarry, Writing
<1>2. /\ RegWrite(i.op) /\ r # 0 /\ ~IsBranch(i.op) /\ (IsJump(i.op) => i.op = "JAL")
  <2>1. i.op = idex'.op /\ Writing(idex', r)
    BY <1>1
  <2>2. idex'.writeReg = WriteRegister(i.op, i)
    BY <1>0, <1>1, DecodeLatch DEF FlightInOrder, FetchInOrder
  <2>3. RegWrite(i.op) /\ r = WriteRegister(i.op, i)
    BY <2>1, <2>2 DEF Writing
  <2>4. r # 0
    BY <1>1, <2>3, ConventionsKept DEF FlightInOrder, FetchInOrder
  <2> QED
    BY <2>3, <2>4 DEF RegWrite, IsBranch, IsJump
<1>3. /\ x \in Nat /\ idex.pc \in Nat /\ exma.pc \in Nat
      /\ ResumePc = x + 4 /\ ~Ended
  BY <1>0, <1>1, <1>2, AwakeAhead DEF FlightInOrder
<1>4. r \notin ReadAt(x)
  BY <1>0, <1>1, ReadersAreHeld DEF FlightInOrder, FetchInOrder
<1>5. \A a : ReadAt(a)' = ReadAt(a)
  BY CycleFacts DEF ReadAt, FlightInOrder, FetchInOrder
<1>6. FetchesOn \/ TurnsInDecode
  BY <1>1, TurnsInOrder
<1>7. CASE exma.valid
  <2> DEFINE e == InstructionAt(program, x + 4)
  <2>1. exma.pc = x + 4 /\ ~idex.valid
    BY <1>0, <1>1, <1>3, <1>7 DEF FlightInOrder, FetchInOrder, MemoryFollows, ExecuteFollows, DecodeFollows
  <2>2. e # Nop /\ exma.nextPc = Immediate(x + 4, e)
    BY <1>7, <2>1 DEF FlightInOrder, FetchInOrder, LatchesCarry
  <2>3. \/ /\ IsBranch(e.op) /\ Immediate(x + 4, e) = x
           /\ Predicts(pcUnit, x + 8, x)
        \/ /\ IsBranch(e.op) /\ Immediate(x + 4, e) + 4 = x
           /\ pcUnit.kind = "History" /\ exma.aluValue = 1
        \/ e.op \in {"J", "JAL"} /\ e.imm = x
        \/ e.op = "JR" /\ RetiredRegisters[e.rs] = x
    BY <1>0, <1>1, <1>3, <1>7, <2>1, <2>2 DEF FlightInOrder, FetchInOrder, ExecuteFollows
  <2>4. ~IsJump(i.op)
    BY <1>1, <2>2, ConventionsKept DEF FlightInOrder, FetchInOrder
  <2>5. /\ ifid'.valid /\ ifid'.pc = x + 4
    BY <1>1, <1>3, <1>2, <1>6, <2>2, <2>4 DEF FetchesOn, TurnsInDecode
  <2>6. ifid'.instruction = e
    <3>1. LatchesCarry' /\ program' = program
      BY StepCarries, CycleFacts DEF FlightInOrder, FetchInOrder
    <3> QED
      BY <2>5, <3>1 DEF LatchesCarry
  <2>7. registers' = RetiredRegisters /\ pcUnit' = pcUnit
    BY <2>1, CycleFacts, UnitLearns DEF FlightInOrder, FetchInOrder, RetiredRegisters
  <2>8. r \notin ReadAt(x + 4)
    BY <1>7, <2>1 DEF FlightInOrder, FetchInOrder, NothingReadEarly
  <2>9. WillLeadTo(x)'
    <3>1. (x + 4) + 4 = x + 8
      BY <1>3
    <3>2. \/ e.op \in {"J", "JAL"} /\ e.imm = x
          \/ e.op = "JR" /\ registers'[e.rs] = x
          \/ /\ IsBranch(e.op) /\ Immediate(ifid'.pc, e) = x
             /\ Predicts(pcUnit', ifid'.pc + 4, x)
          \/ /\ pcUnit'.kind = "History" /\ IsBranch(e.op)
             /\ Immediate(ifid'.pc, e) + 4 = x
             /\ AluValue(e.op, ifid'.pc, Immediate(ifid'.pc, e),
                         registers'[e.rs], registers'[e.rt]) = 1
      <4>1. exma.aluValue = AluValue(e.op, x + 4, Immediate(x + 4, e),
                                     RetiredRegisters[e.rs], RetiredRegisters[e.rt])
        BY <1>7, <2>1 DEF ExecutedCurrent
      <4> HIDE DEF e
      <4> QED
        BY <2>3, <2>5, <2>7, <3>1, <4>1
    <3> HIDE DEF e
    <3> QED
      BY <2>6, <3>2 DEF WillLeadTo
  <2> QED
    BY <1>3, <1>4, <1>5, <2>1, <2>5, <2>8, <2>9
       DEF UnreadFromDecode, UnreadFromMemory, Writing
<1>8. CASE ~exma.valid
  <2>1. /\ i.op = "JAL" /\ i.imm = x - 4
        /\ idex.valid => idex.pc = x - 4
        /\ ~idex.valid => InstructionAt(program, x - 4) = Nop
    <3>1. CASE idex.valid
      BY <1>0, <1>1, <1>3, <1>2, <1>8, <3>1 DEF FlightInOrder, FetchInOrder, MemoryFollows, DecodeFollows
    <3>2. CASE ~idex.valid
      <4>1. i.op = "JAL" /\ x = i.imm + 4 /\ InstructionAt(program, i.imm) = Nop
        BY <1>0, <1>1, <1>3, <1>2, <1>8, <3>2 DEF FlightInOrder, FetchInOrder, MemoryFollows
      <4>2. i.imm \in Nat
        BY <1>1, <4>1, ConventionsKept DEF FlightInOrder, FetchInOrder
      <4>3. i.imm = x - 4
        BY <1>3, <4>1, <4>2
      <4> QED
        BY <3>2, <4>1, <4>3
    <3> QED
      BY <3>1, <3>2
  <2>2. ~ifid'.valid /\ nextPc' = x - 4
    BY <1>1, <1>2, <1>6, <2>1 DEF FetchesOn, TurnsInDecode, IsJump
  <2>3. r \notin ReadAt(x - 4)
    <3>1. CASE idex.valid
      BY <2>1, <3>1 DEF FlightInOrder, FetchInOrder, NothingReadEarly
    <3>2. CASE ~idex.valid
      BY <1>2, <2>1, <3>2, NopReads
    <3> QED
      BY <3>1, <3>2
  <2>4. (x - 4) + 4 = x
    BY <1>3
  <2> QED
    BY <1>4, <1>5, <1>8, <2>2, <2>3, <2>4
       DEF UnreadFromDecode, UnreadFromExecute, UnreadFromMemory, Writing
<1> QED
  BY <1>7, <1>8

(* A later booking is released too early only by a call that calls itself. *)
LEMMA ReleasedAhead ==
  ASSUME FlightInOrder, Cycle, NEW r \in Register,
         Writing(mawb, r), mawb.pc = scoreboard.tag[r]
  PROVE  /\ Writing(idex, r) => UnreadFromExecute(r)'
         /\ Writing(exma, r) => UnreadFromMemory(r)'
<1>0. PICK x : x = mawb.pc
  OBVIOUS
<1> DEFINE i == InstructionAt(program, x)
<1>1. /\ x \in Nat /\ idex.pc \in Nat /\ exma.pc \in Nat /\ mawb.valid
      /\ i # Nop /\ RegWrite(i.op) /\ r # 0
  BY <1>0, AwakeAhead, Writer DEF FlightInOrder, FetchInOrder, Writing
<1>2. CASE Writing(idex, r)
  <2>1. idex.valid /\ idex.pc = x /\ idex.op = i.op /\ ResumePc = nextPc
    BY <1>0, <1>2, Writer, AwakeAhead DEF FlightInOrder, FetchInOrder, WritersBooked, Writing
  <2>2. ~exma.valid
    BY <1>0, <1>1, <2>1 DEF FlightInOrder, FetchInOrder, MemoryFollows, ExecuteFollows
  <2>3. i.op = "JAL" /\ i.imm = x
    BY <1>0, <1>1, <2>1, <2>2 DEF FlightInOrder, FetchInOrder, MemoryFollows
  <2>4. IsJump(i.op) /\ ~IsBranch(i.op)
    BY <2>3 DEF IsJump, IsBranch
  <2>5. ~ifid.valid /\ nextPc = x /\ ~Ended
    <3>1. idex.nextPc = x /\ ~isEnd
      BY <2>1, <2>3 DEF FlightInOrder, FetchInOrder, LatchesCarry
    <3> QED
      BY <1>1, <2>1, <2>4, <3>1 DEF FlightInOrder, FetchInOrder, DecodeFollows, Ended, End
  <2>6. ifid'.pc = x /\ nextPc' = x + 4
    <3>1. FetchesOn /\ ResumePc = x /\ ~IsBranch(InstructionAt(program, x).op)
      BY <1>1, <2>1, <2>3, <2>4, <2>5, TurnsInOrder DEF IsBranch
    <3> QED
      BY <2>5, <3>1, FetchAhead DEF FetchesOn, LedByBuffer, FlightInOrder
  <2>7. r \notin ReadAt(x) /\ r \notin ReadAt(x + 4)
    <3>1. InstructionAt(program, x + 4) = Nop
      BY <1>1, <2>4, ConventionsKept DEF FlightInOrder, FetchInOrder
    <3> QED
      BY <1>1, <2>1, <3>1, NopReads DEF FlightInOrder, FetchInOrder, NothingReadEarly
  <2>8. \A a : ReadAt(a)' = ReadAt(a)
    BY CycleFacts DEF ReadAt, FlightInOrder, FetchInOrder
  <2> QED
    BY <2>2, <2>6, <2>7, <2>8 DEF UnreadFromExecute, UnreadFromMemory, Writing
<1>3. CASE ~Writing(idex, r) /\ Writing(exma, r)
  <2>1. exma.pc = x /\ exma.pc = x + 4
    BY <1>0, <1>1, <1>3 DEF FlightInOrder, FetchInOrder, WritersBooked, MemoryFollows, Writing
  <2> QED
    BY <1>1, <2>1
<1> QED
  BY <1>2, <1>3

(* The run does not end behind an instruction that writes.                 *)
LEMMA CallGoesOn ==
  ASSUME FlightInOrder, NEW r \in Register, Writing(idex, r), ~ifid.valid
  PROVE  ~Ended
<1> DEFINE i == InstructionAt(program, idex.pc)
<1>1. /\ idex.valid /\ idex.op = i.op /\ i # Nop /\ ~IsBranch(i.op) /\ ~isEnd
      /\ IsJump(i.op) => i.op = "JAL"
      /\ i.op = "JAL" => idex.nextPc = i.imm /\ i.imm \in Nat
  BY Writer, ConventionsKept DEF FlightInOrder, FetchInOrder, LatchesCarry, Writing
<1> QED
  BY <1>1 DEF FlightInOrder, FetchInOrder, DecodeFollows, Ended, End

(* What was released too early stays unread until it is written.           *)
LEMMA StaysUnread ==
  ASSUME FlightInOrder, Cycle, NEW r \in Register, scoreboard.valid[r]
  PROVE  /\ Writing(idex, r) => UnreadFromExecute(r)'
         /\ Writing(exma, r) => UnreadFromMemory(r)'
<1>1. \A a : ReadAt(a)' = ReadAt(a)
  BY CycleFacts DEF ReadAt, FlightInOrder, FetchInOrder
<1>2. ASSUME Writing(idex, r) PROVE UnreadFromExecute(r)'
  <2>1. /\ idex.valid /\ ~IsBranch(idex.op) /\ UnreadFromDecode(r) /\ r # 0
        /\ ResumePc = nextPc /\ nextPc \in Int
    BY <1>2, Writer, AwakeAhead DEF FlightInOrder, WritersBooked, Writing
  <2>2. CASE ~ifid.valid
    <3>1. FetchesOn
      BY <2>1, <2>2, TurnsInOrder
    <3>2. ~Ended
      BY <1>2, <2>1, <2>2, CallGoesOn DEF FlightInOrder
    <3>3. /\ ifid'.valid => ifid'.pc = nextPc
          /\ nextPc' = nextPc + 4 \/ InstructionAt(program, nextPc') = Nop
      BY <2>1, <3>1, <3>2, FetchAhead DEF FetchesOn, FlightInOrder
    <3> QED
      BY <1>1, <2>1, <2>2, <3>3, NopReads
         DEF UnreadFromDecode, UnreadFromExecute, UnreadFromMemory
  <2>3. CASE ifid.valid /\ HeldBack
    BY <2>3 DEF HeldBack, UnreadFromExecute, UnreadFromMemory
  <2>4. CASE ifid.valid /\ ~HeldBack
    <3>1. PICK x \in Int : WillLeadTo(x) /\ r \notin ReadAt(x)
      BY <2>1, <2>4 DEF UnreadFromDecode
    <3>2. /\ idex'.valid /\ (FetchesOn \/ TurnsInDecode) /\ ~Ended
          /\ pcUnit.kind # "History" => nextPc = ifid.pc + 4
      BY <2>1, <2>4, TurnsInOrder, AwakeAhead DEF FlightInOrder, FetchesOn, TurnsInDecode
    <3>3. LET i == ifid.instruction
          IN  /\ idex'.op = i.op /\ idex'.imm = Immediate(ifid.pc, i)
              /\ idex'.pc = ifid.pc
              /\ idex'.readData1 = registers[i.rs] /\ idex'.readData2 = registers[i.rt]
              /\ i.op = "JR" => idex'.nextPc = registers[i.rs]
              /\ i.op \in {"J", "JAL"} => idex'.nextPc = i.imm
      BY <3>2, DecodeLatch DEF FlightInOrder, FetchInOrder
    <3>4. pcUnit' = pcUnit
      BY <2>1, UnitLearns DEF FlightInOrder
    <3>5. CASE TurnsInDecode
      <4>1. ~ifid'.valid /\ nextPc' = x
        BY <3>1, <3>3, <3>4, <3>5
           DEF TurnsInDecode, WillLeadTo, IsJump, IsBranch, Predicts
      <4> QED
        BY <1>1, <3>1, <4>1 DEF UnreadFromExecute, UnreadFromMemory
    <3>6. CASE FetchesOn
      <4> DEFINE i == ifid.instruction
                 target == Immediate(ifid.pc, i)
      <4>1. /\ ~IsJump(i.op)
            /\ IsBranch(i.op) => ~Predicts(pcUnit, nextPc, target)
        BY <2>1, <3>2, <3>3, <3>4, <3>6 DEF FetchesOn
      <4>2. /\ pcUnit.kind = "History" /\ IsBranch(i.op) /\ target + 4 = x
            /\ AluValue(i.op, ifid.pc, target, registers[i.rs], registers[i.rt]) = 1
        BY <3>1, <3>2, <4>1 DEF WillLeadTo, IsJump, Predicts
      <4>3. InstructionAt(program, nextPc) = Nop /\ ifid'.pc = nextPc
        BY <2>1, <2>4, <3>2, <3>6, <4>2, BehindBranch DEF FlightInOrder, FetchesOn
      <4>4. ~ifid'.valid /\ nextPc' = nextPc + 4
        BY <2>1, <3>2, <3>6, <4>3, FetchAhead DEF FlightInOrder, FetchesOn
      <4>5. nextPc = target => nextPc' = x
        BY <4>2, <4>4
      <4>6. nextPc # target => WillTurn'
        BY <3>2, <3>3, <3>4, <4>2, <4>3 DEF WillTurn
      <4> QED
        BY <1>1, <3>1, <4>4, <4>5, <4>6 DEF UnreadFromExecute, UnreadFromMemory
    <3> QED
      BY <3>2, <3>5, <3>6
  <2> QED
    BY <2>2, <2>3, <2>4
<1>3. ASSUME Writing(exma, r), ifid'.valid PROVE r \notin ReadAt(ifid'.pc)
  <2>1. UnreadFromExecute(r) /\ exma.valid
    BY <1>3 DEF FlightInOrder, WritersBooked, Writing
  <2>2. FetchesOn /\ ~Ended
    BY <1>3, TurnsInOrder DEF FetchesOn
  <2>3. stall.count = 0 /\ ifid'.pc = nextPc
    BY <2>1, <2>2, FetchPlace DEF FlightInOrder, FetchInOrder, FetchesOn, AsleepBehind, ResumePc
  <2>4. ~WillTurn
    BY <2>2, ExecuteLatch DEF FlightInOrder, FetchInOrder, FetchesOn, SettledThere, WillTurn
  <2> QED
    BY <2>1, <2>3, <2>4 DEF UnreadFromExecute
<1> QED
  BY <1>1, <1>2, <1>3 DEF UnreadFromMemory

(* So the scoreboard is wrong only about what nothing reads.               *)
LEMMA CycleBooksWriters ==
  ASSUME FlightInOrder, ExecutedCurrent, Cycle
  PROVE  WritersBooked'
<1>1. SUFFICES ASSUME NEW r \in Register
               PROVE  /\ Writing(idex', r) =>
                           /\ scoreboard'.tag[r] = idex'.pc
                           /\ ~scoreboard'.valid[r] \/ UnreadFromDecode(r)'
                      /\ Writing(exma', r) =>
                           /\ ~Writing(idex', r) => scoreboard'.tag[r] = exma'.pc
                           /\ ~scoreboard'.valid[r] \/ UnreadFromExecute(r)'
                      /\ Writing(mawb', r) =>
                           /\ ~Writing(idex', r) /\ ~Writing(exma', r)
                                => scoreboard'.tag[r] = mawb'.pc
                           /\ ~scoreboard'.valid[r] \/ UnreadFromMemory(r)'
  BY DEF WritersBooked, Writing
<1>2. /\ Writing(mawb', r) <=> Writing(exma, r)
      /\ Writing(exma', r) <=> Writing(idex, r)
      /\ Writing(idex', r) =>
           /\ scoreboard'.tag[r] = idex'.pc
           /\ scoreboard'.valid[r] => Writing(mawb, r) /\ mawb.pc = idex'.pc
      /\ ~Writing(idex', r) =>
           /\ scoreboard'.tag[r] = scoreboard.tag[r]
           /\ scoreboard'.valid[r] =>
                \/ scoreboard.valid[r]
                \/ Writing(mawb, r) /\ mawb.pc = scoreboard.tag[r]
  BY BoardFields DEF FlightInOrder, FetchInOrder
<1>3. exma'.pc = idex.pc /\ mawb'.pc = exma.pc
  BY ExecuteLatch, CycleFacts DEF FlightInOrder, FetchInOrder, MemoryAccess
<1>4. /\ Writing(idex, r) => scoreboard.tag[r] = idex.pc
      /\ Writing(exma, r) /\ ~Writing(idex, r) => scoreboard.tag[r] = exma.pc
  BY DEF FlightInOrder, FetchInOrder, WritersBooked
<1>5. scoreboard'.valid[r] =>
        /\ Writing(idex', r) => UnreadFromDecode(r)'
        /\ Writing(idex, r) => UnreadFromExecute(r)'
        /\ Writing(exma, r) => UnreadFromMemory(r)'
  BY <1>2, BookedAfresh, ReleasedAhead, StaysUnread
<1> QED
  BY <1>2, <1>3, <1>4, <1>5
-----------------------------------------------------------------------------
(* The next instruction to come out of fetch, and out of decode.           *)
OnwardFromFetch ==
  IF ifid.valid THEN ifid.pc
  ELSE IF Ended THEN End ELSE NextInstruction(program, ResumePc)

OnwardFromDecode == IF idex.valid THEN idex.pc ELSE OnwardFromFetch

(* What comes behind the instruction that happens next is its successor.   *)
PathAhead ==
  exma.valid =>
    LET i == InstructionAt(program, exma.pc)
    IN  OnwardFromDecode =
          NextInstruction(program, Arch!Successor(i, exma.pc,
                              RetiredRegisters[i.rs], RetiredRegisters[i.rt]))

(* The instruction that leaves execute has been computed from the state    *)
(* the instruction before it leaves.                                       *)
LEMMA CycleExecutes ==
  ASSUME FlightInOrder, Cycle
  PROVE  ExecutedCurrent' /\ RetiredRegisters' = SettledRegisters
<1>1. RetiredRegisters' = SettledRegisters /\ program' = program
  BY CycleFacts DEF RetiredRegisters, SettledRegisters, FlightInOrder, FetchInOrder
<1>2. ASSUME exma'.valid, NEW i, i = InstructionAt(program', exma'.pc)
      PROVE  /\ exma'.aluValue = AluValue(i.op, exma'.pc, Immediate(exma'.pc, i),
                                   RetiredRegisters'[i.rs], RetiredRegisters'[i.rt])
             /\ exma'.readData2 = RetiredRegisters'[i.rt]
  <2>1. /\ idex.valid /\ exma'.pc = idex.pc
        /\ exma'.aluValue = AluValue(idex.op, idex.pc, idex.imm,
                                     idex.readData1, idex.readData2)
        /\ exma'.readData2 = idex.readData2
    BY <1>2, ExecuteLatch DEF FlightInOrder, FetchInOrder
  <2>2. /\ idex.op = i.op /\ idex.imm = Immediate(idex.pc, i)
        /\ idex.readReg1 = i.rs /\ idex.readReg2 = i.rt
    BY <1>1, <1>2, <2>1 DEF LatchesCarry, FlightInOrder, FetchInOrder
  <2>3. /\ idex.readData1 = RetiredRegisters'[i.rs]
        /\ idex.readData2 = RetiredRegisters'[i.rt]
    BY <1>1, <2>1, <2>2, ReadIsCurrent DEF FlightInOrder, FetchInOrder, FetchLeads
  <2> QED
    BY <2>1, <2>2, <2>3
<1>3. ExecutedCurrent'
  BY <1>2 DEF ExecutedCurrent
<1> QED
  BY <1>1, <1>3
-----------------------------------------------------------------------------
(* The architecture is instantiated with this module's constants: both     *)
(* speak of the same instruction set.                                      *)
LEMMA SameWords ==
  /\ \A x : Arch!Wrap(x) = Wrap(x)
  /\ \A b : Arch!Bool(b) = Bool(b)
  /\ \A mem, a : Arch!ReadWord(mem, a) = ReadWord(mem, a)
  /\ \A mem, a, v : Arch!WriteWord(mem, a, v) = WriteWord(mem, a, v)
  /\ Arch!InitialRegisters = InitialRegisters
BY DEF Arch!Wrap, Wrap, Arch!Bool, Bool, Arch!ReadWord, ReadWord,
       Arch!WriteWord, WriteWord, Arch!InitialRegisters, InitialRegisters

(* So they agree on what a program is, and on where no-ops lead.           *)
LEMMA SamePrograms ==
  /\ \A text : Arch!IsProgram(text) <=> IsProgram(text)
  /\ \A text, a : Arch!InstructionAt(text, a) = InstructionAt(text, a)
  /\ \A text, a : Arch!NextInstruction(text, a) = NextInstruction(text, a)
<1>1. Arch!Nop = Nop /\ Arch!Off = Off
  BY DEF Arch!Nop, Nop, Arch!Off, Off
<1>2. Arch!Instruction = Instruction
  BY DEF Arch!Instruction, Instruction, Arch!Opcode, Opcode, Arch!RType, RType,
         Arch!IType, IType, Arch!JType, JType, Arch!Word, Word
<1>3. \A text, a : Arch!InstructionAt(text, a) = InstructionAt(text, a)
  BY <1>1 DEF Arch!InstructionAt, InstructionAt
<1>4. \A text, a : Arch!NextInstruction(text, a) = NextInstruction(text, a)
  BY <1>1, <1>3 DEF Arch!NextInstruction, NextInstruction
<1> QED
  BY <1>2, <1>3, <1>4 DEF Arch!IsProgram, IsProgram

(* The signals of an operation ask for what the architecture defines.      *)
LEMMA SignalsAgree ==
  ASSUME NEW i \in Instruction
  PROVE  /\ RegWrite(i.op) <=> Arch!Defines(i)
         /\ Arch!Defines(i) => WriteRegister(i.op, i) = Arch!Target(i)
         /\ MemWrite(i.op) <=> i.op = "SW"
BY DEF Instruction, Opcode, RType, IType, JType, RegWrite, RegDest, MemWrite,
       WriteRegister, Arch!Defines, Arch!Target

(* What execute and memoryAccess compute is the architecture's result.     *)
LEMMA ResultsAgree ==
  ASSUME NEW i \in Instruction, NEW a \in Nat, NEW s \in Word, NEW t \in Word,
         NEW mem, Arch!Defines(i)
  PROVE  LET v == AluValue(i.op, a, Immediate(a, i), s, t)
         IN  (IF MemRead(i.op) THEN ReadWord(mem, v) ELSE v)
               = Arch!Result(i, a, s, t, mem)
<1> USE SameWords
    DEF AluValue, Operate, AluSrc, RegDest, IsBranch, IsShift, MemRead,
        Immediate, RType, Arch!Result, Arch!Defines
<1>1. CASE i.op \in {"ADDU", "SUBU", "SLT", "SLL"}
  BY <1>1
<1>2. CASE i.op \in {"ADDI", "ADDIU", "SLTI", "ORI"}
  BY <1>2
<1>3. CASE i.op \in {"LUI", "LW", "JAL"}
  BY <1>3
<1> QED
  BY <1>1, <1>2, <1>3 DEF Instruction, Opcode, IType, JType

(* Where control goes, as execute and decode find it.                      *)
LEMMA Destinations ==
  ASSUME NEW i, NEW a, NEW s, NEW t
  PROVE  LET to == Arch!Successor(i, a, s, t)
             v  == AluValue(i.op, a, Immediate(a, i), s, t)
         IN  /\ IsBranch(i.op) => to = IF v = 1 THEN Immediate(a, i) ELSE a + 4
             /\ i.op \in {"J", "JAL"} => to = i.imm
             /\ i.op = "JR" => to = s
             /\ ~IsBranch(i.op) /\ ~IsJump(i.op) => to = a + 4
<1> DEFINE to == Arch!Successor(i, a, s, t)
           v  == AluValue(i.op, a, Immediate(a, i), s, t)
<1>1. CASE IsBranch(i.op)
  <2>1. Immediate(a, i) = Wrap(a + 4 + i.imm)
    BY <1>1 DEF Immediate
  <2>2. /\ i.op = "BEQ" => v = Bool(s = t)
        /\ i.op = "BNE" => v = Bool(s # t)
    BY <1>1 DEF AluValue, Operate, AluSrc, RegDest, IsBranch, IsShift, RType
  <2>3. to = IF v = 1 THEN Immediate(a, i) ELSE a + 4
    BY <1>1, <2>1, <2>2, SameWords DEF IsBranch, Bool, Arch!Successor
  <2> QED
    BY <1>1, <2>3 DEF IsBranch, IsJump
<1>2. CASE ~IsBranch(i.op)
  BY <1>2 DEF IsBranch, IsJump, Arch!Successor
<1> QED
  BY <1>1, <1>2

(* A no-op fetched, or nothing, leaves what comes next as it was.          *)
LEMMA FetchGoesOn ==
  ASSUME FlightInOrder, Cycle, FetchesOn \/ SleepsOn
  PROVE  OnwardFromFetch' = IF Ended THEN End ELSE NextInstruction(program, ResumePc)
<1>1. /\ program' = program /\ (Ended' <=> Ended \/ nextPc' = End)
      /\ nextPc \in Int /\ IsProgram(program)
  BY CycleFacts DEF FlightInOrder, FetchInOrder, StallTypeOK, TypeOK
<1>2. stall.freezePc \in Nat
  BY FetchPlace DEF FlightInOrder, FetchInOrder
<1>3. CASE SleepsOn
  <2>1. ~Ended /\ nextPc >= 0 /\ ResumePc = stall.freezePc
    BY <1>3 DEF FlightInOrder, FetchInOrder, AsleepBehind, SleepsOn, ResumePc
  <2>2. ~Ended' /\ ~ifid'.valid
    BY <1>1, <1>2, <1>3, <2>1 DEF SleepsOn, End
  <2>3. ResumePc' = stall.freezePc
    BY <1>3 DEF SleepsOn, ResumePc
  <2> QED
    BY <1>1, <2>1, <2>2, <2>3 DEF OnwardFromFetch
<1>4. CASE FetchesOn
  <2>1. /\ ifid'.valid <=> ~Ended /\ InstructionAt(program, ResumePc) # Nop
        /\ ifid'.valid => ifid'.pc = ResumePc
        /\ ~ifid'.valid /\ ~Ended => nextPc' = ResumePc + 4
        /\ ResumePc' = nextPc' /\ (~Ended => ResumePc \in Nat)
    BY <1>4, FetchAhead DEF FlightInOrder, FetchesOn, ResumePc
  <2>2. CASE Ended
    BY <1>1, <2>1, <2>2 DEF OnwardFromFetch
  <2>3. CASE ~Ended /\ InstructionAt(program, ResumePc) # Nop
    BY <2>1, <2>3 DEF OnwardFromFetch, NextInstruction
  <2>4. CASE ~Ended /\ InstructionAt(program, ResumePc) = Nop
    <3>1. ~Ended' /\ ~ifid'.valid
      BY <1>1, <2>1, <2>4 DEF End
    <3>2. OnwardFromFetch' = NextInstruction(program, ResumePc + 4)
      BY <1>1, <2>1, <3>1 DEF OnwardFromFetch
    <3> QED
      BY <1>1, <2>1, <2>4, <3>2, NextInstructionSkips
  <2> QED
    BY <2>2, <2>3, <2>4
<1> QED
  BY <1>3, <1>4

(* What fetch had to give is what decode has to give a cycle later, or     *)
(* when it has been held back, unless the branch in execute turns the      *)
(* fetch.                                                                  *)
LEMMA DecodeGoesOn ==
  ASSUME FlightInOrder, Cycle, HeldBack \/ SleepsOn \/ FetchesOn \/ TurnsInDecode
  PROVE  OnwardFromDecode' = OnwardFromFetch
<1>1. ifid.valid => /\ stall.count = 0 /\ ~Ended /\ ifid.pc \in Nat
                    /\ ifid.instruction = InstructionAt(program, ifid.pc)
                    /\ ifid.instruction # Nop
  BY AwakeAhead DEF FlightInOrder, FetchInOrder
<1>2. CASE HeldBack
  <2>1. /\ program' = program /\ ~Ended'
        /\ ~ifid'.valid /\ ~idex'.valid
    BY <1>1, <1>2, CycleFacts DEF FlightInOrder, FetchInOrder, HeldBack, End
  <2>2. ResumePc' = ifid.pc
    BY <1>2 DEF HeldBack, ResumePc
  <2>3. OnwardFromDecode' = NextInstruction(program, ifid.pc)
    BY <2>1, <2>2 DEF OnwardFromDecode, OnwardFromFetch
  <2> QED
    BY <1>1, <1>2, <2>3 DEF HeldBack, OnwardFromFetch, NextInstruction
<1>3. CASE ifid.valid /\ ~HeldBack
  <2>1. idex'.valid
    <3>1. /\ SleepsOn => stall.count = 2
          /\ FetchesOn /\ ifid.valid => idex'.valid
          /\ TurnsInDecode => idex'.valid
      BY DEF SleepsOn, FetchesOn, TurnsInDecode
    <3> QED
      BY <1>1, <1>3, <3>1
  <2>2. idex'.pc = ifid.pc
    BY <2>1, DecodeLatch DEF FlightInOrder, FetchInOrder
  <2> QED
    BY <1>3, <2>1, <2>2 DEF OnwardFromDecode, OnwardFromFetch
<1>4. CASE ~ifid.valid
  <2>1. ~idex'.valid /\ (FetchesOn \/ SleepsOn)
    BY <1>4 DEF HeldBack, SleepsOn, FetchesOn, TurnsInDecode
  <2> QED
    BY <1>4, <2>1, FetchGoesOn DEF OnwardFromDecode, OnwardFromFetch
<1> QED
  BY <1>2, <1>3, <1>4

(* The fetch is on the path of the instruction in execute, or is turned to *)
(* it in this cycle.                                                       *)
LEMMA CyclePath ==
  ASSUME FlightInOrder, Cycle
  PROVE  PathAhead'
<1>0. program' = program /\ (Ended' <=> Ended \/ nextPc' = End)
  BY CycleFacts DEF FlightInOrder, FetchInOrder
<1> SUFFICES ASSUME exma'.valid, NEW i, i = InstructionAt(program, exma'.pc),
                    NEW s, s = RetiredRegisters'[i.rs],
                    NEW t, t = RetiredRegisters'[i.rt]
             PROVE  OnwardFromDecode' =
                      NextInstruction(program, Arch!Successor(i, exma'.pc, s, t))
  BY <1>0 DEF PathAhead
<1> DEFINE a  == idex.pc
           to == Arch!Successor(i, a, s, t)
           v  == AluValue(i.op, a, Immediate(a, i), s, t)
<1>1. /\ idex.valid /\ exma'.pc = a /\ i = InstructionAt(program, a)
      /\ exma'.branch <=> IsBranch(idex.op) /\ exma'.aluValue = 1
      /\ a \in Nat /\ stall.count = 0 /\ ResumePc = nextPc /\ nextPc \in Int
  BY ExecuteLatch, AwakeAhead DEF FlightInOrder, FetchInOrder
<1>2. /\ i # Nop /\ idex.op = i.op /\ idex.imm = Immediate(a, i)
      /\ idex.readReg1 = i.rs /\ ~isEnd
      /\ i.op \in {"J", "JAL"} => idex.nextPc = i.imm
  BY <1>1 DEF FlightInOrder, FetchInOrder, LatchesCarry
<1>3. IsBranch(i.op) => Immediate(a, i) \in Nat /\ InstructionAt(program, a + 4) = Nop
  BY <1>1, <1>2, ConventionsKept DEF FlightInOrder, FetchInOrder
<1>4. exma'.aluValue = v
  BY <1>0, <1>1, CycleExecutes DEF ExecutedCurrent
<1>5. i.op = "JR" => idex.nextPc = s
  BY <1>1, <1>2, CycleExecutes, ReadIsCurrent DEF FlightInOrder, FetchInOrder, FetchLeads
<1>6. /\ IsBranch(i.op) => to = IF exma'.branch THEN Immediate(a, i) ELSE a + 4
      /\ IsJump(i.op) => to = idex.nextPc
      /\ ~IsBranch(i.op) /\ ~IsJump(i.op) => to = a + 4
  BY <1>1, <1>2, <1>4, <1>5, Destinations DEF IsJump
<1> HIDE DEF to, v
<1>7. ASSUME InstructionAt(program, a + 4) = Nop
      PROVE  NextInstruction(program, a + 8) = NextInstruction(program, a + 4)
  <2>1. a + 4 \in Nat /\ (a + 4) + 4 = a + 8 /\ IsProgram(program)
    BY <1>1 DEF FlightInOrder, FetchInOrder, StallTypeOK, TypeOK
  <2> QED
    BY <1>7, <2>1, NextInstructionSkips
<1>8. CASE TurnsInExecute
  <2>1. /\ ~ifid'.valid /\ ~idex'.valid /\ IsBranch(i.op) /\ ResumePc' = nextPc'
        /\ nextPc' = IF exma'.branch THEN Immediate(a, i) ELSE a + 8
    BY <1>2, <1>8 DEF TurnsInExecute, ResumePc
  <2>2. ~Ended'
    <3>1. ~Ended
      BY <1>1, <1>2, <2>1 DEF FlightInOrder, FetchInOrder, DecodeFollows, IsBranch, IsJump
    <3> QED
      BY <1>0, <1>1, <1>3, <2>1, <3>1 DEF End
  <2>3. OnwardFromDecode' = NextInstruction(program, nextPc')
    BY <1>0, <2>1, <2>2 DEF OnwardFromDecode, OnwardFromFetch
  <2> QED
    BY <1>1, <1>3, <1>6, <1>7, <2>1, <2>3 DEF to
<1>9. CASE HeldBack \/ SleepsOn \/ FetchesOn \/ TurnsInDecode
  <2>1. OnwardFromDecode' = OnwardFromFetch
    BY <1>9, DecodeGoesOn
  <2>2. CASE ifid.valid
    <3>1. ifid.pc = a + 4 /\ ~IsJump(i.op) /\ ~IsBranch(i.op)
      BY <1>1, <1>2, <2>2 DEF FlightInOrder, FetchInOrder, DecodeFollows, FetchLeads
    <3>2. InstructionAt(program, a + 4) # Nop
      BY <2>2, <3>1 DEF FlightInOrder, FetchInOrder, LatchesCarry
    <3>3. NextInstruction(program, a + 4) = a + 4
      BY <3>2 DEF NextInstruction
    <3> QED
      BY <1>1, <1>6, <2>1, <2>2, <3>1, <3>3 DEF OnwardFromFetch, to
  <2>3. CASE ~ifid.valid /\ IsJump(i.op)
    <3>1. nextPc = to
      BY <1>1, <1>2, <1>6, <2>3 DEF FlightInOrder, FetchInOrder, DecodeFollows, IsBranch, IsJump
    <3>2. Ended => nextPc = End /\ NextInstruction(program, nextPc) = End
      BY <1>2 DEF Ended, NextInstruction, End
    <3> QED
      BY <1>1, <2>1, <2>3, <3>1, <3>2 DEF OnwardFromFetch, to
  <2>4. CASE ~ifid.valid /\ ~IsJump(i.op)
    <3>1. /\ ~Ended
          /\ OnwardFromFetch = NextInstruction(program, nextPc)
      BY <1>1, <1>2, <2>4 DEF FlightInOrder, FetchInOrder, DecodeFollows, OnwardFromFetch
    <3>2. SettledThere
      BY <1>1, <1>9, <2>4 DEF HeldBack, SleepsOn, FetchesOn, TurnsInDecode
    <3>3. IsBranch(i.op) =>
            CASE pcUnit.kind = "None"    -> ~exma'.branch
              [] pcUnit.kind = "History" -> exma'.branch <=> ifid.pc = Immediate(a, i)
              [] OTHER                   -> exma'.branch <=> nextPc = Immediate(a, i)
      BY <1>1, <1>2, <3>1, <3>2 DEF SettledThere
    <3>4. CASE /\ nextPc = a + 8 /\ InstructionAt(program, a + 4) = Nop
               /\ pcUnit.kind = "History" => ifid.pc = a + 4
      <4>1. to = nextPc \/ to = a + 4
        BY <1>6, <2>4, <3>3, <3>4
      <4>2. OnwardFromDecode' = NextInstruction(program, to)
        BY <1>7, <2>1, <3>1, <3>4, <4>1
      <4> QED
        BY <1>1, <4>2 DEF to
    <3>5. CASE /\ IsBranch(i.op) /\ nextPc = Immediate(a, i)
               /\ Predicts(pcUnit, a + 4, Immediate(a, i))
      <4>1. exma'.branch
        BY <3>3, <3>5 DEF Predicts
      <4> QED
        BY <1>1, <1>6, <2>1, <3>1, <3>5, <4>1 DEF to
    <3>6. CASE /\ IsBranch(i.op) /\ nextPc = Immediate(a, i) + 4
               /\ pcUnit.kind = "History" /\ ifid.pc = Immediate(a, i)
      <4>1. to = Immediate(a, i)
        BY <1>6, <3>3, <3>6
      <4>2. NextInstruction(program, nextPc) = NextInstruction(program, to)
        <5>1. InstructionAt(program, to) = Nop /\ to \in Nat /\ IsProgram(program)
          BY <1>1, <3>6, <4>1, RoomKept
             DEF FlightInOrder, FetchInOrder, StallTypeOK, TypeOK
        <5> QED
          BY <3>6, <4>1, <5>1, NextInstructionSkips
      <4> QED
        BY <1>1, <2>1, <3>1, <4>2 DEF to
    <3> QED
      BY <1>1, <1>2, <2>4, <3>4, <3>5, <3>6
         DEF FlightInOrder, FetchInOrder, DecodeFollows
  <2> QED
    BY <2>2, <2>3, <2>4
<1> QED
  BY <1>1, <1>8, <1>9, CycleTurns DEF FlightInOrder, FetchInOrder

(* The oldest instruction is the next to come out of decode, once the one  *)
(* in exma has happened.                                                   *)
LEMMA CycleLeads ==
  ASSUME FlightInOrder, Cycle
  PROVE  OldestPc(ResumePc)' = OnwardFromDecode
<1>1. exma'.valid = idex.valid /\ exma'.pc = idex.pc
  BY ExecuteLatch DEF FlightInOrder, FetchInOrder
<1>2. CASE idex.valid
  BY <1>1, <1>2 DEF OldestPc, OnwardFromDecode
<1>3. CASE ~idex.valid
  <2>1. HeldBack \/ SleepsOn \/ FetchesOn \/ TurnsInDecode
    BY <1>3, CycleTurns DEF FlightInOrder, FetchInOrder, TurnsInExecute
  <2>2. OldestPc(ResumePc)' = OnwardFromDecode'
    BY <1>1, <1>3 DEF OldestPc, OnwardFromDecode, OnwardFromFetch
  <2> QED
    BY <1>3, <2>1, <2>2, DecodeGoesOn DEF OnwardFromDecode
<1> QED
  BY <1>2, <1>3

(* When the oldest instruction has been executed it happens: its results   *)
(* are those of the architecture.  Otherwise nothing happens in a cycle.   *)
LEMMA CycleRefines ==
  ASSUME FlightInOrder, ExecutedCurrent, PathAhead, Cycle
  PROVE  [Arch!Next]_(Arch!vars)
<1>1. /\ program' = program
      /\ RetiredRegisters' = WriteBack(MemoryAccess(exma, memory), RetiredRegisters)
      /\ memory' = Stored(exma, memory)
      /\ OldestPc(ResumePc)' = OnwardFromDecode
  BY CycleFacts, CycleExecutes, CycleLeads
     DEF FlightInOrder, FetchInOrder, RetiredRegisters, SettledRegisters
<1>2. CASE ~exma.valid
  <2>1. ~RegWrite(exma.op) /\ ~MemWrite(exma.op)
    BY <1>2 DEF FlightInOrder, FetchInOrder, FetchLeads, SquashedIsInert
  <2>2. RetiredRegisters' = RetiredRegisters /\ memory' = memory
    BY <1>1, <2>1 DEF WriteBack, MemoryAccess, Stored
  <2>3. OldestPc(ResumePc) = OnwardFromDecode
    BY <1>2 DEF OldestPc, OnwardFromDecode, OnwardFromFetch
  <2> QED
    BY <1>1, <2>2, <2>3 DEF Arch!vars
<1>3. CASE exma.valid
  <2> DEFINE a == exma.pc
             i == InstructionAt(program, a)
             s == RetiredRegisters[i.rs]
             t == RetiredRegisters[i.rt]
             v == AluValue(i.op, a, Immediate(a, i), s, t)
  <2>1. /\ a \in Nat /\ i \in Instruction
        /\ exma.op = i.op /\ exma.writeReg = WriteRegister(i.op, i)
        /\ exma.aluValue = v /\ exma.readData2 = t
    <3>1. /\ i # Nop /\ exma.op = i.op /\ exma.writeReg = WriteRegister(i.op, i)
      BY <1>3 DEF FlightInOrder, FetchInOrder, LatchesCarry
    <3>2. i \in Instruction /\ a \in Nat
      BY <3>1, ConventionsKept DEF FlightInOrder, FetchInOrder, StallTypeOK, TypeOK, ExecutionResult
    <3> QED
      BY <1>3, <3>1, <3>2 DEF ExecutedCurrent
  <2>2. s \in Word /\ t \in Word
    <3>1. RetiredRegisters \in [Register -> Word]
      BY WriteBackType DEF FlightInOrder, FetchInOrder, StallTypeOK, TypeOK, RetiredRegisters
    <3> QED
      BY <2>1, <3>1 DEF Instruction
  <2>3. OnwardFromDecode = NextInstruction(program, Arch!Successor(i, a, s, t))
    BY <1>3 DEF PathAhead
  <2>4. OldestPc(ResumePc) = a
    BY <1>3 DEF OldestPc
  <2>5. Arch!InstructionAt(program, a) = i
    BY SamePrograms
  <2>6. Arch!Defines(i) => (IF MemRead(i.op) THEN ReadWord(memory, v) ELSE v)
                             = Arch!Result(i, a, s, t, memory)
    BY <2>1, <2>2, ResultsAgree
  <2>7. i.op = "SW" => v = Wrap(s + i.imm)
    BY DEF AluValue, Operate, AluSrc, RegDest, IsBranch, IsShift, Immediate, RType
  <2> HIDE DEF a, i, s, t, v
  <2>8. RetiredRegisters' = IF Arch!Defines(i)
                            THEN [RetiredRegisters EXCEPT ![Arch!Target(i)] =
                                    Arch!Result(i, a, s, t, memory)]
                            ELSE RetiredRegisters
    <3>1. RetiredRegisters' =
            IF RegWrite(i.op)
            THEN [RetiredRegisters EXCEPT ![WriteRegister(i.op, i)] =
                    IF MemRead(i.op) THEN ReadWord(memory, v) ELSE v]
            ELSE RetiredRegisters
      BY <1>1, <2>1 DEF WriteBack, MemoryAccess
    <3> QED
      BY <2>1, <2>6, <3>1, SignalsAgree
  <2>9. memory' = IF i.op = "SW" THEN Arch!WriteWord(memory, Arch!Wrap(s + i.imm), t)
                  ELSE memory
    BY <1>1, <2>1, <2>7, SignalsAgree, SameWords DEF Stored
  <2>10. OldestPc(ResumePc)' = Arch!NextInstruction(program, Arch!Successor(i, a, s, t))
    BY <1>1, <2>3, SamePrograms DEF i, s, t, a
  <2>11. Arch!Step
    BY <1>1, <2>1, <2>4, <2>5, <2>8, <2>9, <2>10 DEF Arch!Step, s, t
  <2> QED
    BY <2>11 DEF Arch!Next
<1> QED
  BY <1>2, <1>3
-----------------------------------------------------------------------------
(* The inductive invariant of a run of a conventional program.             *)
InOrder == FlightInOrder /\ ExecutedCurrent /\ PathAhead

(* A program that fits its unit, which starts with nothing buffered.       *)
FittingRun ==
  ConventionalRun /\ (pcUnit.kind = "History" => pcUnit.buffer = EmptyBuffer)

(* Nothing is in flight when a run starts ...                              *)
LEMMA InitialOrder == StallingInit /\ FittingRun => InOrder
<1> SUFFICES ASSUME StallingInit, FittingRun PROVE InOrder
  OBVIOUS
<1>1. /\ ~ifid.valid /\ ~idex.valid /\ ~exma.valid /\ ~mawb.valid
      /\ stall.count = 0 /\ LatchesCarry
  BY InitialLatches DEF StallingInit
<1>2. FetchLeads
  BY <1>1
     DEF StallingInit, Init, FetchLeads, SquashedIsInert, EmptyIdEx, EmptyExMa,
         EmptyMaWb, RegWrite, MemWrite
<1>3. BufferTrue
  <2>1. ResumePc = 0
    BY <1>1 DEF StallingInit, Init, ResumePc
  <2> QED
    BY <2>1, EmptyBufferHolds DEF FittingRun, BufferTrue
<1>4. FetchInOrder
  BY <1>1, <1>2, <1>3, InitialStall, SleepInitially
     DEF FittingRun, FetchInOrder, AsleepBehind, DecodeFollows
<1>5. FlightInOrder
  BY <1>1, <1>4
     DEF FlightInOrder, ExecuteFollows, MemoryFollows, NothingReadEarly, OperandsRead,
         WritersBooked, Writing
<1> QED
  BY <1>1, <1>5 DEF InOrder, ExecutedCurrent, PathAhead

(* ... and every cycle keeps the order.                                    *)
LEMMA StepOrder == InOrder /\ AlignedRun' /\ [Next]_vars => InOrder'
<1> SUFFICES ASSUME InOrder, AlignedRun', [Next]_vars PROVE InOrder'
  OBVIOUS
<1>1. StallTypeOK' /\ NothingWaitsAsleep'
  BY StepTypes, StepSleep DEF InOrder, FlightInOrder, FetchInOrder
<1>2. CASE Cycle
  <2>1. FlightInOrder /\ ExecutedCurrent
    BY DEF InOrder
  <2>2. ConventionalRun'
    BY <1>2, <2>1, CycleFacts DEF FlightInOrder, FetchInOrder, ConventionalRun
  <2>3. /\ AsleepBehind' /\ LatchesCarry' /\ FetchLeads' /\ BufferTrue'
        /\ DecodeFollows'
    BY <1>2, <2>1, CycleSleeps, StepCarries, CycleLeadsFetch, CycleBuffers,
       CycleDecodeFollows DEF FlightInOrder
  <2>4. ExecuteFollows' /\ MemoryFollows'
    BY <1>2, <2>1, CycleExecuteFollows, CycleMemoryFollows DEF FlightInOrder
  <2>5. NothingReadEarly' /\ OperandsRead'
    BY <1>2, <2>1, CycleReads DEF FlightInOrder
  <2>6. WritersBooked' /\ ExecutedCurrent' /\ PathAhead'
    BY <1>2, <2>1, CycleBooksWriters, CycleExecutes, CyclePath
  <2> QED
    BY <1>1, <2>2, <2>3, <2>4, <2>5, <2>6 DEF InOrder, FlightInOrder, FetchInOrder
<1>3. CASE UNCHANGED vars
  <2>1. /\ program' = program /\ pcUnit' = pcUnit /\ registers' = registers
        /\ memory' = memory /\ ifid' = ifid /\ idex' = idex /\ exma' = exma
        /\ mawb' = mawb /\ nextPc' = nextPc /\ isEnd' = isEnd
        /\ stall' = stall /\ scoreboard' = scoreboard
    BY <1>3 DEF vars, pipelineVars
  <2>2. RetiredRegisters' = RetiredRegisters /\ Ended' = Ended /\ ResumePc' = ResumePc
    BY <2>1 DEF RetiredRegisters, Ended, ResumePc
  <2>3. ConventionalRun' /\ AsleepBehind' /\ LatchesCarry' /\ DecodeFollows'
    BY <2>1, <2>2
       DEF InOrder, FlightInOrder, FetchInOrder, ConventionalRun, AsleepBehind,
           LatchesCarry, DecodeFollows
  <2>4. FetchLeads' /\ BufferTrue'
    BY <2>1, <2>2
       DEF InOrder, FlightInOrder, FetchInOrder, FetchLeads, SquashedIsInert, BufferTrue
  <2>5. ExecuteFollows' /\ MemoryFollows' /\ NothingReadEarly' /\ OperandsRead'
    BY <2>1, <2>2
       DEF InOrder, FlightInOrder, ExecuteFollows, MemoryFollows, NothingReadEarly,
           OperandsRead, ReadAt, Writing
  <2>6. WritersBooked'
    BY <2>1, <2>2
       DEF InOrder, FlightInOrder, WritersBooked, Writing, UnreadFromDecode,
           UnreadFromExecute, UnreadFromMemory, WillLeadTo, WillTurn, ReadAt
  <2>7. ExecutedCurrent' /\ PathAhead'
    BY <2>1, <2>2
       DEF InOrder, ExecutedCurrent, PathAhead, OnwardFromDecode, OnwardFromFetch
  <2> QED
    BY <1>1, <2>3, <2>4, <2>5, <2>6, <2>7 DEF InOrder, FlightInOrder, FetchInOrder
<1> QED
  BY <1>2, <1>3 DEF Next, Terminated

(* A program that fits its unit runs in order.                             *)
LEMMA RunsInOrder == Spec /\ FittingRun /\ []AlignedRun => []InOrder
BY InitialOrder, StepOrder, PTL DEF Spec

(* A conventional program fits the units that do not buffer targets ...    *)
Unbuffered == pcUnit.kind # "History"

LEMMA UnbufferedInOrder ==
  ASSUME \A unit \in Units : unit.kind # "History",
         \A text \in Programs : Conventional(text)
  PROVE  Spec => []InOrder
<1>1. StallingInit => FittingRun /\ Unbuffered
  BY DEF StallingInit, Init, FittingRun, ConventionalRun, Unbuffered
<1>2. Unbuffered => AlignedRun
  BY DEF Unbuffered, AlignedRun
<1>3. StallTypeOK /\ Unbuffered /\ [Next]_vars => Unbuffered'
  <2> SUFFICES ASSUME StallTypeOK, Unbuffered, [Next]_vars PROVE Unbuffered'
    OBVIOUS
  <2>1. CASE Cycle
    BY <2>1, CycleFacts DEF Unbuffered
  <2>2. CASE UNCHANGED vars
    BY <2>2 DEF vars, pipelineVars, Unbuffered
  <2> QED
    BY <2>1, <2>2 DEF Next, Terminated
<1> QED
  BY <1>1, <1>2, <1>3, RunsInOrder, TypeCorrect, PTL DEF Spec

(* ... and, where there is room between its branches and its returns lead  *)
(* to words, every unit as it is built.                                    *)
LEMMA BufferedInOrder ==
  ASSUME Units \subseteq EveryPcUnit,
         \A text \in Programs : Conventional(text) /\ Spaced(text)
  PROVE  Spec /\ []ReturnsAligned => []InOrder
<1>1. \A unit \in EveryPcUnit : unit.kind = "History" => unit.buffer = EmptyBuffer
  BY DEF EveryPcUnit, NoPrediction, StaticUnit, DynamicUnit, HistoryUnit
<1>2. StallingInit => FittingRun
  BY <1>1 DEF StallingInit, Init, FittingRun, ConventionalRun
<1>3. ReturnsAligned => AlignedRun
  BY DEF AlignedRun
<1> QED
  BY <1>2, <1>3, RunsInOrder, PTL DEF Spec

(* In order, whoever reads what is still to be written waits ...           *)
LEMMA OrderMakesReadersWait == InOrder => ReadersWait
<1> SUFFICES ASSUME InOrder, ifid.valid, NEW latch \in InFlight,
                    latch.writeReg \in {ifid.instruction.rs, ifid.instruction.rt}
             PROVE  HasHazard(Decode(ifid, registers))
  BY DEF ReadersWait
<1>1. latch \in {idex, exma, mawb} /\ Writing(latch, latch.writeReg)
  BY DEF InFlight, Writing
<1>2. latch.writeReg \in ReadAt(ifid.pc)
  BY DEF InOrder, FlightInOrder, FetchInOrder, LatchesCarry, ReadAt, Reads
<1> QED
  BY <1>1, <1>2, ReadersAreHeld DEF InOrder, FlightInOrder, FetchInOrder, Decoded

(* ... and what is read is current.                                        *)
LEMMA OrderKeepsOperands == InOrder => OperandsCurrent
BY ReadIsCurrent DEF InOrder, FlightInOrder, FetchInOrder, FetchLeads, OperandsCurrent

(* A run in order is a run of the architecture: it starts as one ...       *)
LEMMA StartsAsArchitecture == StallingInit => Arch!Init
<1> SUFFICES ASSUME StallingInit PROVE Arch!Init
  OBVIOUS
<1>1. OldestPc(ResumePc) = NextInstruction(program, 0)
  BY DEF StallingInit, Init, ResumePc, OldestPc, Ended, End, EmptyIfId, EmptyIdEx,
         EmptyExMa
<1>2. RetiredRegisters = InitialRegisters
  BY DEF StallingInit, Init, RetiredRegisters, WriteBack, EmptyMaWb, RegWrite
<1> QED
  BY <1>1, <1>2, ProgramsAssumption, SameWords, SamePrograms
     DEF StallingInit, Init, Arch!Init

(* ... and each of its steps is a step of it, or none.                     *)
LEMMA StepsAsArchitecture == InOrder /\ [Next]_vars => [Arch!Next]_(Arch!vars)
<1> SUFFICES ASSUME InOrder, [Next]_vars PROVE [Arch!Next]_(Arch!vars)
  OBVIOUS
<1>1. CASE Cycle
  BY <1>1, CycleRefines DEF InOrder
<1>2. CASE UNCHANGED vars
  BY <1>2 DEF vars, pipelineVars, Arch!vars, OldestPc, RetiredRegisters, Ended, ResumePc
<1> QED
  BY <1>1, <1>2 DEF Next, Terminated

(* An instruction that reads what one ahead of it will write is held back, *)
(* although a booking is only tagged with an address and a tight loop      *)
(* releases the bookings of its next turn: nothing in such a loop reads    *)
(* the register before it has been written.                                *)
THEOREM ReadersWaitAlways ==
  ASSUME \A unit \in Units : unit.kind # "History",
         \A text \in Programs : Conventional(text)
  PROVE  Spec => []ReadersWait
<1>1. Spec => []InOrder
  BY UnbufferedInOrder
<1> QED
  BY <1>1, OrderMakesReadersWait, PTL

(* What decode has read is what program order gives, for every program     *)
(* that keeps the conventions: no distance between a load and its use, or  *)
(* between a jump register and the instruction it waits for, is asked for. *)
THEOREM OperandsCurrentAlways ==
  ASSUME \A unit \in Units : unit.kind # "History",
         \A text \in Programs : Conventional(text)
  PROVE  Spec => []OperandsCurrent
<1>1. Spec => []InOrder
  BY UnbufferedInOrder
<1> QED
  BY <1>1, OrderKeepsOperands, PTL

(* StallingPipelineControlUnit implements the architecture: instructions   *)
(* take effect one at a time in program order, whatever was fetched ahead, *)
(* squashed, or thrown away and fetched again.                             *)
THEOREM ImplementsArchitecture ==
  ASSUME \A unit \in Units : unit.kind # "History",
         \A text \in Programs : Conventional(text)
  PROVE  Spec => TakesEffectInOrder
<1>1. Spec => []InOrder
  BY UnbufferedInOrder
<1> QED
  BY <1>1, StartsAsArchitecture, StepsAsArchitecture, PTL
     DEF Spec, TakesEffectInOrder, Arch!SafeSpec
-----------------------------------------------------------------------------
(* The mark of the end is set when the end is reached and moves on.        *)
LEMMA StepMark == InOrder /\ EndCarried /\ [Next]_vars => EndCarried'
<1> SUFFICES ASSUME InOrder, EndCarried, [Next]_vars PROVE EndCarried'
  OBVIOUS
<1>1. CASE Cycle
  <2>1. FetchInOrder /\ ~halted /\ FetchPc \in Int /\ TypeOK
    BY <1>1, CycleRunsStages
       DEF Cycle, MayCycle, InOrder, FlightInOrder, FetchInOrder, StallTypeOK
  <2>2. ~Ended => FetchPc >= 0
    <3>1. CASE stall.count = 2
      BY <2>1, <3>1, FetchPlace DEF FetchInOrder, AsleepBehind
    <3>2. CASE stall.count # 2
      BY <1>1, <2>1, <3>2, FetchPlace DEF FetchInOrder, Cycle, MayCycle, FetchPc
    <3> QED
      BY <3>1, <3>2
  <2>3. idex.valid /\ IsBranch(idex.op) => ~Ended
    BY <2>1, StagesHand DEF FetchInOrder, DecodeFollows, IsBranch, IsJump
  <2>4. PICK f \in FetchResult, d \in DecodeResult, e \in ExecutionResult :
          StagesRan(FetchPc, f, d, e)
    BY <1>1, <2>1, CycleRunsStages DEF FetchInOrder
  <2>5. pcUnit.kind = "History" /\ ~Ended /\ ifid' = f /\ idex' = d /\ exma' = e
          => nextPc' # End
    BY <1>1, <2>1, <2>4, BufferedCycle DEF StagesRan
  <2> QED
    BY <2>1, <2>2, <2>3, <2>4, <2>5, CycleMark
<1>2. CASE UNCHANGED vars
  BY <1>2 DEF vars, pipelineVars, EndCarried, Ended
<1> QED
  BY <1>1, <1>2 DEF Next, Terminated

(* The mark is nowhere while the end is not reached, and then on its way.  *)
LEMMA MarkIsNoticed ==
  /\ StallingInit => EndCarried
  /\ InOrder /\ EndCarried => EndIsNoticed
<1>1. StallingInit => EndCarried
  BY DEF StallingInit, Init, EndCarried, Ended, End
<1>2. ASSUME InOrder, EndCarried, OldestPc(ResumePc) = End
      PROVE  mawb.isEnd \/ halted
  <2>1. TypeOK /\ ResumePc \in Int
    BY <1>2, FetchPlace
       DEF InOrder, FlightInOrder, FetchInOrder, StallTypeOK, TypeOK, ResumePc
  <2>2. ~Ended => ResumePc # End
    BY <1>2, FetchPlace DEF InOrder, FlightInOrder, FetchInOrder, Ended, ResumePc, End
  <2> QED
    BY <1>2, <2>1, <2>2, OldestIsEnd DEF EndCarried
<1> QED
  BY <1>1, <1>2 DEF EndIsNoticed

(* process() leaves its loop in the cycle after the last instruction has   *)
(* happened: the mark that comes along with it is never lost on the way,   *)
(* nor overwritten by a branch that is resolved meanwhile.                 *)
THEOREM EndIsNoticedAlways ==
  ASSUME \A unit \in Units : unit.kind # "History",
         \A text \in Programs : Conventional(text)
  PROVE  Spec => []EndIsNoticed
<1>1. Spec => []InOrder
  BY UnbufferedInOrder
<1> QED
  BY <1>1, StepMark, MarkIsNoticed, PTL DEF Spec
-----------------------------------------------------------------------------
(* HistoryBufferedBranchPredictionPcUnit turns the fetch by what it has    *)
(* buffered before the branch is decoded, even in the cycle in which the   *)
(* instruction ahead of that branch is thrown away, or while nothing is    *)
(* fetched at all.  Where every branch leads to a no-op and no second      *)
(* branch is fetched before the first is resolved, instructions take       *)
(* effect in program order under it, too.                                  *)
THEOREM BufferedImplementsArchitecture ==
  ASSUME Units \subseteq EveryPcUnit,
         \A text \in Programs : Conventional(text) /\ Spaced(text)
  PROVE  Spec /\ []ReturnsAligned => TakesEffectInOrder
<1>1. Spec /\ []ReturnsAligned => []InOrder
  BY BufferedInOrder
<1> QED
  BY <1>1, StartsAsArchitecture, StepsAsArchitecture, PTL
     DEF Spec, TakesEffectInOrder, Arch!SafeSpec

(* There, too, readers wait although bookings are released too early,      *)
(* operands are current, every booking has a writer, nothing squashed or   *)
(* thrown away can still write, and the end is noticed in time.            *)
THEOREM BufferedRunsAreSound ==
  ASSUME Units \subseteq EveryPcUnit,
         \A text \in Programs : Conventional(text) /\ Spaced(text)
  PROVE  Spec /\ []ReturnsAligned =>
           [](/\ ReadersWait /\ OperandsCurrent /\ BookingsHaveWriters
              /\ SquashedIsInert /\ EndIsNoticed)
<1>1. Spec /\ []ReturnsAligned => []InOrder
  BY BufferedInOrder
<1>2. InOrder => /\ StallTypeOK /\ NothingWaitsAsleep /\ NothingBehindBranch
                 /\ SquashedIsInert
  BY DEF InOrder, FlightInOrder, FetchInOrder, FetchLeads, NothingBehindBranch
<1>3. StallingInit => BookingsHaveWriters
  BY DEF StallingInit, BookingsHaveWriters
<1> QED
  BY <1>1, <1>2, <1>3, OrderMakesReadersWait, OrderKeepsOperands, StepBookings,
     StepMark, MarkIsNoticed, PTL DEF Spec
=============================================================================
