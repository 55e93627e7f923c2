# Verification of the MIPS processor simulator

The program (`src/`) simulates MIPS processors in Kotlin: a single-cycle control
unit, two pipelined ones that differ in how they deal with data hazards, a family
of program counter units that predict branches, a multi-program pipeline, and
caches. Every control unit takes a loaded memory and returns register 2 when the
program has ended. They are meant to be interchangeable: the same program must
give the same result on each. This project states that as refinement: one
abstract specification of the instruction set architecture, implemented by each
control unit.

## Inventory

| Component | State | Operations | What makes it correct |
|---|---|---|---|
| Instruction set: `Opcode`, `ControlSignal`, `ALUnit` | none | signals of an operation, ALU value | words keep their width; signals and ALU agree with the architecture |
| Decoding: `Opcode.of`, `DecodeUnit` | none | fields, immediate, jump address, branch target | a compiled program computes what its source says |
| `Registers`, `Memory` | 32 words; bytes | read, write, load | last write is read, whole words, whatever their signs |
| `SingleCycleControlUnit` | pc, registers, memory | `cycleExecution`, `process` | implements the architecture, stops at -1 only |
| Stages and `Latches`: `SingleProcessingPipelineControlUnit` | four latches, `isEnd` | `fetch` ... `writeBack`, `flushAll`, `process` | squashed instructions have no effect; the loop ends, and only when everything has retired |
| `ForwardingPipelineControlUnit`, `ForwardingUnit` | (latches) | `cycleExecution`, `forward` | operands of execute are current; program order |
| `StallingPipelineControlUnit`, `StallUnit`, `DataDependencyUnit`, `Scoreboard` | count, frozen pc, melting, valid; valid and tag per register | `cycleExecution`, `next`, `sleep`, `book`, `release`, `hasHazard` | readers wait, nobody waits for ever, no hazard is dropped; program order |
| Program counter units: None, Static, Dynamic, HistoryBuffered (two-level local and global) | predictor state | `findNext` | a misprediction is undone; the end is marked on the right instruction |
| Predictors: strategies, bit state machines, `BranchTargetBuffer`, history and pattern registers | state machine, buffer lines, histories | `predictAsTaken`, `taken`, `update`, `isHit`, `targetAddress` | a hit is a hit of the same branch; predictions never change results |
| `MultiProcessingPipelineControlUnit`, `SchedulingUnit` | registers per program, latches, program infos | `cycleExecution`, `next`, `update`, `isAllEnd` | every program runs as if alone; none starves; the loop ends with the last |
| Caches: write-back and write-through, direct, set and fully associative | lines, dirty bits | `read`, `write`, `memoryFetch`, `flushAll` | reads return the last write; after `flushAll` the memory is up to date |
| Replacement: FIFO, Random, SecondChance, LRU | last used, chances, use order | `use`, `nextVictim` | a victim is a set; the policy is the one it is named after |
| Programs under `sample/` | (their machine code) | loaded and run | the processor computes what the C function returns |
| `Logger`, formatting, `MainApplication` | counters | printing | nothing else reads them |

How they interact. A control unit calls its stages in an order of its own inside
`cycleExecution`; each stage reads the output of one latch and stores into the
next, and nothing becomes visible before `flushAll` at the end of the cycle. The
program counter unit is a callback at the end of a cycle: it sees what fetch,
decode and execute produced, returns the next address, and reaches back into
those three results to squash (`valid = false`) and to mark the end
(`controlSignal.isEnd = true`). Decoding and execution consult the scoreboard,
the stall unit and the forwarding unit. Everything goes to memory through a
cache. There are no threads. The hard behaviours are those of a pipeline: five
instructions in flight on the same registers, results squashed after the fact,
instructions thrown away and fetched again, speculation on state learnt
earlier, and an end condition that has to travel with an instruction.

The list of hazards with their lines is in `PROJECT.json`.

## Modules

| Module | Models |
|---|---|
| `Isa` | operations, signals, ALU, initial registers, memory words; the address of the next instruction that is not a no-op |
| `Architecture` | the abstract specification: one instruction takes effect per step, in program order; written from what the operations mean, not from the signals |
| `SingleCycle` | `SingleCycleControlUnit` |
| `Stages` | the five stages as operators from one latch to the next |
| `BranchPrediction` | strategies, state machines, target buffer, histories |
| `PcUnits` | `findNext` of every program counter unit |
| `PipelineControlUnit` | the abstract class `SingleProcessingPipelineControlUnit`: its state, the main loop, the end of a cycle |
| `ForwardingPipeline` | extends it as the Kotlin class does: forwarding, `cycleExecution` |
| `StallingPipeline` | extends it: stall unit, scoreboard, `cycleExecution` |
| `SchedulingUnit` | the round robin: `next`, `update`, `isAllEnd` |
| `MultiProcessing` | `MultiProcessingPipelineControlUnit` on a scheduling unit: its own five stages, registers per program, a memory per program or a shared one |
| `CacheCalls` | `ICache`: the calls of a cache as records, which `WordMemory` and the caches keep in the variable `call` |
| `WordMemory` | the abstract specification of a cache, call by call: a read returns what was last written to the address it names, a write changes the word it names, the memory behind catches up, `flushAll` leaves it up to date |
| `Replacement` | the four strategies: `use`, `nextVictim` |
| `AssociativeCache` | `AbstractAssociativeMappedCache`: lines, tags, the set that is filled; a direct mapped cache has one set, a fully associative one has one line |
| `WriteBackCache`, `WriteThroughCache` | the write policies: `read`, `write`, `memoryFetch`, `flushAll` |
| `CacheHistory` | the write-through cache with history variables for what the strategies promise |
| `MachineCode` | `Memory.load`, `Opcode.of`, `ParsedInstruction`: from the bytes of a file to instructions |
| `ByteMemory` | `Memory.read` and `write` on signed bytes |
| `Samples` | the C programs under `sample/` with their machine code, run by `SingleCycle` |
| `Conventions` | what the programs keep (below): it filters the programs of the runs and is the hypothesis of the theorems |
| `MCPrograms`, `MC...` | programs, words, sizes and addresses for TLC |
| `IsaTheorems` | lemmas about words, the ALU and program texts; the theorem that a byte memory holds words |
| `SingleCycleTheorems` | the theorems about the single-cycle unit, and about loading and decoding |
| `PipelineTheorems` | lemmas about the stages and `findNext`, and what a cycle preserves whichever way hazards are met |
| `ForwardingTheorems`, `StallingTheorems` | the theorems about the two pipelines |
| `MultiProcessingTheorems`, `WriteBackTheorems`, `WriteThroughTheorems` | the theorems about the multi-program pipeline and the two caches |

How they compose. The control units use a memory through `read` and `write` of
whole words only, and are modelled on a map from word addresses to words. A
cache of either write policy is proved to answer every call as that map does,
`WordMemory` (what is compared is the call that was made, with its address and
value, the reply, the map and the memory behind), and `IsaTheorems` that
`Memory.kt` (`ByteMemory`) holds it in bytes, for every size, address and 32-bit
word. What a control unit does on a map it therefore does on any of the caches.

One action is one cycle. Inside a cycle the code is sequential and its effects
on the latches become visible at the flush, so nothing can come between; what
interleaves is the instructions in flight, and the latches hold those. The order
of the calls inside a cycle is in the models where it matters: the forwarding
unit decodes from the registers after `writeBack`, the stalling unit before it,
and the stalling unit books before it releases and asks for hazards before both.

An instruction is a record of its decoded fields, with one `imm` for the one
operand its operation uses. A latch is a record of the fields later stages read;
`op` stands for the control signals it carries, `"NONE"` for
`ControlSignal.NONE`. The flag `isEnd` lives in the control signal object, which
later latches share; the models copy it along. The no-op word 0 is fetched as an
invalid result, as in the code; only the multi-program unit fetches it like any
other. Words outside `DataAddress` read as zero.

In the caches one action is one call: nothing interrupts a call, and the whole
of it (spilling the victim, fetching the block, the strategy's records) is in
the action. A word is one value, a block a sequence of `BlockSize` of them, and
tag, line and offset are cut from the address with the same divisions as in the
code, on sizes that need not be powers of two. The variable `call` records
what was asked, so that a lost write, a reply with another address's word or a
flush that does nothing is not taken for some other call; it is nothing the code
has and restricts nothing. `Random` may choose any set, so
that it covers every strategy as far as coherence goes.

A program counter unit is a record of its kind and of what it has learnt;
`FindNext` returns the address, the three latches as it leaves them and the
unit's new state. The unit is a variable of the pipeline, so a run covers every
unit of `Units` at once.

### Refinement

`Arch` in each control unit is `Architecture` with a mapping. The single-cycle
unit maps its own state; only no-ops are stutters. A pipeline maps the registers
to what they are once `maWb` is written back, the memory to itself (a store acts
when it leaves `exMa`), and pc to the oldest instruction that has not reached
that point: the valid one in `exMa`, else in `idEx`, else in `ifId`, else where
the fetch will resume, which is the frozen address while the stall unit sleeps.
An instruction therefore takes effect in the cycle in which it leaves `exMa`,
and a squash, a stall or a wrong prediction must be a stutter.
`TakesEffectInOrder` is the safety part of `Architecture`, `NeverStopsShort` its
fairness: whenever an instruction is due, one eventually takes effect.

The multi-program pipeline has one such mapping per program, `Arch(p)`: its
registers are those of `p` with its instruction in `maWb` written back, and its
pc is where `maWb` or the scheduling unit says it goes on. `AsIfAlone` says that
every step of the pipeline is a step or a stutter of each program. Programs that
share a memory are stated for the first of them, whose stores are the ones that
change it; `CopiesStayInStep` says of the others that they do what it does, one
cycle later each.

### Conventions the programs keep

The processor expects MIPS I code as a compiler emits it. The programs of the
runs are exactly those, out of each family, that keep these rules:

- C1 a branch or jump is followed by a no-op (its delay slot), and leads into the text;
- C2 the instruction after a load does not use what was loaded;
- C3 the source of a jump register was not written by one of the two instructions ahead of it;
- C4 register 0 is never a destination;
- C5 instructions are at addresses of words, every branch leads to a no-op, and there is
  no branch two slots behind another or one behind its target.

The stalling pipeline needs C1 and C4 (`Conventional`), the forwarding one the
first four (`Compiled`). C2 is a limit of any such pipeline; C3 is a finding,
below. C5 (`Spaced`) is what both pipelines need in addition under the history
units, which turn the fetch before the branch has been decoded.

## Runs

Programs are enumerated: every sequence of up to three instructions that depend
on each other through two registers and two data words, with a transfer behind
or between them to the start, the middle, itself or ahead; loops that run until
a register wraps around to zero; two transfers with work between them;
subroutine calls that return through register 31 or a saved copy. Words have
seven bits, so that overflow happens after four additions of 32, in programs
this short. A pipeline holds five instructions, and every effect the hazard
logic has reaches at most three instructions back, so sequences of three
dependent items with a transfer bring every pair of stages into contact. A run
has one program and one unit; `FittingSpec` leaves out of `Spec` the runs of a
history unit on a program without C5: two of the findings are about those.

| Run | Question | Bounds |
|---|---|---|
| `single_cycle` | does the single-cycle unit implement the architecture, and go on until -1? do the compiled samples, loaded and decoded from their machine code, compute what their C functions return and give back the stack? | all conventional programs of up to three items; `simple`, `simple2` to `4`, `gcd`, `fib` and `input4` for small arguments, the sort with every permutation of three elements and every array of ones and twos; ten-bit words, which the stack and the longest text need; buffers of 64 bytes, so that a file takes several reads and ends in the middle of one |
| `forwarding` | the same for the forwarding pipeline with the None, Static (three strategies), Dynamic (three machines) and two-level history units (two scopes); are operands current, are squashed instructions inert, is the pipeline drained when the loop is left, is the end noticed? | all compiled programs of the families, and nested loops of sixteen rounds; under the history units, which have four buffer lines and histories of two branches, so that lines are shared and histories wrap, those that keep C5 |
| `stalling` | the same for the stalling pipeline; do readers wait, does every booking have a writer, is no hazard dropped? | all conventional programs of the families, the nested loops, and short loops in which what was computed or loaded is read by the next instruction, by the branch and again behind it, so that buffer hits meet instructions held back; C5 under the history units as before |
| `multi_five` | does every program run as if alone, does none starve, does the loop end with the last, do copies on one memory stay in step? | five programs, as many as it takes to fill the stages; three of them copies on one memory that load, add and store there, two on their own; every choice of a program that ends at once, a loop with loads and stores, a call, and a loop whose memory word grows with each execution |
| `write_back` | is every call answered as by the memory the cache stands for, whichever set a replacement chooses? is the memory complete and no line dirty after a flush? | two sets, two lines, blocks of two words, two values; three blocks compete for one line, so that the third replaces a set, and a fourth has the other line |
| `write_through` | is every call answered as by the memory behind, which has every word at once? do second chance and LRU keep what was hit while something else was not? | the same sizes, all four strategies |
| `forwarding_history` | violated: see findings | loops of sixteen rounds, the real sizes 16 and 16 |
| `stalling_history` | violated: see findings | the same |
| `forwarding_jump_register` | violated: see findings | one program |
| `multi_four` | violated: see findings | four programs |
| `replacement_lru` | violated: see findings | three sets, four blocks on one line |

Deadlock is checked in all of them: a cycle is always possible until the loop is
left, that is, nothing is ever read at an address that raises; a call to a cache
is always possible, that is, a victim is always found.

Fairness is weak fairness of the cycle: `process()` is a loop that runs the next
cycle as soon as the last one is done, and nothing else can stop it. It is the
same for the multi-program unit, where one cycle serves all programs and that
none is left out is the scheduling unit's doing, to be shown and not assumed. The
caches have no fairness: whether and when they are called is the caller's.

What each property would catch is shown by a mutation of one definition under
which TLC finds it violated; the mutated forms stand before the definitions they
replace, marked `Mutation`.

## Findings

- **History units and squashing** (`forwarding_history`). A squash clears
  `valid` and leaves the control signals, and `memoryAccess` and `writeBack`
  look at the signals only. With the other units this is harmless, because the
  word in decode when a branch is resolved is a delay slot or was squashed
  before decode. A buffer hit leaves no such gap: the branch target is
  in decode when the branch turns out not to be taken, and its write takes
  effect. A hit also returns before a branch in execute or a jump in decode is
  looked at. It shows in 79 cycles on a loop of four instructions, with the unit
  `MainApplication` uses. C5 is what saves compiled programs: no-ops at the
  branch targets, and no branch where its hit would hide another branch in
  execute, two slots behind that one or one behind its target
  (`BufferedImplementsArchitecture` below).
- **Stalling with history units** (`stalling_history`). An instruction squashed
  after decode has already booked its register, and `release` ignores results
  that are not valid: the register is never settled and its next reader is
  thrown away and fetched again for ever. The README of the program gives this
  combination as an example. Here, too, C5 is what saves a program
  (the run `stalling`, and `BufferedImplementsArchitecture` of
  `StallingTheorems`).
- **Jump registers and forwarding** (`forwarding_jump_register`). Forwarding
  patches the operands of execute; a jump register uses its operand in decode.
- **Fewer than five programs** (`multi_four`). A program is fetched again from
  the address its last write back left, although its previous instruction has
  not been written back: the instruction takes effect twice. The program's tests
  run three programs on this unit.
- **LRU does not count fills** (`replacement_lru`). Only hits are recorded as
  uses, so a set that was just filled is the next to be replaced, before sets
  used longer ago.

Two remarks that are no findings. The `FIFO` strategy keeps one hand for all lines
instead of one per line, so that the set it replaces need not be the oldest of
its line; nothing in the repository promises more than it does. And in a loop of
no more than three slots a register booked by an instruction can be released by
the same instruction of the round before, the tag of a booking being an address;
it is harmless because no instruction of so short a loop reads the register in
between (`ReadersWaitAlways` proves it).

The flaw of the first two findings is one fact, `SquashedIsInert` or
`BookingsHaveWriters`, that holds of every other unit on any program with no-ops
behind its branches, and of the history units on programs that keep C5.

## Proofs

TLAPS checks, for every word width, register set, data memory, program and (where
it applies) predictor size:

- `SingleCycleTheorems!TypeCorrect`: `Spec => []TypeOK`. `TypeOK` is inductive;
  the step rests on `IsaTheorems`, where wrapping is shown to give words and the
  ALU to compute words from words.
- `SingleCycleTheorems!ImplementsArchitecture`: `Spec => TakesEffectInOrder`. A
  cycle of an instruction is an architectural step because the signals select
  what the architecture defines (`SignalsAgree`), the ALU and the memory stage
  compute its result (`ResultsAgree`) and the muxes of execute choose its
  successor (`AddressesAgree`); a cycle of a no-op leaves no trace because
  shifting by zero is the identity and `NextInstructionSkips`.
- `ForwardingTheorems!TypeCorrect` and `StallingTheorems!TypeCorrect`: the same
  for the pipelines, with every program counter unit. `FindNextType` shows that
  each unit returns what the latches hold and learns within its tables.
- `DrainedAtTheEnd` in both: `Spec => []HaltedWhenDrained`, with every unit. The
  invariant `EndTravels` says of each latch that carries the mark of the end
  that nothing valid is behind it and nothing is fetched any more; the mark may
  still be taken back by the branch that carries it.
- `SquashesLeaveNoTrace` in both: `Spec => []SquashedIsInert`, if no unit buffers
  targets and a no-op follows every branch. `SquashedIsInert` alone is not
  inductive: the signals of a squashed instruction stay up. `NothingShadowed`
  adds that nothing valid is in `ifId` while a valid branch is in `idEx`, which
  needs that the fetch runs on sequentially behind a branch (`FindNextOutcome`;
  a buffer hit breaks exactly this) and that what it meets there is a no-op.
- `StallingTheorems!EveryHazardIsHeld`: `Spec => []NoHazardIsDropped`, with every
  unit. `NothingWaitsAsleep` is the invariant: the unit is valid exactly when its
  count is zero, and while it counts nothing valid is in decode.
- `StallingTheorems!NoBookingIsOrphaned`: `Spec => []BookingsHaveWriters`, under
  the conditions of `SquashesLeaveNoTrace`. A booking is made by the instruction
  that goes on to `idEx`, which `NothingShadowed` protects from being squashed
  there; the one that leaves `maWb` releases what still carries its address.

The findings show that the two hypotheses are needed: with a history unit both
properties fail, unless a program keeps C5 (below).

For compiled programs (`Compiled`, all four conventions) and units that do not
buffer targets:

- `ForwardingTheorems!OperandsCurrentAlways`: `Spec => []OperandsCurrent`,
  `ImplementsArchitecture`: `Spec => TakesEffectInOrder`, and
  `EndIsNoticedAlways`: `Spec => []EndIsNoticed`. The invariant is `InOrder`:
  what a latch carries is the instruction at its address (`LatchesCarry`);
  neighbours in the latches are neighbours in the program, unless something in
  between was squashed (`FetchFollows`); decode read the register file
  (`OperandsRead`), execute computed on the operands program order gives
  (`ExecutedCurrent`); and what will come out of decode next is on the path of
  the instruction in `exMa` (`PathAhead`). Forwarding is right because at most
  two results are in flight ahead of execute and the younger wins; C2 excludes
  the load among them, C3 the jump in decode. A wrong path is always cut
  before execute because a branch in execute has a gap behind it
  (`FetchLeads`). The mark of the end (`EndCarried`) is on the youngest
  valid instruction once fetch has stopped, so that the cycle that retires it
  leaves the loop.

The same invariant carries the history units, for programs that keep C5 as well:

- `ForwardingTheorems!BufferedImplementsArchitecture`: `Spec /\ []ReturnsAligned =>
  TakesEffectInOrder`, and `BufferedRunsAreSound`: `Spec /\ []ReturnsAligned =>
  [](OperandsCurrent /\ SquashedIsInert /\ EndIsNoticed)`, for units of any kind as
  the program builds them (`EveryPcUnit`). `BufferTrue` is the invariant of the
  target buffer: each of its lines in use holds the target of a branch of the
  program under that branch's tag, and line and tag together tell words apart
  (`LineAndTagOfWord`), so that a hit is never another branch's although lines are
  shared. `HitIsPredicted` is where C5 is needed: in a cycle with a hit nothing in
  decode is a jump and nothing in execute a branch, so that what findNext does not
  look at then is not there. `FetchLeads` and `FetchFollows` have one case more, the
  fetch that went to the target while its branch was fetched; the word it finds is
  a no-op, and the latch keeps its address, by which the branch in execute knows
  that it was predicted taken. Nothing is assumed about which pattern predicts
  what: a wrong prediction, either way, costs cycles and no results.

`ReturnsAligned` is a condition on the run and not on the text: a jump register
leads to the address of a word or to -1. It cannot be dropped, for the buffer is
looked up with word numbers: from an address that is no word's, where there is
nothing to execute, a hit would lead back into the program. Calls that return
through the link register keep it, those of the families too.

For conventional programs (`Conventional`: C1 and C4; nothing is asked of the
distance between a load or the source of a jump register and its use) and units
that do not buffer targets:

- `StallingTheorems!ReadersWaitAlways`: `Spec => []ReadersWait`,
  `OperandsCurrentAlways`: `Spec => []OperandsCurrent`, `ImplementsArchitecture`:
  `Spec => TakesEffectInOrder`, and `EndIsNoticedAlways`: `Spec => []EndIsNoticed`.
  A cycle ends in one of five ways (`CycleTurns`): the instruction in decode is held
  back, the unit sleeps on, the fetch goes on, or a transfer in decode or in execute
  turns it. The core of the invariant is `WritersBooked`: the youngest writer of a
  register is the one that booked it last, so that a reader in decode meets the
  booking, except that a booking is only tagged with an address: in a loop of two
  or three slots an instruction books a register in or just before the cycle in
  which its previous turn, whose tag is the same, releases it. Until the register is written
  nothing that can be fetched reads it (`UnreadFromDecode`, `UnreadFromExecute`,
  `UnreadFromMemory`): everything in such a loop is in flight already, and has been
  seen not to read it (`BookedAfresh`, `ReleasedAhead`, `StaysUnread`, with the
  distances of `DecodeFollows`, `ExecuteFollows` and `MemoryFollows`). From there
  the proof is that of the forwarding pipeline, with the frozen address in the place
  of the fetch address while the unit sleeps.

The same invariant carries the history units here, too, for programs that keep C5:

- `StallingTheorems!BufferedImplementsArchitecture`: `Spec /\ []ReturnsAligned =>
  TakesEffectInOrder`, and `BufferedRunsAreSound`: `Spec /\ []ReturnsAligned =>
  [](ReadersWait /\ OperandsCurrent /\ BookingsHaveWriters /\ SquashedIsInert /\
  EndIsNoticed)`, for units of any kind as the program builds them. What differs from
  forwarding is that the unit is asked in every cycle, also when the fetch has just
  been thrown away and while nothing is fetched. In these cycles an address is frozen
  and nothing valid is in decode, so that what a hit chooses is not kept (`HeldBack`,
  `SleepsOn`, `AsleepBehind`). Otherwise a hit is one more way for the fetch to go on
  (`LedByBuffer`): the target, a no-op, is fetched before its branch has been decoded
  and what follows it while the branch is in execute, which is one more case of
  `FetchLeads`, `DecodeFollows` and `ExecuteFollows`. No booking is orphaned because
  nothing valid is in decode when a branch in execute is resolved
  (`NothingBehindBranch`). A booking released too early is harmless here as well, but
  the reason has an exception more: what the fetch would read next may read the
  register if a taken branch, of which the buffer did not know, turns the fetch in the
  same cycle (`WillTurn`).

For the other components:

- `MultiProcessingTheorems!DifferentProgramsAlways`: with five programs or more,
  `Spec => []StagesHoldDifferentPrograms`. The invariant `InTurn` counts back from
  the program fetched last. It needs that nobody is ever taken out of the round
  (`EverybodyKeepsTheirTurn`): `update` retires a program only when four others
  are retired already (`SchedulingUnit.kt:36`), so that nobody is the first.
- `MultiProcessingTheorems!CopiesStayInStepAlways`: with five programs or more,
  `Spec => []CopiesStayInStep`. `CopiesStayInStep` alone says nothing of the
  copies' registers and addresses. The invariant `CopiesInStep` does: from how many
  turns ago a program was fetched (`Age`) follows the latch its instruction is in;
  the copy before it has the same one a latch further on, and their registers and
  addresses agree except in the cycle between the two write backs.
- `MultiProcessingTheorems!RunsAsIfAlone`: with five programs or more on memories
  of their own or in rows of copies (`CopiesAreNeighbours`), `Spec => AsIfAlone`.
  Besides the turns it needs that what was read on the way is still so when it is
  written back (`UpToDate`), which it is because the program's next instruction is
  not yet fetched, and because whoever else stores to its memory is a copy that
  stores what the memory already holds (`StoresRepeat`, from `CopiesInStep`).
- `WriteBackTheorems!CoherentAlways`, `Implementation` and `FlushesLeaveNothing`:
  `Spec => []Coherent`, `Spec => ActsAsMemory`, `Spec => []FlushedIsClean`, for every
  size, strategy, set of addresses and sequence of calls. `TypeOK /\ Coherent` is
  inductive. A call of the cache is shown to be the same call of `WordMemory`, with
  the same arguments (`ReadKeepsInv`, `WriteKeepsInv`, `FlushKeepsInv`).
  The core is `Filling`: after a victim was spilled under its own tag and the block fetched, every address reads
  as before; it rests on the decomposition of an address into tag, line and
  offset (`AddressParts`, `PartsOfAddress`) and on a victim being a set
  (`VictimIsSet`, for which the hand of second chance must stop).
- `WriteThroughTheorems!CoherentAlways` and `Implementation`: the same for the other
  write policy, where coherence is that every line agrees with the memory, and the
  words are those of the memory itself: it has every write at once, and a read
  returns its word from whichever line. A read
  fills a line with what the memory holds (`Fetching`), a write updates both
  (`Updating`) or the memory alone before the line is fetched from it.
- `WriteThroughTheorems!HitsAreKept`: `HistorySpec => RecentHitsAreKept` for a line
  of any number of sets. For second chance the invariant (`HistoryInv`) is that
  every set hit since the line's last replacement has a chance and no set that was
  filled and not hit has one; for LRU that the sets hit since then are the last
  of the use order. Both start from strategies that have seen no hit
  (`FreshStrategies`), as those of the code do.
- `IsaTheorems!MemoryHoldsWords`: what is read from four bytes is the word last
  written there, for every 32-bit word, size and pair of addresses.
- `SingleCycleTheorems!LoadedWords`: `Memory.load` puts every word of a file in its
  place, by arithmetic over the number of buffers read. Behind the end of the file
  it is exact about what `inputStream.read` leaves in the buffer: zeros if the file
  fits one buffer, the words of the buffer before if it does not. Of a word in
  the middle of which the file ends it says nothing.
- `SingleCycleTheorems!DecodingLosesNothing`: if two words decode to the same
  instruction they are equal, but for the shift amount of an operation that does
  not shift. It rests on all pairs of operations having different codes
  (`OpcodeIsUnique`) and on each field being recovered from its operand
  (`UpperFields`, `LowerFields`), signs included.
- `SingleCycleTheorems!LoadedFilesArePrograms`: for every file of bytes, what is
  loaded and decoded is a program in the sense of `ProgramsAssumption`, the
  hypothesis of all theorems about control units.

Assumptions: `IsaAssumption` (words are a two's complement range that holds the
constants the code uses, OR and shift give words, shifting by zero changes
nothing), `ProgramsAssumption` (programs map addresses to instructions),
`UnitsAssumption` (runs start with units in one of their states),
`PredictionAssumption` (a history indexes the pattern table), `SizeAssumption`
and `SizesAssumption` (there is a program, a set, a line, a word),
`MemoryAssumption` and `CacheAssumption` (memories and initial contents exist),
`BufferAssumption` (a buffer is a number of words),
all evaluated by TLC on the instances. No theorem assumes anything about how fast
cycles follow each other; fairness is only used by the runs.

Model-checked only: what the samples compute, and everything about liveness
(`NeverStopsShort`, `NobodyStarves`, `EndsWithTheLast`), which is out of the
prover's reach. The findings are runs.

## Not modelled

- `Logger` and formatting: output and counters only. `MainApplication` builds one
  control unit and prints its result.
- What raises: an unknown word, also on a wrong path, and an address outside the
  memory array. Programs stay inside, and decode to known operations.
- The 10000 elements of `sample/input_data.h`: the sort of `input4.c` is run on
  arrays of three elements, as the same program compiled for that size. Those are
  stored as `input4.mips.asm` stores its first ones (from line 14 on); the longer
  code it uses for the elements out of reach of a 16-bit offset is left out.
- How good a prediction is: a wrong one costs cycles and never a result.

## Plan

Done: the architecture and the three single-program control units with all
program counter units; the multi-program unit; memory, caches and replacement;
loading and decoding; the theorems above.

Left: the predictors against reference definitions, with the quality of a
prediction as the property. The repository says nothing of how often a unit
should be right, so the reference would have to come from elsewhere.
