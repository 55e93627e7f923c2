--------------------------- MODULE WriteBackCache ---------------------------
(***************************************************************************)
(* WriteBackSetAssociativeMappedCache: writes stay in the cache until the  *)
(* line is replaced or flushAll is called.  One action is one call.        *)
(***************************************************************************)
EXTENDS AssociativeCache

VARIABLE dirties   \* which lines differ from the memory

vars == <<cacheVars, dirties>>

Init ==
  /\ CacheInit
  /\ dirties = [s \in SetIndex |-> [l \in LineIndex |-> FALSE]]

(* updateDirties: the memory once a dirty line has been written to it.     *)
Spilled(s, line, tag) ==
  IF dirties[s][line]
  THEN [a \in Address |->
          IF IndexOf(a) = line /\ TagOf(a) = lines[s][line].tag
          THEN lines[s][line].datas[OffsetOf(a)] ELSE memory[a]]
  ELSE memory

(* The memory after memoryFetch; only a victim is written back.            *)
MemoryAfter(s, line, tag) ==
  IF Full(line) THEN Spilled(s, line, tag) ELSE memory

(* read.                                                                   *)
ReadHit(a) ==
  /\ Hit(a)
  /\ reply' = Cached(a)
  /\ strategy' = Use(strategy, SetOf(a), IndexOf(a))
  /\ UNCHANGED <<memory, lines, dirties>>

ReadMiss(a) ==
  LET line == IndexOf(a)
  IN  /\ ~Hit(a)
      /\ \E c \in Candidates(line) :
           /\ strategy' = c.strategy
           /\ memory' = MemoryAfter(c.set, line, TagOf(a))
           /\ lines' = [lines EXCEPT ![c.set][line] =
                          Filled(memory', TagOf(a), line)]
           /\ dirties' = [dirties EXCEPT ![c.set][line] = FALSE]
      /\ reply' = Filled(memory', TagOf(a), line).datas[OffsetOf(a)]

Read(a) == call' = ReadCall(a) /\ (ReadHit(a) \/ ReadMiss(a))

(* Mutation: a line is marked dirty when it is fetched only.               *)
WriteHitUnmarked(a, v) ==
  LET s == SetOf(a)
  IN  /\ Hit(a)
      /\ strategy' = Use(strategy, s, IndexOf(a))
      /\ lines' = [lines EXCEPT ![s][IndexOf(a)].datas[OffsetOf(a)] = v]
      /\ reply' = NoReply
      /\ UNCHANGED <<memory, dirties>>

(* write: a miss fetches the block first, for its other words.             *)
WriteHit(a, v) ==
  LET s == SetOf(a)
  IN  /\ Hit(a)
      /\ strategy' = Use(strategy, s, IndexOf(a))
      /\ lines' = [lines EXCEPT ![s][IndexOf(a)].datas[OffsetOf(a)] = v]
      /\ dirties' = [dirties EXCEPT ![s][IndexOf(a)] = TRUE]
      /\ reply' = NoReply
      /\ UNCHANGED memory

(* Mutation: the block is fetched, and the word forgotten.                 *)
WriteMissForgetting(a, v) ==
  LET line == IndexOf(a)
  IN  /\ ~Hit(a)
      /\ \E c \in Candidates(line) :
           /\ strategy' = c.strategy
           /\ memory' = MemoryAfter(c.set, line, TagOf(a))
           /\ lines' = [lines EXCEPT ![c.set][line] =
                          Filled(memory', TagOf(a), line)]
           /\ dirties' = [dirties EXCEPT ![c.set][line] = TRUE]
      /\ reply' = NoReply

WriteMiss(a, v) ==
  LET line == IndexOf(a)
  IN  /\ ~Hit(a)
      /\ \E c \in Candidates(line) :
           /\ strategy' = c.strategy
           /\ memory' = MemoryAfter(c.set, line, TagOf(a))
           /\ lines' = [lines EXCEPT ![c.set][line] =
                          [Filled(memory', TagOf(a), line) EXCEPT
                             !.datas[OffsetOf(a)] = v]]
           /\ dirties' = [dirties EXCEPT ![c.set][line] = TRUE]
      /\ reply' = NoReply

Write(a, v) ==
  call' = WriteCall(a, v) /\ (WriteHit(a, v) \/ WriteMiss(a, v))

(* The dirty lines flushAll writes to an address, whether valid or not.    *)
DirtySets(a) ==
  {s \in SetIndex : dirties[s][IndexOf(a)] /\ lines[s][IndexOf(a)].tag = TagOf(a)}

(* Mutation: flushAll is inherited from the write-through cache.           *)
FlushAllSkipped ==
  /\ call' = FlushCall
  /\ reply' = NoReply
  /\ UNCHANGED <<memory, lines, strategy, dirties>>

(* flushAll: set after set, so the last one would prevail.                 *)
FlushAll ==
  /\ call' = FlushCall
  /\ memory' = [a \in Address |->
                  IF DirtySets(a) = {} THEN memory[a]
                  ELSE LET s == CHOOSE s \in DirtySets(a) :
                                  \A q \in DirtySets(a) : q <= s
                       IN  lines[s][IndexOf(a)].datas[OffsetOf(a)]]
  /\ dirties' = [s \in SetIndex |-> [l \in LineIndex |-> FALSE]]
  /\ reply' = NoReply
  /\ UNCHANGED <<lines, strategy>>

Next ==
  \/ \E a \in Used : Read(a) \/ \E v \in Value : Write(a, v)
  \/ FlushAll

Spec == Init /\ [][Next]_vars
-----------------------------------------------------------------------------
TypeOK ==
  /\ CacheTypeOK
  /\ dirties \in [SetIndex -> [LineIndex -> BOOLEAN]]

(* A line that is not dirty can be dropped: the memory has its words.      *)
CleanIsCurrent ==
  \A s \in SetIndex, l \in LineIndex, o \in BlockOffset :
    lines[s][l].valid /\ ~dirties[s][l] =>
      memory[AddressOf(lines[s][l].tag, l, o)] = lines[s][l].datas[o]

(* flushAll does not ask whether a line is valid.                          *)
DirtyIsValid ==
  \A s \in SetIndex, l \in LineIndex : dirties[s][l] => lines[s][l].valid

Coherent == OneCopy /\ CleanIsCurrent /\ DirtyIsValid

(* After flushAll the memory has every word the processor sees, and no     *)
(* line is left to be written: a caller may read the memory itself.        *)
FlushedIsClean ==
  call = FlushCall =>
    /\ memory = Seen
    /\ \A s \in SetIndex, l \in LineIndex : ~dirties[s][l]

(* The cache answers every call as the memory it stands for: a read of an  *)
(* address returns what was last written to it, whatever was replaced in   *)
(* between; a write changes the word it names and no other; what is        *)
(* written back is never older than what the memory has; and flushAll      *)
(* leaves nothing behind.  The calls are those recorded in call.           *)
Mem == INSTANCE WordMemory WITH
  InitialContents <- InitialMemory, contents <- Seen, behind <- memory

ActsAsMemory == Mem!Spec
=============================================================================
