-------------------------- MODULE WriteThroughCache --------------------------
(***************************************************************************)
(* WriteThroughSetAssociativeMappedCache: every write goes to the memory   *)
(* as well, so that nothing is lost when a line is replaced.               *)
(***************************************************************************)
EXTENDS AssociativeCache

vars == cacheVars

Init == CacheInit

(* read.                                                                   *)
ReadHit(a) ==
  /\ Hit(a)
  /\ reply' = Cached(a)
  /\ strategy' = Use(strategy, SetOf(a), IndexOf(a))
  /\ UNCHANGED <<memory, lines>>

ReadMiss(a) ==
  LET line == IndexOf(a)
  IN  /\ ~Hit(a)
      /\ \E c \in Candidates(line) :
           /\ strategy' = c.strategy
           /\ lines' = [lines EXCEPT ![c.set][line] =
                          Filled(memory, TagOf(a), line)]
      /\ reply' = Filled(memory, TagOf(a), line).datas[OffsetOf(a)]
      /\ UNCHANGED memory

Read(a) == call' = ReadCall(a) /\ (ReadHit(a) \/ ReadMiss(a))

(* write: the memory first, then the cache.                                *)
WriteHit(a, v) ==
  LET s == SetOf(a)
  IN  /\ Hit(a)
      /\ memory' = [memory EXCEPT ![a] = v]
      /\ strategy' = Use(strategy, s, IndexOf(a))
      /\ lines' = [lines EXCEPT ![s][IndexOf(a)].datas[OffsetOf(a)] = v]
      /\ reply' = NoReply

(* Mutation: the block is fetched, and the word forgotten.                 *)
WriteMissForgetting(a, v) ==
  LET line == IndexOf(a)
  IN  /\ ~Hit(a)
      /\ \E c \in Candidates(line) :
           /\ strategy' = c.strategy
           /\ lines' = [lines EXCEPT ![c.set][line] =
                          Filled(memory, TagOf(a), line)]
      /\ reply' = NoReply
      /\ UNCHANGED memory

(* Mutation: the block is fetched before the memory is written.            *)
WriteMissFetchingFirst(a, v) ==
  LET line == IndexOf(a)
  IN  /\ ~Hit(a)
      /\ \E c \in Candidates(line) :
           /\ strategy' = c.strategy
           /\ lines' = [lines EXCEPT ![c.set][line] =
                          Filled(memory, TagOf(a), line)]
      /\ memory' = [memory EXCEPT ![a] = v]
      /\ reply' = NoReply

(* On a miss the block is fetched with the word just written.              *)
WriteMiss(a, v) ==
  LET line == IndexOf(a)
  IN  /\ ~Hit(a)
      /\ memory' = [memory EXCEPT ![a] = v]
      /\ \E c \in Candidates(line) :
           /\ strategy' = c.strategy
           /\ lines' = [lines EXCEPT ![c.set][line] =
                          Filled(memory', TagOf(a), line)]
      /\ reply' = NoReply

Write(a, v) ==
  call' = WriteCall(a, v) /\ (WriteHit(a, v) \/ WriteMiss(a, v))

(* flushAll has nothing to do.                                             *)
FlushAll ==
  /\ call' = FlushCall
  /\ reply' = NoReply
  /\ UNCHANGED <<memory, lines, strategy>>

Next ==
  \/ \E a \in Used : Read(a) \/ \E v \in Value : Write(a, v)
  \/ FlushAll

Spec == Init /\ [][Next]_vars
-----------------------------------------------------------------------------
TypeOK == CacheTypeOK

(* Every line can be dropped: the memory has its words.                    *)
CachedIsCurrent ==
  \A s \in SetIndex, l \in LineIndex, o \in BlockOffset :
    lines[s][l].valid =>
      memory[AddressOf(lines[s][l].tag, l, o)] = lines[s][l].datas[o]

Coherent == OneCopy /\ CachedIsCurrent

(* The cache answers every call as the memory behind it, which has every   *)
(* word at once and not only after a flush: a write changes the word of    *)
(* that memory it names and no other, and a read of an address returns     *)
(* that memory's word, from whichever line.  The calls are those recorded  *)
(* in call.                                                                *)
Mem == INSTANCE WordMemory WITH
  InitialContents <- InitialMemory, contents <- memory, behind <- memory

ActsAsMemory == Mem!Spec
=============================================================================
