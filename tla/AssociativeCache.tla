-------------------------- MODULE AssociativeCache --------------------------
(***************************************************************************)
(* AbstractAssociativeMappedCache: the lines of a set associative cache,   *)
(* how addresses map to them, and what the write policies share.  A direct *)
(* mapped cache has one set, a fully associative one has one line.         *)
(***************************************************************************)
EXTENDS Replacement, CacheCalls

CONSTANTS
  TagSize,        \* tags, that is how many lines the memory spans
  Value,          \* the words
  InitialMemory,  \* the loaded memory
  Strategies,     \* the strategies a cache may be built with
  Used,           \* the addresses the processor uses
  NoReply         \* the reply of an operation that returns no word

(* Bytes to words to blocks to lines to tags.                              *)
BlockOf(address)   == (address \div 4) \div BlockSize
OffsetOf(address)  == (address \div 4) % BlockSize
IndexOf(address)   == BlockOf(address) % LineSize
TagOf(address)     == BlockOf(address) \div LineSize

AddressOf(tag, line, offset) ==
  ((tag * LineSize + line) * BlockSize + offset) * 4

Tag == 0 .. (TagSize - 1)

Address == {AddressOf(t, l, o) : t \in Tag, l \in LineIndex, o \in BlockOffset}

ASSUME CacheAssumption ==
  /\ TagSize \in Nat \ {0}
  /\ InitialMemory \in [Address -> Value]
  /\ Used \subseteq Address
  /\ Strategies \subseteq Strategy
  /\ 0 \in Value /\ NoReply \notin Value

VARIABLES
  memory,     \* the memory behind the cache
  lines,      \* lineSets
  strategy,
  call,       \* the last call and its arguments
  reply       \* what read returned

cacheVars == <<memory, lines, strategy, call, reply>>

CacheLine == [valid : BOOLEAN, tag : Tag, datas : [BlockOffset -> Value]]

EmptyLine == [valid |-> FALSE, tag |-> 0, datas |-> [o \in BlockOffset |-> 0]]

CacheInit ==
  /\ memory = InitialMemory
  /\ lines = [s \in SetIndex |-> [l \in LineIndex |-> EmptyLine]]
  /\ strategy \in Strategies
  /\ call = NoCall
  /\ reply = NoReply

Holds(s, line, tag) == lines[s][line].valid /\ lines[s][line].tag = tag

Hit(a) == \E s \in SetIndex : Holds(s, IndexOf(a), TagOf(a))

(* setIndex(): the first set that holds the address.                       *)
SetOf(a) ==
  CHOOSE s \in SetIndex :
    /\ Holds(s, IndexOf(a), TagOf(a))
    /\ \A q \in 0 .. (s - 1) : ~Holds(q, IndexOf(a), TagOf(a))

Cached(a) == lines[SetOf(a)][IndexOf(a)].datas[OffsetOf(a)]

Full(line) == \A s \in SetIndex : lines[s][line].valid

FirstFree(line) ==
  CHOOSE s \in SetIndex : /\ ~lines[s][line].valid
                          /\ \A q \in 0 .. (s - 1) : lines[q][line].valid

(* memoryFetch, on a miss: the first set that is not in use, or a victim.  *)
Candidates(line) ==
  IF Full(line) THEN NextVictim(strategy, line)
  ELSE {[set |-> FirstFree(line), strategy |-> strategy]}

(* readBlockLine.                                                          *)
Block(from, tag, line) ==
  [o \in BlockOffset |-> from[AddressOf(tag, line, o)]]

(* CacheLine.fetch.                                                        *)
Filled(from, tag, line) ==
  [valid |-> TRUE, tag |-> tag, datas |-> Block(from, tag, line)]

(* What the processor sees through the cache.                              *)
Seen == [a \in Address |-> IF Hit(a) THEN Cached(a) ELSE memory[a]]

(* No address is held twice: which set a search finds makes no difference. *)
OneCopy ==
  \A s, q \in SetIndex, l \in LineIndex :
    /\ s # q
    /\ lines[s][l].valid
    => ~Holds(q, l, lines[s][l].tag)

CacheTypeOK ==
  /\ memory \in [Address -> Value]
  /\ lines \in [SetIndex -> [LineIndex -> CacheLine]]
  /\ strategy \in Strategy
  /\ call \in Calls(Address, Value)
  /\ reply \in Value \cup {NoReply}
=============================================================================
