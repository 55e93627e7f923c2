-------------------------- MODULE WriteBackTheorems --------------------------
(***************************************************************************)
(* The write-back cache acts as the memory behind it, whatever its sizes,  *)
(* its replacement strategy and the addresses used.                        *)
(***************************************************************************)
EXTENDS WriteBackCache, WellFoundedInduction, TLAPS

(* A search from the lowest number up finds something if there is          *)
(* something.                                                              *)
LEMMA LeastNumber ==
  ASSUME NEW S, S \subseteq Nat, S # {}
  PROVE  \E n \in S : \A m \in S : n <= m
<1> DEFINE R == {pair \in Nat \X Nat : pair[1] < pair[2]}
<1>1. IsWellFoundedOn(R, Nat)
  BY NatLessThanWellFounded DEF OpToRel
<1> HIDE DEF R
<1>2. PICK x \in S : \A y \in S : ~(<<y, x>> \in R)
  BY <1>1, WFMin
<1>3. \A y \in S : ~(y < x)
  BY <1>2 DEF R
<1> QED
  BY <1>3

(* A number below a bound is found again from its quotient and remainder.  *)
LEMMA Division ==
  ASSUME NEW n \in Nat \ {0}, NEW x \in Nat, NEW o \in 0 .. (n - 1)
  PROVE  (x * n + o) \div n = x /\ (x * n + o) % n = o
OBVIOUS

LEMMA Composition ==
  ASSUME NEW n \in Nat \ {0}, NEW x \in Nat
  PROVE  /\ x \div n \in Nat /\ x % n \in 0 .. (n - 1)
         /\ (x \div n) * n + (x % n) = x
OBVIOUS

LEMMA ProductInNat ==
  ASSUME NEW m \in Nat, NEW n \in Nat
  PROVE  m * n \in Nat
OBVIOUS

(* The parts of an address made of a tag, a line and an offset.            *)
LEMMA AddressParts ==
  ASSUME NEW t \in Tag, NEW l \in LineIndex, NEW o \in BlockOffset
  PROVE  /\ AddressOf(t, l, o) \in Address
         /\ TagOf(AddressOf(t, l, o)) = t
         /\ IndexOf(AddressOf(t, l, o)) = l
         /\ OffsetOf(AddressOf(t, l, o)) = o
<1> DEFINE block == t * LineSize + l
           word  == block * BlockSize + o
<1>1. /\ LineSize \in Nat \ {0} /\ BlockSize \in Nat \ {0}
      /\ t \in Nat /\ l \in 0 .. (LineSize - 1) /\ o \in 0 .. (BlockSize - 1)
  BY SizesAssumption, CacheAssumption DEF Tag, LineIndex, BlockOffset
<1>2. block \in Nat /\ block \div LineSize = t /\ block % LineSize = l
  <2>1. block \div LineSize = t /\ block % LineSize = l
    BY <1>1, Division
  <2>2. t * LineSize \in Nat
    BY <1>1, ProductInNat
  <2> QED
    BY <1>1, <2>1, <2>2
<1> HIDE DEF block
<1>3. word \in Nat /\ word \div BlockSize = block /\ word % BlockSize = o
  <2>1. word \div BlockSize = block /\ word % BlockSize = o
    BY <1>1, <1>2, Division
  <2>2. block * BlockSize \in Nat
    BY <1>1, <1>2, ProductInNat
  <2> QED
    BY <1>1, <2>1, <2>2
<1> HIDE DEF word
<1>4. (word * 4) \div 4 = word
  BY <1>3
<1>5. AddressOf(t, l, o) = word * 4
  BY DEF AddressOf, word, block
<1> QED
  BY <1>2, <1>3, <1>4, <1>5 DEF Address, TagOf, IndexOf, OffsetOf, BlockOf

(* Every address is made of its parts.                                     *)
LEMMA PartsOfAddress ==
  ASSUME NEW a \in Address
  PROVE  /\ TagOf(a) \in Tag /\ IndexOf(a) \in LineIndex
         /\ OffsetOf(a) \in BlockOffset
         /\ AddressOf(TagOf(a), IndexOf(a), OffsetOf(a)) = a
<1>1. PICK t \in Tag, l \in LineIndex, o \in BlockOffset : a = AddressOf(t, l, o)
  BY DEF Address
<1> QED
  BY <1>1, AddressParts

(***************************************************************************)
(* The choices: what a search over the sets finds.                         *)
(***************************************************************************)
LEMMA SetFound ==
  ASSUME NEW a, Hit(a)
  PROVE  SetOf(a) \in SetIndex /\ Holds(SetOf(a), IndexOf(a), TagOf(a))
<1> DEFINE S == {s \in SetIndex : Holds(s, IndexOf(a), TagOf(a))}
<1>1. S \subseteq Nat /\ S # {}
  BY DEF Hit, SetIndex
<1>2. PICK s \in S : \A q \in S : s <= q
  BY <1>1, LeastNumber
<1>3. \A q \in 0 .. (s - 1) : ~Holds(q, IndexOf(a), TagOf(a))
  BY <1>1, <1>2, SizesAssumption DEF SetIndex
<1> QED
  BY <1>2, <1>3 DEF SetOf

LEMMA FreeSetFound ==
  ASSUME NEW line, ~Full(line)
  PROVE  FirstFree(line) \in SetIndex /\ ~lines[FirstFree(line)][line].valid
<1> DEFINE S == {s \in SetIndex : ~lines[s][line].valid}
<1>1. S \subseteq Nat /\ S # {}
  BY DEF Full, SetIndex
<1>2. PICK s \in S : \A q \in S : s <= q
  BY <1>1, LeastNumber
<1>3. \A q \in 0 .. (s - 1) : lines[q][line].valid
  BY <1>1, <1>2, SizesAssumption DEF SetIndex
<1> QED
  BY <1>2, <1>3 DEF FirstFree

(* The hand of the second chance strategy stops after one round.           *)
LEMMA HandStops ==
  ASSUME NEW q, NEW line
  PROVE  TurnsToGo(q, line) \in 1 .. (SetSize + 1)
<1> DEFINE Stops(i) == i = SetSize + 1 \/ Turn(q, i) \notin q.chances[line]
           S == {i \in 1 .. (SetSize + 1) : Stops(i)}
<1> USE SizesAssumption
<1>1. S \subseteq Nat /\ S # {}
  <2>1. SetSize + 1 \in S
    OBVIOUS
  <2> QED
    BY <2>1
<1>2. PICK i \in S : \A j \in S : i <= j
  BY <1>1, LeastNumber
<1>3. \A j \in 1 .. (i - 1) : ~Stops(j)
  BY <1>2
<1>4. \A j \in 1 .. (i - 1) : Turn(q, j) \in q.chances[line]
  BY <1>3
<1> QED
  BY <1>2, <1>4 DEF TurnsToGo

(* A strategy gives a set of the line, and stays a strategy, whether it    *)
(* chooses a victim or records a use.                                      *)
LEMMA TurnIsSet ==
  ASSUME NEW q, q.lastUsed \in SetIndex, NEW i \in Nat
  PROVE  Turn(q, i) \in SetIndex
BY SizesAssumption DEF Turn, SetIndex

LEMMA VictimIsSet ==
  ASSUME NEW q \in Strategy, NEW line \in LineIndex, NEW c \in NextVictim(q, line)
  PROVE  c.set \in SetIndex /\ c.strategy \in Strategy
<1> USE SizesAssumption
<1>1. CASE q \in Fifo
  <2>1. Turn(q, 1) \in SetIndex
    BY <1>1, TurnIsSet DEF Fifo
  <2>2. c = [set |-> Turn(q, 1), strategy |-> [q EXCEPT !.lastUsed = Turn(q, 1)]]
    BY <1>1 DEF NextVictim, Fifo
  <2>3. [q EXCEPT !.lastUsed = Turn(q, 1)] \in Fifo
    BY <1>1, <2>1 DEF Fifo
  <2> QED
    BY <2>1, <2>2, <2>3 DEF Strategy
<1>2. CASE q \in Random
  <2>1. c \in {[set |-> s, strategy |-> q] : s \in SetIndex}
    BY <1>2 DEF NextVictim, Random
  <2> QED
    BY <2>1 DEF Strategy
<1>3. CASE q \in SecondChance
  <2> DEFINE set == Turn(q, TurnsToGo(q, line))
             after == [q EXCEPT !.lastUsed = set,
                                !.chances[line] = @ \ Passed(q, line)]
  <2>1. set \in SetIndex
    BY <1>3, TurnIsSet, HandStops DEF SecondChance
  <2>2. c = [set |-> set, strategy |-> after]
    BY <1>3 DEF NextVictim, SecondChance
  <2> HIDE DEF set
  <2>3. after \in SecondChance
    BY <1>3, <2>1 DEF SecondChance
  <2> HIDE DEF after
  <2> QED
    BY <2>1, <2>2, <2>3 DEF Strategy
<1>4. CASE q \in Lru
  <2>1. c = [set |-> q.usedHistories[line][1], strategy |-> q]
    BY <1>4 DEF NextVictim, Lru
  <2>2. q.usedHistories[line][1] \in SetIndex
    BY <1>4 DEF Lru
  <2> QED
    BY <2>1, <2>2
<1> QED
  BY <1>1, <1>2, <1>3, <1>4 DEF Strategy

LEMMA UseIsRecorded ==
  ASSUME NEW q \in Strategy, NEW set \in SetIndex, NEW line \in LineIndex
  PROVE  Use(q, set, line) \in Strategy
<1>1. CASE q \in Fifo \cup Random
  BY <1>1 DEF Use, Strategy, Fifo, Random
<1>2. CASE q \in SecondChance
  <2>1. Use(q, set, line) = [q EXCEPT !.chances[line] = @ \cup {set}]
    BY <1>2 DEF Use, SecondChance
  <2>2. [q EXCEPT !.chances[line] = @ \cup {set}] \in SecondChance
    BY <1>2 DEF SecondChance
  <2> QED
    BY <2>1, <2>2 DEF Strategy
<1>3. CASE q \in Lru
  <2> DEFINE history == q.usedHistories[line]
  <2>1. Use(q, set, line) = [q EXCEPT !.usedHistories[line] = MovedToEnd(@, set)]
    BY <1>3 DEF Use, Lru
  <2>2. history \in [1 .. SetSize -> SetIndex]
    BY <1>3 DEF Lru
  <2> HIDE DEF history
  <2>3. MovedToEnd(history, set) \in [1 .. SetSize -> SetIndex]
    <3> DEFINE at == CHOOSE i \in 1 .. SetSize : history[i] = set
               moved == [i \in 1 .. SetSize |->
                           IF i < at THEN history[i]
                           ELSE IF i < SetSize THEN history[i + 1] ELSE set]
    <3>1. MovedToEnd(history, set) = moved
      BY DEF MovedToEnd
    <3> HIDE DEF at
    <3>2. ASSUME NEW i \in 1 .. SetSize
          PROVE  /\ history[i] \in SetIndex /\ set \in SetIndex
                 /\ i < SetSize => history[i + 1] \in SetIndex
      BY <2>2, SizesAssumption
    <3>3. moved \in [1 .. SetSize -> SetIndex]
      BY <3>2
    <3> QED
      BY <3>1, <3>3
  <2>4. [q EXCEPT !.usedHistories[line] = MovedToEnd(@, set)] \in Lru
    BY <1>3, <2>3 DEF Lru, history
  <2> QED
    BY <2>1, <2>4 DEF Strategy
<1> QED
  BY <1>1, <1>2, <1>3 DEF Strategy

LEMMA CandidateIsSet ==
  ASSUME strategy \in Strategy, NEW line \in LineIndex, NEW c \in Candidates(line)
  PROVE  c.set \in SetIndex /\ c.strategy \in Strategy
BY VictimIsSet, FreeSetFound DEF Candidates

(***************************************************************************)
(* What the processor sees.                                                *)
(***************************************************************************)
Inv == TypeOK /\ Coherent

(* The word a set holds, and the memory's if no set does.                  *)
SeenThroughSets ==
  \A a \in Address :
    /\ \A s \in SetIndex :
         Holds(s, IndexOf(a), TagOf(a)) =>
           Seen[a] = lines[s][IndexOf(a)].datas[OffsetOf(a)]
    /\ ~Hit(a) => Seen[a] = memory[a]

LEMMA SeenWords == OneCopy => SeenThroughSets
<1> SUFFICES ASSUME OneCopy, NEW a \in Address
             PROVE  /\ \A s \in SetIndex :
                         Holds(s, IndexOf(a), TagOf(a)) =>
                           Seen[a] = lines[s][IndexOf(a)].datas[OffsetOf(a)]
                    /\ ~Hit(a) => Seen[a] = memory[a]
  BY DEF SeenThroughSets
<1>1. ASSUME NEW s \in SetIndex, Holds(s, IndexOf(a), TagOf(a))
      PROVE  Seen[a] = lines[s][IndexOf(a)].datas[OffsetOf(a)]
  <2>1. Hit(a)
    BY <1>1 DEF Hit
  <2>2. SetOf(a) \in SetIndex /\ Holds(SetOf(a), IndexOf(a), TagOf(a))
    BY <2>1, SetFound
  <2>3. IndexOf(a) \in LineIndex
    BY PartsOfAddress
  <2>4. SetOf(a) = s
    BY <1>1, <2>2, <2>3 DEF OneCopy, Holds
  <2> QED
    BY <2>1, <2>4 DEF Seen, Cached
<1>2. ~Hit(a) => Seen[a] = memory[a]
  BY DEF Seen
<1> QED
  BY <1>1, <1>2

LEMMA SeenIsTyped == TypeOK => Seen \in [Address -> Value]
<1> SUFFICES ASSUME TypeOK, NEW a \in Address
             PROVE  (IF Hit(a) THEN Cached(a) ELSE memory[a]) \in Value
  BY DEF Seen
<1>1. CASE Hit(a)
  <2>1. SetOf(a) \in SetIndex /\ IndexOf(a) \in LineIndex /\ OffsetOf(a) \in BlockOffset
    BY <1>1, SetFound, PartsOfAddress
  <2>2. lines[SetOf(a)][IndexOf(a)] \in CacheLine
    BY <2>1 DEF TypeOK, CacheTypeOK
  <2>3. lines[SetOf(a)][IndexOf(a)].datas \in [BlockOffset -> Value]
    BY <2>2 DEF CacheLine
  <2> QED
    BY <1>1, <2>1, <2>3 DEF Cached
<1>2. CASE ~Hit(a)
  BY <1>2 DEF TypeOK, CacheTypeOK
<1> QED
  BY <1>1, <1>2

(* An address is in the block that a set is about to drop.                 *)
Dropped(b, s, line) == IndexOf(b) = line /\ Holds(s, line, TagOf(b))

(* Dropping a block brings its words to the memory and changes no other.   *)
LEMMA Eviction ==
  ASSUME Inv, NEW line \in LineIndex, NEW s \in SetIndex,
         ~Full(line) => ~lines[s][line].valid, NEW tag, NEW b \in Address
  PROVE  MemoryAfter(s, line, tag)[b] =
           IF Dropped(b, s, line) THEN Seen[b] ELSE memory[b]
<1>1. SeenThroughSets
  BY SeenWords DEF Inv, Coherent
<1>2. CASE dirties[s][line]
  <2>1. lines[s][line].valid
    BY <1>2 DEF Inv, Coherent, DirtyIsValid
  <2>2. MemoryAfter(s, line, tag)[b] =
          IF IndexOf(b) = line /\ TagOf(b) = lines[s][line].tag
          THEN lines[s][line].datas[OffsetOf(b)] ELSE memory[b]
    BY <1>2, <2>1 DEF MemoryAfter, Spilled
  <2> QED
    BY <1>1, <2>1, <2>2 DEF SeenThroughSets, Dropped, Holds
<1>3. CASE ~dirties[s][line]
  <2>1. MemoryAfter(s, line, tag)[b] = memory[b]
    BY <1>3 DEF MemoryAfter, Spilled
  <2>2. ASSUME Dropped(b, s, line)
        PROVE  memory[b] = Seen[b]
    <3>1. /\ AddressOf(lines[s][line].tag, line, OffsetOf(b)) = b
          /\ OffsetOf(b) \in BlockOffset
      BY <2>2, PartsOfAddress DEF Dropped, Holds
    <3>2. memory[b] = lines[s][line].datas[OffsetOf(b)]
      BY <1>3, <2>2, <3>1 DEF Inv, Coherent, CleanIsCurrent, Dropped, Holds
    <3> QED
      BY <1>1, <2>2, <3>2 DEF SeenThroughSets, Dropped
  <2> QED
    BY <2>1, <2>2
<1> QED
  BY <1>2, <1>3 DEF Inv, TypeOK

LEMMA MemoryIsTyped ==
  ASSUME TypeOK, NEW line \in LineIndex, NEW s \in SetIndex, NEW tag
  PROVE  MemoryAfter(s, line, tag) \in [Address -> Value]
<1>1. lines[s][line].datas \in [BlockOffset -> Value]
  BY DEF TypeOK, CacheTypeOK, CacheLine
<1>2. \A b \in Address : OffsetOf(b) \in BlockOffset
  BY PartsOfAddress
<1>3. memory \in [Address -> Value]
  BY DEF TypeOK, CacheTypeOK
<1> QED
  BY <1>1, <1>2, <1>3 DEF MemoryAfter, Spilled

(* One entry of a table changed.                                           *)
Put(table, s, l, v) == [table EXCEPT ![s][l] = v]

LEMMA LineUpdate ==
  ASSUME TypeOK, NEW set \in SetIndex, NEW line \in LineIndex, NEW new \in CacheLine,
         lines' = Put(lines, set, line, new)
  PROVE  /\ lines' \in [SetIndex -> [LineIndex -> CacheLine]]
         /\ lines'[set][line] = new
         /\ \A q \in SetIndex, l \in LineIndex :
              ~(q = set /\ l = line) => lines'[q][l] = lines[q][l]
BY DEF Put, TypeOK, CacheTypeOK

LEMMA DirtyUpdate ==
  ASSUME TypeOK, NEW set \in SetIndex, NEW line \in LineIndex, NEW dirty \in BOOLEAN,
         dirties' = Put(dirties, set, line, dirty)
  PROVE  /\ dirties' \in [SetIndex -> [LineIndex -> BOOLEAN]]
         /\ dirties'[set][line] = dirty
         /\ \A q \in SetIndex, l \in LineIndex :
              ~(q = set /\ l = line) => dirties'[q][l] = dirties[q][l]
BY DEF Put, TypeOK

(***************************************************************************)
(* A miss: a set of the line is filled with the block of the address.      *)
(***************************************************************************)
SameBlock(a, b) == IndexOf(b) = IndexOf(a) /\ TagOf(b) = TagOf(a)

LEMMA Filling ==
  ASSUME Inv, NEW a \in Address, ~Hit(a),
         NEW line, line = IndexOf(a), NEW tag, tag = TagOf(a),
         NEW set \in SetIndex, ~Full(line) => ~lines[set][line].valid,
         NEW new \in CacheLine, new.valid, new.tag = tag, NEW dirty \in BOOLEAN,
         memory' = MemoryAfter(set, line, tag),
         lines' = Put(lines, set, line, new),
         dirties' = Put(dirties, set, line, dirty),
         dirty \/ new.datas = Filled(memory', tag, line).datas
  PROVE  /\ memory' \in [Address -> Value]
         /\ lines' \in [SetIndex -> [LineIndex -> CacheLine]]
         /\ dirties' \in [SetIndex -> [LineIndex -> BOOLEAN]]
         /\ Coherent'
         /\ \A b \in Address :
              /\ memory'[b] \in {memory[b], Seen[b]}
              /\ SameBlock(a, b) => memory'[b] = Seen[b]
              /\ Seen'[b] = IF SameBlock(a, b) THEN new.datas[OffsetOf(b)]
                            ELSE Seen[b]
<1>1. line \in LineIndex /\ tag \in Tag
  BY PartsOfAddress
<1>2. lines \in [SetIndex -> [LineIndex -> CacheLine]]
  BY DEF Inv, TypeOK, CacheTypeOK
<1>3. /\ memory' \in [Address -> Value]
      /\ \A b \in Address :
           memory'[b] = IF Dropped(b, set, line) THEN Seen[b] ELSE memory[b]
  BY <1>1, Eviction, MemoryIsTyped DEF Inv
<1>4. /\ lines' \in [SetIndex -> [LineIndex -> CacheLine]]
      /\ lines'[set][line] = new
      /\ \A q \in SetIndex, l \in LineIndex :
           ~(q = set /\ l = line) => lines'[q][l] = lines[q][l]
  BY <1>1, LineUpdate DEF Inv
<1>5. /\ dirties' \in [SetIndex -> [LineIndex -> BOOLEAN]]
      /\ dirties'[set][line] = dirty
      /\ \A q \in SetIndex, l \in LineIndex :
           ~(q = set /\ l = line) => dirties'[q][l] = dirties[q][l]
  BY <1>1, DirtyUpdate DEF Inv
<1>6. \A q \in SetIndex : ~Holds(q, line, tag)
  BY DEF Hit
<1>7. OneCopy'
  BY <1>1, <1>4, <1>5, <1>6 DEF Inv, Coherent, OneCopy, Holds
<1>8. DirtyIsValid'
  BY <1>1, <1>4, <1>5 DEF Inv, Coherent, DirtyIsValid
<1>9. SeenThroughSets /\ SeenThroughSets'
  BY <1>7, SeenWords, PTL DEF Inv, Coherent
<1>10. \A b \in Address : memory'[b] \in {memory[b], Seen[b]}
  BY <1>3
<1>11. \A b \in Address : SameBlock(a, b) => memory'[b] = Seen[b]
  <2> SUFFICES ASSUME NEW b \in Address, SameBlock(a, b)
               PROVE  memory'[b] = Seen[b]
    OBVIOUS
  <2>1. ~Hit(b)
    BY DEF SameBlock, Hit
  <2> QED
    BY <1>3, <1>9, <2>1 DEF SeenThroughSets
<1>12. \A b \in Address :
         Seen'[b] = IF SameBlock(a, b) THEN new.datas[OffsetOf(b)] ELSE Seen[b]
  <2> TAKE b \in Address
  <2>1. CASE SameBlock(a, b)
    <3>1. Holds(set, IndexOf(b), TagOf(b))'
      BY <1>1, <1>4, <1>5, <2>1 DEF Holds, SameBlock
    <3>2. lines'[set][IndexOf(b)].datas = new.datas
      BY <1>1, <1>4, <1>5, <2>1 DEF SameBlock
    <3> QED
      BY <1>1, <1>9, <2>1, <3>1, <3>2 DEF SeenThroughSets
  <2>2. CASE ~SameBlock(a, b)
    <3>1. IndexOf(b) \in LineIndex
      BY PartsOfAddress
    <3>2. ASSUME NEW q \in SetIndex, Holds(q, IndexOf(b), TagOf(b))'
          PROVE  Seen'[b] = Seen[b]
      <4>1. ~(q = set /\ IndexOf(b) = line)
        BY <1>1, <1>4, <1>5, <2>2, <3>2 DEF Holds, SameBlock
      <4>2. lines'[q][IndexOf(b)] = lines[q][IndexOf(b)]
        BY <1>4, <1>5, <3>1, <4>1
      <4>3. Holds(q, IndexOf(b), TagOf(b))
        BY <3>2, <4>2 DEF Holds
      <4> QED
        BY <1>9, <3>2, <4>2, <4>3 DEF SeenThroughSets
    <3>3. ASSUME ~Hit(b)'
          PROVE  Seen'[b] = Seen[b]
      <4>1. Seen'[b] = memory'[b]
        BY <1>9, <3>3 DEF SeenThroughSets
      <4>2. CASE Dropped(b, set, line)
        BY <1>3, <4>1, <4>2
      <4>3. CASE ~Dropped(b, set, line)
        <5>1. ~Hit(b)
          <6> SUFFICES ASSUME NEW q \in SetIndex, Holds(q, IndexOf(b), TagOf(b))
                       PROVE  FALSE
            BY DEF Hit
          <6>1. ~(q = set /\ IndexOf(b) = line)
            BY <4>3 DEF Dropped
          <6>2. Holds(q, IndexOf(b), TagOf(b))'
            BY <1>4, <1>5, <3>1, <6>1 DEF Holds
          <6> QED
            BY <3>3, <6>2 DEF Hit
        <5>2. Seen[b] = memory[b]
          BY <1>9, <5>1 DEF SeenThroughSets
        <5> QED
          BY <1>3, <4>1, <4>3, <5>2
      <4> QED
        BY <4>2, <4>3
    <3> QED
      BY <2>2, <3>2, <3>3 DEF Hit
  <2> QED
    BY <2>1, <2>2
<1>13. CleanIsCurrent'
  <2> SUFFICES ASSUME NEW q \in SetIndex, NEW l \in LineIndex, NEW o \in BlockOffset,
                      lines'[q][l].valid, ~dirties'[q][l]
               PROVE  memory'[AddressOf(lines'[q][l].tag, l, o)] = lines'[q][l].datas[o]
    BY DEF CleanIsCurrent
  <2>1. CASE q = set /\ l = line
    <3>1. lines'[q][l] = new /\ ~dirty
      BY <1>4, <1>5, <2>1
    <3>2. new.datas[o] = memory'[AddressOf(tag, line, o)]
      BY <3>1 DEF Filled, Block
    <3> QED
      BY <2>1, <3>1, <3>2
  <2>2. CASE ~(q = set /\ l = line)
    <3> DEFINE b == AddressOf(lines[q][l].tag, l, o)
    <3>1. lines'[q][l] = lines[q][l] /\ dirties'[q][l] = dirties[q][l]
      BY <1>4, <1>5, <2>2
    <3>2. lines[q][l].tag \in Tag
      BY <1>2 DEF CacheLine
    <3>3. /\ b \in Address /\ TagOf(b) = lines[q][l].tag
          /\ IndexOf(b) = l /\ OffsetOf(b) = o
      BY <3>2, AddressParts
    <3>4. memory[b] = lines[q][l].datas[o]
      BY <3>1 DEF Inv, Coherent, CleanIsCurrent
    <3> HIDE DEF b
    <3>5. ~Dropped(b, set, line)
      BY <1>1, <2>2, <3>1, <3>3 DEF Dropped, Holds, Inv, Coherent, OneCopy
    <3>6. memory'[b] = lines[q][l].datas[o]
      BY <1>3, <3>3, <3>4, <3>5
    <3> QED
      BY <3>1, <3>6 DEF b
  <2> QED
    BY <2>1, <2>2
<1>14. Coherent'
  BY <1>7, <1>8, <1>13 DEF Coherent
<1> QED
  BY <1>3, <1>4, <1>5, <1>10, <1>11, <1>12, <1>14

(* A hit on a write: one word of a line changes, and the line is dirty.    *)
LEMMA Marking ==
  ASSUME Inv, NEW a \in Address, Hit(a), NEW v \in Value,
         NEW set, set = SetOf(a), NEW line, line = IndexOf(a),
         NEW new, new = [lines[set][line] EXCEPT !.datas[OffsetOf(a)] = v],
         memory' = memory,
         lines' = Put(lines, set, line, new),
         dirties' = Put(dirties, set, line, TRUE)
  PROVE  /\ lines' \in [SetIndex -> [LineIndex -> CacheLine]]
         /\ dirties' \in [SetIndex -> [LineIndex -> BOOLEAN]]
         /\ Coherent'
         /\ \A b \in Address : Seen'[b] = IF b = a THEN v ELSE Seen[b]
<1>1. /\ set \in SetIndex /\ line \in LineIndex /\ OffsetOf(a) \in BlockOffset
      /\ Holds(set, line, TagOf(a))
  BY SetFound, PartsOfAddress
<1>2. lines \in [SetIndex -> [LineIndex -> CacheLine]]
  BY DEF Inv, TypeOK, CacheTypeOK
<1>3. lines[set][line] \in CacheLine
  BY <1>1, <1>2
<1>4. /\ new \in CacheLine
      /\ new.valid = lines[set][line].valid /\ new.tag = lines[set][line].tag
      /\ new.datas[OffsetOf(a)] = v
      /\ \A o \in BlockOffset : o # OffsetOf(a) => new.datas[o] = lines[set][line].datas[o]
  BY <1>1, <1>3 DEF CacheLine
<1>5. /\ lines' \in [SetIndex -> [LineIndex -> CacheLine]]
      /\ lines'[set][line] = new
      /\ \A q \in SetIndex, l \in LineIndex :
           ~(q = set /\ l = line) => lines'[q][l] = lines[q][l]
  BY <1>1, <1>4, LineUpdate DEF Inv
<1>6. /\ dirties' \in [SetIndex -> [LineIndex -> BOOLEAN]]
      /\ dirties'[set][line]
      /\ \A q \in SetIndex, l \in LineIndex :
           ~(q = set /\ l = line) => dirties'[q][l] = dirties[q][l]
  BY <1>1, DirtyUpdate DEF Inv
<1>7. \A q \in SetIndex, l \in LineIndex :
        /\ lines'[q][l].valid = lines[q][l].valid
        /\ lines'[q][l].tag = lines[q][l].tag
  <2> TAKE q \in SetIndex, l \in LineIndex
  <2>1. CASE q = set /\ l = line
    BY <1>4, <1>5, <2>1
  <2>2. CASE ~(q = set /\ l = line)
    <3>1. lines'[q][l] = lines[q][l]
      BY <1>5, <2>2
    <3> QED
      BY <3>1
  <2> QED
    BY <2>1, <2>2
<1>8. OneCopy'
  BY <1>7 DEF Inv, Coherent, OneCopy, Holds
<1>9. DirtyIsValid'
  <2> SUFFICES ASSUME NEW q \in SetIndex, NEW l \in LineIndex, dirties'[q][l]
               PROVE  lines[q][l].valid
    BY <1>7 DEF DirtyIsValid
  <2>1. CASE q = set /\ l = line
    BY <1>1, <2>1 DEF Holds
  <2>2. CASE ~(q = set /\ l = line)
    <3>1. dirties[q][l]
      BY <1>6, <2>2
    <3> QED
      BY <3>1 DEF Inv, Coherent, DirtyIsValid
  <2> QED
    BY <2>1, <2>2
<1>10. CleanIsCurrent'
  <2> SUFFICES ASSUME NEW q \in SetIndex, NEW l \in LineIndex, NEW o \in BlockOffset,
                      lines'[q][l].valid, ~dirties'[q][l]
               PROVE  memory'[AddressOf(lines'[q][l].tag, l, o)] = lines'[q][l].datas[o]
    BY ZenonT(30) DEF CleanIsCurrent
  <2>1. ~(q = set /\ l = line)
    BY <1>6
  <2>2. lines'[q][l] = lines[q][l] /\ dirties'[q][l] = dirties[q][l]
    BY <1>5, <1>6, <2>1
  <2>3. lines[q][l].valid /\ ~dirties[q][l]
    BY <2>2
  <2>4. memory[AddressOf(lines[q][l].tag, l, o)] = lines[q][l].datas[o]
    BY <2>3 DEF Inv, Coherent, CleanIsCurrent
  <2> QED
    BY <2>2, <2>4
<1>11. SeenThroughSets /\ SeenThroughSets'
  BY <1>8, SeenWords, PTL DEF Inv, Coherent
<1>12. ASSUME NEW b \in Address
       PROVE  Seen'[b] = IF b = a THEN v ELSE Seen[b]
  <2>1. IndexOf(b) \in LineIndex /\ OffsetOf(b) \in BlockOffset
    BY PartsOfAddress
  <2>2. \A q \in SetIndex :
          Holds(q, IndexOf(b), TagOf(b))' <=> Holds(q, IndexOf(b), TagOf(b))
    BY <1>7, <2>1 DEF Holds
  <2>3. CASE ~Hit(b)
    <3>1. ~Hit(b)'
      BY <2>2, <2>3 DEF Hit
    <3> QED
      BY <1>11, <2>3, <3>1 DEF SeenThroughSets
  <2>4. CASE Hit(b)
    <3>1. PICK q \in SetIndex : Holds(q, IndexOf(b), TagOf(b))
      BY <2>4 DEF Hit
    <3>2. /\ Seen[b] = lines[q][IndexOf(b)].datas[OffsetOf(b)]
          /\ Seen'[b] = lines'[q][IndexOf(b)].datas[OffsetOf(b)]
      BY <1>11, <2>2, <3>1 DEF SeenThroughSets
    <3>3. CASE SameBlock(a, b)
      <4>1. q = set
        BY <1>1, <3>1, <3>3 DEF SameBlock, Holds, Inv, Coherent, OneCopy
      <4>2. b = a <=> OffsetOf(b) = OffsetOf(a)
        BY <3>3, PartsOfAddress DEF SameBlock
      <4>3. /\ Seen[b] = lines[set][line].datas[OffsetOf(b)]
            /\ Seen'[b] = new.datas[OffsetOf(b)]
        BY <1>5, <3>2, <3>3, <4>1 DEF SameBlock
      <4> QED
        BY <1>4, <2>1, <4>2, <4>3
    <3>4. CASE ~SameBlock(a, b)
      <4>1. ~(q = set /\ IndexOf(b) = line)
        BY <1>1, <3>1, <3>4 DEF SameBlock, Holds
      <4>2. b # a
        BY <3>4 DEF SameBlock
      <4> QED
        BY <1>5, <2>1, <3>2, <4>1, <4>2
    <3> QED
      BY <3>3, <3>4
  <2> QED
    BY <2>3, <2>4
<1>13. Coherent'
  BY <1>8, <1>9, <1>10 DEF Coherent
<1> QED
  BY <1>5, <1>6, <1>12, <1>13

(* Flushing brings every word to the memory and changes none that is seen. *)
LEMMA Flushing ==
  ASSUME Inv, FlushAll
  PROVE  /\ memory' = Seen
         /\ Seen' = Seen
         /\ dirties' \in [SetIndex -> [LineIndex -> BOOLEAN]]
         /\ Coherent'
<1>1. /\ lines' = lines
      /\ dirties' = [s \in SetIndex |-> [l \in LineIndex |-> FALSE]]
  BY DEF FlushAll
<1>2. OneCopy'
  BY <1>1 DEF Inv, Coherent, OneCopy, Holds
<1>3. SeenThroughSets /\ SeenThroughSets'
  BY <1>2, SeenWords, PTL DEF Inv, Coherent
<1>4. ASSUME NEW a \in Address
      PROVE  memory'[a] = Seen[a]
  <2> DEFINE line == IndexOf(a)
  <2>1. line \in LineIndex
    BY PartsOfAddress
  <2>2. CASE DirtySets(a) = {}
    <3>1. memory'[a] = memory[a]
      BY <2>2 DEF FlushAll
    <3>2. ASSUME NEW s \in SetIndex, Holds(s, line, TagOf(a))
          PROVE  memory[a] = Seen[a]
      <4>1. ~dirties[s][line]
        BY <2>2, <3>2 DEF DirtySets, Holds
      <4>2. memory[a] = lines[s][line].datas[OffsetOf(a)]
        BY <2>1, <3>2, <4>1, PartsOfAddress DEF Inv, Coherent, CleanIsCurrent, Holds
      <4> QED
        BY <1>3, <3>2, <4>2 DEF SeenThroughSets
    <3> QED
      BY <1>3, <3>1, <3>2 DEF SeenThroughSets, Hit
  <2>3. CASE DirtySets(a) # {}
    <3>1. PICK s \in SetIndex : s \in DirtySets(a)
      BY <2>3 DEF DirtySets
    <3>2. Holds(s, line, TagOf(a))
      BY <2>1, <3>1 DEF DirtySets, Holds, Inv, Coherent, DirtyIsValid
    <3>3. DirtySets(a) = {s}
      BY <2>1, <3>1, <3>2 DEF DirtySets, Holds, Inv, Coherent, DirtyIsValid, OneCopy
    <3>4. (CHOOSE q \in DirtySets(a) : \A r \in DirtySets(a) : r <= q) = s
      BY <3>1, <3>3 DEF SetIndex
    <3>5. memory'[a] = lines[s][line].datas[OffsetOf(a)]
      BY <2>3, <3>4 DEF FlushAll
    <3> QED
      BY <1>3, <3>2, <3>5 DEF SeenThroughSets
  <2> QED
    BY <2>2, <2>3
<1>5. memory' = Seen
  BY <1>4 DEF FlushAll, Seen
<1>6. ASSUME NEW a \in Address
      PROVE  Seen'[a] = Seen[a]
  <2>1. CASE Hit(a)
    <3>1. PICK s \in SetIndex : Holds(s, IndexOf(a), TagOf(a))
      BY <2>1 DEF Hit
    <3>2. Holds(s, IndexOf(a), TagOf(a))'
      BY <1>1, <3>1 DEF Holds
    <3> QED
      BY <1>1, <1>3, <3>1, <3>2 DEF SeenThroughSets
  <2>2. CASE ~Hit(a)
    <3>1. ~Hit(a)'
      BY <1>1, <2>2 DEF Hit, Holds
    <3> QED
      BY <1>3, <1>4, <3>1 DEF SeenThroughSets
  <2> QED
    BY <2>1, <2>2
<1>7. Seen' = Seen
  BY <1>6 DEF Seen
<1>8. dirties' \in [SetIndex -> [LineIndex -> BOOLEAN]]
  BY <1>1
<1>9. DirtyIsValid'
  BY <1>1 DEF DirtyIsValid
<1>10. CleanIsCurrent'
  <2> SUFFICES ASSUME NEW s \in SetIndex, NEW l \in LineIndex, NEW o \in BlockOffset,
                      lines[s][l].valid
               PROVE  memory'[AddressOf(lines[s][l].tag, l, o)] = lines[s][l].datas[o]
    BY <1>1 DEF CleanIsCurrent
  <2>1. lines[s][l].tag \in Tag
    BY DEF Inv, TypeOK, CacheTypeOK, CacheLine
  <2> QED
    BY <1>3, <1>4, <2>1, AddressParts DEF SeenThroughSets, Holds
<1> QED
  BY <1>2, <1>5, <1>7, <1>8, <1>9, <1>10 DEF Coherent

(***************************************************************************)
(* The theorems.                                                           *)
(***************************************************************************)
(* Every call of the cache is one of the calls.                            *)
LEMMA CallsAreTyped ==
  /\ NoCall \in Calls(Address, Value) /\ FlushCall \in Calls(Address, Value)
  /\ \A a \in Address :
       /\ ReadCall(a) \in Calls(Address, Value)
       /\ \A v \in Value : WriteCall(a, v) \in Calls(Address, Value)
BY DEF Calls, NoCall, FlushCall, ReadCall, WriteCall

(* What a call promises, in terms of what the processor sees.              *)
KeepsWords == \A b \in Address : memory'[b] \in {memory[b], Seen'[b]}

LEMMA ReadKeepsInv ==
  ASSUME Inv, NEW a \in Address, Read(a)
  PROVE  /\ Inv' /\ KeepsWords
         /\ call' = ReadCall(a) /\ Seen' = Seen /\ reply' = Seen[a]
<1> USE CallsAreTyped
<1>1. /\ SeenThroughSets /\ Seen \in [Address -> Value]
      /\ call' = ReadCall(a)
  BY SeenWords, SeenIsTyped DEF Inv, Coherent, Read
<1>2. /\ IndexOf(a) \in LineIndex /\ TagOf(a) \in Tag /\ OffsetOf(a) \in BlockOffset
      /\ a = AddressOf(TagOf(a), IndexOf(a), OffsetOf(a))
  BY PartsOfAddress
<1>3. CASE ReadHit(a)
  <2>1. SetOf(a) \in SetIndex /\ Holds(SetOf(a), IndexOf(a), TagOf(a))
    BY <1>3, SetFound DEF ReadHit
  <2>2. strategy' \in Strategy
    BY <1>2, <1>3, <2>1, UseIsRecorded DEF ReadHit, Inv, TypeOK, CacheTypeOK
  <2>3. UNCHANGED <<memory, lines, dirties>> /\ reply' = Seen[a]
    BY <1>1, <1>3, <2>1 DEF ReadHit, Seen
  <2>4. Coherent'
    BY <2>3 DEF Inv, Coherent, OneCopy, CleanIsCurrent, DirtyIsValid, Holds
  <2>5. Seen' = Seen
    <3>1. lines' = lines /\ memory' = memory
      BY <2>3
    <3>2. \A b : (Hit(b)' <=> Hit(b)) /\ Cached(b)' = Cached(b)
      BY <3>1, ZenonT(30) DEF Hit, Cached, SetOf, Holds
    <3> QED
      BY <3>1, <3>2 DEF Seen
  <2>6. TypeOK'
    BY <1>1, <2>2, <2>3 DEF Inv, TypeOK, CacheTypeOK
  <2> QED
    BY <1>1, <2>3, <2>4, <2>5, <2>6 DEF Inv, KeepsWords
<1>4. CASE ReadMiss(a)
  <2> DEFINE line == IndexOf(a)
             tag  == TagOf(a)
             new  == Filled(memory', tag, line)
  <2>1. PICK c \in Candidates(line) :
          /\ strategy' = c.strategy
          /\ memory' = MemoryAfter(c.set, line, tag)
          /\ lines' = [lines EXCEPT ![c.set][line] = new]
          /\ dirties' = [dirties EXCEPT ![c.set][line] = FALSE]
    BY <1>4 DEF ReadMiss
  <2>2. /\ c.set \in SetIndex /\ strategy' \in Strategy
        /\ ~Full(line) => ~lines[c.set][line].valid
    BY <1>2, <2>1, CandidateIsSet, FreeSetFound DEF Inv, TypeOK, CacheTypeOK, Candidates
  <2>3. memory' \in [Address -> Value]
    BY <1>2, <2>1, <2>2, MemoryIsTyped DEF Inv
  <2>4. new.valid /\ new.tag = tag /\ new \in CacheLine
    BY <1>2, <2>3, AddressParts DEF Filled, Block, CacheLine
  <2>5. /\ lines' \in [SetIndex -> [LineIndex -> CacheLine]]
        /\ dirties' \in [SetIndex -> [LineIndex -> BOOLEAN]]
        /\ Coherent'
        /\ \A b \in Address :
             /\ memory'[b] \in {memory[b], Seen[b]}
             /\ SameBlock(a, b) => memory'[b] = Seen[b]
             /\ Seen'[b] = IF SameBlock(a, b) THEN new.datas[OffsetOf(b)] ELSE Seen[b]
    <3> DEFINE set == c.set
               dirty == FALSE
    <3>1. /\ memory' = MemoryAfter(set, line, tag)
          /\ lines' = Put(lines, set, line, new)
          /\ dirties' = Put(dirties, set, line, dirty)
          /\ dirty \in BOOLEAN
      BY <2>1 DEF Put
    <3>2. ~Hit(a) /\ line = IndexOf(a) /\ tag = TagOf(a)
      BY <1>4 DEF ReadMiss
    <3>3. new.datas = Filled(memory', tag, line).datas
      OBVIOUS
    <3>4. set \in SetIndex /\ (~Full(line) => ~lines[set][line].valid)
      BY <2>2
    <3> HIDE DEF new, line, tag, set, dirty
    <3> QED
      BY <2>4, <3>1, <3>2, <3>3, <3>4, Filling
  <2>6. \A o \in BlockOffset : new.datas[o] = memory'[AddressOf(tag, line, o)]
    BY DEF Filled, Block
  <2> HIDE DEF new
  <2>7. \A b \in Address : Seen'[b] = Seen[b]
    <3> TAKE b \in Address
    <3>1. CASE SameBlock(a, b)
      <4>1. b = AddressOf(tag, line, OffsetOf(b)) /\ OffsetOf(b) \in BlockOffset
        BY <3>1, PartsOfAddress DEF SameBlock
      <4> QED
        BY <2>5, <2>6, <3>1, <4>1
    <3> QED
      BY <2>5, <3>1
  <2>8. Seen' = Seen
    BY <2>7 DEF Seen
  <2>9. reply' = Seen[a]
    <3>1. reply' = new.datas[OffsetOf(a)]
      BY <1>4 DEF ReadMiss, new
    <3>2. SameBlock(a, a)
      BY DEF SameBlock
    <3> QED
      BY <2>5, <2>7, <3>1, <3>2
  <2>10. TypeOK'
    BY <1>1, <2>2, <2>3, <2>5, <2>9 DEF TypeOK, CacheTypeOK
  <2> QED
    BY <1>1, <2>5, <2>8, <2>9, <2>10 DEF Inv, KeepsWords
<1> QED
  BY <1>3, <1>4 DEF Read

LEMMA WriteKeepsInv ==
  ASSUME Inv, NEW a \in Address, NEW v \in Value, Write(a, v)
  PROVE  /\ Inv' /\ KeepsWords
         /\ call' = WriteCall(a, v) /\ Seen' = [Seen EXCEPT ![a] = v]
         /\ reply' = NoReply
<1> USE CallsAreTyped
<1>1. /\ Seen \in [Address -> Value] /\ reply' = NoReply
      /\ call' = WriteCall(a, v)
  BY SeenIsTyped DEF Inv, Write, WriteHit, WriteMiss
<1>2. IndexOf(a) \in LineIndex /\ TagOf(a) \in Tag /\ OffsetOf(a) \in BlockOffset
  BY PartsOfAddress
<1>3. CASE WriteHit(a, v)
  <2> DEFINE set  == SetOf(a)
             line == IndexOf(a)
             new  == [lines[set][line] EXCEPT !.datas[OffsetOf(a)] = v]
  <2>1. Hit(a) /\ set \in SetIndex
    BY <1>3, SetFound DEF WriteHit
  <2>2. strategy' \in Strategy
    BY <1>2, <1>3, <2>1, UseIsRecorded DEF WriteHit, Inv, TypeOK, CacheTypeOK
  <2>3. /\ memory' = memory
        /\ lines' = Put(lines, set, line, new)
        /\ dirties' = Put(dirties, set, line, TRUE)
    BY <1>3 DEF WriteHit, Put
  <2>4. /\ lines' \in [SetIndex -> [LineIndex -> CacheLine]]
        /\ dirties' \in [SetIndex -> [LineIndex -> BOOLEAN]]
        /\ Coherent'
        /\ \A b \in Address : Seen'[b] = IF b = a THEN v ELSE Seen[b]
    BY <2>1, <2>3, Marking
  <2>5. Seen' = [Seen EXCEPT ![a] = v]
    BY <2>4 DEF Seen
  <2>6. TypeOK'
    BY <1>1, <2>2, <2>3, <2>4 DEF Inv, TypeOK, CacheTypeOK
  <2> QED
    BY <1>1, <2>3, <2>4, <2>5, <2>6 DEF Inv, KeepsWords
<1>4. CASE WriteMiss(a, v)
  <2> DEFINE line  == IndexOf(a)
             tag   == TagOf(a)
             dirty == TRUE
             block == Filled(memory', tag, line)
             new   == [block EXCEPT !.datas[OffsetOf(a)] = v]
  <2>1. PICK c \in Candidates(line) :
          /\ strategy' = c.strategy
          /\ memory' = MemoryAfter(c.set, line, tag)
          /\ lines' = [lines EXCEPT ![c.set][line] = new]
          /\ dirties' = [dirties EXCEPT ![c.set][line] = TRUE]
    BY <1>4 DEF WriteMiss
  <2> DEFINE set == c.set
  <2>2. /\ set \in SetIndex /\ strategy' \in Strategy
        /\ ~Full(line) => ~lines[set][line].valid
    BY <1>2, <2>1, CandidateIsSet, FreeSetFound DEF Inv, TypeOK, CacheTypeOK, Candidates
  <2>3. memory' \in [Address -> Value]
    BY <1>2, <2>1, <2>2, MemoryIsTyped DEF Inv
  <2>4. /\ block.valid /\ block.tag = tag /\ block \in CacheLine
        /\ \A o \in BlockOffset : block.datas[o] = memory'[AddressOf(tag, line, o)]
    BY <1>2, <2>3, AddressParts DEF Filled, Block, CacheLine
  <2> HIDE DEF block
  <2>5. /\ new.valid /\ new.tag = tag /\ new \in CacheLine
        /\ \A o \in BlockOffset :
             new.datas[o] = IF o = OffsetOf(a) THEN v ELSE block.datas[o]
    BY <1>2, <2>4 DEF CacheLine
  <2>6. /\ memory' = MemoryAfter(set, line, tag)
        /\ lines' = Put(lines, set, line, new)
        /\ dirties' = Put(dirties, set, line, dirty)
        /\ dirty \in BOOLEAN /\ dirty
    BY <2>1 DEF Put
  <2>7. ~Hit(a) /\ line = IndexOf(a) /\ tag = TagOf(a)
    BY <1>4 DEF WriteMiss
  <2> HIDE DEF new, line, tag, set, dirty
  <2>8. /\ lines' \in [SetIndex -> [LineIndex -> CacheLine]]
        /\ dirties' \in [SetIndex -> [LineIndex -> BOOLEAN]]
        /\ Coherent'
        /\ \A b \in Address :
             /\ memory'[b] \in {memory[b], Seen[b]}
             /\ SameBlock(a, b) => memory'[b] = Seen[b]
             /\ Seen'[b] = IF SameBlock(a, b) THEN new.datas[OffsetOf(b)] ELSE Seen[b]
    BY <2>2, <2>5, <2>6, <2>7, Filling
  <2>9. ASSUME NEW b \in Address
        PROVE  /\ Seen'[b] = IF b = a THEN v ELSE Seen[b]
               /\ memory'[b] \in {memory[b], Seen'[b]}
    <3>1. b = AddressOf(TagOf(b), IndexOf(b), OffsetOf(b)) /\ OffsetOf(b) \in BlockOffset
      BY PartsOfAddress
    <3>2. a = AddressOf(tag, line, OffsetOf(a))
      BY <2>7, PartsOfAddress
    <3>3. CASE SameBlock(a, b)
      <4>1. b = AddressOf(tag, line, OffsetOf(b))
        BY <2>7, <3>1, <3>3 DEF SameBlock
      <4>2. b = a <=> OffsetOf(b) = OffsetOf(a)
        BY <3>2, <4>1
      <4>3. block.datas[OffsetOf(b)] = Seen[b]
        BY <2>4, <2>8, <3>1, <3>3, <4>1
      <4>4. ~Hit(b)
        BY <2>7, <3>3 DEF SameBlock, Hit
      <4>5. Seen[b] = memory[b]
        BY <4>4 DEF Seen
      <4> QED
        BY <2>5, <2>8, <3>1, <3>3, <4>2, <4>3, <4>5
    <3>4. CASE ~SameBlock(a, b)
      BY <2>8, <3>4 DEF SameBlock
    <3> QED
      BY <3>3, <3>4
  <2>10. Seen' = [Seen EXCEPT ![a] = v]
    BY <2>9 DEF Seen
  <2>11. TypeOK'
    BY <1>1, <2>2, <2>3, <2>8 DEF TypeOK, CacheTypeOK
  <2> QED
    BY <1>1, <2>8, <2>9, <2>10, <2>11 DEF Inv, KeepsWords
<1> QED
  BY <1>3, <1>4 DEF Write

LEMMA FlushKeepsInv ==
  ASSUME Inv, FlushAll
  PROVE  /\ Inv' /\ call' = FlushCall
         /\ Seen' = Seen /\ memory' = Seen /\ reply' = NoReply
<1>1. Seen \in [Address -> Value]
  BY SeenIsTyped DEF Inv
<1> QED
  BY <1>1, Flushing, CallsAreTyped DEF FlushAll, Inv, TypeOK, CacheTypeOK

(* No choice of victims, and no sequence of calls, leaves a line invalid   *)
(* but dirty, an address in two sets, or a clean line that differs from    *)
(* the memory; every value stays in its range.                             *)
THEOREM Invariance == Spec => []Inv
<1>1. Init => Inv
  <2> SUFFICES ASSUME Init
               PROVE  Inv
    OBVIOUS
  <2>1. TypeOK
    BY CacheAssumption, CallsAreTyped
    DEF Init, CacheInit, TypeOK, CacheTypeOK, CacheLine, EmptyLine, Tag
  <2>2. Coherent
    BY DEF Init, CacheInit, EmptyLine, Coherent, OneCopy, CleanIsCurrent, DirtyIsValid
  <2> QED
    BY <2>1, <2>2 DEF Inv
<1>2. Inv /\ [Next]_vars => Inv'
  <2> SUFFICES ASSUME Inv, [Next]_vars
               PROVE  Inv'
    OBVIOUS
  <2>1. CASE \E a \in Used : Read(a) \/ \E v \in Value : Write(a, v)
    <3>1. PICK a \in Address : Read(a) \/ \E v \in Value : Write(a, v)
      BY <2>1, CacheAssumption
    <3> QED
      BY <3>1, ReadKeepsInv, WriteKeepsInv
  <2>2. CASE FlushAll
    BY <2>2, FlushKeepsInv
  <2>3. CASE UNCHANGED vars
    BY <2>3 DEF vars, cacheVars, Inv, TypeOK, CacheTypeOK, Coherent, OneCopy,
                CleanIsCurrent, DirtyIsValid, Holds
  <2> QED
    BY <2>1, <2>2, <2>3 DEF Next
<1> QED
  BY <1>1, <1>2, PTL DEF Spec

(* Every line, its flags, the replacement state and the memory keep their  *)
(* types.                                                                  *)
THEOREM TypeCorrect == Spec => []TypeOK
BY Invariance, PTL DEF Inv

(* A valid line that is not dirty holds what the memory holds, only valid  *)
(* lines are dirty, and a block has at most one line.                      *)
THEOREM CoherentAlways == Spec => []Coherent
BY Invariance, PTL DEF Inv

(* After flushAll the memory has every word the processor sees and no line *)
(* is dirty.  A read or write is another call, so that only FlushAll and   *)
(* steps that change nothing lead to a state whose last call is a flush.   *)
THEOREM FlushesLeaveNothing == Spec => []FlushedIsClean
<1>1. Init => FlushedIsClean
  BY DEF Init, CacheInit, FlushedIsClean, NoCall, FlushCall
<1>2. Inv /\ FlushedIsClean /\ [Next]_vars => FlushedIsClean'
  <2> SUFFICES ASSUME Inv, FlushedIsClean, [Next]_vars
               PROVE  FlushedIsClean'
    OBVIOUS
  <2>1. CASE \E a \in Used : Read(a) \/ \E v \in Value : Write(a, v)
    <3>1. call' # FlushCall
      BY <2>1 DEF Read, Write, ReadCall, WriteCall, FlushCall
    <3> QED
      BY <3>1 DEF FlushedIsClean
  <2>2. CASE FlushAll
    <3>1. memory' = Seen'
      BY <2>2, FlushKeepsInv
    <3>2. \A s \in SetIndex, l \in LineIndex : ~dirties'[s][l]
      BY <2>2 DEF FlushAll
    <3> QED
      BY <3>1, <3>2 DEF FlushedIsClean
  <2>3. CASE UNCHANGED vars
    <3>1. Seen' = Seen
      BY <2>3 DEF vars, cacheVars, Seen, Hit, Cached, SetOf, Holds
    <3> QED
      BY <2>3, <3>1 DEF vars, cacheVars, FlushedIsClean
  <2> QED
    BY <2>1, <2>2, <2>3 DEF Next
<1> QED
  BY <1>1, <1>2, Invariance, PTL DEF Spec

(* The cache answers every call as the memory it stands for, for every     *)
(* size, strategy and sequence of calls: a read returns what was last      *)
(* written to the address it names, a write changes the word it names and  *)
(* no other, and flushAll brings the memory behind up to date.             *)
THEOREM Implementation == Spec => ActsAsMemory
<1>1. Init => Mem!Init
  <2> SUFFICES ASSUME Init
               PROVE  Mem!Init
    OBVIOUS
  <2>1. \A a \in Address : ~Hit(a)
    BY PartsOfAddress DEF Init, CacheInit, EmptyLine, Hit, Holds
  <2>2. Seen = [a \in Address |-> memory[a]]
    BY <2>1 DEF Seen
  <2>3. Seen = InitialMemory
    BY <2>2, CacheAssumption DEF Init, CacheInit
  <2> QED
    BY <2>3 DEF Init, CacheInit, Mem!Init, Mem!NoCall, NoCall
<1>2. Inv /\ Inv' /\ [Next]_vars => [Mem!Next]_(Mem!vars)
  <2> SUFFICES ASSUME Inv, Inv', [Next]_vars
               PROVE  [Mem!Next]_(Mem!vars)
    OBVIOUS
  <2>1. memory' \in [Address -> Value]
    BY DEF Inv, TypeOK, CacheTypeOK
  <2>2. ASSUME NEW a \in Used, Read(a)
        PROVE  Mem!Read(a)
    BY <2>1, <2>2, ReadKeepsInv, CacheAssumption
    DEF Mem!Read, Mem!CatchesUp, KeepsWords, ReadCall, Mem!ReadCall
  <2>3. ASSUME NEW a \in Used, NEW v \in Value, Write(a, v)
        PROVE  Mem!Write(a, v)
    BY <2>1, <2>3, WriteKeepsInv, CacheAssumption
    DEF Mem!Write, Mem!CatchesUp, KeepsWords, WriteCall, Mem!WriteCall
  <2>4. ASSUME FlushAll
        PROVE  Mem!FlushAll
    BY <2>4, FlushKeepsInv DEF Mem!FlushAll, FlushCall, Mem!FlushCall
  <2>5. ASSUME UNCHANGED vars
        PROVE  UNCHANGED Mem!vars
    BY <2>5 DEF vars, cacheVars, Mem!vars, Seen, Hit, Cached, SetOf, Holds
  <2> QED
    BY <2>2, <2>3, <2>4, <2>5 DEF Next, Mem!Next
<1> QED
  BY <1>1, <1>2, Invariance, PTL DEF Spec, ActsAsMemory, Mem!Spec
=============================================================================
