------------------------- MODULE WriteThroughTheorems -------------------------
(***************************************************************************)
(* The write-through cache acts as the memory behind it and keeps that up  *)
(* to date at all times, and second chance and LRU keep what was hit, for  *)
(* every size, set of addresses and sequence of calls.                     *)
(***************************************************************************)
EXTENDS CacheHistory, WellFoundedInduction, TLAPS

(* A search from the lowest number up finds something if there is          *)
(* something.                                                              *)
LEMMA LeastNumber ==
  ASSUME NEW S, S \subseteq Nat, S # {}
  PROVE  \E n \in S : \A m \in S : n <= m
<1> DEFINE R == {pair \in Nat \X Nat : pair[1] < pair[2]}
<1>1. IsWellFoundedOn(R, Nat)
  BY NatLessThanWellFounded DEF OpToRel
<1> HIDE DEF R
<1>2. PICK x \in S : \A y \in S : ~(<<y, x>> \in R)
  BY <1>1, WFMin
<1>3. \A y \in S : ~(y < x)
  BY <1>2 DEF R
<1> QED
  BY <1>3

(* A number below a bound is found again from its quotient and remainder.  *)
LEMMA Division ==
  ASSUME NEW n \in Nat \ {0}, NEW x \in Nat, NEW o \in 0 .. (n - 1)
  PROVE  (x * n + o) \div n = x /\ (x * n + o) % n = o
OBVIOUS

LEMMA Composition ==
  ASSUME NEW n \in Nat \ {0}, NEW x \in Nat
  PROVE  /\ x \div n \in Nat /\ x % n \in 0 .. (n - 1)
         /\ (x \div n) * n + (x % n) = x
OBVIOUS

LEMMA ProductInNat ==
  ASSUME NEW m \in Nat, NEW n \in Nat
  PROVE  m * n \in Nat
OBVIOUS

(* The parts of an address made of a tag, a line and an offset.            *)
LEMMA AddressParts ==
  ASSUME NEW t \in Tag, NEW l \in LineIndex, NEW o \in BlockOffset
  PROVE  /\ AddressOf(t, l, o) \in Address
         /\ TagOf(AddressOf(t, l, o)) = t
         /\ IndexOf(AddressOf(t, l, o)) = l
         /\ OffsetOf(AddressOf(t, l, o)) = o
<1> DEFINE block == t * LineSize + l
           word  == block * BlockSize + o
<1>1. /\ LineSize \in Nat \ {0} /\ BlockSize \in Nat \ {0}
      /\ t \in Nat /\ l \in 0 .. (LineSize - 1) /\ o \in 0 .. (BlockSize - 1)
  BY SizesAssumption, CacheAssumption DEF Tag, LineIndex, BlockOffset
<1>2. block \in Nat /\ block \div LineSize = t /\ block % LineSize = l
  <2>1. block \div LineSize = t /\ block % LineSize = l
    BY <1>1, Division
  <2>2. t * LineSize \in Nat
    BY <1>1, ProductInNat
  <2> QED
    BY <1>1, <2>1, <2>2
<1> HIDE DEF block
<1>3. word \in Nat /\ word \div BlockSize = block /\ word % BlockSize = o
  <2>1. word \div BlockSize = block /\ word % BlockSize = o
    BY <1>1, <1>2, Division
  <2>2. block * BlockSize \in Nat
    BY <1>1, <1>2, ProductInNat
  <2> QED
    BY <1>1, <2>1, <2>2
<1> HIDE DEF word
<1>4. (word * 4) \div 4 = word
  BY <1>3
<1>5. AddressOf(t, l, o) = word * 4
  BY DEF AddressOf, word, block
<1> QED
  BY <1>2, <1>3, <1>4, <1>5 DEF Address, TagOf, IndexOf, OffsetOf, BlockOf

(* Every address is made of its parts.                                     *)
LEMMA PartsOfAddress ==
  ASSUME NEW a \in Address
  PROVE  /\ TagOf(a) \in Tag /\ IndexOf(a) \in LineIndex
         /\ OffsetOf(a) \in BlockOffset
         /\ AddressOf(TagOf(a), IndexOf(a), OffsetOf(a)) = a
<1>1. PICK t \in Tag, l \in LineIndex, o \in BlockOffset : a = AddressOf(t, l, o)
  BY DEF Address
<1> QED
  BY <1>1, AddressParts

(***************************************************************************)
(* The choices: what a search over the sets finds.                         *)
(***************************************************************************)
LEMMA SetFound ==
  ASSUME NEW a, Hit(a)
  PROVE  SetOf(a) \in SetIndex /\ Holds(SetOf(a), IndexOf(a), TagOf(a))
<1> DEFINE S == {s \in SetIndex : Holds(s, IndexOf(a), TagOf(a))}
<1>1. S \subseteq Nat /\ S # {}
  BY DEF Hit, SetIndex
<1>2. PICK s \in S : \A q \in S : s <= q
  BY <1>1, LeastNumber
<1>3. \A q \in 0 .. (s - 1) : ~Holds(q, IndexOf(a), TagOf(a))
  BY <1>1, <1>2, SizesAssumption DEF SetIndex
<1> QED
  BY <1>2, <1>3 DEF SetOf

LEMMA FreeSetFound ==
  ASSUME NEW line, ~Full(line)
  PROVE  FirstFree(line) \in SetIndex /\ ~lines[FirstFree(line)][line].valid
<1> DEFINE S == {s \in SetIndex : ~lines[s][line].valid}
<1>1. S \subseteq Nat /\ S # {}
  BY DEF Full, SetIndex
<1>2. PICK s \in S : \A q \in S : s <= q
  BY <1>1, LeastNumber
<1>3. \A q \in 0 .. (s - 1) : lines[q][line].valid
  BY <1>1, <1>2, SizesAssumption DEF SetIndex
<1> QED
  BY <1>2, <1>3 DEF FirstFree

(* The hand of the second chance strategy stops after one round at the     *)
(* latest, at a set that had no chance left unless all sets had one.       *)
LEMMA HandStops ==
  ASSUME NEW q, NEW line
  PROVE  /\ TurnsToGo(q, line) \in 1 .. (SetSize + 1)
         /\ \/ TurnsToGo(q, line) = SetSize + 1
            \/ Turn(q, TurnsToGo(q, line)) \notin q.chances[line]
         /\ \A j \in 1 .. (TurnsToGo(q, line) - 1) : Turn(q, j) \in q.chances[line]
<1> DEFINE Stops(i) == i = SetSize + 1 \/ Turn(q, i) \notin q.chances[line]
           S == {i \in 1 .. (SetSize + 1) : Stops(i)}
<1> USE SizesAssumption
<1>1. S \subseteq Nat /\ S # {}
  <2>1. SetSize + 1 \in S
    OBVIOUS
  <2> QED
    BY <2>1
<1>2. PICK i \in S : \A j \in S : i <= j
  BY <1>1, LeastNumber
<1>3. \A j \in 1 .. (i - 1) : ~Stops(j)
  BY <1>2
<1>4. \A j \in 1 .. (i - 1) : Turn(q, j) \in q.chances[line]
  BY <1>3
<1> QED
  BY <1>2, <1>4 DEF TurnsToGo

(* A strategy gives a set of the line, and stays a strategy, whether it    *)
(* chooses a victim or records a use.                                      *)
LEMMA TurnIsSet ==
  ASSUME NEW q, q.lastUsed \in SetIndex, NEW i \in Nat
  PROVE  Turn(q, i) \in SetIndex
BY SizesAssumption DEF Turn, SetIndex

LEMMA VictimIsSet ==
  ASSUME NEW q \in Strategy, NEW line \in LineIndex, NEW c \in NextVictim(q, line)
  PROVE  c.set \in SetIndex /\ c.strategy \in Strategy
<1> USE SizesAssumption
<1>1. CASE q \in Fifo
  <2>1. Turn(q, 1) \in SetIndex
    BY <1>1, TurnIsSet DEF Fifo
  <2>2. c = [set |-> Turn(q, 1), strategy |-> [q EXCEPT !.lastUsed = Turn(q, 1)]]
    BY <1>1 DEF NextVictim, Fifo
  <2>3. [q EXCEPT !.lastUsed = Turn(q, 1)] \in Fifo
    BY <1>1, <2>1 DEF Fifo
  <2> QED
    BY <2>1, <2>2, <2>3 DEF Strategy
<1>2. CASE q \in Random
  <2>1. c \in {[set |-> s, strategy |-> q] : s \in SetIndex}
    BY <1>2 DEF NextVictim, Random
  <2> QED
    BY <2>1 DEF Strategy
<1>3. CASE q \in SecondChance
  <2> DEFINE set == Turn(q, TurnsToGo(q, line))
             after == [q EXCEPT !.lastUsed = set,
                                !.chances[line] = @ \ Passed(q, line)]
  <2>1. set \in SetIndex
    BY <1>3, TurnIsSet, HandStops DEF SecondChance
  <2>2. c = [set |-> set, strategy |-> after]
    BY <1>3 DEF NextVictim, SecondChance
  <2> HIDE DEF set
  <2>3. after \in SecondChance
    BY <1>3, <2>1 DEF SecondChance
  <2> HIDE DEF after
  <2> QED
    BY <2>1, <2>2, <2>3 DEF Strategy
<1>4. CASE q \in Lru
  <2>1. c = [set |-> q.usedHistories[line][1], strategy |-> q]
    BY <1>4 DEF NextVictim, Lru
  <2>2. q.usedHistories[line][1] \in SetIndex
    BY <1>4 DEF Lru
  <2> QED
    BY <2>1, <2>2
<1> QED
  BY <1>1, <1>2, <1>3, <1>4 DEF Strategy

LEMMA UseIsRecorded ==
  ASSUME NEW q \in Strategy, NEW set \in SetIndex, NEW line \in LineIndex
  PROVE  Use(q, set, line) \in Strategy
<1>1. CASE q \in Fifo \cup Random
  BY <1>1 DEF Use, Strategy, Fifo, Random
<1>2. CASE q \in SecondChance
  <2>1. Use(q, set, line) = [q EXCEPT !.chances[line] = @ \cup {set}]
    BY <1>2 DEF Use, SecondChance
  <2>2. [q EXCEPT !.chances[line] = @ \cup {set}] \in SecondChance
    BY <1>2 DEF SecondChance
  <2> QED
    BY <2>1, <2>2 DEF Strategy
<1>3. CASE q \in Lru
  <2> DEFINE history == q.usedHistories[line]
  <2>1. Use(q, set, line) = [q EXCEPT !.usedHistories[line] = MovedToEnd(@, set)]
    BY <1>3 DEF Use, Lru
  <2>2. history \in [1 .. SetSize -> SetIndex]
    BY <1>3 DEF Lru
  <2> HIDE DEF history
  <2>3. MovedToEnd(history, set) \in [1 .. SetSize -> SetIndex]
    <3> DEFINE at == CHOOSE i \in 1 .. SetSize : history[i] = set
               moved == [i \in 1 .. SetSize |->
                           IF i < at THEN history[i]
                           ELSE IF i < SetSize THEN history[i + 1] ELSE set]
    <3>1. MovedToEnd(history, set) = moved
      BY DEF MovedToEnd
    <3> HIDE DEF at
    <3>2. ASSUME NEW i \in 1 .. SetSize
          PROVE  /\ history[i] \in SetIndex /\ set \in SetIndex
                 /\ i < SetSize => history[i + 1] \in SetIndex
      BY <2>2, SizesAssumption
    <3>3. moved \in [1 .. SetSize -> SetIndex]
      BY <3>2
    <3> QED
      BY <3>1, <3>3
  <2>4. [q EXCEPT !.usedHistories[line] = MovedToEnd(@, set)] \in Lru
    BY <1>3, <2>3 DEF Lru, history
  <2> QED
    BY <2>1, <2>4 DEF Strategy
<1> QED
  BY <1>1, <1>2, <1>3 DEF Strategy

LEMMA CandidateIsSet ==
  ASSUME strategy \in Strategy, NEW line \in LineIndex, NEW c \in Candidates(line)
  PROVE  c.set \in SetIndex /\ c.strategy \in Strategy
BY VictimIsSet, FreeSetFound DEF Candidates

(***************************************************************************)
(* The cache and the memory behind it.                                     *)
(***************************************************************************)
Inv == TypeOK /\ Coherent

(* What the processor sees is what the memory holds.                       *)
UpToDate == memory = Seen

LEMMA SeenIsMemory == Inv => UpToDate
<1> SUFFICES ASSUME Inv
             PROVE  memory = Seen
  BY DEF UpToDate
<1>1. ASSUME NEW a \in Address, Hit(a)
      PROVE  Cached(a) = memory[a]
  <2>1. SetOf(a) \in SetIndex /\ Holds(SetOf(a), IndexOf(a), TagOf(a))
    BY <1>1, SetFound
  <2>2. /\ IndexOf(a) \in LineIndex /\ OffsetOf(a) \in BlockOffset
        /\ AddressOf(TagOf(a), IndexOf(a), OffsetOf(a)) = a
    BY PartsOfAddress
  <2> QED
    BY <2>1, <2>2 DEF Cached, Holds, Inv, Coherent, CachedIsCurrent
<1>2. memory = [a \in Address |-> memory[a]]
  BY DEF Inv, TypeOK, CacheTypeOK
<1> QED
  BY <1>1, <1>2 DEF Seen

(* One entry of a table changed.                                           *)
Put(table, s, l, v) == [table EXCEPT ![s][l] = v]

LEMMA LineUpdate ==
  ASSUME TypeOK, NEW set \in SetIndex, NEW line \in LineIndex, NEW new \in CacheLine,
         lines' = Put(lines, set, line, new)
  PROVE  /\ lines' \in [SetIndex -> [LineIndex -> CacheLine]]
         /\ lines'[set][line] = new
         /\ \A q \in SetIndex, l \in LineIndex :
              ~(q = set /\ l = line) => lines'[q][l] = lines[q][l]
BY DEF Put, TypeOK, CacheTypeOK

(* The address of a word in a line.                                        *)
LEMMA LineAddress ==
  ASSUME TypeOK, NEW s \in SetIndex, NEW l \in LineIndex, NEW o \in BlockOffset
  PROVE  /\ AddressOf(lines[s][l].tag, l, o) \in Address
         /\ TagOf(AddressOf(lines[s][l].tag, l, o)) = lines[s][l].tag
         /\ IndexOf(AddressOf(lines[s][l].tag, l, o)) = l
         /\ OffsetOf(AddressOf(lines[s][l].tag, l, o)) = o
<1>1. lines[s][l].tag \in Tag
  BY DEF TypeOK, CacheTypeOK, CacheLine
<1> QED
  BY <1>1, AddressParts

(* A miss: whichever set the block goes to, nothing of the line dropped is *)
(* missed, and the rest is as current as it was.  A write has changed the  *)
(* memory already, within the block that is fetched.                       *)
LEMMA Fetching ==
  ASSUME Inv, NEW a \in Address, ~Hit(a), NEW set \in SetIndex,
         NEW line, line = IndexOf(a), NEW tag, tag = TagOf(a),
         memory' \in [Address -> Value],
         \A b \in Address : b # a => memory'[b] = memory[b],
         lines' = Put(lines, set, line, Filled(memory', tag, line))
  PROVE  lines' \in [SetIndex -> [LineIndex -> CacheLine]] /\ Coherent'
<1> DEFINE new == Filled(memory', tag, line)
<1>1. line \in LineIndex /\ tag \in Tag
  BY PartsOfAddress
<1>2. /\ new \in CacheLine /\ new.valid /\ new.tag = tag
      /\ \A o \in BlockOffset : new.datas[o] = memory'[AddressOf(tag, line, o)]
  BY <1>1, AddressParts DEF Filled, Block, CacheLine
<1>3. lines' = Put(lines, set, line, new)
  OBVIOUS
<1> HIDE DEF new
<1>4. /\ lines' \in [SetIndex -> [LineIndex -> CacheLine]]
      /\ lines'[set][line] = new
      /\ \A q \in SetIndex, l \in LineIndex :
           ~(q = set /\ l = line) => lines'[q][l] = lines[q][l]
  BY <1>1, <1>2, <1>3, LineUpdate DEF Inv
<1>5. \A q \in SetIndex : ~Holds(q, line, tag)
  BY DEF Hit
<1>6. OneCopy'
  BY <1>1, <1>2, <1>4, <1>5 DEF Inv, Coherent, OneCopy, Holds
<1>7. CachedIsCurrent'
  <2> SUFFICES ASSUME NEW q \in SetIndex, NEW l \in LineIndex, NEW o \in BlockOffset,
                      lines'[q][l].valid
               PROVE  memory'[AddressOf(lines'[q][l].tag, l, o)] = lines'[q][l].datas[o]
    BY DEF CachedIsCurrent
  <2>1. CASE q = set /\ l = line
    BY <1>2, <1>4, <2>1
  <2>2. CASE ~(q = set /\ l = line)
    <3>1. lines'[q][l] = lines[q][l]
      BY <1>4, <2>2
    <3>2. lines[q][l].valid
      BY <3>1
    <3>3. PICK b \in Address : /\ b = AddressOf(lines[q][l].tag, l, o)
                               /\ TagOf(b) = lines[q][l].tag /\ IndexOf(b) = l
      BY LineAddress DEF Inv
    <3>4. memory[b] = lines[q][l].datas[o]
      BY <3>2, <3>3 DEF Inv, Coherent, CachedIsCurrent
    <3>5. b # a
      BY <1>5, <3>2, <3>3 DEF Holds
    <3> QED
      BY <3>1, <3>3, <3>4, <3>5
  <2> QED
    BY <2>1, <2>2
<1> QED
  BY <1>4, <1>6, <1>7 DEF Coherent

(* A hit of a write: the word changes in the line and in the memory, and   *)
(* in no other line, because no other line has it.                         *)
LEMMA Updating ==
  ASSUME Inv, NEW a \in Address, Hit(a), NEW v \in Value,
         NEW set, set = SetOf(a), NEW line, line = IndexOf(a),
         memory' = [memory EXCEPT ![a] = v],
         lines' = Put(lines, set, line,
                      [lines[set][line] EXCEPT !.datas[OffsetOf(a)] = v])
  PROVE  /\ lines' \in [SetIndex -> [LineIndex -> CacheLine]]
         /\ \A q \in SetIndex, l \in LineIndex :
              /\ lines'[q][l].valid = lines[q][l].valid
              /\ lines'[q][l].tag = lines[q][l].tag
         /\ Coherent'
<1> DEFINE new == [lines[set][line] EXCEPT !.datas[OffsetOf(a)] = v]
<1>1. /\ set \in SetIndex /\ line \in LineIndex /\ OffsetOf(a) \in BlockOffset
      /\ Holds(set, line, TagOf(a))
      /\ AddressOf(TagOf(a), line, OffsetOf(a)) = a
  BY SetFound, PartsOfAddress
<1>2. lines[set][line] \in CacheLine
  BY <1>1 DEF Inv, TypeOK, CacheTypeOK
<1>3. /\ new \in CacheLine
      /\ new.valid = lines[set][line].valid /\ new.tag = lines[set][line].tag
      /\ new.datas[OffsetOf(a)] = v
      /\ \A o \in BlockOffset : o # OffsetOf(a) => new.datas[o] = lines[set][line].datas[o]
  BY <1>1, <1>2 DEF CacheLine
<1>4. lines' = Put(lines, set, line, new)
  OBVIOUS
<1> HIDE DEF new
<1>5. /\ lines' \in [SetIndex -> [LineIndex -> CacheLine]]
      /\ lines'[set][line] = new
      /\ \A q \in SetIndex, l \in LineIndex :
           ~(q = set /\ l = line) => lines'[q][l] = lines[q][l]
  BY <1>1, <1>3, <1>4, LineUpdate DEF Inv
<1>6. \A q \in SetIndex, l \in LineIndex :
        /\ lines'[q][l].valid = lines[q][l].valid
        /\ lines'[q][l].tag = lines[q][l].tag
  <2> TAKE q \in SetIndex, l \in LineIndex
  <2>1. CASE q = set /\ l = line
    BY <1>3, <1>5, <2>1
  <2>2. CASE ~(q = set /\ l = line)
    <3>1. lines'[q][l] = lines[q][l]
      BY <1>5, <2>2
    <3> QED
      BY <3>1
  <2> QED
    BY <2>1, <2>2
<1>7. OneCopy'
  BY <1>6 DEF Inv, Coherent, OneCopy, Holds
<1>8. memory \in [Address -> Value]
  BY DEF Inv, TypeOK, CacheTypeOK
<1>9. CachedIsCurrent'
  <2> SUFFICES ASSUME NEW q \in SetIndex, NEW l \in LineIndex, NEW o \in BlockOffset,
                      lines'[q][l].valid
               PROVE  memory'[AddressOf(lines'[q][l].tag, l, o)] = lines'[q][l].datas[o]
    BY DEF CachedIsCurrent
  <2>1. lines[q][l].valid /\ lines'[q][l].tag = lines[q][l].tag
    BY <1>6
  <2>2. PICK b \in Address : /\ b = AddressOf(lines[q][l].tag, l, o)
                             /\ TagOf(b) = lines[q][l].tag /\ IndexOf(b) = l
                             /\ OffsetOf(b) = o
    BY LineAddress DEF Inv
  <2>3. memory[b] = lines[q][l].datas[o]
    BY <2>1, <2>2 DEF Inv, Coherent, CachedIsCurrent
  <2>4. CASE b = a
    <3>1. q = set /\ l = line
      BY <1>1, <2>1, <2>2, <2>4 DEF Holds, Inv, Coherent, OneCopy
    <3>2. lines'[q][l].datas[o] = v
      BY <1>3, <1>5, <2>2, <2>4, <3>1
    <3>3. memory'[b] = v
      BY <1>8, <2>4
    <3> QED
      BY <2>1, <2>2, <3>2, <3>3
  <2>5. CASE b # a
    <3>1. lines'[q][l].datas[o] = lines[q][l].datas[o]
      <4>1. CASE q = set /\ l = line
        <5>1. lines[q][l].tag = TagOf(a)
          BY <1>1, <4>1 DEF Holds
        <5>2. o # OffsetOf(a)
          BY <1>1, <2>2, <2>5, <4>1, <5>1
        <5> QED
          BY <1>3, <1>5, <4>1, <5>2
      <4>2. CASE ~(q = set /\ l = line)
        <5>1. lines'[q][l] = lines[q][l]
          BY <1>5, <4>2
        <5> QED
          BY <5>1
      <4> QED
        BY <4>1, <4>2
    <3>2. memory'[b] = memory[b]
      BY <1>8, <2>5
    <3> QED
      BY <2>1, <2>2, <2>3, <3>1, <3>2
  <2> QED
    BY <2>4, <2>5
<1> QED
  BY <1>5, <1>6, <1>7, <1>9 DEF Coherent

(***************************************************************************)
(* The calls.                                                              *)
(***************************************************************************)
(* Every call of the cache is one of the calls.                            *)
LEMMA CallsAreTyped ==
  /\ NoCall \in Calls(Address, Value) /\ FlushCall \in Calls(Address, Value)
  /\ \A a \in Address :
       /\ ReadCall(a) \in Calls(Address, Value)
       /\ \A v \in Value : WriteCall(a, v) \in Calls(Address, Value)
BY DEF Calls, NoCall, FlushCall, ReadCall, WriteCall

LEMMA ReadKeepsInv ==
  ASSUME Inv, NEW a \in Address, Read(a)
  PROVE  Inv' /\ call' = ReadCall(a) /\ memory' = memory /\ reply' = memory[a]
<1> USE CallsAreTyped
<1>1. /\ IndexOf(a) \in LineIndex /\ TagOf(a) \in Tag /\ OffsetOf(a) \in BlockOffset
      /\ AddressOf(TagOf(a), IndexOf(a), OffsetOf(a)) = a
  BY PartsOfAddress
<1>2. /\ memory' = memory /\ memory' \in [Address -> Value] /\ memory[a] \in Value
      /\ call' = ReadCall(a)
  BY DEF Read, ReadHit, ReadMiss, Inv, TypeOK, CacheTypeOK
<1>3. CASE ReadHit(a)
  <2>1. SetOf(a) \in SetIndex
    BY <1>3, SetFound DEF ReadHit
  <2>2. strategy' \in Strategy
    BY <1>1, <1>3, <2>1, UseIsRecorded DEF ReadHit, Inv, TypeOK, CacheTypeOK
  <2>3. lines' = lines /\ reply' = Cached(a) /\ Hit(a)
    BY <1>3 DEF ReadHit
  <2>4. reply' = memory[a]
    BY <2>3, SeenIsMemory DEF UpToDate, Seen
  <2>5. Coherent'
    BY <1>2, <2>3 DEF Inv, Coherent, OneCopy, CachedIsCurrent, Holds
  <2> QED
    BY <1>2, <2>2, <2>3, <2>4, <2>5 DEF Inv, TypeOK, CacheTypeOK
<1>4. CASE ReadMiss(a)
  <2> DEFINE line == IndexOf(a)
             tag  == TagOf(a)
  <2>1. PICK c \in Candidates(line) :
          /\ strategy' = c.strategy
          /\ lines' = [lines EXCEPT ![c.set][line] = Filled(memory, tag, line)]
    BY <1>4 DEF ReadMiss
  <2>2. c.set \in SetIndex /\ strategy' \in Strategy
    BY <1>1, <2>1, CandidateIsSet DEF Inv, TypeOK, CacheTypeOK
  <2>3. lines' \in [SetIndex -> [LineIndex -> CacheLine]] /\ Coherent'
    <3> DEFINE set == c.set
    <3>1. lines' = Put(lines, set, line, Filled(memory', tag, line))
      BY <1>2, <2>1 DEF Put
    <3>2. ~Hit(a) /\ set \in SetIndex /\ line = IndexOf(a) /\ tag = TagOf(a)
      BY <1>4, <2>2 DEF ReadMiss
    <3> HIDE DEF set, line, tag
    <3> QED
      BY <1>2, <3>1, <3>2, Fetching
  <2>4. reply' = memory[a]
    BY <1>1, <1>4 DEF ReadMiss, Filled, Block
  <2> QED
    BY <1>2, <2>2, <2>3, <2>4 DEF Inv, TypeOK, CacheTypeOK
<1> QED
  BY <1>3, <1>4 DEF Read

LEMMA WriteKeepsInv ==
  ASSUME Inv, NEW a \in Address, NEW v \in Value, Write(a, v)
  PROVE  /\ Inv' /\ call' = WriteCall(a, v)
         /\ memory' = [memory EXCEPT ![a] = v] /\ reply' = NoReply
<1> USE CallsAreTyped
<1>1. /\ memory' = [memory EXCEPT ![a] = v] /\ reply' = NoReply
      /\ call' = WriteCall(a, v)
      /\ memory' \in [Address -> Value]
      /\ \A b \in Address : b # a => memory'[b] = memory[b]
  BY DEF Write, WriteHit, WriteMiss, Inv, TypeOK, CacheTypeOK
<1>2. IndexOf(a) \in LineIndex
  BY PartsOfAddress
<1>3. CASE WriteHit(a, v)
  <2> DEFINE set  == SetOf(a)
             line == IndexOf(a)
  <2>1. Hit(a) /\ set \in SetIndex
    BY <1>3, SetFound DEF WriteHit
  <2>2. strategy' \in Strategy
    BY <1>2, <1>3, <2>1, UseIsRecorded DEF WriteHit, Inv, TypeOK, CacheTypeOK
  <2>3. lines' = Put(lines, set, line,
                     [lines[set][line] EXCEPT !.datas[OffsetOf(a)] = v])
    BY <1>3 DEF WriteHit, Put
  <2>4. lines' \in [SetIndex -> [LineIndex -> CacheLine]] /\ Coherent'
    BY <1>1, <2>1, <2>3, Updating
  <2> QED
    BY <1>1, <2>2, <2>4 DEF Inv, TypeOK, CacheTypeOK
<1>4. CASE WriteMiss(a, v)
  <2> DEFINE line == IndexOf(a)
             tag  == TagOf(a)
  <2>1. PICK c \in Candidates(line) :
          /\ strategy' = c.strategy
          /\ lines' = [lines EXCEPT ![c.set][line] = Filled(memory', tag, line)]
    BY <1>4 DEF WriteMiss
  <2>2. c.set \in SetIndex /\ strategy' \in Strategy
    BY <1>2, <2>1, CandidateIsSet DEF Inv, TypeOK, CacheTypeOK
  <2>3. lines' \in [SetIndex -> [LineIndex -> CacheLine]] /\ Coherent'
    <3> DEFINE set == c.set
    <3>1. lines' = Put(lines, set, line, Filled(memory', tag, line))
      BY <2>1 DEF Put
    <3>2. ~Hit(a) /\ set \in SetIndex /\ line = IndexOf(a) /\ tag = TagOf(a)
      BY <1>4, <2>2 DEF WriteMiss
    <3> HIDE DEF set, line, tag
    <3> QED
      BY <1>1, <3>1, <3>2, Fetching
  <2> QED
    BY <1>1, <2>2, <2>3 DEF Inv, TypeOK, CacheTypeOK
<1> QED
  BY <1>3, <1>4 DEF Write

(* Neither a victim nor a write leaves a line that differs from the memory *)
(* or an address in two sets; every value stays in its range.              *)
THEOREM Invariance == Spec => []Inv
<1>1. Init => Inv
  <2> SUFFICES ASSUME Init
               PROVE  Inv
    OBVIOUS
  <2>1. TypeOK
    BY CacheAssumption, CallsAreTyped
    DEF Init, CacheInit, TypeOK, CacheTypeOK, CacheLine, EmptyLine, Tag
  <2>2. Coherent
    BY DEF Init, CacheInit, EmptyLine, Coherent, OneCopy, CachedIsCurrent
  <2> QED
    BY <2>1, <2>2 DEF Inv
<1>2. Inv /\ [Next]_vars => Inv'
  <2> SUFFICES ASSUME Inv, [Next]_vars
               PROVE  Inv'
    OBVIOUS
  <2>1. CASE \E a \in Used : Read(a) \/ \E v \in Value : Write(a, v)
    <3>1. PICK a \in Address : Read(a) \/ \E v \in Value : Write(a, v)
      BY <2>1, CacheAssumption
    <3> QED
      BY <3>1, ReadKeepsInv, WriteKeepsInv
  <2>2. CASE FlushAll \/ UNCHANGED vars
    BY <2>2, CallsAreTyped
    DEF FlushAll, vars, cacheVars, Inv, TypeOK, CacheTypeOK, Coherent, OneCopy,
        CachedIsCurrent, Holds
  <2> QED
    BY <2>1, <2>2 DEF Next
<1> QED
  BY <1>1, <1>2, PTL DEF Spec

(* Every line, the replacement state and the memory keep their types.      *)
THEOREM TypeCorrect == Spec => []TypeOK
BY Invariance, PTL DEF Inv

(* A valid line holds what the memory holds, and a block has at most one   *)
(* line: dropping one loses nothing.                                       *)
THEOREM CoherentAlways == Spec => []Coherent
BY Invariance, PTL DEF Inv

(* The cache answers every call as the memory behind it, for every size,   *)
(* strategy and sequence of calls: a write changes the word it names there *)
(* and no other, and a read returns the word that memory has at the        *)
(* address it names.                                                       *)
THEOREM Implementation == Spec => ActsAsMemory
<1>1. Init => Mem!Init
  BY DEF Init, CacheInit, Mem!Init, NoCall, Mem!NoCall
<1>2. Inv /\ [Next]_vars => [Mem!Next]_(Mem!vars)
  <2> SUFFICES ASSUME Inv, [Next]_vars
               PROVE  [Mem!Next]_(Mem!vars)
    OBVIOUS
  <2>1. memory \in [Address -> Value]
    BY DEF Inv, TypeOK, CacheTypeOK
  <2>2. ASSUME NEW a \in Used, Read(a)
        PROVE  Mem!Read(a)
    BY <2>1, <2>2, ReadKeepsInv, CacheAssumption
    DEF Mem!Read, Mem!CatchesUp, ReadCall, Mem!ReadCall
  <2>3. ASSUME NEW a \in Used, NEW v \in Value, Write(a, v)
        PROVE  Mem!Write(a, v)
    <3>1. /\ call' = WriteCall(a, v) /\ reply' = NoReply
          /\ memory' = [memory EXCEPT ![a] = v]
      BY <2>3, WriteKeepsInv, CacheAssumption
    <3>2. memory' \in [Address -> Value]
      BY <2>1, <3>1
    <3> QED
      BY <3>1, <3>2 DEF Mem!Write, Mem!CatchesUp, WriteCall, Mem!WriteCall
  <2>4. ASSUME FlushAll
        PROVE  Mem!FlushAll
    BY <2>4 DEF FlushAll, Mem!FlushAll, FlushCall, Mem!FlushCall
  <2>5. ASSUME UNCHANGED vars
        PROVE  UNCHANGED Mem!vars
    BY <2>5 DEF vars, cacheVars, Mem!vars
  <2> QED
    BY <2>2, <2>3, <2>4, <2>5 DEF Next, Mem!Next
<1> QED
  BY <1>1, <1>2, Invariance, PTL DEF Spec, ActsAsMemory, Mem!Spec

(***************************************************************************)
(* What the strategies choose.                                             *)
(***************************************************************************)
(* In one round every set has its turn.                                    *)
LEMMA EverySetHasItsTurn ==
  ASSUME NEW q, q.lastUsed \in SetIndex, NEW s \in SetIndex
  PROVE  \E j \in 1 .. SetSize : Turn(q, j) = s
<1> DEFINE last == q.lastUsed
<1>1. SetSize \in Nat \ {0} /\ s \in 0 .. (SetSize - 1) /\ last \in 0 .. (SetSize - 1)
  BY SizesAssumption DEF SetIndex
<1> HIDE DEF last
<1>2. s % SetSize = s /\ (s + SetSize) % SetSize = s
  <2>1. (0 * SetSize + s) % SetSize = s /\ (1 * SetSize + s) % SetSize = s
    BY <1>1, Division
  <2> QED
    BY <1>1, <2>1
<1>3. CASE last < s
  <2>1. s - last \in 1 .. SetSize /\ last + (s - last) = s
    BY <1>1, <1>3
  <2> QED
    BY <1>2, <2>1 DEF Turn, last
<1>4. CASE s <= last
  <2>1. s + SetSize - last \in 1 .. SetSize /\ last + (s + SetSize - last) = s + SetSize
    BY <1>1, <1>4
  <2> QED
    BY <1>2, <2>1 DEF Turn, last
<1> QED
  BY <1>1, <1>3, <1>4

(* Second chance: the set replaced has no chance afterwards, and had none  *)
(* before unless every set of the line had one.                            *)
LEMMA ChancesAreTaken ==
  ASSUME NEW q \in SecondChance, NEW line \in LineIndex, NEW c \in NextVictim(q, line)
  PROVE  /\ c.strategy.kind = "SecondChance"
         /\ c.strategy.chances[line] \subseteq q.chances[line]
         /\ \A l \in LineIndex : l # line => c.strategy.chances[l] = q.chances[l]
         /\ c.set \notin c.strategy.chances[line]
         /\ c.set \in q.chances[line] => SetIndex \subseteq q.chances[line]
<1> DEFINE go    == TurnsToGo(q, line)
           set   == Turn(q, go)
           after == [q EXCEPT !.lastUsed = set,
                              !.chances[line] = @ \ Passed(q, line)]
<1>1. c = [set |-> set, strategy |-> after]
  BY DEF NextVictim, SecondChance
<1>2. /\ after.kind = "SecondChance"
      /\ after.chances[line] = q.chances[line] \ Passed(q, line)
      /\ \A l \in LineIndex : l # line => after.chances[l] = q.chances[l]
  BY DEF SecondChance
<1>3. /\ go \in 1 .. (SetSize + 1)
      /\ go = SetSize + 1 \/ set \notin q.chances[line]
      /\ \A j \in 1 .. (go - 1) : Turn(q, j) \in q.chances[line]
  BY HandStops
<1>4. \A j \in 1 .. (go - 1) : Turn(q, j) \in Passed(q, line)
  BY DEF Passed
<1>5. CASE set \notin q.chances[line]
  BY <1>1, <1>2, <1>5
<1>6. CASE set \in q.chances[line]
  <2>1. go = SetSize + 1
    BY <1>3, <1>6
  <2>2. SetIndex \subseteq q.chances[line] /\ SetIndex \subseteq Passed(q, line)
    <3> SUFFICES ASSUME NEW s \in SetIndex
                 PROVE  s \in q.chances[line] /\ s \in Passed(q, line)
      OBVIOUS
    <3>1. PICK j \in 1 .. SetSize : Turn(q, j) = s
      BY EverySetHasItsTurn DEF SecondChance
    <3>2. j \in 1 .. (go - 1)
      BY <2>1, SizesAssumption
    <3> QED
      BY <1>3, <1>4, <3>1, <3>2
  <2>3. set \in SetIndex
    BY <1>3, TurnIsSet DEF SecondChance
  <2> HIDE DEF set, after
  <2> QED
    BY <1>1, <1>2, <2>2, <2>3
<1> QED
  BY <1>5, <1>6

(* LRU: the history of a line lists each of its sets once.                 *)
Ordered(history) ==
  /\ \A s \in SetIndex : \E i \in 1 .. SetSize : history[i] = s
  /\ \A i, j \in 1 .. SetSize : history[i] = history[j] => i = j

(* The sets of H are those used last.                                      *)
ComeLast(history, H) ==
  \A i, j \in 1 .. SetSize : i < j /\ history[i] \in H => history[j] \in H

LEMMA UseComesLast ==
  ASSUME NEW history, Ordered(history), NEW set \in SetIndex,
         NEW H, ComeLast(history, H)
  PROVE  /\ Ordered(MovedToEnd(history, set))
         /\ ComeLast(MovedToEnd(history, set), H \cup {set})
<1> DEFINE at    == CHOOSE i \in 1 .. SetSize : history[i] = set
           moved == [i \in 1 .. SetSize |->
                       IF i < at THEN history[i]
                       ELSE IF i < SetSize THEN history[i + 1] ELSE set]
<1>1. MovedToEnd(history, set) = moved
  BY DEF MovedToEnd
<1>2. at \in 1 .. SetSize /\ history[at] = set
  BY DEF Ordered
<1> HIDE DEF at
<1>3. SetSize \in Nat
  BY SizesAssumption
<1>4. /\ \A i \in 1 .. SetSize : i < at => moved[i] = history[i]
      /\ \A i \in 1 .. SetSize : at <= i /\ i < SetSize => moved[i] = history[i + 1]
      /\ moved[SetSize] = set
  BY <1>2, <1>3
<1> HIDE DEF moved
(* Where the i-th set of the new history was in the old one.               *)
<1> DEFINE From(i) == IF i < at THEN i ELSE IF i < SetSize THEN i + 1 ELSE at
<1>5. \A i \in 1 .. SetSize : From(i) \in 1 .. SetSize /\ moved[i] = history[From(i)]
  BY <1>2, <1>3, <1>4
<1>6. Ordered(moved)
  <2>1. ASSUME NEW s \in SetIndex
        PROVE  \E i \in 1 .. SetSize : moved[i] = s
    <3>1. PICK k \in 1 .. SetSize : history[k] = s
      BY DEF Ordered
    <3>2. CASE k < at
      BY <1>4, <3>1, <3>2
    <3>3. CASE k = at
      BY <1>2, <1>3, <1>4, <3>1, <3>3
    <3>4. CASE k > at
      <4>1. k - 1 \in 1 .. SetSize /\ at <= k - 1 /\ k - 1 < SetSize /\ (k - 1) + 1 = k
        BY <1>2, <1>3, <3>4
      <4> QED
        BY <1>4, <3>1, <4>1
    <3> QED
      BY <1>2, <1>3, <3>2, <3>3, <3>4
  <2>2. ASSUME NEW i \in 1 .. SetSize, NEW j \in 1 .. SetSize, moved[i] = moved[j]
        PROVE  i = j
    <3>1. From(i) = From(j)
      BY <1>5, <2>2 DEF Ordered
    <3> QED
      BY <1>2, <1>3, <3>1
  <2> QED
    BY <2>1, <2>2 DEF Ordered
<1>7. ComeLast(moved, H \cup {set})
  <2> SUFFICES ASSUME NEW i \in 1 .. SetSize, NEW j \in 1 .. SetSize, i < j,
                      moved[i] \in H \cup {set}
               PROVE  moved[j] \in H \cup {set}
    BY DEF ComeLast
  <2>1. CASE j = SetSize
    BY <1>4, <2>1
  <2>2. CASE j < SetSize
    <3>1. From(i) # at
      BY <1>2, <1>3, <2>2
    <3>2. moved[i] # set
      BY <1>2, <1>5, <3>1 DEF Ordered
    <3>3. history[From(i)] \in H /\ From(i) < From(j)
      BY <1>2, <1>3, <1>5, <2>2, <3>2
    <3> HIDE DEF From
    <3> QED
      BY <1>5, <3>3 DEF ComeLast
  <2> QED
    BY <1>3, <2>1, <2>2
<1> QED
  BY <1>1, <1>6, <1>7

(***************************************************************************)
(* What the history variables record.                                      *)
(***************************************************************************)
(* init() clears the chances and lists the sets in order; the hand is left *)
(* where it was.                                                           *)
FreshStrategies ==
  \A q \in Strategies :
    /\ q.kind = "SecondChance" => q.chances = InitialSecondChance.chances
    /\ q.kind = "LRU" => q.usedHistories = InitialLru.usedHistories

(* Only sets in use are hit or idle, and none is both.                     *)
HistoryTypeOK ==
  /\ hits \in [LineIndex -> SUBSET SetIndex]
  /\ idle \in [LineIndex -> SUBSET SetIndex]
  /\ \A l \in LineIndex :
       /\ hits[l] \cap idle[l] = {}
       /\ \A s \in hits[l] \cup idle[l] : lines[s][l].valid

(* Second chance: what was hit has a chance, what is idle has none.        *)
ChancesFollowHits ==
  strategy.kind = "SecondChance" =>
    \A l \in LineIndex :
      /\ hits[l] \subseteq strategy.chances[l]
      /\ strategy.chances[l] \cap idle[l] = {}
      /\ \A s \in SetIndex : s \in strategy.chances[l] => lines[s][l].valid

(* LRU: what was hit stands behind all the rest.                           *)
HitsComeLast ==
  strategy.kind = "LRU" =>
    \A l \in LineIndex :
      /\ Ordered(strategy.usedHistories[l])
      /\ ComeLast(strategy.usedHistories[l], hits[l])

HistoryInv == HistoryTypeOK /\ ChancesFollowHits /\ HitsComeLast

(* What an access does to a line of the cache: a set is used again ...     *)
Reused(set, line) ==
  /\ lines[set][line].valid
  /\ \A q \in SetIndex, l \in LineIndex :
       /\ lines[q][l].valid => lines'[q][l].valid
       /\ lines'[q][l].tag = lines[q][l].tag
  /\ strategy' = Use(strategy, set, line)
  /\ hits' = [hits EXCEPT ![line] = @ \cup {set}]
  /\ idle' = [idle EXCEPT ![line] = @ \ {set}]

(* ... or filled ...                                                       *)
Refilled(set, line) ==
  /\ lines'[set][line].valid
  /\ \A q \in SetIndex, l \in LineIndex :
       ~(q = set /\ l = line) => lines'[q][l] = lines[q][l]
  /\ idle' = [idle EXCEPT ![line] = @ \cup {set}]

(* ... for the first time ...                                              *)
TakenIntoUse(set, line) ==
  /\ ~lines[set][line].valid
  /\ Refilled(set, line)
  /\ UNCHANGED <<strategy, hits>>

(* ... or again.                                                           *)
Evicted(set, line) ==
  /\ Refilled(set, line)
  /\ \E c \in NextVictim(strategy, line) : c.set = set /\ strategy' = c.strategy
  /\ hits' = [hits EXCEPT ![line] = {}]

(* After a miss the address is in the set that was filled.                 *)
LEMMA FilledIsFound ==
  ASSUME NEW a \in Address, ~Hit(a), NEW set \in SetIndex,
         NEW line, line = IndexOf(a), NEW tag, tag = TagOf(a),
         lines'[set][line].valid, lines'[set][line].tag = tag,
         \A q \in SetIndex, l \in LineIndex :
           ~(q = set /\ l = line) => lines'[q][l] = lines[q][l]
  PROVE  SetOf(a)' = set
<1>1. line \in LineIndex
  BY PartsOfAddress
<1>2. \A q \in SetIndex : Holds(q, line, tag)' <=> q = set
  BY <1>1 DEF Hit, Holds
<1>3. set \in Nat /\ \A q \in 0 .. (set - 1) : q \in SetIndex /\ q # set
  BY SizesAssumption DEF SetIndex
<1> DEFINE Found(q) == /\ Holds(q, line, tag)'
                       /\ \A r \in 0 .. (q - 1) : ~Holds(r, line, tag)'
<1>4. \A q \in SetIndex : Found(q) <=> q = set
  BY <1>2, <1>3
<1>5. SetOf(a)' = CHOOSE q \in SetIndex : Found(q)
  BY DEF SetOf
<1> HIDE DEF Found
<1> QED
  BY <1>4, <1>5

(* An access uses a set again, fills a free one, or evicts a victim.       *)
LEMMA AccessTurns ==
  ASSUME Inv, NEW a \in Address, Access(a), NEW line, line = IndexOf(a)
  PROVE  \E set \in SetIndex :
           Reused(set, line) \/ TakenIntoUse(set, line) \/ Evicted(set, line)
<1> DEFINE tag == TagOf(a)
           s   == SetOf(a)'
<1>1. /\ Read(a) \/ \E v \in Value : Write(a, v)
      /\ hits' = CASE Hit(a)                -> [hits EXCEPT ![line] = @ \cup {s}]
                   [] ~Hit(a) /\ Full(line) -> [hits EXCEPT ![line] = {}]
                   [] OTHER                 -> hits
      /\ idle' = [idle EXCEPT ![line] = IF Hit(a) THEN @ \ {s} ELSE @ \cup {s}]
  BY DEF Access
<1>2. line \in LineIndex /\ tag \in Tag
  BY PartsOfAddress
<1> HIDE DEF s
<1>3. CASE Hit(a)
  <2> DEFINE set == SetOf(a)
  <2>1. /\ set \in SetIndex /\ lines[set][line].valid
    BY <1>3, SetFound DEF Holds
  <2>2. ReadHit(a) \/ \E v \in Value : WriteHit(a, v)
    BY <1>1, <1>3 DEF Read, ReadMiss, Write, WriteMiss
  <2>3. strategy' = Use(strategy, set, line)
    BY <2>2 DEF ReadHit, WriteHit
  <2>4. \A q \in SetIndex, l \in LineIndex :
          /\ lines'[q][l].valid = lines[q][l].valid
          /\ lines'[q][l].tag = lines[q][l].tag
    <3>1. CASE ReadHit(a)
      BY <3>1 DEF ReadHit
    <3>2. ASSUME NEW v \in Value, WriteHit(a, v)
          PROVE  \A q \in SetIndex, l \in LineIndex :
                   /\ lines'[q][l].valid = lines[q][l].valid
                   /\ lines'[q][l].tag = lines[q][l].tag
      <4>1. /\ memory' = [memory EXCEPT ![a] = v]
            /\ lines' = Put(lines, set, line,
                            [lines[set][line] EXCEPT !.datas[OffsetOf(a)] = v])
        BY <3>2 DEF WriteHit, Put
      <4> QED
        BY <1>3, <4>1, Updating
    <3> QED
      BY <2>2, <3>1, <3>2
  <2>5. s = set
    <3>1. \A q \in SetIndex : Holds(q, line, tag)' <=> Holds(q, line, tag)
      BY <1>2, <2>4 DEF Holds
    <3>2. \A q \in SetIndex : \A r \in 0 .. (q - 1) : r \in SetIndex
      BY SizesAssumption DEF SetIndex
    <3> DEFINE Found(q) == /\ Holds(q, line, tag)
                           /\ \A r \in 0 .. (q - 1) : ~Holds(r, line, tag)
               FoundAfter(q) == /\ Holds(q, line, tag)'
                                /\ \A r \in 0 .. (q - 1) : ~Holds(r, line, tag)'
    <3>3. \A q \in SetIndex : FoundAfter(q) <=> Found(q)
      BY <3>1, <3>2
    <3>4. /\ set = CHOOSE q \in SetIndex : Found(q)
          /\ s = CHOOSE q \in SetIndex : FoundAfter(q)
      BY DEF SetOf, s
    <3> HIDE DEF Found, FoundAfter, set
    <3> QED
      BY <3>3, <3>4, Zenon
  <2> HIDE DEF set
  <2>6. /\ hits' = [hits EXCEPT ![line] = @ \cup {set}]
        /\ idle' = [idle EXCEPT ![line] = @ \ {set}]
    BY <1>1, <1>3, <2>5
  <2>7. Reused(set, line)
    BY <2>1, <2>3, <2>4, <2>6 DEF Reused
  <2> QED
    BY <2>1, <2>7
<1>4. CASE ~Hit(a)
  <2>1. ReadMiss(a) \/ \E v \in Value : WriteMiss(a, v)
    BY <1>1, <1>4 DEF Read, ReadHit, Write, WriteHit
  <2>2. PICK c \in Candidates(line), from \in {memory, memory'} :
          /\ strategy' = c.strategy
          /\ lines' = [lines EXCEPT ![c.set][line] = Filled(from, tag, line)]
    BY <2>1 DEF ReadMiss, WriteMiss
  <2> DEFINE set == c.set
             new == Filled(from, tag, line)
  <2>3. set \in SetIndex
    BY <1>2, CandidateIsSet DEF Inv, TypeOK, CacheTypeOK
  <2>4. new.valid /\ new.tag = tag
    BY DEF Filled
  <2>5. lines' = [lines EXCEPT ![set][line] = new]
    BY <2>2
  <2> HIDE DEF set, new
  <2>6. /\ lines'[set][line] = new
        /\ \A q \in SetIndex, l \in LineIndex :
             ~(q = set /\ l = line) => lines'[q][l] = lines[q][l]
    BY <1>2, <2>3, <2>5 DEF Inv, TypeOK, CacheTypeOK
  <2>7. s = set
    <3>1. lines'[set][line].valid /\ lines'[set][line].tag = tag
      BY <2>4, <2>6
    <3> QED
      BY <1>4, <2>3, <2>6, <3>1, FilledIsFound DEF s
  <2>8. Refilled(set, line)
    <3>1. idle' = [idle EXCEPT ![line] = @ \cup {set}]
      BY <1>1, <1>4, <2>7
    <3> QED
      BY <2>4, <2>6, <3>1 DEF Refilled
  <2>9. CASE Full(line)
    <3>1. c \in NextVictim(strategy, line) /\ c.set = set
      BY <2>9 DEF Candidates, set
    <3>2. hits' = [hits EXCEPT ![line] = {}]
      BY <1>1, <1>4, <2>9
    <3>3. Evicted(set, line)
      BY <2>2, <2>8, <3>1, <3>2 DEF Evicted
    <3> QED
      BY <2>3, <3>3
  <2>10. CASE ~Full(line)
    <3>1. c = [set |-> FirstFree(line), strategy |-> strategy]
      BY <2>10 DEF Candidates
    <3>2. ~lines[set][line].valid /\ strategy' = strategy
      BY <2>2, <2>10, <3>1, FreeSetFound DEF set
    <3>3. hits' = hits
      BY <1>1, <1>4, <2>10
    <3>4. TakenIntoUse(set, line)
      BY <2>8, <3>2, <3>3 DEF TakenIntoUse
    <3> QED
      BY <2>3, <3>4
  <2> QED
    BY <2>9, <2>10
<1> QED
  BY <1>3, <1>4

(* A strategy stays of its kind.                                           *)
LEMMA KindIsKept ==
  ASSUME TypeOK, NEW line \in LineIndex, NEW set \in SetIndex,
         Reused(set, line) \/ TakenIntoUse(set, line) \/ Evicted(set, line)
  PROVE  /\ strategy'.kind = strategy.kind
         /\ strategy.kind = "SecondChance" => strategy \in SecondChance
         /\ strategy.kind = "LRU" => strategy \in Lru
<1>1. strategy \in Strategy
  BY DEF TypeOK, CacheTypeOK
<1>2. CASE Reused(set, line)
  BY <1>1, <1>2 DEF Reused, Use, Strategy, Fifo, Random, SecondChance, Lru
<1>3. CASE TakenIntoUse(set, line)
  BY <1>1, <1>3 DEF TakenIntoUse, Strategy, Fifo, Random, SecondChance, Lru
<1>4. CASE Evicted(set, line)
  <2>1. PICK c \in NextVictim(strategy, line) : strategy' = c.strategy
    BY <1>4 DEF Evicted
  <2>2. CASE strategy \in Fifo
    BY <2>1, <2>2 DEF NextVictim, Fifo
  <2>3. CASE strategy \in Random
    BY <2>1, <2>3 DEF NextVictim, Random
  <2>4. CASE strategy \in SecondChance
    BY <2>1, <2>4, ChancesAreTaken DEF SecondChance
  <2>5. CASE strategy \in Lru
    BY <2>1, <2>5 DEF NextVictim, Lru
  <2>6. strategy.kind = "SecondChance" => strategy \in SecondChance
    BY <1>1 DEF Strategy, Fifo, Random, Lru
  <2>7. strategy.kind = "LRU" => strategy \in Lru
    BY <1>1 DEF Strategy, Fifo, Random, SecondChance
  <2> QED
    BY <1>1, <2>2, <2>3, <2>4, <2>5, <2>6, <2>7 DEF Strategy
<1> QED
  BY <1>2, <1>3, <1>4

(* The history variables stay about the sets in use.                       *)
LEMMA HistoryStaysTyped ==
  ASSUME TypeOK, HistoryTypeOK, NEW line \in LineIndex, NEW set \in SetIndex,
         Reused(set, line) \/ TakenIntoUse(set, line) \/ Evicted(set, line)
  PROVE  HistoryTypeOK'
<1>1. CASE Reused(set, line)
  <2>1. /\ hits' \in [LineIndex -> SUBSET SetIndex]
        /\ idle' \in [LineIndex -> SUBSET SetIndex]
    BY <1>1 DEF Reused, HistoryTypeOK
  <2>2. ASSUME NEW l \in LineIndex
        PROVE  /\ hits'[l] \cap idle'[l] = {}
               /\ \A s \in hits'[l] \cup idle'[l] : lines'[s][l].valid
    <3>1. CASE l = line
      <4>1. hits'[l] = hits[l] \cup {set} /\ idle'[l] = idle[l] \ {set}
        BY <1>1, <3>1 DEF Reused, HistoryTypeOK
      <4>2. \A s \in hits'[l] \cup idle'[l] : s \in SetIndex /\ lines[s][l].valid
        BY <1>1, <3>1, <4>1 DEF Reused, HistoryTypeOK
      <4> QED
        BY <1>1, <4>1, <4>2 DEF Reused, HistoryTypeOK
    <3>2. CASE l # line
      <4>1. hits'[l] = hits[l] /\ idle'[l] = idle[l]
        BY <1>1, <3>2 DEF Reused, HistoryTypeOK
      <4> QED
        BY <1>1, <4>1 DEF Reused, HistoryTypeOK
    <3> QED
      BY <3>1, <3>2
  <2> QED
    BY <2>1, <2>2 DEF HistoryTypeOK
<1>2. CASE TakenIntoUse(set, line) \/ Evicted(set, line)
  <2>1. /\ hits' \in [LineIndex -> SUBSET SetIndex]
        /\ idle' \in [LineIndex -> SUBSET SetIndex]
    BY <1>2 DEF TakenIntoUse, Evicted, Refilled, HistoryTypeOK
  <2>2. ASSUME NEW l \in LineIndex
        PROVE  /\ hits'[l] \cap idle'[l] = {}
               /\ \A s \in hits'[l] \cup idle'[l] : lines'[s][l].valid
    <3>1. /\ hits'[l] \subseteq hits[l]
          /\ l = line => set \notin hits'[l]
      BY <1>2 DEF TakenIntoUse, Evicted, HistoryTypeOK
    <3>2. idle'[l] = IF l = line THEN idle[l] \cup {set} ELSE idle[l]
      BY <1>2 DEF TakenIntoUse, Evicted, Refilled, HistoryTypeOK
    <3>3. hits'[l] \cap idle'[l] = {}
      BY <3>1, <3>2 DEF HistoryTypeOK
    <3>4. ASSUME NEW s \in hits'[l] \cup idle'[l]
          PROVE  lines'[s][l].valid
      <4>1. CASE s = set /\ l = line
        BY <1>2, <4>1 DEF TakenIntoUse, Evicted, Refilled
      <4>2. CASE ~(s = set /\ l = line)
        <5>1. s \in hits[l] \cup idle[l]
          BY <3>1, <3>2, <3>4, <4>2
        <5>2. s \in SetIndex /\ lines[s][l].valid
          BY <5>1 DEF HistoryTypeOK
        <5>3. lines'[s][l] = lines[s][l]
          BY <1>2, <4>2, <5>2 DEF TakenIntoUse, Evicted, Refilled
        <5> QED
          BY <5>2, <5>3
      <4> QED
        BY <4>1, <4>2
    <3> QED
      BY <3>3, <3>4
  <2> QED
    BY <2>1, <2>2 DEF HistoryTypeOK
<1> QED
  BY <1>1, <1>2

(* A chance is given by a hit and taken by the hand, which passes every    *)
(* set with a chance before it evicts one.                                 *)
LEMMA ChancesStay ==
  ASSUME TypeOK, HistoryTypeOK, ChancesFollowHits,
         NEW line \in LineIndex, NEW set \in SetIndex,
         Reused(set, line) \/ TakenIntoUse(set, line) \/ Evicted(set, line)
  PROVE  ChancesFollowHits'
<1> SUFFICES ASSUME strategy'.kind = "SecondChance", NEW l \in LineIndex
             PROVE  /\ hits'[l] \subseteq strategy'.chances[l]
                    /\ strategy'.chances[l] \cap idle'[l] = {}
                    /\ \A s \in SetIndex : s \in strategy'.chances[l] => lines'[s][l].valid
  BY DEF ChancesFollowHits
<1>1. strategy.kind = "SecondChance" /\ strategy \in SecondChance
  BY KindIsKept
<1>2. /\ hits[l] \subseteq strategy.chances[l]
      /\ strategy.chances[l] \cap idle[l] = {}
      /\ \A s \in SetIndex : s \in strategy.chances[l] => lines[s][l].valid
      /\ strategy.chances[l] \subseteq SetIndex
  BY <1>1 DEF ChancesFollowHits, SecondChance
<1>3. CASE Reused(set, line)
  <2>1. strategy'.chances[l] =
          IF l = line THEN strategy.chances[l] \cup {set} ELSE strategy.chances[l]
    BY <1>1, <1>3 DEF Reused, Use, SecondChance
  <2>2. /\ hits'[l] = IF l = line THEN hits[l] \cup {set} ELSE hits[l]
        /\ idle'[l] = IF l = line THEN idle[l] \ {set} ELSE idle[l]
    BY <1>3 DEF Reused, HistoryTypeOK
  <2>3. \A s \in SetIndex : s \in strategy'.chances[l] => lines'[s][l].valid
    BY <1>2, <1>3, <2>1 DEF Reused
  <2> QED
    BY <1>2, <2>1, <2>2, <2>3
<1>4. CASE TakenIntoUse(set, line) \/ Evicted(set, line)
  <2>1. /\ strategy'.chances[l] \subseteq strategy.chances[l]
        /\ hits'[l] \subseteq strategy'.chances[l]
        /\ l = line => set \notin strategy'.chances[l]
    <3>1. CASE TakenIntoUse(set, line)
      BY <1>2, <3>1 DEF TakenIntoUse
    <3>2. CASE Evicted(set, line)
      <4>1. PICK c \in NextVictim(strategy, line) : c.set = set /\ strategy' = c.strategy
        BY <3>2 DEF Evicted
      <4>2. /\ c.strategy.chances[line] \subseteq strategy.chances[line]
            /\ \A k \in LineIndex : k # line => c.strategy.chances[k] = strategy.chances[k]
            /\ c.set \notin c.strategy.chances[line]
        BY <1>1, ChancesAreTaken
      <4>3. hits'[l] = IF l = line THEN {} ELSE hits[l]
        BY <3>2 DEF Evicted, HistoryTypeOK
      <4> QED
        BY <1>2, <4>1, <4>2, <4>3
    <3> QED
      BY <1>4, <3>1, <3>2
  <2>2. idle'[l] = IF l = line THEN idle[l] \cup {set} ELSE idle[l]
    BY <1>4 DEF TakenIntoUse, Evicted, Refilled, HistoryTypeOK
  <2>3. ASSUME NEW s \in SetIndex, s \in strategy'.chances[l]
        PROVE  lines'[s][l].valid
    <3>1. lines[s][l].valid /\ ~(s = set /\ l = line)
      BY <1>2, <2>1, <2>3
    <3>2. lines'[s][l] = lines[s][l]
      BY <1>4, <3>1 DEF TakenIntoUse, Evicted, Refilled
    <3> QED
      BY <3>1, <3>2
  <2> QED
    BY <1>2, <2>1, <2>2, <2>3
<1> QED
  BY <1>3, <1>4

(* A hit moves the set behind all others; a victim stays where it is.      *)
LEMMA HitsStayLast ==
  ASSUME TypeOK, HistoryTypeOK, HitsComeLast,
         NEW line \in LineIndex, NEW set \in SetIndex,
         Reused(set, line) \/ TakenIntoUse(set, line) \/ Evicted(set, line)
  PROVE  HitsComeLast'
<1> SUFFICES ASSUME strategy'.kind = "LRU", NEW l \in LineIndex
             PROVE  /\ Ordered(strategy'.usedHistories[l])
                    /\ ComeLast(strategy'.usedHistories[l], hits'[l])
  BY DEF HitsComeLast
<1>1. strategy.kind = "LRU" /\ strategy \in Lru
  BY KindIsKept
<1>2. PICK history : history = strategy.usedHistories[l]
  OBVIOUS
<1>3. Ordered(history) /\ ComeLast(history, hits[l])
  BY <1>1, <1>2 DEF HitsComeLast
<1>4. CASE Reused(set, line)
  <2>1. strategy'.usedHistories[l] =
          IF l = line THEN MovedToEnd(history, set) ELSE history
    BY <1>1, <1>2, <1>4 DEF Reused, Use, Lru
  <2>2. hits'[l] = IF l = line THEN hits[l] \cup {set} ELSE hits[l]
    BY <1>4 DEF Reused, HistoryTypeOK
  <2> QED
    BY <1>3, <2>1, <2>2, UseComesLast
<1>5. CASE TakenIntoUse(set, line)
  BY <1>2, <1>3, <1>5 DEF TakenIntoUse
<1>6. CASE Evicted(set, line)
  <2>1. strategy' = strategy
    BY <1>1, <1>6 DEF Evicted, NextVictim
  <2>2. hits'[l] = IF l = line THEN {} ELSE hits[l]
    BY <1>6 DEF Evicted, HistoryTypeOK
  <2> QED
    BY <1>2, <1>3, <2>1, <2>2 DEF ComeLast
<1> QED
  BY <1>4, <1>5, <1>6

(* An eviction takes a set that was hit only when none is idle.            *)
LEMMA VictimWasNotHit ==
  ASSUME Inv, HistoryInv, strategy.kind \in {"SecondChance", "LRU"},
         NEW line \in LineIndex, NEW set \in SetIndex, Evicted(set, line),
         set \in hits[line]
  PROVE  idle[line] = {}
<1>1. PICK c \in NextVictim(strategy, line) : c.set = set
  BY DEF Evicted
<1>2. strategy \in Strategy
  BY DEF Inv, TypeOK, CacheTypeOK
<1>3. idle[line] \subseteq SetIndex /\ hits[line] \cap idle[line] = {}
  BY DEF HistoryInv, HistoryTypeOK
<1>4. CASE strategy.kind = "SecondChance"
  <2>1. strategy \in SecondChance
    BY <1>2, <1>4 DEF Strategy, Fifo, Random, SecondChance, Lru
  <2>2. /\ set \in strategy.chances[line]
        /\ strategy.chances[line] \cap idle[line] = {}
    BY <1>4 DEF HistoryInv, ChancesFollowHits
  <2>3. SetIndex \subseteq strategy.chances[line]
    BY <1>1, <2>1, <2>2, ChancesAreTaken
  <2> QED
    BY <1>3, <2>2, <2>3
<1>5. CASE strategy.kind = "LRU"
  <2>1. PICK history : history = strategy.usedHistories[line]
    OBVIOUS
  <2>2. Ordered(history) /\ ComeLast(history, hits[line])
    BY <1>5, <2>1 DEF HistoryInv, HitsComeLast
  <2>3. history[1] \in hits[line]
    BY <1>1, <1>5, <2>1 DEF NextVictim
  <2>4. \A i \in 1 .. SetSize : history[i] \in hits[line]
    BY <2>2, <2>3, SizesAssumption DEF ComeLast
  <2>5. SetIndex \subseteq hits[line]
    BY <2>2, <2>4 DEF Ordered
  <2> QED
    BY <1>3, <2>5
<1> QED
  BY <1>4, <1>5

(* The history variables do not restrict the cache, and what holds of it   *)
(* holds with them.                                                        *)
THEOREM HistoryIsOfTheCache == HistorySpec => Spec
<1>1. HistoryInit => Init
  BY DEF HistoryInit
<1>2. [HistoryNext]_historyVars => [Next]_vars
  BY DEF HistoryNext, historyVars, Access, Next
<1> QED
  BY <1>1, <1>2, PTL DEF HistorySpec, Spec

THEOREM HistoryInvariance ==
  ASSUME FreshStrategies
  PROVE  HistorySpec => []HistoryInv
<1>1. HistoryInit => HistoryInv
  <2> SUFFICES ASSUME HistoryInit
               PROVE  HistoryInv
    OBVIOUS
  <2>1. HistoryTypeOK
    BY DEF HistoryInit, HistoryTypeOK
  <2>2. strategy \in Strategies /\ hits = [l \in LineIndex |-> {}]
        /\ idle = [l \in LineIndex |-> {}]
    BY DEF HistoryInit, Init, CacheInit
  <2>3. ChancesFollowHits
    <3> SUFFICES ASSUME strategy.kind = "SecondChance", NEW l \in LineIndex
                 PROVE  strategy.chances[l] = {} /\ hits[l] = {}
      BY DEF ChancesFollowHits
    <3> QED
      BY <2>2 DEF FreshStrategies, InitialSecondChance
  <2>4. HitsComeLast
    <3> SUFFICES ASSUME strategy.kind = "LRU", NEW l \in LineIndex
                 PROVE  /\ Ordered(strategy.usedHistories[l])
                        /\ ComeLast(strategy.usedHistories[l], hits[l])
      BY DEF HitsComeLast
    <3>1. strategy.usedHistories[l] = [i \in 1 .. SetSize |-> i - 1]
      BY <2>2 DEF FreshStrategies, InitialLru
    <3>2. Ordered([i \in 1 .. SetSize |-> i - 1])
      <4>1. ASSUME NEW s \in SetIndex
            PROVE  s + 1 \in 1 .. SetSize /\ (s + 1) - 1 = s
        BY SizesAssumption DEF SetIndex
      <4> QED
        BY <4>1, SizesAssumption DEF Ordered
    <3> QED
      BY <2>2, <3>1, <3>2 DEF ComeLast
  <2> QED
    BY <2>1, <2>3, <2>4 DEF HistoryInv
<1>2. Inv /\ HistoryInv /\ [HistoryNext]_historyVars => HistoryInv'
  <2> SUFFICES ASSUME Inv, HistoryInv, [HistoryNext]_historyVars
               PROVE  HistoryInv'
    OBVIOUS
  <2>1. CASE \E a \in Used : Access(a)
    <3>1. PICK a \in Address : Access(a)
      BY <2>1, CacheAssumption
    <3>2. PICK line \in LineIndex : line = IndexOf(a)
      BY PartsOfAddress
    <3>3. PICK set \in SetIndex :
            Reused(set, line) \/ TakenIntoUse(set, line) \/ Evicted(set, line)
      BY <3>1, <3>2, AccessTurns
    <3> QED
      BY <3>3, HistoryStaysTyped, ChancesStay, HitsStayLast DEF HistoryInv, Inv
  <2>2. CASE \/ FlushAll /\ UNCHANGED <<uses, hits, idle>>
             \/ UNCHANGED historyVars
    <3>1. UNCHANGED <<lines, strategy, hits, idle>>
      BY <2>2 DEF FlushAll, historyVars, vars, cacheVars
    <3> QED
      BY <3>1 DEF HistoryInv, HistoryTypeOK, ChancesFollowHits, HitsComeLast
  <2> QED
    BY <2>1, <2>2 DEF HistoryNext
<1> QED
  BY <1>1, <1>2, HistoryIsOfTheCache, Invariance, PTL DEF HistorySpec

(* With second chance and with LRU, a set that was hit since the line's    *)
(* last replacement gives way only when every set was used again.          *)
THEOREM HitsAreKept ==
  ASSUME FreshStrategies
  PROVE  HistorySpec => RecentHitsAreKept
<1>1. Inv /\ HistoryInv /\ [HistoryNext]_historyVars =>
        [strategy.kind \in {"SecondChance", "LRU"} =>
           \A s \in SetIndex, l \in LineIndex :
             Replaced(s, l) => s \notin hits[l] \/ idle[l] = {}]_historyVars
  <2> SUFFICES ASSUME Inv, HistoryInv, [HistoryNext]_historyVars,
                      strategy.kind \in {"SecondChance", "LRU"},
                      NEW s \in SetIndex, NEW l \in LineIndex,
                      Replaced(s, l), s \in hits[l]
               PROVE  idle[l] = {}
    OBVIOUS
  <2>1. lines' # lines
    BY DEF Replaced
  <2>2. \E a \in Used : Access(a)
    BY <2>1 DEF HistoryNext, historyVars, vars, cacheVars, FlushAll
  <2>3. PICK a \in Address : Access(a)
    BY <2>2, CacheAssumption
  <2>4. PICK line \in LineIndex : line = IndexOf(a)
    BY PartsOfAddress
  <2>5. PICK set \in SetIndex :
          Reused(set, line) \/ TakenIntoUse(set, line) \/ Evicted(set, line)
    BY <2>3, <2>4, AccessTurns
  <2>6. ~Reused(set, line)
    BY DEF Reused, Replaced
  <2>7. s = set /\ l = line
    BY <2>5, <2>6 DEF TakenIntoUse, Evicted, Refilled, Replaced
  <2>8. Evicted(set, line)
    BY <2>5, <2>6, <2>7 DEF TakenIntoUse, Replaced
  <2> QED
    BY <2>7, <2>8, VictimWasNotHit
<1> QED
  BY <1>1, HistoryInvariance, HistoryIsOfTheCache, Invariance, PTL
     DEF HistorySpec, RecentHitsAreKept
=============================================================================
