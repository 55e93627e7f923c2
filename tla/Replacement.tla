----------------------------- MODULE Replacement -----------------------------
(***************************************************************************)
(* The replacement strategies of an associative cache: which of the sets   *)
(* of a full line gives way.  A strategy is a record of its kind and of    *)
(* what it has recorded; the code's loops over sets become choices of the  *)
(* set they stop at.                                                       *)
(***************************************************************************)
EXTENDS Integers

CONSTANTS
  SetSize,    \* copies of each line (2 ^ setBits)
  LineSize,   \* lines (2 ^ indexBits)
  BlockSize   \* words in a line (2 ^ offsetBits)

ASSUME SizesAssumption ==
  /\ SetSize \in Nat \ {0}
  /\ LineSize \in Nat \ {0}
  /\ BlockSize \in Nat \ {0}

SetIndex    == 0 .. (SetSize - 1)
LineIndex   == 0 .. (LineSize - 1)
BlockOffset == 0 .. (BlockSize - 1)

(* What a strategy has recorded.                                           *)
Fifo         == [kind : {"FIFO"}, lastUsed : SetIndex]
Random       == [kind : {"Random"}]
SecondChance == [kind : {"SecondChance"}, lastUsed : SetIndex,
                 chances : [LineIndex -> SUBSET SetIndex]]
Lru          == [kind : {"LRU"},
                 usedHistories : [LineIndex -> [1 .. SetSize -> SetIndex]]]

Strategy == Fifo \cup Random \cup SecondChance \cup Lru

(* init(): the strategies as a cache finds them.                           *)
InitialFifo   == [kind |-> "FIFO", lastUsed |-> 0]
InitialRandom == [kind |-> "Random"]
InitialSecondChance ==
  [kind |-> "SecondChance", lastUsed |-> 0, chances |-> [l \in LineIndex |-> {}]]
InitialLru ==
  [kind |-> "LRU",
   usedHistories |-> [l \in LineIndex |-> [i \in 1 .. SetSize |-> i - 1]]]

(* Mutation: the set used is taken out and not put back.                   *)
TakenOut(history, set) ==
  LET at == CHOOSE i \in 1 .. SetSize : history[i] = set
  IN  [i \in 1 .. (SetSize - 1) |->
         IF i < at THEN history[i] ELSE history[i + 1]]

(* LRU: the set used moves to the end of the line's history.               *)
MovedToEnd(history, set) ==
  LET at == CHOOSE i \in 1 .. SetSize : history[i] = set
  IN  [i \in 1 .. SetSize |->
         IF i < at THEN history[i]
         ELSE IF i < SetSize THEN history[i + 1] ELSE set]

(* use(): called on a hit.                                                 *)
Use(strategy, set, line) ==
  CASE strategy.kind = "SecondChance" ->
         [strategy EXCEPT !.chances[line] = @ \cup {set}]
    [] strategy.kind = "LRU" ->
         [strategy EXCEPT !.usedHistories[line] = MovedToEnd(@, set)]
    [] OTHER -> strategy

(* The i-th set after the one chosen last.                                 *)
Turn(strategy, i) == (strategy.lastUsed + i) % SetSize

(* Mutation: the first set in turn gives way, chance or not.               *)
FirstInTurn(strategy, line) == 1

(* Second chance: how far the hand goes until a set has no chance (left).  *)
(* It takes the chances of the sets it passes, so it stops after one round *)
(* at the latest.                                                          *)
TurnsToGo(strategy, line) ==
  CHOOSE i \in 1 .. (SetSize + 1) :
    /\ i = SetSize + 1 \/ Turn(strategy, i) \notin strategy.chances[line]
    /\ \A j \in 1 .. (i - 1) : Turn(strategy, j) \in strategy.chances[line]

Passed(strategy, line) ==
  {Turn(strategy, j) : j \in 1 .. (TurnsToGo(strategy, line) - 1)}

(* Mutation: the turns are counted on, and only the set is wrapped around. *)
NextVictimCounting(strategy, line) ==
  CASE strategy.kind = "FIFO" ->
         {[set |-> Turn(strategy, 1),
           strategy |-> [strategy EXCEPT !.lastUsed = @ + 1]]}
    [] OTHER -> {[set |-> s, strategy |-> strategy] : s \in SetIndex}

(* nextVictim(): the set and what the strategy becomes; random.nextInt may *)
(* return any set.                                                         *)
NextVictim(strategy, line) ==
  CASE strategy.kind = "FIFO" ->
         {[set |-> Turn(strategy, 1),
           strategy |-> [strategy EXCEPT !.lastUsed = Turn(strategy, 1)]]}
    [] strategy.kind = "Random" ->
         {[set |-> s, strategy |-> strategy] : s \in SetIndex}
    [] strategy.kind = "SecondChance" ->
         LET set == Turn(strategy, TurnsToGo(strategy, line))
         IN  {[set |-> set,
               strategy |->
                 [strategy EXCEPT
                    !.lastUsed = set,
                    !.chances[line] = @ \ Passed(strategy, line)]]}
    [] strategy.kind = "LRU" ->
         {[set |-> strategy.usedHistories[line][1], strategy |-> strategy]}
=============================================================================
