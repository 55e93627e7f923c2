--------------------------- MODULE MCCacheHistory ---------------------------
(* Three blocks compete for one line of two sets, so that a third one      *)
(* replaces a set, and one has the other line.                             *)
EXTENDS CacheHistory

MCInitialMemory == [a \in Address |-> (a \div 4) % 2]

MCUsed == {AddressOf(0, 0, 0), AddressOf(1, 0, BlockSize - 1),
           AddressOf(2, 0, 0), AddressOf(1, 1, 0)}

(* Whatever the strategies choose is among the random victims.             *)
MCStrategies == {InitialFifo, InitialRandom, InitialSecondChance, InitialLru}

(* The data do not matter to a replacement, and one line is enough.        *)
MCEmptyMemory == [a \in Address |-> 0]
MCLru == {InitialLru}
=============================================================================
