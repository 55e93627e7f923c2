-------------------------- MODULE MCWriteBackCache --------------------------
(* Two sets of two lines of two words; three blocks compete for one line,  *)
(* so that a third one replaces a set, and two for the other.              *)
EXTENDS WriteBackCache

MCInitialMemory == [a \in Address |-> (a \div 4) % 2]

MCUsed == {AddressOf(0, 0, 0), AddressOf(1, 0, 1), AddressOf(2, 0, 0),
           AddressOf(1, 1, 0)}

(* Whatever the strategies choose is among the random victims.             *)
MCStrategies == {InitialFifo, InitialRandom}
=============================================================================
