----------------------------- MODULE WordMemory -----------------------------
(***************************************************************************)
(* What every cache promises (ICache): a read of an address returns what   *)
(* was last written to that address, a write changes the word it names and *)
(* no other, and after flushAll the memory behind it is up to date.  Until *)
(* then the memory behind may lag, but a word of it only ever changes to   *)
(* what was written last.  The call is part of the state: what happens is  *)
(* held against what was asked for.                                        *)
(***************************************************************************)
EXTENDS CacheCalls

CONSTANTS
  Address, Value, InitialContents, NoReply,
  Used   \* the addresses the processor uses

VARIABLES
  contents,   \* what the processor has written
  behind,     \* the memory behind the cache
  call,       \* the last call
  reply       \* the value a read returned

vars == <<contents, behind, call, reply>>

(* Words of the memory behind catch up with the contents, or stay.         *)
CatchesUp ==
  /\ behind' \in [Address -> Value]
  /\ \A a \in Address : behind'[a] \in {behind[a], contents'[a]}

Init ==
  /\ contents = InitialContents
  /\ behind = InitialContents
  /\ call = NoCall
  /\ reply = NoReply

Read(a) ==
  /\ call' = ReadCall(a)
  /\ reply' = contents[a]
  /\ UNCHANGED contents
  /\ CatchesUp

Write(a, v) ==
  /\ call' = WriteCall(a, v)
  /\ reply' = NoReply
  /\ contents' = [contents EXCEPT ![a] = v]
  /\ CatchesUp

FlushAll ==
  /\ call' = FlushCall
  /\ behind' = contents
  /\ reply' = NoReply
  /\ UNCHANGED contents

Next ==
  \/ \E a \in Used : Read(a) \/ \E v \in Value : Write(a, v)
  \/ FlushAll

Spec == Init /\ [][Next]_vars
=============================================================================
