--------------------------- MODULE SchedulingUnit ---------------------------
(***************************************************************************)
(* SchedulingUnit: the round robin of the multi-program pipeline.  It      *)
(* keeps, for every program, where it goes on and whether it has ended,    *)
(* and remembers which program was fetched last.                           *)
(***************************************************************************)
EXTENDS Integers, FiniteSets

CONSTANT Size   \* number of programs, one cache each

ASSUME SizeAssumption == Size \in Nat \ {0}

ProgramNumber == 0 .. (Size - 1)

ProgramInfo == [nextPc : Int, processEnd : BOOLEAN, fetchAlive : BOOLEAN]

NoProgram == -1   \* pn of an empty latch

InitialInfos ==
  [p \in ProgramNumber |->
     [nextPc |-> 0, processEnd |-> FALSE, fetchAlive |-> TRUE]]

(* Mutation: the search begins with the program fetched last.              *)
CandidateFromTheSame(last, i) == (IF last < 0 THEN i - 1 ELSE last + i - 1) % Size

(* The i-th program next() looks at.                                       *)
Candidate(last, i) == (last + i) % Size

(* next(): the first program in turn that is still fetched from; it raises *)
(* when there is none.                                                     *)
SomethingToFetch(infos) == \E p \in ProgramNumber : infos[p].fetchAlive

NextProgram(infos, last) ==
  Candidate(last, CHOOSE i \in 1 .. (Size + 1) :
                    /\ infos[Candidate(last, i)].fetchAlive
                    /\ \A j \in 1 .. (i - 1) :
                         ~infos[Candidate(last, j)].fetchAlive)

(* Mutation: the end is when nobody has a turn any more.                   *)
IsNobodyFetched(infos) == \A p \in ProgramNumber : ~infos[p].fetchAlive

IsAllEnd(infos) == \A p \in ProgramNumber : infos[p].processEnd

(* Mutation: a program that has ended is never fetched from again.         *)
UpdatedRetiring(infos, pn, nextPc) ==
  IF pn = NoProgram THEN infos
  ELSE [infos EXCEPT ![pn] =
          [nextPc |-> nextPc, processEnd |-> nextPc = -1,
           fetchAlive |-> nextPc # -1]]

(* update(): the program written back goes on at nextPc, or has ended.  An *)
(* ended program is only taken out of the round when more than three are.  *)
Updated(infos, pn, nextPc) ==
  IF pn = NoProgram THEN infos
  ELSE [infos EXCEPT ![pn] =
          [nextPc |-> nextPc, processEnd |-> nextPc = -1,
           fetchAlive |-> ~(/\ nextPc = -1
                            /\ Cardinality({p \in ProgramNumber :
                                              ~infos[p].fetchAlive}) > 3)]]
=============================================================================
