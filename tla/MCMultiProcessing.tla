-------------------------- MODULE MCMultiProcessing --------------------------
(* Loads of small programs that end at different times.                    *)
EXTENDS MultiProcessing, MCPrograms

MCRegister == {0, 2, 3, 29, 31}

(* A memory for each program; one that the first three share.              *)
MCSeparate == [p \in ProgramNumber |-> p]
MCShared   == [p \in ProgramNumber |-> IF p < 3 THEN 0 ELSE p]

(* Nothing but the return; a loop that wraps around to zero, storing in    *)
(* each round; a subroutine call.                                          *)
Short == Text(<<>>)

Loop == Text(<<I("ADDIU", 2, 2, 32), I("SW", 2, 0, 52), I("LW", 3, 0, 48),
               R("SUBU", 3, 3, 2), I("BNE", 0, 2, 0), I("LW", 2, 0, 52)>>)

Call == Text(<<I("ADDIU", 3, 31, 0), Jump("JAL", 20), Jump("J", 24),
               I("ADDIU", 2, 2, 32), R("JR", 0, 31, 0), R("JR", 0, 3, 0)>>)

(* A memory word that grows with every execution of the program.           *)
Accumulate == Text(<<I("LW", 2, 0, 48), I("ADDIU", 3, 31, 0), I("ADDI", 2, 2, 32),
                     I("SW", 2, 0, 48), I("BNE", 0, 2, 0)>>)

MCLoads == {Short, Loop, Call}
MCAccumulating == MCLoads \cup {Accumulate}
=============================================================================
