------------------------- MODULE MCStallingPipeline -------------------------
(* Conventional programs under every unit they fit.                        *)
EXTENDS StallingPipeline, MCPrograms

MCRegister == {0, 2, 3, 29, 31}

MCUnits == EveryPcUnit

(* The combination the README gives as an example.                         *)
MCGlobalHistoryUnit == {HistoryUnit("Global")}

(* Sixteen rounds: enough for four bits of history to settle.              *)
MCLoopPrograms == {t \in LoopPrograms(8) : Conventional(t)}

(* Short loops under a buffer that hits: what they write is read at once,  *)
(* by the branch back to a no-op, and again behind it.                     *)
TightPrograms ==
  ProgramsThrough(<<WorkInstructions, {Nop},
                    {I("ADDIU", 2, 2, Big), I("LW", 2, 0, 48), R("ADDU", 3, 2, 2)},
                    {I("BNE", 0, 2, 4), I("BEQ", 0, 3, 4), I("BNE", 2, 3, 4)},
                    {R("ADDU", 3, 2, 2), R("SUBU", 2, 2, 3)}>>)

MCConventionalPrograms ==
  {t \in PipelinePrograms \cup PaddedPrograms(8) \cup TightPrograms : Conventional(t)}

(* A unit that buffers targets runs the programs that leave it room.       *)
FittingInit == StallingInit /\ (pcUnit.kind = "History" => Spaced(program))

FittingSpec == FittingInit /\ [][Next]_vars /\ WF_vars(Cycle)
=============================================================================
