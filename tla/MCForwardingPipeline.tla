------------------------ MODULE MCForwardingPipeline ------------------------
(* Compiled programs under every unit they fit.                            *)
EXTENDS ForwardingPipeline, MCPrograms

MCRegister == {0, 2, 3, 29, 31}

MCUnits == EveryPcUnit

(* The unit the application is built with.                                 *)
MCLocalHistoryUnit == {HistoryUnit("Local")}

(* Sixteen rounds: enough for four bits of history to settle.              *)
MCLoopPrograms == {t \in LoopPrograms(8) : Compiled(t)}

(* A return through a register written just before, no prediction at all.  *)
MCPlainUnit == {NoPrediction}

MCUnsettledPrograms ==
  {t \in ProgramsThrough(<<{I("ADDIU", 3, 31, 0)}, {R("JR", 0, 3, 0)}>>) :
     Conventional(t) /\ LoadDelayKept(t)}

MCCompiledPrograms == {t \in PipelinePrograms \cup PaddedPrograms(8) : Compiled(t)}

(* A unit that buffers targets runs the programs that leave it room.       *)
FittingInit == Init /\ (pcUnit.kind = "History" => Spaced(program))

FittingSpec == FittingInit /\ [][Next]_vars /\ WF_vars(Cycle)
=============================================================================
