---------------------------- MODULE MCSingleCycle ----------------------------
(* Every conventional program of up to three items: work, ALU, transfers;  *)
(* and the compiled sample programs, for small arguments.                  *)
EXTENDS Samples, MCPrograms

(* Ten-bit words: the stack of the samples lies above the longest text.    *)
MCSampleWordLimit == 512
MCSampleStack == 504
MCSampleRegister == {0, 2, 3, 4, 5, 16, 29, 30, 31}
MCSampleData == {48, 52} \cup {4 * k : k \in 80 .. 127}

MCShortPrograms ==
  {t \in ProgramsOf(WorkInstructions \cup OtherAluInstructions
                      \cup Transfers({0, 4, 8}), 3) : Conventional(t)}

MCArrays ==
  {[k \in 0 .. (DataSize - 1) |-> IF k \in ones THEN 1 ELSE 2]
     : ones \in SUBSET (0 .. (DataSize - 1))}
    \cup {data \in [0 .. (DataSize - 1) -> 1 .. DataSize] :
            \A i, j \in DOMAIN data : i # j => data[i] # data[j]}

Run(halves, value) ==
  [text |-> TextOf(BytesOf(halves)), returns |-> value]

MCRuns ==
  {Run(SimpleFile, Simple)}
    \cup {Run(Simple2File(a), Simple2(a)) : a \in {-7, 100}}
    \cup {Run(Simple3File(n), Simple3(n)) : n \in {0, 1, 6}}
    \cup {Run(Simple4File(a), Simple4(a)) : a \in {1, 3}}
    \cup {Run(GcdFile(p[1], p[2]), Gcd(p[1], p[2])) :
            p \in {<<4, 4>>, <<6, 4>>, <<3, 9>>}}
    \cup {Run(FibFile(n), Fib(n)) : n \in {2, 4}}
    \cup {Run(Input4File(data), Sort(data)) : data \in MCArrays}
    \cup {[text |-> text, returns |-> NoResult] : text \in MCShortPrograms}

MCPrograms3 == {run.text : run \in MCRuns}
=============================================================================
