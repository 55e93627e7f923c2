------------------------------ MODULE Samples ------------------------------
(***************************************************************************)
(* The C programs under sample/ and the machine code they were compiled    *)
(* to, run by the single-cycle unit: what is left in r2 is what the C      *)
(* function returns.  The code is that of the .bin files, the newline some *)
(* of them end with left out, for any small argument in place of the one   *)
(* in the source.                                                          *)
(***************************************************************************)
EXTENDS SingleCycle, MachineCode, SequencesExt

CONSTANTS
  DataSize,   \* DATA_SIZE of input4.c (10000)
  Rounds      \* rounds of its outer loop (102)

ASSUME SortAssumption ==
  DataSize \in Nat /\ Rounds \in 2 .. DataSize

(* Halves of words as bytes of a file, and a number as a half.             *)
BytesOf(halves) ==
  [k \in 1 .. (2 * Len(halves)) |->
     IF k % 2 = 1 THEN halves[(k + 1) \div 2] \div 256
     ELSE halves[k \div 2] % 256]

Half(n) == n % 65536
-----------------------------------------------------------------------------
(* What the C functions return; r2 is 0 after one that returns nothing.    *)
Simple == 0

Simple2(a) == a

Simple3(n) ==
  LET sum[i \in 0 .. n] == IF i = 0 THEN 0 ELSE sum[i - 1] + i
  IN  sum[n]

Simple4(a) ==
  LET foo[x \in 1 .. a] == IF x = 1 THEN 1 ELSE x + foo[x - 1]
  IN  foo[a]

Gcd(a, b) ==
  LET gcd[x \in 1 .. (a + b), y \in 1 .. (a + b)] ==
        CASE x = y -> x
          [] x > y -> gcd[x - y, y]
          [] x < y -> gcd[y - x, x]
  IN  gcd[a, b]

Fib(n) ==
  LET fib[x \in 1 .. n] == IF x <= 2 THEN 1 ELSE fib[x - 1] + fib[x - 2]
  IN  fib[n]

(* The index min ends with in round i: the first of the smallest.          *)
Smallest(data, i) ==
  CHOOSE m \in i .. (DataSize - 1) :
    /\ \A j \in i .. (DataSize - 1) : data[m] <= data[j]
    /\ \A j \in i .. (m - 1) : data[m] < data[j]

Swapped(data, i, j) == [data EXCEPT ![i] = data[j], ![j] = data[i]]

Sort(data) ==
  LET sorted[i \in 0 .. Rounds] ==
        IF i = 0 THEN data
        ELSE Swapped(sorted[i - 1], i - 1, Smallest(sorted[i - 1], i - 1))
  IN  sorted[Rounds][Rounds - 2]
-----------------------------------------------------------------------------
(* The compiled programs.                                                  *)
SimpleFile ==
   <<\h27bd, \hfff8, \hafbe, \h0004, \h03a0, \hf021, \h0000, \h0000,
     \h03c0, \he821, \h8fbe, \h0004, \h27bd, \h0008, \h03e0, \h0008,
     \h0000, \h0000, \h0000, \h0000, \h0000, \h0000, \h0000, \h0000>>

Simple2File(a) ==
   <<\h27bd, \hffe8, \hafbe, \h0014, \h03a0, \hf021, \h2402, Half(a),
     \hafc2, \h0008, \h8fc2, \h0008, \h03c0, \he821, \h8fbe, \h0014,
     \h27bd, \h0018, \h03e0, \h0008, \h0000, \h0000, \h0000, \h0000>>

Simple3File(n) ==
   <<\h27bd, \hffe8, \hafbe, \h0014, \h03a0, \hf021, \hafc0, \h0008,
     \hafc0, \h000c, \hafc0, \h0008, \h0800, \h0011, \h0000, \h0000,
     \h8fc3, \h000c, \h8fc2, \h0008, \h0000, \h0000, \h0062, \h1021,
     \hafc2, \h000c, \h8fc2, \h0008, \h0000, \h0000, \h2442, \h0001,
     \hafc2, \h0008, \h8fc2, \h0008, \h0000, \h0000, \h2842, Half(n + 1),
     \h1440, \hfff3, \h0000, \h0000, \h8fc2, \h000c, \h03c0, \he821,
     \h8fbe, \h0014, \h27bd, \h0018, \h03e0, \h0008, \h0000, \h0000>>

Simple4File(a) ==
   <<\h27bd, \hffe0, \hafbf, \h001c, \hafbe, \h0018, \h03a0, \hf021,
     \h2404, Half(a), \h0c00, \h000d, \h0000, \h0000, \h03c0, \he821,
     \h8fbf, \h001c, \h8fbe, \h0018, \h27bd, \h0020, \h03e0, \h0008,
     \h0000, \h0000, \h27bd, \hffd8, \hafbf, \h0024, \hafbe, \h0020,
     \h03a0, \hf021, \hafc4, \h0028, \h8fc3, \h0028, \h2402, \h0001,
     \h1462, \h0004, \h0000, \h0000, \h2402, \h0001, \h0800, \h0025,
     \h0000, \h0000, \h8fc2, \h0028, \h0000, \h0000, \h2442, \hffff,
     \h0040, \h2021, \h0c00, \h000d, \h0000, \h0000, \h0040, \h1821,
     \h8fc2, \h0028, \h0000, \h0000, \h0062, \h1021, \hafc2, \h0018,
     \h8fc2, \h0018, \h03c0, \he821, \h8fbf, \h0024, \h8fbe, \h0020,
     \h27bd, \h0028, \h03e0, \h0008, \h0000, \h0000, \h0000, \h0000>>

GcdFile(a, b) ==
   <<\h27bd, \hffd0, \hafbf, \h002c, \hafbe, \h0028, \h03a0, \hf021,
     \h2402, Half(a), \hafc2, \h0018, \h3402, b, \hafc2, \h001c,
     \h8fc4, \h0018, \h8fc5, \h001c, \h0c00, \h0013, \h0000, \h0000,
     \hafc2, \h0020, \h03c0, \he821, \h8fbf, \h002c, \h8fbe, \h0028,
     \h27bd, \h0030, \h03e0, \h0008, \h0000, \h0000, \h27bd, \hffe0,
     \hafbf, \h001c, \hafbe, \h0018, \h03a0, \hf021, \hafc4, \h0020,
     \hafc5, \h0024, \h8fc3, \h0020, \h8fc2, \h0024, \h0000, \h0000,
     \h1462, \h0004, \h0000, \h0000, \h8fc2, \h0020, \h0800, \h0039,
     \h0000, \h0000, \h8fc3, \h0020, \h8fc2, \h0024, \h0000, \h0000,
     \h0043, \h102a, \h1040, \h000b, \h0000, \h0000, \h8fc3, \h0020,
     \h8fc2, \h0024, \h0000, \h0000, \h0062, \h1023, \h0040, \h2021,
     \h8fc5, \h0024, \h0c00, \h0013, \h0000, \h0000, \h0800, \h0039,
     \h0000, \h0000, \h8fc3, \h0024, \h8fc2, \h0020, \h0000, \h0000,
     \h0062, \h1023, \h0040, \h2021, \h8fc5, \h0020, \h0c00, \h0013,
     \h0000, \h0000, \h03c0, \he821, \h8fbf, \h001c, \h8fbe, \h0018,
     \h27bd, \h0020, \h03e0, \h0008, \h0000, \h0000, \h0000, \h0000>>

FibFile(n) ==
   <<\h27bd, \hffd8, \hafbf, \h0024, \hafbe, \h0020, \h03a0, \hf021,
     \h2402, Half(n), \hafc2, \h0018, \h8fc4, \h0018, \h0c00, \h0010,
     \h0000, \h0000, \hafc2, \h001c, \h03c0, \he821, \h8fbf, \h0024,
     \h8fbe, \h0020, \h27bd, \h0028, \h03e0, \h0008, \h0000, \h0000,
     \h27bd, \hffd0, \hafbf, \h002c, \hafbe, \h0028, \hafb0, \h0024,
     \h03a0, \hf021, \hafc4, \h0030, \h8fc2, \h0030, \h0000, \h0000,
     \h2842, \h0003, \h1040, \h0004, \h0000, \h0000, \h2402, \h0001,
     \h0800, \h002e, \h0000, \h0000, \h8fc2, \h0030, \h0000, \h0000,
     \h2442, \hffff, \h0040, \h2021, \h0c00, \h0010, \h0000, \h0000,
     \h0040, \h8021, \h8fc2, \h0030, \h0000, \h0000, \h2442, \hfffe,
     \h0040, \h2021, \h0c00, \h0010, \h0000, \h0000, \h0202, \h1021,
     \hafc2, \h0018, \h8fc2, \h0018, \h03c0, \he821, \h8fbf, \h002c,
     \h8fbe, \h0028, \h8fb0, \h0024, \h27bd, \h0030, \h03e0, \h0008,
     \h0000, \h0000, \h0000, \h0000, \h0000, \h0000, \h0000, \h0000>>

(* The frame of input4: data behind seven words, and s8 behind the data.   *)
(* It is small enough to be taken in one step.                             *)
Frame == 40 + 4 * DataSize

(* The first elements of the data: each is loaded and stored.  Only those  *)
(* within a 16-bit offset of the frame are stored by this pair.            *)
InputData(data) ==
  FlattenSeq([k \in 1 .. DataSize |->
                <<\h2402, data[k - 1], \hafc2, 24 + 4 * k>>])

(* The loops of input4, from word at of the text onwards.                  *)
SortHalves(at) ==
   <<\hafc0, \h0008, \h0800, at + 72, \h0000, \h0000, \h8fc2, \h0008,
     \h0000, \h0000, \hafc2, \h0010, \h8fc2, \h0008, \h0000, \h0000,
     \h2442, \h0001, \hafc2, \h000c, \h0800, at + 35, \h0000, \h0000,
     \h8fc2, \h000c, \h0000, \h0000, \h0002, \h1080, \h27c3, \h0008,
     \h0062, \h1021, \h8c43, \h0014, \h8fc2, \h0010, \h0000, \h0000,
     \h0002, \h1080, \h27c4, \h0008, \h0082, \h1021, \h8c42, \h0014,
     \h0000, \h0000, \h0062, \h102a, \h1040, \h0004, \h0000, \h0000,
     \h8fc2, \h000c, \h0000, \h0000, \hafc2, \h0010, \h8fc2, \h000c,
     \h0000, \h0000, \h2442, \h0001, \hafc2, \h000c, \h8fc2, \h000c,
     \h0000, \h0000, \h2842, DataSize, \h1440, \hffe5, \h0000, \h0000,
     \h8fc2, \h0010, \h0000, \h0000, \h0002, \h1080, \h27c3, \h0008,
     \h0062, \h1021, \h8c42, \h0014, \h0000, \h0000, \hafc2, \h0018,
     \h8fc2, \h0008, \h0000, \h0000, \h0002, \h1080, \h27c3, \h0008,
     \h0062, \h1021, \h8c43, \h0014, \h8fc2, \h0010, \h0000, \h0000,
     \h0002, \h1080, \h27c4, \h0008, \h0082, \h1021, \hac43, \h0014,
     \h8fc2, \h0008, \h0000, \h0000, \h0002, \h1080, \h27c3, \h0008,
     \h0062, \h1021, \h8fc3, \h0018, \h0000, \h0000, \hac43, \h0014,
     \h8fc2, \h0008, \h0000, \h0000, \h2442, \h0001, \hafc2, \h0008,
     \h8fc2, \h0008, \h0000, \h0000, \h2842, Rounds, \h1440, \hffb7,
     \h0000, \h0000, \h8fc2, 20 + 4 * Rounds, \h0000, \h0000, \hafc2, \h0014,
     \h8fc2, \h0014, \h03c0, \he821, \h8fbe, Frame - 4, \h27bd, Frame,
     \h03e0, \h0008, \h0000, \h0000>>

Input4File(data) ==
  <<\h27bd, Half(-Frame), \hafbe, Frame - 4, \h03a0, \hf021,
    \hafc0, \h0010, \hafc0, \h0014>>
    \o InputData(data) \o SortHalves(5 + 2 * DataSize)
-----------------------------------------------------------------------------
CONSTANTS
  Runs,      \* records of a program and what it returns
  NoResult   \* of a program that is no sample

ASSUME RunsAssumption == Programs = {run.text : run \in Runs}

VARIABLE returns   \* what the loaded program should leave in r2

SampleInit ==
  /\ \E run \in Runs : program = run.text /\ returns = run.returns
  /\ Reset

SampleSpec ==
  /\ SampleInit
  /\ [][Next /\ UNCHANGED returns]_<<vars, returns>>
  /\ WF_vars(CycleExecution)

(* A sample program leaves in r2 what its C function returns, and gives    *)
(* back the stack and the registers it must preserve.                      *)
SamplesCompute ==
  pc = End /\ returns # NoResult =>
    /\ registers[2] = returns
    /\ registers[29] = StackPointer
    /\ registers[30] = 0 /\ registers[16] = 0
=============================================================================
