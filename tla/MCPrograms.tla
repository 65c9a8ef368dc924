------------------------------ MODULE MCPrograms ------------------------------
(***************************************************************************)
(* Instances for TLC of the test programs: mixes of the programs of        *)
(* testers/, sortedSeq with every line and with every array, and the test  *)
(* of phase 1.  They share no variable: a behaviour is one of one part,    *)
(* and the others stay in an initial state.                                *)
(***************************************************************************)
EXTENDS UserPrograms

VARIABLES
  part,       \* "users", "line", "array" or "phase1"
  input, i, numbers, skipped, read, phase, output,
  h, reg, pc, result

Sorted == INSTANCE SortedSeq
  WITH Base <- 3, INT_MAX <- 7, MAX_NUMS <- 2, Length <- 5, Values <- {0}

Arrays == INSTANCE SortedSeq
  WITH Base <- 3, INT_MAX <- 7, MAX_NUMS <- 6, Length <- 1, Values <- 0..3

Phase1 == INSTANCE P1Test
  WITH MaxProc <- 20, MaxSemd <- 22, LargestAddr <- 10, Sem <- 11..31

ASSUME UserAssumption /\ Sorted!SortedSeqAssumption /\ Arrays!SortedSeqAssumption
ASSUME Phase1!ListsAssumption

Sleeping == <<"delayTest", "swapStress", "delayTest">>

\* Programs that use memory and disks, that read lines, that only write, and two
\* that sleep beside one that uses all the memory.
Together ==
  {<<"swapStress", "diskIOtest">>, <<"swapStress", "flashIOtest", "flashOp">>,
   <<"fibSeven", "fibEight", "fibNine">>, <<"fibTen", "fibEleven">>,
   <<"strConcat">>, <<"strRev", "printerTest">>, <<"terminalReader", "terminalTest1">>,
   <<"terminalTest2", "terminalTest3", "terminalTest4", "terminalTest5">>,
   <<"terminalTest6", "terminalTest7", "terminalTest8">>, Sleeping}

Lines == {<<>>, <<"a">>, <<"a", "b">>, <<"a", "b", "c">>}

OnTerminals ==
  {"strConcat", "strRev", "terminalReader", "printerTest", "terminalTest1",
   "terminalTest2", "terminalTest3", "terminalTest4", "terminalTest5",
   "terminalTest6", "terminalTest7", "terminalTest8"}

sorted == <<input, i, numbers, skipped, read, phase, output>>
phase1 == <<h, reg, pc, result>>
mcVars == <<part, vars, sorted, phase1>>

InitPrograms ==
  /\ part \in {"users", "line", "array", "phase1"}
  /\ Init /\ Phase1!Init
  /\ part # "users" => mix = Sleeping
  /\ IF part = "array" THEN Arrays!InitArray ELSE Sorted!Init
  /\ part \in {"users", "phase1"} => input = <<0>>

NextPrograms ==
  \/ part = "users" /\ Next /\ UNCHANGED <<part, sorted, phase1>>
  \/ part = "line" /\ Sorted!Next /\ UNCHANGED <<part, vars, phase1>>
  \/ part = "array" /\ Arrays!Next /\ UNCHANGED <<part, vars, phase1>>
  \/ part = "phase1" /\ Phase1!Next /\ UNCHANGED <<part, vars, sorted>>

\* In the mix with sleepers every process is scheduled, the devices answer and
\* the clock ticks; what is said of the other parts is safety.
SpecPrograms ==
  /\ InitPrograms /\ [][NextPrograms]_mcVars
  /\ WF_vars(part = "users" /\ mix = Sleeping /\ Tick)
  /\ \A p \in DOMAIN Sleeping : WF_vars(part = "users" /\ mix = Sleeping /\ Step(p))

-----------------------------------------------------------------------------
(* Properties                                                              *)

\* p1test.c, testers/: no test finds anything wrong, whatever the others do.
TestsPass ==
  /\ part = "users" => NoErrors
  /\ part = "phase1" => Phase1!NoErrors /\ Phase1!EndsClean

\* testers/: a program ends behind its last message, not before, and what it read
\* from the terminal is what it makes its text of; sortedSeq reads the numbers
\* of a line, sorts and writes them.
ResultsTrue ==
  /\ part = "users" => TypeOK /\ Completed /\ TextsTrue
  /\ part = "line" => Sorted!TypeOK /\ Sorted!NumbersRead /\ Sorted!TextsTrue
  /\ part = "array" => Arrays!HeapSorts

\* testers/, initProc.c: all the programs end, so that test() can.
AllEnd == (part = "users" /\ mix = Sleeping) ~> gone = UProc
=============================================================================
