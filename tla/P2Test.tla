------------------------------- MODULE P2Test -------------------------------
(***************************************************************************)
(* phase2/p2test.c: a root process and the processes it starts to try the  *)
(* nucleus.  A program is a sequence of instructions.  A message is one    *)
(* character long and its wording is left out.  Error stands for printing  *)
(* a message that begins with "error" and the PANIC that follows; the      *)
(* model goes no further there.                                            *)
(***************************************************************************)
EXTENDS NucleusCalls

CONSTANTS
  ClockLoop,     \* CLOCKLOOP
  Incarnations   \* of p8

VARIABLES p1p2synch, bad

allVars == <<vars, p1p2synch, bad>>

Pass(s) == <<"P", s>>
Ver(s) == <<"V", s>>
Create(label) == <<"Create", label>>
Error == <<"Error">>
SYS2 == <<"SYS2">>
Say == <<Pass("term_mut"), <<"Write">>, <<"WaitIO">>, Ver("term_mut")>>
Times(n, s) == FlattenSeq([i \in 1..n |-> s])

\* Codes of exceptions: TLB invalid, address error, bus error, SYSCALL.
TLBS == 3
AddrError == 4
BusError == 6
SysCall == 8
ReservedInstr == 10

p1 == <<Ver("testsem")>> \o Say \o <<Create("p2")>> \o Say
      \o <<Ver("startp2"), Pass("endp2"), <<"Synch">>, Create("p3")>> \o Say
      \o <<Pass("endp3"), Create("p4"), Create("p5"), Create("p6"), Create("p7"),
           Pass("endp5")>> \o Say
      \o <<Pass("blkp4")>>
      \o Times(Incarnations, <<Create("p8root"), <<"NoGood">>, Pass("endp8")>>)
      \o Say \o <<<<"Trap", AddrError>>, Error>>

\* The messages about CPU time are left to CpuTime.
p2 == <<Pass("startp2")>> \o Say
      \o FlattenSeq(<<<<Ver("s0"), Pass("s0"), <<"Zero", "s0">>>>,
                      <<Ver("s20"), Pass("s20"), <<"Zero", "s20">>>>>>)
      \o Say \o Say \o <<<<"SetSynch">>, Ver("endp2"), SYS2, Error>>

p3 == <<<<"HalfWait">>, <<"LongWait">>>> \o Say \o Times(ClockLoop, <<<<"WaitClock">>>>)
      \o Say \o <<Ver("endp3"), SYS2, Error>>

p4 == Say \o <<Ver("synp4"), Pass("blkp4"), Pass("synp4"), Create("p4"), Pass("synp4")>>
      \o Say \o <<Ver("endp4"), SYS2, Error>>

p5 == Say \o <<<<"Trap", BusError>>>>
p5a == <<<<"Trap", TLBS>>>>
p5b == <<<<"SYS9">>, Pass("endp4"), <<"HalfWait">>, <<"LongWait">>, Ver("blkp4"),
         Ver("endp5"), SYS2, Error>>
p5gen == Say \o <<<<"Gen">>>>
p5mm == Say \o <<<<"Support">>, <<"Supported">>>> \o Say \o <<<<"Mm">>>>

p6 == Say \o <<<<"SYS9">>, Error>>
p7 == Say \o <<<<"Trap", AddrError>>, Error>>

p8root == Say \o <<Create("child1"), Create("child2")>> \o Times(4, <<Pass("endcreate")>>)
          \o <<Ver("endp8"), SYS2>>
child == Say \o <<Create("p8leaf"), Create("p8leaf"), Pass("blkp8")>>
p8leaf == Say \o <<Ver("endcreate"), Pass("blkp8")>>

Program ==
  [p1 |-> p1, p2 |-> p2, p3 |-> p3, p4 |-> p4, p5 |-> p5, p5a |-> p5a, p5b |-> p5b,
   p5gen |-> p5gen, p5mm |-> p5mm, p6 |-> p6, p7 |-> p7, p8root |-> p8root,
   child1 |-> child, child2 |-> child, p8leaf |-> p8leaf]

\* What runs off the end of its function is an error too.
Instr ==
  LET l == at[cur][1] n == at[cur][2] IN
  IF n <= Len(Program[l]) THEN Program[l][n] ELSE Error

After(n) == <<at[cur][1], at[cur][2] + n>>

Handler(code) == IF code \in 1..3 THEN <<"p5mm", 1>> ELSE <<"p5gen", 1>>

\* Behind a SYSCALL: the nucleus has advanced the pc already, and the word that
\* p5sys adds to it lies in the stub.
p5sys == LoadState(saved.at, saved.user)

\* Where p5gen goes on: p5a after a bus error, p5b in kernel mode after an
\* address error or a reserved instruction, behind a SYSCALL, or at the same place.
GenResume ==
  CASE saved.code = BusError -> LoadState(<<"p5a", 1>>, saved.user)
    [] saved.code \in {AddrError, ReservedInstr} -> LoadState(<<"p5b", 1>>, FALSE)
    [] saved.code = SysCall -> p5sys
    [] OTHER -> LoadState(saved.at, saved.user)

InitialValue ==
  [s \in {"term_mut", "testsem", "startp2", "endp2", "endp3", "blkp4", "synp4", "endp4",
          "endp5", "endp8", "endcreate", "blkp8", "s0", "s20"} |->
     IF s \in {"term_mut", "blkp4"} THEN 1 ELSE 0]

Init ==
  /\ InitCalls(<<"p1", 1>>, InitialValue)
  /\ p1p2synch = 0 /\ bad = FALSE

Complain(c) == bad' = (bad \/ c)
Fine == UNCHANGED <<p1p2synch, bad>>
Local == LoadState(After(1), FALSE)

\* The system calls; there is no SYS9 in the nucleus.
sysTrapHandler(i) ==
  \/ i[1] = "Create" /\ createProcess(i[2], i[2] = "p5", After(1))
  \/ i[1] = "SYS2" /\ terminateProcess
  \/ i[1] = "P" /\ P(i[2], {}, After(1))
  \/ i[1] = "V" /\ V(i[2], After(1))
  \/ i[1] = "WaitIO" /\ waitForIO(After(1))
  \/ i[1] = "WaitClock" /\ waitForClock({}, After(1))
  \/ i[1] = "HalfWait" /\ waitForClock({}, After(1))
  \/ i[1] = "HalfWait" /\ waitForClock(ToSet(ready), After(2))
  \/ i[1] = "LongWait" /\ waitForClock(ToSet(ready), After(1))
  \/ i[1] = "Support" /\ getSupportData(After(1))
  \/ i[1] = "SYS9" /\ exceptionPassUpHandler(SysCall, Handler(SysCall), After(1))

prgmTrapHandler(code) == exceptionPassUpHandler(code, Handler(code), at[cur])

\* An instruction of a process in kernel mode.
Execute(i) ==
  \/ sysTrapHandler(i) /\ Fine
  \/ i[1] = "Trap" /\ prgmTrapHandler(i[2]) /\ Fine
  \/ i[1] = "Write" /\ WriteTerminal(After(1)) /\ Fine
  \/ i[1] = "Supported" /\ Local /\ Complain(v0[cur] # "support") /\ UNCHANGED p1p2synch
  \/ i[1] = "Mm" /\ LoadState(<<"p5b", 1>>, TRUE) /\ Fine
  \/ i[1] = "Gen" /\ GenResume /\ Fine
  \/ i[1] = "Synch" /\ Local /\ Complain(p1p2synch = 0) /\ UNCHANGED p1p2synch
  \/ i[1] = "SetSynch" /\ Local /\ p1p2synch' = 1 /\ UNCHANGED bad
  \/ i[1] = "Zero" /\ Local /\ Complain(sem[i[2]].val # 0) /\ UNCHANGED p1p2synch
  \/ i[1] = "NoGood" /\ Local /\ Complain(v0[cur] = "-1") /\ UNCHANGED p1p2synch

\* User mode may not even fetch an instruction of the program: "should generate
\* a program trap (Address error)", says p2test.c of p5b.
Step ==
  /\ stopped = "no" /\ cur # 0 /\ UNCHANGED slices
  /\ IF cur \in user
     THEN prgmTrapHandler(AddrError) /\ Fine
     ELSE Execute(Instr)
  /\ called' = (cur' = cur)

Interrupt == (pltInterrupt \/ terminalInterrupt \/ intervalInterrupt) /\ Fine

Next == Step \/ Interrupt

Spec == Init /\ [][Next]_allVars

\* The machine does not stop while something can happen; nothing can be put off
\* for ever, since every program is finite and slices ends at MaxSlices.
FairSpec == Spec /\ WF_allVars(Next)

-----------------------------------------------------------------------------
(* Properties                                                              *)

TypeOK ==
  /\ Alive \subseteq Pcb /\ cur \in Alive \cup {0} /\ ToSet(ready) \subseteq Alive \ {cur}
  /\ \A p \in Alive : parent[p] \in Alive \cup {0}
  /\ support \cup user \cup behind \subseteq Alive
  /\ stopped \in {"no", "halt", "panic"} /\ bad \in BOOLEAN

\* The test finds nothing wrong and never leaves the machine without a process
\* that can go on: no error message, no PANIC; and since SYS2 reclaims whole
\* trees, no SYS1 comes when all PCBs are in use.
TestPasses ==
  /\ TypeOK /\ ~bad /\ stopped # "panic"
  /\ cur # 0 /\ cur \notin user => Instr # Error
  /\ cur # 0 /\ stopped = "no" /\ Instr[1] = "Create" => Alive # Pcb

\* The test comes to its end and the machine halts.
Finishes == <>(stopped = "halt")

\* SYS1 tells its caller whether there is a new process.
CreateReports ==
  [][stopped = "no" /\ cur # 0 /\ Instr[1] = "Create" /\ cur' = cur /\ at'[cur] # at[cur]
     => v0'[cur] = IF Alive = Pcb THEN "-1" ELSE "0"]_allVars
=============================================================================
