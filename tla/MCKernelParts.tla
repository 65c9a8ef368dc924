---------------------------- MODULE MCKernelParts ----------------------------
(***************************************************************************)
(* Instances for TLC of the parts of the nucleus beside Nucleus: the lists *)
(* (twice, with more and with fewer descriptors), the dispatch of          *)
(* exceptions and CPU time.  They share no variable, so a behaviour is one *)
(* of one part; the others stay in an initial state.                       *)
(***************************************************************************)
EXTENDS CpuTime

CONSTANTS Codes, Numbers, Lines, MaxPc  \* of Dispatch

VARIABLES
  part,       \* "lists", "few", "entry" or "time"
  h, ret, fewH, fewRet,
  where, pc, user, supported, pending, saved, sup, done, raised

Lists == INSTANCE ListOperations
  WITH MaxProc <- 3, MaxSemd <- 4, Sem <- {20, 30, 40}, LargestAddr <- 10

Few == INSTANCE ListOperations
  WITH MaxProc <- 3, MaxSemd <- 3, Sem <- {20, 30}, LargestAddr <- 10,
       h <- fewH, ret <- fewRet

Entry == INSTANCE Dispatch

PartsAssumption ==
  /\ Lists!ListsAssumption /\ Few!ListsAssumption
  /\ Entry!DispatchAssumption /\ CpuTimeAssumption

ASSUME PartsAssumed == PartsAssumption

lists == <<h, ret>>
few == <<fewH, fewRet>>
entry == <<where, pc, user, supported, pending, saved, sup, done, raised>>
parts == <<part, lists, few, entry, vars>>

PartsInit ==
  /\ Lists!Init /\ Few!Init /\ Entry!Init /\ Init
  /\ part \in {"lists", "few", "entry", "time"}
  /\ part # "entry" => user /\ supported
  /\ part # "time" => \A p \in ToSet(ReadyQueue) : p = CHOOSE q \in Procs : TRUE

PartsNext ==
  \/ part = "lists" /\ Lists!Next /\ UNCHANGED <<part, few, entry, vars>>
  \/ part = "few" /\ Few!Next /\ UNCHANGED <<part, lists, entry, vars>>
  \/ part = "entry" /\ Entry!Next /\ UNCHANGED <<part, lists, few, vars>>
  \/ part = "time" /\ Next /\ UNCHANGED <<part, lists, few, entry>>

PartsSpec == PartsInit /\ [][PartsNext]_parts

-----------------------------------------------------------------------------
(* Properties, stated in the modules of the parts; of CPU time they are    *)
(* ChargedRight and ReadingsAgree of CpuTime.                              *)

\* pcb.c, asl.c: forward and backward pointers of all lists agree, the list of
\* active semaphores is sorted and loses no descriptor, and a blocked process
\* knows its semaphore.
ListsSound ==
  part = "lists" => Lists!LinksAgree /\ Lists!AslSorted /\ Lists!SemAddAgrees

\* pcb.c, asl.c: the pointers implement pool, queues, children and semaphores
\* as the abstract specification ListService has them.
ImplementsLists ==
  /\ Few!Service!Init
  /\ [][part = "few" => Few!ServiceStep]_few

\* exceptions.c, sysSupport.c: every exception comes to what is due.
Due == part = "entry" => Entry!TypeOK /\ Entry!Due

\* interrupts.c, vmSupport.c: the interrupted instruction is executed again, and
\* the lowest line has been served.
Restarts == part = "entry" => Entry!Restarts

-----------------------------------------------------------------------------
(* What comments say and the code does not do; of CPU time it is           *)
(* RequesterPays.                                                          *)

\* sysSupport.c:413: "Increment PC+4 to execute next instruction on return".
ResumesBehind == part = "entry" => Entry!ResumesBehind

\* exceptions.c:522: "Set exception cause to Reserved Instruction".
TrapIsReserved == part = "entry" => Entry!TrapIsReserved
=============================================================================
