---------------------------- MODULE SupportLevel ----------------------------
(***************************************************************************)
(* The support level as a whole (phase 5): the instantiator test, the      *)
(* delay daemon and the user processes with all their calls, page faults   *)
(* and ends.  The calls are reduced to what processes meet in: semaphores  *)
(* and devices.  A handler is the sequence of steps it still has to make;  *)
(* what the steps do with data is in Pager, DeviceCalls, CharCalls and     *)
(* DelayDaemon, and the pool of support structures in Lifecycle.           *)
(***************************************************************************)
EXTENDS Semaphores, FiniteSets

CONSTANTS
  MaxUProcs,   \* MAXUPROCS
  Menu,        \* the calls of each program: fields of Handlers
  Disks,       \* the disks they name, by the asid that has their number
  Units,       \* and the flash devices
  MaxCalls     \* bound: calls and faults of a program before it ends

ASSUME SupportAssumption ==
  /\ MaxUProcs \in Nat \ {0} /\ MaxCalls \in Nat
  /\ Menu \in [1..MaxUProcs -> SUBSET {"TLB", "SYS9", "SYS11", "SYS12", "SYS13", "SYS14",
                                      "SYS15", "SYS16", "SYS18"}]
  /\ Disks \subseteq Nat \ {0} /\ Units \subseteq Nat \ {0}

VARIABLES
  todo,     \* the steps each process has to make before it is back in its program
  calls,    \* how many calls each program may still make
  sem,      \* the device mutexes, the pager's, the daemon's and the others
  adl,      \* who is on the active delay list
  alive,
  left,     \* history: the mutexes a process had when it ended, not V'd since
  freed     \* history: those get_nuked V'd although nobody had left them

vars == <<todo, calls, sem, adl, alive, left, freed>>

UProc == 1..MaxUProcs
Test == 0
Daemon == MaxUProcs + 1
Process == Test..Daemon

SwapPool == <<"swapPool", 0>>     \* semaphore_swapPool
ADL == <<"adl", 0>>               \* delayDaemon_sema4
Master == <<"master", 0>>         \* masterSema4
Private(p) == <<"private", p>>    \* privateSema4
Disk(p) == <<"disk", p>>
Flash(p) == <<"flash", p>>
Printer(p) == <<"printer", p>>
Recv(p) == <<"recv", p>>
Transm(p) == <<"transm", p>>

\* devSema4_support; the network devices are never used.
DevMutex ==
  {Disk(d) : d \in UProc \cup Disks} \cup {Flash(u) : u \in UProc \cup Units}
  \cup UNION {{Printer(p), Recv(p), Transm(p)} : p \in UProc}
Mutex == DevMutex \cup {SwapPool, ADL}
Signal == {Master} \cup {Private(p) : p \in UProc}

TypeOK ==
  /\ DOMAIN todo = Process /\ \A p \in Process : \A i \in DOMAIN todo[p] : Len(todo[p][i]) = 2
  /\ calls \in [UProc -> 0..MaxCalls]
  /\ sem \in Semaphores(Mutex \cup Signal, Process)
  /\ sem[Master].val \in -1..MaxUProcs
  /\ \A p \in UProc : sem[Private(p)].val \in -1..0
  /\ adl \subseteq UProc /\ alive \subseteq Process
  /\ left \subseteq Mutex /\ freed \subseteq DevMutex

-----------------------------------------------------------------------------
(* Steps                                                                   *)

P(s) == <<"SYS3", s>>
V(s) == <<"SYS4", s>>
IO(d) == <<"SYS5", d>>
End(p) == <<"SYS2", <<"process", p>>>>
Page == <<"touch", <<"page", 0>>>>          \* a page of the program
Address == <<"touch", <<"address", 0>>>>    \* an address that may be none
Number == <<"touch", <<"number", 0>>>>      \* a block number that may be none
Status == <<"touch", <<"status", 0>>>>      \* a status that may not be READY

-----------------------------------------------------------------------------
(* The handlers: each is the set of ways it can go                         *)

\* Mutant: the mutexes of the terminal are forgotten.
get_nuked_ThreeTypes(p) ==
  <<<<"test", Disk(p)>>, <<"test", Flash(p)>>, <<"test", Printer(p)>>,
    V(Master), End(p)>>

\* A mutex of each type is looked at, the one with the number of the process.
get_nuked(p) ==
  <<<<"test", Disk(p)>>, <<"test", Flash(p)>>, <<"test", Printer(p)>>,
    <<"test", Recv(p)>>, <<"test", Transm(p)>>, V(Master), End(p)>>

syslvl_prgmTrap_handler(p) == get_nuked(p)

flash_read_write(u) == <<P(Flash(u)), IO(Flash(u)), V(Flash(u)), Status>>

\* Mutant: the page is read in before the pool is locked.
tlb_exception_handler_LateLock(p) ==
  {<<P(Flash(p)), P(SwapPool)>> \o out \o <<IO(Flash(p)), V(Flash(p)), V(SwapPool)>> :
     out \in {<<>>} \cup {flash_read_write(q) : q \in UProc \ {p}}}

\* Whose page is put out, if any, is the swap pool's affair: anybody's.
tlb_exception_handler(p) ==
  {<<P(SwapPool)>> \o out \o flash_read_write(p) \o <<V(SwapPool)>> :
     out \in {<<>>} \cup {flash_read_write(q) : q \in UProc}}

\* No character, or one: a printer that is not ready ends the call too.
write_to_printer(p) ==
  {<<P(Printer(p))>> \o c \o <<V(Printer(p))>> : c \in {<<>>, <<Address, IO(Printer(p))>>}}

write_to_terminal(p) ==
  {<<P(Transm(p))>> \o c \o <<V(Transm(p))>> : c \in {<<>>, <<Page, IO(Transm(p))>>}}
  \cup {get_nuked(p)}

\* A line of no character, or of one.
read_from_terminal(p) ==
  {<<P(Recv(p)), IO(Recv(p))>> \o c \o <<V(Recv(p))>> :
     c \in {<<>>, <<Address, IO(Recv(p))>>}}
  \cup {get_nuked(p)}

\* The seek fails, or the sector is written, well or not; or the sector number
\* or the address is none.  The rest of the block may be none as well.
disk_put(p) ==
  {get_nuked(p)}
  \cup UNION {{<<P(Disk(d)), Address, IO(Disk(d)), V(Disk(d))>>,
               <<P(Disk(d)), Address, IO(Disk(d)), IO(Disk(d)), V(Disk(d))>>} : d \in Disks}

disk_get(p) ==
  {get_nuked(p)}
  \cup UNION {{<<P(Disk(d)), IO(Disk(d)), V(Disk(d))>>,
               <<P(Disk(d)), IO(Disk(d)), IO(Disk(d)), V(Disk(d))>>,
               <<P(Disk(d)), IO(Disk(d)), IO(Disk(d)), Address, V(Disk(d))>>} : d \in Disks}

\* A put, a get that fails, a get; or the address is none.  The block number is
\* looked at with the device locked.
flashOperation(p) ==
  {get_nuked(p)}
  \cup UNION {{<<P(Flash(u)), Number, Address, IO(Flash(u)), V(Flash(u))>>,
               <<P(Flash(u)), Number, IO(Flash(u)), V(Flash(u))>>,
               <<P(Flash(u)), Number, IO(Flash(u)), Address, V(Flash(u))>>} : u \in Units}

\* Mutant: the list is unlocked after the insertion, and again before the sleep.
sys18Handler_UnlocksTwice(p) == {<<P(ADL), V(ADL), <<"sleep", ADL>>>>, get_nuked(p)}

sys18Handler(p) == {<<P(ADL), <<"sleep", ADL>>>>, get_nuked(p)}

delayDaemon == <<IO(<<"clock", 0>>), P(ADL), <<"wake", ADL>>, V(ADL)>>

\* Mutant: the processes are waited for before they are launched.
test_WaitsFirst ==
  [i \in 1..2*MaxUProcs+1 |->
     CASE i <= MaxUProcs -> P(Master)
       [] i \in MaxUProcs+1..2*MaxUProcs -> <<"SYS1", <<"process", i - MaxUProcs>>>>
       [] OTHER -> End(Test)]

test ==
  [i \in 1..2*MaxUProcs+1 |->
     CASE i <= MaxUProcs -> <<"SYS1", <<"process", i>>>>
       [] i \in MaxUProcs+1..2*MaxUProcs -> P(Master)
       [] OTHER -> End(Test)]

\* sysSupportGenHandler and syscall_excp_handler, and the TLB exception.
Handlers ==
  [p \in UProc |->
    [TLB |-> tlb_exception_handler(p), SYS9 |-> {get_nuked(p)},
     SYS11 |-> write_to_printer(p), SYS12 |-> write_to_terminal(p),
     SYS13 |-> read_from_terminal(p), SYS14 |-> disk_put(p), SYS15 |-> disk_get(p),
     SYS16 |-> flashOperation(p), SYS18 |-> sys18Handler(p)]]

-----------------------------------------------------------------------------
(* Actions                                                                 *)

\* initADL has created the daemon.
Init ==
  /\ todo = [p \in Process |-> IF p = Test THEN test ELSE IF p = Daemon THEN delayDaemon ELSE <<>>]
  /\ calls = [p \in UProc |-> MaxCalls]
  /\ sem = [s \in Mutex \cup Signal |-> Sema4(IF s \in Mutex THEN 1 ELSE 0)]
  /\ adl = {}
  /\ alive = {Test, Daemon}
  /\ left = {} /\ freed = {}

\* A P, a V or a look at s; a device and the daemon's scan need no mutex.
OnMutex(x, s) == x[2] = s /\ x[1] \notin {"SYS5", "wake"}

\* The next thing that these steps do with s is to release it.
Owns(steps, s) ==
  \E i \in DOMAIN steps :
    /\ steps[i] \in {V(s), <<"sleep", s>>}
    /\ \A j \in 1..i-1 : ~OnMutex(steps[j], s)

Able(p) == p \in alive /\ ~Blocked(sem, p)
At(p, op) == todo[p] # <<>> /\ Head(todo[p])[1] = op /\ Able(p)
Arg(p) == Head(todo[p])[2]
Goto(p, steps) == todo' = [todo EXCEPT ![p] = steps]
Done(p) == Goto(p, Tail(todo[p]))

\* A call or a page fault of the program, which ends with SYS9 at the latest.
Exception(p) ==
  /\ p \in UProc /\ todo[p] = <<>> /\ Able(p)
  /\ IF calls[p] > 0
     THEN /\ calls' = [calls EXCEPT ![p] = @ - 1]
          /\ \E c \in Menu[p] : \E steps \in Handlers[p][c] : Goto(p, steps)
     ELSE /\ \E steps \in Handlers[p]["SYS9"] : Goto(p, steps)
          /\ UNCHANGED calls
  /\ UNCHANGED <<sem, adl, alive, left, freed>>

SYS1(p) ==
  /\ At(p, "SYS1")
  /\ alive' = alive \cup {Arg(p)[2]}
  /\ Done(p) /\ UNCHANGED <<calls, sem, adl, left, freed>>

\* What the instantiator has created goes with it: everything.
SYS2(p) ==
  /\ At(p, "SYS2")
  /\ alive' = IF p = Test THEN {} ELSE alive \ {p}
  /\ Done(p) /\ UNCHANGED <<calls, sem, adl, left, freed>>

SYS3(p) ==
  /\ At(p, "SYS3")
  /\ sem' = passeren(sem, Arg(p), p)
  /\ Done(p) /\ UNCHANGED <<calls, adl, alive, left, freed>>

SYS4(p) ==
  /\ At(p, "SYS4") \/ At(p, "release")
  /\ sem' = verhogen(sem, Arg(p))
  /\ left' = left \ {Arg(p)}
  /\ freed' = IF At(p, "release") /\ Arg(p) \notin left THEN freed \cup {Arg(p)} ELSE freed
  /\ Done(p) /\ UNCHANGED <<calls, adl, alive>>

\* The command and the wait for its end.
SYS5(p) ==
  /\ At(p, "SYS5")
  /\ Done(p) /\ UNCHANGED <<calls, sem, adl, alive, left, freed>>

\* The access goes through.
Touch(p) == At(p, "touch") /\ Done(p) /\ UNCHANGED <<calls, sem, adl, alive, left, freed>>

\* It faults, and goes through when it is repeated.
Fault(p) ==
  /\ At(p, "touch") /\ Head(todo[p]) \in {Page, Address}
  /\ \E steps \in Handlers[p]["TLB"] : Goto(p, steps \o Tail(todo[p]))
  /\ UNCHANGED <<calls, sem, adl, alive, left, freed>>

\* The address or the block is none, or the page was not read or written: the
\* process ends, with what it has.
Trap(p) ==
  /\ At(p, "touch") /\ Head(todo[p]) # Page
  /\ Goto(p, syslvl_prgmTrap_handler(p))
  /\ left' = left \cup {s \in Mutex : Owns(todo[p], s)}
  /\ UNCHANGED <<calls, sem, adl, alive, freed>>

\* get_nuked: SYS4 on a mutex that reads 0.
TestMutex(p) ==
  /\ At(p, "test")
  /\ IF sem[Arg(p)].val = 0
     THEN Goto(p, <<<<"release", Arg(p)>>>> \o Tail(todo[p]))
     ELSE Done(p)
  /\ UNCHANGED <<calls, sem, adl, alive, left, freed>>

\* The descriptor is in the list: the list is unlocked and the process sleeps
\* with no interrupt in between.
Sleep(p) ==
  /\ At(p, "sleep")
  /\ adl' = adl \cup {p}
  /\ sem' = passeren(verhogen(sem, ADL), Private(p), p)
  /\ Done(p) /\ UNCHANGED <<calls, alive, left, freed>>

\* Who is due is woken; when anybody is, is DelayDaemon's affair.
Wake(q) ==
  /\ At(Daemon, "wake") /\ q \in adl
  /\ adl' = adl \ {q}
  /\ sem' = verhogen(sem, Private(q))
  /\ UNCHANGED <<todo, calls, alive, left, freed>>

Woken ==
  /\ At(Daemon, "wake")
  /\ Done(Daemon) /\ UNCHANGED <<calls, sem, adl, alive, left, freed>>

Again ==
  /\ Able(Daemon) /\ todo[Daemon] = <<>>
  /\ Goto(Daemon, delayDaemon)
  /\ UNCHANGED <<calls, sem, adl, alive, left, freed>>

\* HALT.
Halted == alive = {} /\ UNCHANGED vars

Step(p) ==
  Exception(p) \/ SYS1(p) \/ SYS2(p) \/ SYS3(p) \/ SYS4(p) \/ SYS5(p)
  \/ Touch(p) \/ Fault(p) \/ Trap(p) \/ TestMutex(p) \/ Sleep(p)

Next ==
  \/ \E p \in Process : Step(p)
  \/ \E q \in UProc : Wake(q)
  \/ Woken \/ Again \/ Halted

Spec == Init /\ [][Next]_vars

\* Every process is scheduled, every device answers, every delay runs out.
FairSpec ==
  /\ Spec
  /\ \A p \in Process \ {Daemon} : WF_vars(Step(p))
  /\ WF_vars(Step(Daemon) \/ Woken \/ Again)
  /\ \A q \in UProc : SF_vars(Wake(q))

-----------------------------------------------------------------------------
(* Properties                                                              *)

WaitsFor(p, s) == p \in ToSet(sem[s].queue)

Holds(p, s) == p \in alive /\ ~WaitsFor(p, s) /\ Owns(todo[p], s)

\* One process at a time is in the pager, on the delay list and in a call on a
\* device, whoever dies meanwhile: unless get_nuked, which does not look whose a
\* mutex is, V's one that nobody has left.
Exclusive ==
  \A s \in Mutex \ freed, p \in Process :
    Holds(p, s) => \A q \in Process : Holds(q, s) => p = q

\* No processes wait for each other, whatever calls and page faults in the
\* middle of calls come together.
NoCircularWait ==
  LET waits == {w \in alive \X alive :
                  \E s \in Mutex : WaitsFor(w[1], s) /\ Holds(w[2], s)} IN
  \A X \in (SUBSET alive) \ {{}} : \E p \in X : \A q \in X : <<p, q>> \notin waits

\* The mutexes a process may have when an address or a block is none, or the
\* pager cannot read or write a page.
Losable == {Disk(d) : d \in Disks} \cup {Flash(u) : u \in Units} \cup {SwapPool}

\* A mutex that is taken has a holder that is alive, or one that is ending and
\* has still to come to it: only a block device and the swap pool are ever left
\* taken, by a process that ended in the middle of a call or of a page fault.
NeverLeftTaken ==
  alive # {} =>
    \A s \in Mutex : sem[s].val <= 0 =>
      \/ s \in left \cap Losable
      \/ \E p \in alive :
           Holds(p, s) \/ \E i \in DOMAIN todo[p] : todo[p][i] \in {<<"test", s>>, <<"release", s>>}

\* A mutex is never had by two, and never by none while it is taken, but for
\* what get_nuked forgets or takes away.
HeldByOne == TypeOK /\ Exclusive /\ NeverLeftTaken

\* Whatever the programs do, the machine halts when they have ended, unless
\* somebody waits for ever for what a process had when it ended.
Halts == <>(alive = {}) \/ <>[](\E p \in alive, s \in left \cap Losable : WaitsFor(p, s))

\* sysSupport.c:40, of get_nuked: "Release all device semaphores the uproc is
\* holding": what a process has when it ends, somebody still has to release.
EndsRelease ==
  \A s \in left \cap DevMutex :
    \E p \in alive : \E i \in DOMAIN todo[p] : todo[p][i] \in {<<"test", s>>, <<"release", s>>}

\* initProc.c:190, of test: "Waiting for all U-proc child processes to finish",
\* and then (:193) "Terminating itself via SYS2".
TestTerminates == <>(Test \notin alive)
=============================================================================
