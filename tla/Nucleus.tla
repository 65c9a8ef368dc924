------------------------------- MODULE Nucleus -------------------------------
(***************************************************************************)
(* The nucleus of PandOS (initial.c, scheduler.c, exceptions.c,            *)
(* interrupts.c): one processor, a pool of PCBs, the ready queue, the      *)
(* semaphores with their queues of blocked processes, and the counters     *)
(* procCnt and softBlockCnt from which the scheduler decides between       *)
(* running, waiting, halting and panicking.                                *)
(*                                                                         *)
(* A kernel entry (system call, trap, interrupt) runs with interrupts off  *)
(* and ends in LDST, WAIT, HALT or PANIC, so each one is one action: the   *)
(* whole handler, including the scheduler it falls into.  Between two      *)
(* entries, anything the running program or the hardware may do next is a  *)
(* choice of Next.                                                         *)
(***************************************************************************)
EXTENDS ProcQueues

CONSTANTS
  Proc,       \* the PCBs of pcb_pool (MAXPROC of them)
  UserSem,    \* semaphores that programs pass to SYS3 and SYS4
  NearSem,    \* those of UserSem whose address the test in
              \* recursive_terminate takes for that of a device semaphore
  NumDev,     \* devices of lines 3 to 6
  NumTerm,    \* terminals (line 7), two sub-devices each
  Clock,      \* the semaphore semIntTimer
  NULL,
  NumSemd,    \* semaphore descriptors, without the two dummies
  MaskedIO,   \* TRUE: a program writes the device command and issues SYS5
              \* with interrupts off, as the support level does.  FALSE: with
              \* interrupts on, as print() of p2test.c does.
  BadLine,    \* programs may pass SYS5 a line outside 3..7
  TermErrors, \* a terminal operation may end with an error status
  MaxSem,     \* bound on the absolute value of a semaphore
  MaxSoft     \* bound on softBlockCnt

\* deviceSemaphores[]: the devices first, then the receivers, then the
\* transmitters of the terminals; a smaller index has the higher priority.
DevSem == 0..NumDev-1
Rx(t) == NumDev + t
Tx(t) == NumDev + NumTerm + t
Term == 0..NumTerm-1
IOSem == 0..(NumDev + 2*NumTerm - 1)
SoftSem == IOSem \cup {Clock}
Sem == UserSem \cup SoftSem

ASSUME ConstantsAssumption ==
  /\ IsFiniteSet(Proc) /\ Proc # {}
  /\ IsFiniteSet(UserSem)
  /\ NearSem \subseteq UserSem
  /\ NumDev \in Nat /\ NumTerm \in Nat
  /\ UserSem \cap SoftSem = {} /\ Clock \notin IOSem
  /\ NULL \notin Proc \cup Sem
  /\ NumSemd \in Nat /\ NumSemd >= Cardinality(Proc)
  /\ {MaskedIO, BadLine, TermErrors} \subseteq BOOLEAN
  /\ MaxSem \in Nat /\ MaxSoft \in Nat

VARIABLES
  free,         \* pcbFree_h
  readyQ,       \* ReadyQueue
  currProc,
  procCnt,
  softBlockCnt,
  sem,          \* the integer of every semaphore
  blockedQ,     \* the ASL: s_procQ per semaphore; <<>> has no descriptor
  semAdd,       \* p_semAdd
  parent,       \* p_prnt, from which the child lists follow
  io,           \* what the device behind a device semaphore is doing
  cpu           \* "run", "wait", "halt" or "panic"

vars == <<free, readyQ, currProc, procCnt, softBlockCnt, sem, blockedQ,
          semAdd, parent, io, cpu>>

poolVars == <<free, procCnt, parent>>

Live == Proc \ free

TypeOK ==
  /\ free \subseteq Proc
  /\ readyQ \in Seq(Proc)
  /\ currProc \in Proc \cup {NULL}
  /\ procCnt \in Int /\ softBlockCnt \in Int
  /\ sem \in [Sem -> Int]
  /\ blockedQ \in [Sem -> Seq(Proc)]
  /\ semAdd \in [Proc -> Sem \cup {NULL}]
  /\ parent \in [Proc -> Proc \cup {NULL}]
  /\ io \in [IOSem -> {"idle", "busy", "done", "error"}]
  /\ cpu \in {"run", "wait", "halt", "panic"}

-----------------------------------------------------------------------------
(* main(): one process is allocated, queued and switched to.  User         *)
(* semaphores start at whatever their owner gave them.                     *)

Init ==
  /\ \E p \in Proc : free = Proc \ {p} /\ currProc = p
  /\ readyQ = <<>>
  /\ procCnt = 1
  /\ softBlockCnt = 0
  /\ sem \in {f \in [Sem -> 0..MaxSem] : \A s \in SoftSem : f[s] = 0}
  /\ blockedQ = [s \in Sem |-> <<>>]
  /\ semAdd = [p \in Proc |-> NULL]
  /\ parent = [p \in Proc |-> NULL]
  /\ io = [d \in IOSem |-> "idle"]
  /\ cpu = "run"

-----------------------------------------------------------------------------
(* The scheduler, with the ready queue and the counters it finds.          *)

\* Mutant: the counters are tested in the other order.
IdleState_WaitFirst(cnt, soft) ==
  IF soft > 0 THEN "wait" ELSE IF cnt = 0 THEN "halt" ELSE "panic"

IdleState(cnt, soft) ==
  IF cnt = 0 THEN "halt" ELSE IF cnt > 0 /\ soft > 0 THEN "wait" ELSE "panic"

SwitchProcess(q, cnt, soft) ==
  \/ /\ q # <<>>
     /\ currProc' = Head(q)
     /\ readyQ' = Tail(q)
     /\ cpu' = "run"
  \/ /\ q = <<>>
     /\ currProc' = NULL
     /\ readyQ' = q
     /\ cpu' = IdleState(cnt, soft)

\* Mutant: the handler returns to WAIT instead of calling the scheduler.
Resume_NoSwitch(q, soft) ==
  readyQ' = q /\ UNCHANGED <<currProc, cpu>>

\* The end of an interrupt handler: back to the interrupted process if there
\* is one, else to the scheduler.
Resume(q, soft) ==
  \/ /\ currProc # NULL
     /\ readyQ' = q
     /\ UNCHANGED <<currProc, cpu>>
  \/ /\ currProc = NULL
     /\ SwitchProcess(q, procCnt, soft)

Pending(d) == io[d] \in {"done", "error"}

\* The running process reaches its next instruction only when no device
\* interrupt is pending: interrupts are on while programs run.
Running == cpu = "run" /\ \A d \in IOSem : ~Pending(d)

Interruptible == cpu \in {"run", "wait"}

-----------------------------------------------------------------------------
(* SYS1 *)

CreateProcess ==
  /\ Running
  /\ \/ \E p \in free :
          /\ free' = free \ {p}
          /\ semAdd' = [semAdd EXCEPT ![p] = NULL]
          /\ parent' = [parent EXCEPT ![p] = currProc]
          /\ readyQ' = Append(readyQ, p)
          /\ procCnt' = procCnt + 1
     \/ free = {} /\ UNCHANGED <<poolVars, readyQ, semAdd>>  \* v0 = -1
  /\ UNCHANGED <<currProc, softBlockCnt, sem, blockedQ, io, cpu>>

-----------------------------------------------------------------------------
(* SYS2, and every other way to die: SYS5 with a bad line and an exception *)
(* of a process without support structure (exceptionPassUpHandler).        *)

\* Mutant: only the children are terminated, not their descendants.
Subtree_Children(p) == {q \in Proc : q = p \/ parent[q] = p}

\* The process p with all its descendants: the least set that holds p and
\* the children of its members.
Subtree(p) ==
  {q \in Proc : \A S \in SUBSET Proc :
     (p \in S /\ \A c \in Proc : parent[c] \in S => c \in S) => q \in S}

\* Mutants: the value is never raised; it is raised for devices as well.
TakenForDevice_Always(s) == s \in Sem
TakenForDevice_ClockOnly(s) == s = Clock

\* recursive_terminate's test for "blocked on a device".
TakenForDevice(s) == s \in SoftSem \cup NearSem

\* terminateProcess() when softBlockCnt is soft: every process of the subtree
\* leaves the ready queue or the queue its p_semAdd names (outBlocked), and
\* a semaphore not taken for a device's is raised once per process removed.
\* softBlockCnt is not lowered for those that were blocked on a device.
Die(soft) ==
  LET dead == Subtree(currProc)
      out(s) == Without(blockedQ[s], {p \in dead : semAdd[p] = s})
      removed(s) == Len(blockedQ[s]) - Len(out(s))
      cnt == procCnt - Cardinality(dead)
  IN  /\ blockedQ' = [s \in Sem |-> out(s)]
      /\ sem' = [s \in Sem |->
                   IF TakenForDevice(s) THEN sem[s] ELSE sem[s] + removed(s)]
      /\ semAdd' = [p \in Proc |->
                      IF /\ p \in dead /\ semAdd[p] # NULL
                         /\ p \in ToSet(blockedQ[semAdd[p]])
                      THEN NULL ELSE semAdd[p]]
      /\ parent' = [p \in Proc |-> IF p \in dead THEN NULL ELSE parent[p]]
      /\ free' = free \cup dead
      /\ procCnt' = cnt
      /\ softBlockCnt' = soft
      /\ SwitchProcess(Without(readyQ, dead \ {currProc}), cnt, soft)
      /\ UNCHANGED io

TerminateProcess == Running /\ Die(softBlockCnt)

\* waitForIO() counts the caller as soft-blocked before it looks at the line.
WaitForBadLine ==
  /\ Running /\ BadLine
  /\ softBlockCnt < MaxSoft
  /\ Die(softBlockCnt + 1)

-----------------------------------------------------------------------------
(* P and V *)

\* Mutant: semdTable has one entry less, the dummies included.
HasSemd_OneShort(s) ==
  \/ blockedQ[s] # <<>>
  \/ Cardinality({t \in Sem : blockedQ[t] # <<>>}) < NumSemd - 1

\* insertBlocked() finds the descriptor of s, or a free one to use for it.
HasSemd(s) ==
  \/ blockedQ[s] # <<>>
  \/ Cardinality({t \in Sem : blockedQ[t] # <<>>}) < NumSemd

\* Mutants: p_semAdd is not set; the process goes to the head of the queue.
BlockCurrProc_NoSemAdd(s) ==
  /\ blockedQ' = [blockedQ EXCEPT ![s] = Append(@, currProc)]
  /\ UNCHANGED semAdd
BlockCurrProc_AtHead(s) ==
  /\ blockedQ' = [blockedQ EXCEPT ![s] = <<currProc>> \o @]
  /\ semAdd' = [semAdd EXCEPT ![currProc] = s]

\* blockCurrProc(): the result of insertBlocked() is ignored.
BlockCurrProc(s) ==
  \/ /\ HasSemd(s)
     /\ blockedQ' = [blockedQ EXCEPT ![s] = Append(@, currProc)]
     /\ semAdd' = [semAdd EXCEPT ![currProc] = s]
  \/ /\ ~HasSemd(s)
     /\ UNCHANGED <<blockedQ, semAdd>>

P(s, soft) ==
  /\ sem[s] > -MaxSem
  /\ sem' = [sem EXCEPT ![s] = @ - 1]
  /\ \/ /\ sem[s] - 1 >= 0
        /\ UNCHANGED <<readyQ, currProc, blockedQ, semAdd, cpu>>
     \/ /\ sem[s] - 1 < 0
        /\ BlockCurrProc(s)
        /\ SwitchProcess(readyQ, procCnt, soft)

\* Mutant: V wakes only while the value stays negative.
Woken_Strict(s) ==
  IF sem[s] + 1 < 0 /\ blockedQ[s] # <<>> THEN <<Head(blockedQ[s])>> ELSE <<>>

\* The process, if any, that verhogen(s) takes off the queue of s.
Woken(s) ==
  IF sem[s] + 1 <= 0 /\ blockedQ[s] # <<>> THEN <<Head(blockedQ[s])>> ELSE <<>>

\* verhogen() on every semaphore of S, but for the ready queue.
V(S) ==
  /\ sem' = [s \in Sem |-> IF s \in S THEN sem[s] + 1 ELSE sem[s]]
  /\ blockedQ' = [s \in Sem |->
       IF s \in S /\ Woken(s) # <<>> THEN Tail(blockedQ[s]) ELSE blockedQ[s]]
  /\ semAdd' = [p \in Proc |->
       IF \E s \in S : Woken(s) = <<p>> THEN NULL ELSE semAdd[p]]

Passeren(s) ==
  /\ Running
  /\ P(s, softBlockCnt)
  /\ UNCHANGED <<poolVars, softBlockCnt, io>>

Verhogen(s) ==
  /\ Running
  /\ sem[s] < MaxSem
  /\ V({s})
  /\ readyQ' = readyQ \o Woken(s)
  /\ UNCHANGED <<poolVars, currProc, softBlockCnt, io, cpu>>

-----------------------------------------------------------------------------
(* SYS5 and SYS7 *)

\* A program drives a device on which no live process is waiting.  It may
\* find it still busy with the command of a process that was terminated.
MayDrive(d) == blockedQ[d] = <<>>

\* Mutant: the caller is not counted as soft-blocked.
SoftP_NotCounted(s) ==
  /\ P(s, softBlockCnt)
  /\ UNCHANGED softBlockCnt

\* SYS5 and SYS7 count the caller before they know whether it will block.
SoftP(s) ==
  /\ softBlockCnt < MaxSoft
  /\ softBlockCnt' = softBlockCnt + 1
  /\ P(s, softBlockCnt + 1)

\* Interrupts on: the command is a step of its own.
DevCommand(d) ==
  /\ Running /\ ~MaskedIO
  /\ MayDrive(d) /\ io[d] = "idle"
  /\ io' = [io EXCEPT ![d] = "busy"]
  /\ UNCHANGED <<poolVars, readyQ, currProc, softBlockCnt, sem, blockedQ,
                 semAdd, cpu>>

WaitForIO(d) ==
  /\ Running /\ MayDrive(d)
  /\ SoftP(d)
  /\ io' = IF MaskedIO THEN [io EXCEPT ![d] = "busy"] ELSE io
  /\ UNCHANGED poolVars

WaitForClock ==
  /\ Running
  /\ SoftP(Clock)
  /\ UNCHANGED <<poolVars, io>>

-----------------------------------------------------------------------------
(* Interrupts: process local timer, interval timer, then the lowest device *)

\* The device finishes; a terminal may end with a status other than 5.
DeviceCompletes(d) ==
  /\ Interruptible
  /\ io[d] = "busy"
  /\ \/ io' = [io EXCEPT ![d] = "done"]
     \/ /\ TermErrors /\ d \notin DevSem
        /\ io' = [io EXCEPT ![d] = "error"]
  /\ UNCHANGED <<poolVars, readyQ, currProc, softBlockCnt, sem, blockedQ,
                 semAdd, cpu>>

\* Mutants: no test for a current process; the process that used up its time
\* slice keeps its place in front of the ready queue.
PltInterrupt_NoTest ==
  /\ Interruptible
  /\ SwitchProcess(Append(readyQ, currProc), procCnt, softBlockCnt)
  /\ UNCHANGED <<poolVars, softBlockCnt, sem, blockedQ, semAdd, io>>
PltInterrupt_KeepsTurn ==
  /\ cpu = "run"
  /\ SwitchProcess(<<currProc>> \o readyQ, procCnt, softBlockCnt)
  /\ UNCHANGED <<poolVars, softBlockCnt, sem, blockedQ, semAdd, io>>

PltInterrupt ==
  /\ cpu = "run"
  /\ SwitchProcess(Append(readyQ, currProc), procCnt, softBlockCnt)
  /\ UNCHANGED <<poolVars, softBlockCnt, sem, blockedQ, semAdd, io>>

IntervalInterrupt ==
  /\ Interruptible
  /\ sem' = [sem EXCEPT ![Clock] = 0]
  /\ blockedQ' = [blockedQ EXCEPT ![Clock] = <<>>]
  /\ semAdd' = [p \in Proc |->
                  IF p \in ToSet(blockedQ[Clock]) THEN NULL ELSE semAdd[p]]
  /\ softBlockCnt' = softBlockCnt - Len(blockedQ[Clock])
  /\ Resume(readyQ \o blockedQ[Clock], softBlockCnt - Len(blockedQ[Clock]))
  /\ UNCHANGED <<poolVars, io>>

\* The part common to both branches of nontimerInterruptHandler: acknowledge
\* the sub-devices of S, V their semaphores, queue those woken.
Complete(S, woken) ==
  /\ \A s \in S : sem[s] < MaxSem
  /\ io' = [d \in IOSem |-> IF d \in S THEN "idle" ELSE io[d]]
  /\ V(S)
  /\ softBlockCnt' = softBlockCnt - Len(woken)
  /\ Resume(readyQ \o woken, softBlockCnt - Len(woken))
  /\ UNCHANGED poolVars

DeviceInterrupt(d) ==
  /\ Interruptible
  /\ Pending(d) /\ \A e \in DevSem : Pending(e) => d <= e
  /\ Complete({d}, Woken(d))

\* Transmitter first, then receiver; only status 5 is acknowledged.
TerminalInterrupt(t) ==
  LET acked == {d \in {Tx(t), Rx(t)} : io[d] = "done"}
      wokenBy(d) == IF d \in acked THEN Woken(d) ELSE <<>>
      pendingTerm(u) == Pending(Tx(u)) \/ Pending(Rx(u))
  IN  /\ Interruptible
      /\ \A d \in DevSem : ~Pending(d)
      /\ pendingTerm(t) /\ \A u \in Term : pendingTerm(u) => t <= u
      /\ Complete(acked, wokenBy(Tx(t)) \o wokenBy(Rx(t)))

\* HALT() and PANIC() stop the machine.
Stopped == cpu \in {"halt", "panic"} /\ UNCHANGED vars

-----------------------------------------------------------------------------
Next ==
  \/ CreateProcess
  \/ TerminateProcess
  \/ WaitForBadLine
  \/ \E s \in UserSem : Passeren(s) \/ Verhogen(s)
  \/ \E d \in IOSem : DevCommand(d) \/ WaitForIO(d) \/ DeviceCompletes(d)
  \/ WaitForClock
  \/ PltInterrupt
  \/ IntervalInterrupt
  \/ \E d \in DevSem : DeviceInterrupt(d)
  \/ \E t \in Term : TerminalInterrupt(t)
  \/ Stopped

Spec == Init /\ [][Next]_vars

-----------------------------------------------------------------------------
(* What the nucleus promises.                                              *)

Waiting(S) == UNION {ToSet(blockedQ[s]) : s \in S}

SoftBlocked == Waiting(SoftSem)

\* Every PCB is in exactly one place: the free list, currProc, one position
\* of the ready queue or one position of one semaphore's queue.  No handler
\* loses a process (insertBlocked always finds a descriptor) or links one
\* into two queues (whose shared p_next would splice them together).
PcbPartition ==
  /\ IsInjective(readyQ)
  /\ \A s \in Sem : IsInjective(blockedQ[s])
  /\ \A s, t \in Sem :
       s # t => ToSet(blockedQ[s]) \cap ToSet(blockedQ[t]) = {}
  /\ ToSet(readyQ) \cap Waiting(Sem) = {}
  /\ free \cap (ToSet(readyQ) \cup Waiting(Sem)) = {}
  /\ currProc \notin free \cup ToSet(readyQ) \cup Waiting(Sem)
  /\ Live = ToSet(readyQ) \cup Waiting(Sem) \cup ({currProc} \ {NULL})

\* procCnt is the number of live processes: the scheduler halts when the last
\* one is gone and not before (switchProcess tests procCnt only).
HaltsWhenDone ==
  /\ procCnt = Cardinality(Live)
  /\ cpu = "halt" <=> Live = {}

\* p_semAdd names the queue that holds the process and nothing else, or
\* outBlocked would leave a terminated process in the ASL.
SemAddAgrees ==
  \A p \in Proc, s \in Sem : semAdd[p] = s <=> p \in ToSet(blockedQ[s])

\* A semaphore that programs use is negative exactly by the number of its
\* waiters, through P, V and the termination of waiters alike.
UserSemCounts ==
  \A s \in UserSem :
    Len(blockedQ[s]) = IF sem[s] < 0 THEN -sem[s] ELSE 0

\* Every process waiting on a device or the clock is owed a V that will find
\* the value not above 0, and so take it off the queue (verhogen).
SoftSemOwed ==
  \A s \in SoftSem : blockedQ[s] # <<>> => sem[s] <= -Len(blockedQ[s])

\* softBlockCnt never falls short of the processes blocked on a device or the
\* clock, so the scheduler panics only when nothing can ever wake anybody:
\* somebody lives, and all wait for a V by one of themselves.
NoFalsePanic ==
  /\ softBlockCnt >= Cardinality(SoftBlocked)
  /\ cpu = "panic" => Live # {} /\ Live = Waiting(UserSem)

\* The processor idles only when there is nothing to run, and never leaves
\* currProc behind.
WorkConserving ==
  IF cpu = "run" THEN currProc # NULL ELSE currProc = NULL /\ readyQ = <<>>

\* The parent of a live process is live, and of a free one forgotten: when a
\* process dies, all its descendants die in the same system call, wherever
\* they are (recursive_terminate).
TreeSound ==
  \A p \in Proc :
    /\ p \in free => parent[p] = NULL
    /\ parent[p] # NULL => parent[p] \in Live \ {p}

\* With the command and SYS5 in one piece, a process waiting for a device is
\* alone there, the device is at work for it, and SYS5 has always blocked.
WaiterServed ==
  MaskedIO =>
    \A d \in IOSem :
      /\ blockedQ[d] # <<>> => Len(blockedQ[d]) = 1 /\ io[d] # "idle"
      /\ sem[d] <= IF io[d] = "idle" THEN 0 ELSE -1

\* A queue serves in order: newcomers go behind those who stay, those who
\* stay keep their order, and whoever leaves alive was in front of them.
OrderKept(old, new, dead) ==
  \A p \in ToSet(old) \cap ToSet(new), q \in Proc :
    /\ q \in ToSet(new) /\ (q \notin ToSet(old) \/ Before(old, p, q))
         => Before(new, p, q)
    /\ q \in ToSet(old) \ (ToSet(new) \cup dead) => Before(old, q, p)

\* No overtaking in the ready queue or in any semaphore's queue, whatever
\* interrupts and terminations do to the processes between.
FifoStep ==
  /\ OrderKept(readyQ, readyQ', free')
  /\ \A s \in Sem : OrderKept(blockedQ[s], blockedQ'[s], free')

Fifo == [][FifoStep]_vars

-----------------------------------------------------------------------------
(* What the comments of the code say and the code does not do.             *)

\* initial.c:59: softBlockCnt is the number of started, not terminated
\* processes blocked due to an I/O or timer request.
SoftBlockExact ==
  cpu # "halt" => softBlockCnt = Cardinality(SoftBlocked)

\* scheduler.c:19-20: the system waits if processes are blocked on I/O, and
\* panics if no progress is possible.
WaitsOnlyForIO == cpu = "wait" => SoftBlocked # {}

\* interrupts.c:116-117: the handler acknowledges the outstanding interrupt.
InterruptAcknowledged ==
  [][\A t \in Term :
       TerminalInterrupt(t) => io'[Tx(t)] # "error" /\ io'[Rx(t)] # "error"]_vars

-----------------------------------------------------------------------------
(* The nucleus implements the service its programs rely on.                *)

Service == INSTANCE ProcessService WITH
  Sem <- UserSem,
  runnable <- ToSet(readyQ) \cup ({currProc} \ {NULL}),
  asleep <- SoftBlocked,
  queue <- [s \in UserSem |-> blockedQ[s]],
  val <- [s \in UserSem |-> sem[s] + Len(blockedQ[s])],
  stopped <- cpu \in {"halt", "panic"}

\* Every handler of exceptions.c and interrupts.c is a step of ProcessService
\* or invisible there.  The units of a semaphore are its value and one for
\* each waiter, so a value left too low shows as units lost: the killing of
\* waiters gives back exactly what they had taken, waiters are served in
\* order, sleepers always wake as runnable processes, and the machine never
\* stops while someone could still run.
ImplementsService == Service!Spec

-----------------------------------------------------------------------------
(* Liveness.  The timers keep ticking, devices finish what they were told  *)
(* to do and their interrupts are taken.  Nothing is assumed of programs,  *)
(* nor of a receiver: nobody need ever type.                               *)

Receivers == {Rx(t) : t \in Term}

Fairness ==
  /\ WF_vars(PltInterrupt)
  /\ WF_vars(IntervalInterrupt)
  /\ \A d \in IOSem \ Receivers : WF_vars(DeviceCompletes(d))
  /\ \A d \in DevSem : WF_vars(DeviceInterrupt(d))
  /\ \A t \in Term : WF_vars(TerminalInterrupt(t))

FairSpec == Spec /\ Fairness

\* Round robin: whoever is ready gets the processor, whatever the processes
\* ahead do (pltInterruptHandler puts the interrupted process at the tail).
ReadyRuns ==
  \A p \in Proc : p \in ToSet(readyQ) ~> currProc = p \/ p \in free

\* A tick always comes for whoever waits for the clock: the scheduler waits
\* for it rather than panic (waitForClock counts the caller first).
ClockWakes ==
  \A p \in Proc : p \in ToSet(blockedQ[Clock]) ~> p \notin ToSet(blockedQ[Clock])

\* The completion of an operation reaches the process waiting for it, also
\* when the device was still busy for a process that has died, and whichever
\* devices of higher priority interrupt meanwhile.
DeviceWakes ==
  \A p \in Proc, d \in IOSem \ Receivers :
    p \in ToSet(blockedQ[d]) ~> p \notin ToSet(blockedQ[d])
=============================================================================
