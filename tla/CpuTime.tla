------------------------------- MODULE CpuTime -------------------------------
(***************************************************************************)
(* How the nucleus charges processor time: the clock is read when a        *)
(* process is dispatched (quantum) and again when it blocks, loses its     *)
(* slice or asks for its time.  The semaphores, the devices and the tree   *)
(* of processes are reduced to what a process waits for; the processor is  *)
(* in one of the modes below, and a tick of the clock falls into one.      *)
(***************************************************************************)
EXTENDS ProcQueues

CONSTANTS
  Procs, NoProc,
  Slice,     \* TIMESLICE in ticks
  MaxClock   \* bound: ticks of a run

\* What the constants must be; the modules of the runs assume it.
CpuTimeAssumption ==
  /\ IsFiniteSet(Procs) /\ NoProc \notin Procs
  /\ Slice \in Nat \ {0} /\ MaxClock \in Nat

VARIABLES
  clock, mode,
  currProc, ReadyQueue, quantum,
  p_time,
  state,     \* of each process: dead, ready, running, sem, io or clock
  owner,     \* whose device interrupts, in the mode io
  reading,   \* of the last getCPUTime: real time not charged, charge not spent
  spent,     \* history: ticks of a process's instructions and its own handlers
  taken      \* history: ticks of interrupts while it was current

handled == <<clock, spent, taken>>
processes == <<currProc, ReadyQueue, quantum, p_time, state>>
vars == <<clock, mode, processes, owner, reading, spent, taken>>

Modes == {"run", "call", "plt", "io", "interval", "switch", "idle", "stopped"}
Waiting == {"sem", "io", "clock"}

Init ==
  /\ clock = 0 /\ mode = "switch" /\ currProc = NoProc /\ quantum = 0
  /\ \E p \in Procs : ReadyQueue = <<p>>
  /\ state = [p \in Procs |-> IF p = ReadyQueue[1] THEN "ready" ELSE "dead"]
  /\ owner = NoProc
  /\ p_time = [p \in Procs |-> 0]
  /\ reading = [p \in Procs |-> <<0, 0>>]
  /\ spent = p_time /\ taken = p_time

Added(f, p) == IF p = NoProc THEN f ELSE [f EXCEPT ![p] = @ + 1]

\* A tick of the time-of-day clock; no instruction runs when the slice is over.
Tick ==
  /\ mode # "stopped" /\ clock < MaxClock
  /\ mode = "run" => clock - quantum < Slice
  /\ clock' = clock + 1
  /\ spent' = IF mode \in {"run", "call", "plt"} THEN Added(spent, currProc) ELSE spent
  /\ taken' = IF mode \in {"io", "interval"} THEN Added(taken, currProc) ELSE taken
  /\ UNCHANGED <<mode, processes, owner, reading>>

-----------------------------------------------------------------------------
(* The nucleus                                                             *)

get_elapsed_time == clock - quantum

\* Dispatches the first ready process, waits, or stops.
switchProcess ==
  IF ReadyQueue # <<>>
  THEN /\ currProc' = Head(ReadyQueue) /\ ReadyQueue' = Tail(ReadyQueue)
       /\ state' = [state EXCEPT ![Head(ReadyQueue)] = "running"]
       /\ quantum' = clock
       /\ mode' = "run"
       /\ UNCHANGED p_time
  ELSE /\ mode' = IF \E p \in Procs : state[p] \in {"io", "clock"} THEN "idle" ELSE "stopped"
       /\ UNCHANGED processes

Switch ==
  /\ mode = "switch"
  /\ switchProcess
  /\ UNCHANGED <<handled, owner, reading>>

\* The current process leaves the processor for s, charged for its time.
Charge(s) ==
  /\ p_time' = [p_time EXCEPT ![currProc] = @ + get_elapsed_time]
  /\ state' = [state EXCEPT ![currProc] = s]
  /\ currProc' = NoProc /\ mode' = "switch"
  /\ UNCHANGED quantum

\* An exception of the current process takes it into the nucleus.
Enter(m) == mode = "run" /\ mode' = m /\ UNCHANGED <<handled, processes, owner, reading>>

\* Back to the caller.
Return == mode' = "run" /\ UNCHANGED <<handled, currProc, quantum, owner>>

blockCurrProc(s) == Charge(s)

\* A call that blocks: SYS3, SYS5 or SYS7.
Block(s) ==
  /\ mode = "call"
  /\ blockCurrProc(s)
  /\ UNCHANGED <<handled, ReadyQueue, owner, reading>>

\* Mutant: a pcb keeps the time of its last owner.
createProcess_Keeps(p) ==
  /\ mode = "call" /\ state[p] = "dead"
  /\ state' = [state EXCEPT ![p] = "ready"]
  /\ ReadyQueue' = Append(ReadyQueue, p)
  /\ Return
  /\ UNCHANGED <<p_time, reading>>

\* A pcb from the free list starts with no time.
createProcess(p) ==
  /\ mode = "call" /\ state[p] = "dead"
  /\ state' = [state EXCEPT ![p] = "ready"]
  /\ ReadyQueue' = Append(ReadyQueue, p)
  /\ p_time' = [p_time EXCEPT ![p] = 0]
  /\ Return
  /\ UNCHANGED reading

Cleared(f, S) == [p \in Procs |-> IF p \in S THEN 0 ELSE f[p]]

\* SYS2: the caller dies with any others, which stand for its progeny; the
\* histories begin again with the next owner of the pcb.
terminateProcess(S) ==
  /\ mode = "call" /\ currProc \in S
  /\ state' = [p \in Procs |-> IF p \in S THEN "dead" ELSE state[p]]
  /\ ReadyQueue' = Without(ReadyQueue, S)
  /\ currProc' = NoProc /\ mode' = "switch"
  /\ spent' = Cleared(spent, S) /\ taken' = Cleared(taken, S)
  /\ reading' = [p \in Procs |-> IF p \in S THEN <<0, 0>> ELSE reading[p]]
  /\ UNCHANGED <<clock, quantum, p_time, owner>>

\* SYS4 (verhogen): perhaps one wakes that waits for a semaphore.
V ==
  /\ mode = "call"
  /\ \/ UNCHANGED <<ReadyQueue, state>>
     \/ \E p \in Procs :
          /\ state[p] = "sem"
          /\ state' = [state EXCEPT ![p] = "ready"]
          /\ ReadyQueue' = Append(ReadyQueue, p)
  /\ Return
  /\ UNCHANGED <<p_time, reading>>

Compared(answer) == <<clock - answer, answer - spent[currProc]>>

\* Mutant: what has passed since the process was dispatched is forgotten.
getCPUTime_Stored ==
  /\ mode = "call"
  /\ reading' = [reading EXCEPT ![currProc] = Compared(p_time[currProc])]
  /\ Return
  /\ UNCHANGED <<ReadyQueue, state, p_time>>

getCPUTime ==
  /\ mode = "call"
  /\ reading' = [reading EXCEPT ![currProc] =
                   Compared(p_time[currProc] + get_elapsed_time)]
  /\ Return
  /\ UNCHANGED <<ReadyQueue, state, p_time>>

pltInterruptHandler ==
  /\ mode = "plt"
  /\ ReadyQueue' = Append(ReadyQueue, currProc)
  /\ Charge("ready")
  /\ UNCHANGED <<handled, owner, reading>>

\* A device of a waiting process interrupts, or the interval timer does, a
\* running process or an idle processor.
Interrupt(m, o) ==
  /\ mode \in {"run", "idle"}
  /\ mode' = m /\ owner' = o
  /\ UNCHANGED <<handled, processes, reading>>

\* The end of an interrupt handler that wakes the processes of S.
Wake(S) ==
  /\ state' = [p \in Procs |-> IF p \in S THEN "ready" ELSE state[p]]
  /\ \E q \in SetToSeqs(S) : ReadyQueue' = ReadyQueue \o q
  /\ mode' = IF currProc = NoProc THEN "switch" ELSE "run"
  /\ owner' = NoProc
  /\ UNCHANGED <<handled, currProc, quantum, p_time, reading>>

nontimerInterruptHandler == mode = "io" /\ Wake({owner})

systemIntervalInterruptHandler ==
  mode = "interval" /\ Wake({p \in Procs : state[p] = "clock"})

Next ==
  \/ Tick
  \/ Switch
  \/ Enter("call")
  \/ clock - quantum >= Slice /\ Enter("plt")
  \/ \E s \in Waiting : Block(s)
  \/ \E p \in Procs : createProcess(p)
  \/ \E S \in SUBSET Procs : terminateProcess(S)
  \/ V
  \/ getCPUTime
  \/ pltInterruptHandler
  \/ \E p \in Procs : state[p] = "io" /\ Interrupt("io", p)
  \/ Interrupt("interval", NoProc)
  \/ nontimerInterruptHandler
  \/ systemIntervalInterruptHandler

Spec == Init /\ [][Next]_vars

-----------------------------------------------------------------------------
(* Properties                                                              *)

TypeOK ==
  /\ clock \in 0..MaxClock /\ mode \in Modes /\ quantum \in 0..clock
  /\ currProc \in Procs \cup {NoProc} /\ owner \in Procs \cup {NoProc}
  /\ ReadyQueue \in Seq(Procs)
  /\ p_time \in [Procs -> Nat] /\ reading \in [Procs -> Int \X Int]
  /\ state \in [Procs -> {"dead", "ready", "running"} \cup Waiting]
  /\ {spent, taken} \subseteq [Procs -> Nat]

Alive == {p \in Procs : state[p] # "dead"}

\* What getCPUTime would answer.
Charged(p) == p_time[p] + IF p = currProc THEN get_elapsed_time ELSE 0

\* A process is charged for its instructions, its system calls and the end of
\* its slices, and for the interrupts that fall into its turns; nothing of an
\* idle processor, of the scheduler or of another's turn is charged to anyone.
ChargedForTurns == \A p \in Alive : Charged(p) = spent[p] + taken[p]

\* The ticks that processes have been charged for, numbered for each process.
ChargedTicks == {x \in Procs \X (1..MaxClock+1) : x[2] <= Charged(x[1])}

\* All processes together are never charged more than real time.
NoMoreThanReal == Cardinality(ChargedTicks) <= clock

\* CPU-time accounting: a process is charged for its turns and for nothing else,
\* and all together for no more than real time.
ChargedRight == TypeOK /\ ChargedForTurns /\ NoMoreThanReal

\* Between two readings by SYS6 a process is charged no more than the clock has
\* advanced, and no less than its own instructions took.
ReadingsGrow ==
  \A p \in Alive : state'[p] # "dead" =>
    \A i \in 1..2 : reading'[p][i] >= reading[p][i]

\* SYS6: no step of the nucleus lets the answers of a process fall behind its
\* own instructions or run ahead of the clock.
ReadingsAgree == [][ReadingsGrow]_vars

-----------------------------------------------------------------------------
(* What the header of interrupts.c says and the code does not do.          *)

\* interrupts.c:29-32, :44-45: the time of an I/O interrupt is charged to the
\* process that asked for the I/O rather than to the one that was running, and
\* the time of the interval timer's to nobody.
InterruptCharged ==
  mode \in {"io", "interval"} /\ clock' > clock =>
    \A p \in Alive : Charged(p)' = Charged(p) + IF p = owner THEN 1 ELSE 0

RequesterPays == [][InterruptCharged]_vars
=============================================================================
