# A verification of PandOS

PandOS is a teaching operating system for the uMPS3 machine (a MIPS processor
with up to eight interrupt lines, an emulator and no SMP in this code). The
repository keeps one directory per phase, each a copy of the system as it
stood, and `testers/`, the programs that run on the last one. The layers,
bottom up (files of `phase5/`, which contains all of them):

| component | files | state it keeps | operations |
|---|---|---|---|
| PCB pool, process queues, process trees | `pcb.c` | `pcb_pool`, `pcbFree_h`, circular doubly linked queues (tail pointer), child lists | `allocPcb`, `freePcb`, `insertProcQ`, `removeProcQ`, `outProcQ`, `headProcQ`, `insertChild`, `removeChild`, `outChild` |
| Active semaphore list (ASL) | `asl.c` | sorted list of descriptors between two dummies, free list of descriptors | `insertBlocked`, `removeBlocked`, `outBlocked`, `headBlocked` |
| Nucleus | `initial.c`, `scheduler.c`, `exceptions.c`, `interrupts.c` | `ReadyQueue`, `currProc`, `procCnt`, `softBlockCnt`, `deviceSemaphores[48]`, `semIntTimer`, CPU-time stamps | SYS1 to SYS8, `switchProcess`, the three interrupt handlers, pass up or die |
| Pager | `vmSupport.c` | swap pool and its mutex `semaphore_swapPool`, page tables, TLB, backing store on flash | TLB refill, page fault, modification trap |
| Support-level exceptions | `sysSupport.c` | device mutexes `devSema4_support` | SYS9 to SYS13, `get_nuked` |
| Disk and flash calls | `deviceSupportDMA.c` | DMA buffers | SYS14 to SYS17 |
| Delay daemon | `delayDaemon.c` | active delay list (ADL) and its mutex | SYS18, the daemon's loop |
| Start-up | `initProc.c` | pool of support structures, `masterSema4` | `test()`, `summon_process`, `allocate`, `deallocate` |
| Test programs | `p1test.c`, `p2test.c`, `testers/` | what they write on devices, in memory and on terminals | |

`pcb.c` and `asl.c` are called by the nucleus only, with interrupts off. The
nucleus is entered by exceptions and interrupts and leaves by LDST (to a
process), WAIT, HALT or PANIC. Everything above the nucleus is ordinary
processes that run with interrupts on, share memory, and meet only through
SYS3/SYS4 on semaphores, SYS5 on devices, SYS7 on the clock, and SYS1/SYS2.

**Which phase a module is mapped to.** Most files of a phase are those of the
phase before, unchanged: no statement of `pcb.c`, `asl.c`, `initial.c`,
`scheduler.c`, `interrupts.c`, `vmSupport.c` and `deviceSupportDMA.c` differs
between the phases that have them; `exceptions.c` changes once (SYS1, in phase
5), `initProc.c` once (phase 5), `sysSupport.c` in phases 4 and 5. A module models the code once and is mapped to the phase that brought
that code: the lists and their test to phase 1, the nucleus with its test to
phase 2, CPU time, pager, character calls and start-up to phase 3, exception
dispatch and the disk and flash calls to phase 4, everything else, and the
support level as a whole, to phase 5. `Nucleus`, the oldest module, is mapped
to phase 5. Where a file did change, the module follows the phase it is mapped
to, and what that changes is said below (the result of SYS1, the size of the
pool of support structures).

## What is hard in this code

- **Nucleus.** The decision to run, wait, halt or panic (`scheduler.c:131-154`)
  rests on two counters kept by hand in half a dozen places. A process can be
  killed in any state: it has to be taken out of whatever queue holds it, the
  semaphore's value repaired, and its descendants found. Devices go on working
  for processes that are dead; their interrupts arrive afterwards, possibly to
  find another process, or nobody, on the semaphore. Interrupts arrive during
  WAIT, with no current process. A terminal interrupt can stand for two
  completions. Descriptors and PCBs can run out; the result of `insertBlocked`
  is ignored. *Correct* means: no PCB is lost or in two places, values match
  queues, counters match processes, service is in order, the processor never
  idles or stops while somebody could run, whoever waits for hardware wakes,
  and a process is charged for its own turns.
- **Lists.** Two directions of links, a tail pointer, a sorted list whose
  descriptors come and go with the first and last waiter. *Correct*: they are
  the sequences, trees and sets the nucleus takes them for.
- **Pager.** Page faults of several processes interleave between P and V of the
  swap-pool mutex; a frame is taken from a process that runs on; a flash error
  kills the process that holds the mutex; frames of dead processes are written
  back. *Correct*: a load returns the last store of the same process.
- **Support calls.** A device mutex is taken, then the caller's own pages are
  touched, which may fault and need the same device. `get_nuked` guesses which
  mutexes the dying process holds. *Correct*: a call is one read or write of a
  block or a line, mutual exclusion, no deadlock, no mutex lost.
- **Delay daemon.** Wake-up times are 32-bit sums; SYS18 must release the list
  and sleep in one step; an error path keeps the list's mutex. *Correct*:
  everyone wakes, not early.
- **Start-up and end.** `masterSema4` is V'ed before its process has died; the
  free list of support structures is changed with interrupts on. *Correct*:
  `test` ends after the work of the last process, and then the machine halts.

`PROJECT.json` lists each of these hazards with its line and the properties
that would catch it.

## Modules

Each line of the first table is a component with its state and one action per
operation; the abstract specification it is shown to implement, where there is
one, is in the second column, the module whose run checks it in the third.

| module | implements | checked by | what it models |
|---|---|---|---|
| `Nucleus` (uses `ProcQueues`) | `ProcessService` | `MCNucleus` | the nucleus under arbitrary programs |
| `KernelLists`, `ListOperations` | `ListService` | `MCKernelParts` | `pcb.c` and `asl.c`, pointer by pointer; every sequence of calls |
| `Dispatch` | | `MCKernelParts` | one process's way through exceptions, nucleus and support level |
| `CpuTime` | | `MCKernelParts` | where the clock is read and who is charged |
| `NucleusCalls` | | `P2Test` | the nucleus of phase 2 with the results of its calls, SYS8 and pass up or die |
| `Pager` | `PagedMemory` | `MCPager` | TLB, page faults, swap pool, backing store |
| `DeviceCalls` | `BlockStore` | `MCCalls`, `MCServices` | SYS14 to SYS17, with the locks of the pager |
| `CharCalls` | | `MCCalls` | SYS9 and SYS11 to SYS13, a character at a time |
| `DelayDaemon` | `Alarms` | `MCServices` | SYS18 and the daemon |
| `Lifecycle` | | `MCServices` | `test`, the pool of support structures, the end of processes |
| `SupportLevel` | | `MCSupportLevel` | all of these together: every lock of every call |
| `P1Test`, `P2Test` | | `MCPrograms`, itself | the test programs of phases 1 and 2 |
| `SortedSeq`, `UserPrograms` | | `MCPrograms` | the programs of `testers/` |

How they compose:

- `Semaphores` is SYS3 and SYS4 as seen from above the nucleus: a value, a FIFO
  queue, a unit handed to the first in it. That is what `ProcessService`
  promises and `Nucleus` implements. `NucleusCalls`, `Pager`, `DeviceCalls`,
  `DelayDaemon` and `SupportLevel` are built on it.
- `ListOperations` drives the operations of `KernelLists` as the nucleus may,
  `P1Test` as the test of phase 1 does; `P2Test` is a program run by
  `NucleusCalls`.
- `SupportLevel` composes the instantiator, the daemon, the pager and the calls
  of all user processes with all their mutexes. A handler is reduced there to
  the sequence of its semaphore operations, device waits and page accesses;
  `Pager`, `DeviceCalls`, `CharCalls`, `DelayDaemon` and `Lifecycle` have the
  data and the finer steps of each.
- `UserPrograms` runs the programs on what those modules promise: a page
  fault, a disk or flash call, a line of a terminal and a delay are steps of
  the kinds that `PagedMemory`, `BlockStore` and `Alarms` allow, which
  `ImplementsMemory`, `ImplementsBlockStore` and `ImplementsAlarms` justify.
- The `MC...` modules give constants their values. Components that share
  nothing share a run: a variable `part`, set in the initial state, says of
  which component a behaviour is, and the variables of the others stay in one
  of their initial states. Each property is one about one part, except that
  `TestsPass` and `ResultsTrue` say the same of several.

`QueueLemmas` has the lemmas on queues and on SYS3 and SYS4. The theorems are in
`NucleusProofs`, `PagerProofs`, `SupportLevelProofs`, `DeviceCallsProofs`,
`ServicesProofs` (delay daemon and `Lifecycle`), `KernelPartsProofs` (`CpuTime` and
`Dispatch`) and `CallsProofs` (`CharCalls`). The last three extend the module of
a run, `MCServices`, `MCKernelParts` and `MCCalls`, so that they speak of its
properties; they use nothing of its values of the constants, `DeathsExclude` apart,
which is about the flash device `MCServices` names.

A property whose comment says *Refuted* states what a comment of the code claims and
the code does not do; see Findings.

Operators named `X_Something` are seeded faults: variants of a definition `X`
with a plausible bug, one for every checked property and for most parts of the
properties that have several, that show the property would notice. They are no
part of the specification.

### How Nucleus corresponds to the code

The handlers run with interrupts off and end in LDST, WAIT, HALT or PANIC, so
one kernel entry is one action, the scheduler it falls into included.

| variable | code |
|---|---|
| `free` | `pcbFree_h` (a set: which free PCB is taken makes no difference) |
| `readyQ`, `currProc`, `procCnt`, `softBlockCnt` | the globals of `initial.c` |
| `sem` | the integers: those of programs, `deviceSemaphores[]`, `semIntTimer` |
| `blockedQ` | the ASL: `s_procQ` of each semaphore, `<<>>` when it has no descriptor |
| `semAdd` | `p_semAdd` |
| `parent` | `p_prnt`; the child lists are its inverse |
| `io` | per device semaphore, whether the sub-device behind it is idle, busy, or has an interrupt pending (`done`, or `error` for a terminal status other than 5) |
| `cpu` | running, in WAIT, halted, panicked |

| action | code |
|---|---|
| `CreateProcess` | SYS1, `createProcess` |
| `TerminateProcess` | SYS2 and every trap of a process with no support structure: `terminateProcess`, `recursive_terminate`, `outBlocked`, `outProcQ`, `freePcb`, `switchProcess` |
| `WaitForBadLine` | SYS5 with a line outside 3..7: counted, then terminated |
| `Passeren`, `Verhogen` | SYS3, SYS4 |
| `WaitForIO`, `WaitForClock` | SYS5, SYS7 |
| `DevCommand` | a program writes the device's command register (only with `MaskedIO` FALSE; otherwise the write and SYS5 are one step, as the support level has it). It and `WaitForIO` need `MayDrive`: no live process waits on that device, which the device mutexes of the support level ensure |
| `DeviceCompletes` | the hardware (external) |
| `PltInterrupt`, `IntervalInterrupt` | `pltInterruptHandler`, `systemIntervalInterruptHandler` |
| `DeviceInterrupt`, `TerminalInterrupt` | `nontimerInterruptHandler`, lines 3 to 6 and line 7, lowest line and device first; for a terminal, transmitter then receiver |

Interrupts are on while programs run, so a program makes its next step only
when no device interrupt is pending (`Running`). A PLT interrupt with no
current process is not a behaviour: `switchProcess` puts the timer out of
reach before WAIT, and the interval timer fires first, every 100 ms.

Abstracted: contents of processor states, arguments and return values (v0), CPU
times, which exception leads to a termination. `NearSem` stands for programs'
semaphores that the linker lays out within the 576 bytes behind
`deviceSemaphores[]`: the upper bound of `recursive_terminate`'s address test
counts in ints where it should count in bytes, and takes them for device
semaphores. The order of link in phase 5 decides what lies there.

### ProcessService

Programs see three places a process can be: runnable, asleep until hardware
wakes it, or in the FIFO queue of a counting semaphore whose value is never
negative. `ImplementsService` is the refinement: `runnable` is the ready queue
plus `currProc`, `asleep` all queues of device semaphores and the clock, `val`
the value of a semaphore and one for each of its waiters, `stopped` HALT or
PANIC. `val` is an account that can be in debt: if a termination takes a waiter
from the queue and does not raise the semaphore, it falls by one, at that step,
and `ProcessService` has no such step; if one raises it too often, it rises.
So the refinement says what is easy to get wrong in the code: killing waiters
gives back exactly the units they were owed, a V hands over to the longest
waiter, and the machine stops only when nobody is runnable or asleep. It holds if
`NearSem` is empty, in the run as in the theorem; with a semaphore in `NearSem`
the first killing of a waiter refutes it (a finding).

### KernelLists, ListOperations, ListService

`h` is the memory of `pcb.c` and `asl.c`: `next`, `prev`, `prnt`, `child`,
`lsib`, `rsib` and `semAdd` of each PCB, `pcbFree`, one `tail` pointer per queue,
`sNext` and `sAdd` of each descriptor with the two dummies, `semdFree` and
`semd_h`. An operation of the C code is an operator from memory to memory
(`insertProcQ`, `outProcQ`, `insertChild`, `outChild`, `insertBlocked`,
`removeBlocked`, `outBlocked`, ...); `Walk` is `search_semp`. `ListOperations`
calls them in any order that respects what their callers respect (a PCB is put
into one queue at a time, freed when it is in none, has one parent), and keeps
the result in `ret`. `ListService` says the same of sequences, a parent
function and queues by semaphore.

### Dispatch

One process, its program counter and mode, the state the processor saves and
the two states the nucleus passes up. `Exception` is an instruction that raises
one, in the program or in a handler; `gen_exception_handler`, `sysTrapHandler`,
`exceptionPassUpHandler`, `interruptsHandler` (lowest line first),
`sysSupportGenHandler`, `syscall_excp_handler` and the entry of
`tlb_exception_handler` are actions. `done` says what was done about `raised`.

### CpuTime

`quantum`, `p_time` and the ticks of a clock; the processor is in one of
`Modes`, and a tick falls into one. `spent` and `taken` are the history the
properties compare with: a process's own ticks (system calls and the end of its
slice included) and those of interrupts that came in its turn. `owner` is the
process an I/O interrupt is for. `ChargedRight` is what the code does, charging
the time of an interrupt to whoever it interrupts; that the header of
`interrupts.c` says otherwise is `RequesterPays`, a finding.

### NucleusCalls, P2Test

`NucleusCalls` is the nucleus as a program with known contents sees it: results
in v0, the contents of `sup_exceptState`, user mode, the terminal's mutex. PCBs
are numbered, since a dead process's PCB is used again. `P2Test` writes the
fifteen programs of `p2test.c` as sequences of instructions; `Error` stands for
any message that begins with "error" and the PANIC behind it.

### Pager, PagedMemory

A process is in its program, in a step of `tlb_exception_handler` (`pick`,
`out`, `in`, `install`, with the mutexes between), or in `get_nuked`. Steps are
the stretches between system calls and those with interrupts off. Any TLB entry
may be overwritten at any TLBWR. In the refinement a page is where its frame,
the frame on its way out or the backing store has it.

### DeviceCalls, BlockStore

A call is `Lock`, `Validate`, `CopyIn`, `Seek`, `SeekDone`, `Transfer`,
`TransferDone`, `CopyOut`, `Unlock`, each a stretch between SYS3, SYS4 and SYS5;
a copy may fault (`Fault`) and then takes the pager's steps with the pager's
locks, or trap (`Trap`: an address in KUSEG that is not word-aligned) and then
ends the process with the mutex of the device. A transfer of the pager may fail
(`Moves`), which ends the process with the swap pool. A page is one value.
`get_nuked` is the look at the mutexes that have the number of the process, and
the SYS4 on one that reads 0 a step behind. In the refinement a put takes effect
when the device has written, a get when it has read.

Nothing keeps programs from calling a device with the number of another process,
and in phase 5 every disk and flash device has the number of one. When that
process ends outside a call on its device, `get_nuked` may V the mutex although
another process has it. From then on the device is in `Lost`; the properties speak of
the others (`Guarded`), and `BlockStore` has `lost` with the same meaning. A
process that ends in the middle of a call on its own device does not lose it: it
is the one that has the mutex. That the comments promise more is `Exclusive`, a
finding.

### CharCalls

One process with its printer and its terminal; `Send`/`Sent` and
`Receive`/`Received` are the two sides of a SYS5. A printer that is not ready has
one of the other statuses (`PrinterStatus`; 0, not installed, is so from the
start), and its negative is the result. `Junk` is what the local variable
`status` may hold before a SYS5 sets it. A character is counted, as in the code,
whatever the device says of it; `sent` is what it has put out.

### DelayDaemon, Alarms

`adl` is the list between its dummies, `free` the length of the free list,
`sem` the list's mutex and the private semaphores. SYS18's V and P with
interrupts off are one action (`FallAsleep`). The clock is `Int32(Start +
ticks)`. `Alarms` has a deadline per process and nothing else.

### Lifecycle, SupportLevel

`Lifecycle` has `test` with its two loops, SYS1, the pool with its index, and the
master semaphore. `allocate` and `deallocate` run with interrupts on, and the
Makefile asks for no optimisation: each load and each store of `freeSupIndex` is a
step of its own, the index checked, the one written back and the one stored through
may all differ. A store behind the array changes nothing of the pool, a load from
there gives anything. `early` says that a process was past its signal while
`test` was still launching others: up to then what is claimed of the pool holds,
and afterwards it does not (three findings).

`SupportLevel` has in `todo` what every process still has to do until it is
back in its program; a call chooses among the ways its handler can go. A
`touch` may be of a page of the program, of an address that may be none, of a
block number that may be none, or of a status that may not be READY; the last
three may end the process there (`Trap`). `TestMutex` is the test of
`get_nuked` ("reads 0") and the SYS4 that follows it a step of its own. `left`
and `freed` are history: the mutexes somebody had when he ended, and those
`get_nuked` V'd although nobody had left them.

### UserPrograms, SortedSeq, P1Test

A program of `testers/` is a sequence of instructions over calls, page accesses
and tests of what it has read, with loops unrolled to the values that matter;
an instruction that finds an error reports it in `said`. A read may fail: the
programs use its negative result as an index, so what they print then is any
text, or they end on a stray address (`unread`, `Unknown`, `Stray`); so is what
`strRev` makes of an empty line. `SortedSeq` asks again until it is given a
line, the empty one included, and has the two conversions and the heap sort
statement by statement, in a small base.
`P1Test` is `p1test.c` call by call, on `KernelLists`.


## Runs

A run asks one question of one layer. Components that share nothing are parts
of one run, so a property may be a conjunction of those of a component's module.

| run | states | property | what would violate it |
|---|---|---|---|
| `safety` | 307 k | `PcbPartition`, `SemAddAgrees`, `TreeSound` | a PCB lost, in two places, or left behind by a termination |
| | | `UserSemCounts`, `SoftSemOwed`, `WaiterServed` | a value that does not fit its queue, after P, V, interrupts and kills in any order |
| | | `HaltsWhenDone`, `NoFalsePanic`, `WorkConserving` | a stop or an idle processor while somebody could run or will be woken |
| | | `Fifo` | overtaking in a queue |
| `service` | 129 k | `ImplementsService` | the nucleus differs from `ProcessService`; interrupts may come between the command and SYS5 |
| `liveness` | 50 k | `ReadyRuns`, `ClockWakes`, `DeviceWakes` | a ready process or a waiter that is never served |
| `kernel_parts` | 1000 k | `ListsSound`, `ImplementsLists` | links of `pcb.c` and `asl.c` that are not the lists they stand for |
| | | `Due`, `Restarts` | an exception that reaches the wrong handler, an instruction skipped or lost behind an interrupt or fault |
| | | `ChargedRight`, `ReadingsAgree` | CPU time charged to a process off its turn, or counted twice or not at all |
| `p2` | 189 k | `TestPasses`, `Finishes` | `p2test.c` reports an error, or hangs, under some interleaving |
| `pager` | 551 k | `TablesAgree`, `ImplementsMemory` | two owners of a frame, a stale TLB entry, a lost store |
| `calls` | 457 k | `DeviceSafe`, `ImplementsBlockStore` | two processes in a disk call, a disk transfer at another process's cylinder, unless `get_nuked` has opened the disk; a call that is not one read or write of a block, whatever fails and whoever ends in it |
| | | `LineRead`, `PrinterStops` | a line that is not what was typed; a call that stops early and returns a count, but for 0 if there is no printer |
| `services` | 316 k | `SleepersListed`, `ImplementsAlarms`, `SleeperWakes` | a sleeper not listed, woken early or never, a descriptor lost |
| | | `TestIsLast` | `test` ends before the work of a process does; a process finds no support structure; two share one, or one is returned behind the array, though nobody ended during the launch |
| | | `ExclusiveOnDeath` | the end of a process lets a second one into the pager, or into a call on a device that is not lost |
| `level` | 192 k | `NoCircularWait`, `HeldByOne`, `Halts` | a circle of waits; a mutex with two holders that `get_nuked` has not V'd unasked, or taken by nobody though none has ended with it; a program or `test` that never ends and does not wait for what one has left |
| `programs` | 457 k | `TestsPass`, `ResultsTrue` | a program of `testers/` or `p1test.c` that finds an error, ends too early, or prints what it did not compute of the lines it has read |
| | | `AllEnd` | a program that never ends in the mix of two sleepers with one that swaps |
| `deadlock` | violated | `WaitsOnlyForIO` | see Findings |
| `level_never` | violated | `TestTerminates` | see Findings |

Each property of a passing run has a seeded fault in `PROJECT.json` that
violates it. A property of several parts has more in the modules:

| seeded fault | violates |
|---|---|
| `insertBlocked_NotesFirst`, `Retire_Keeps` | `ListsSound` |
| `Freed_First`, `Subtree_Alone` | `TestPasses` |
| `PickFrame_KeepsPage` | `TablesAgree` |
| `passeren_OffByOne` | `DeviceSafe` |
| `sys18Handler_UnlocksTwice` | `HeldByOne` |
| `heapify_Parent`, `Beyond_Early`, `Convert_Strict`, `itoaConversion_NoZero` | `ResultsTrue` |

### Bounds

**Nucleus.** Three PCBs give a parent, a child and a grandchild or a sibling:
enough for a termination of a subtree that is partly running, ready and blocked
while an unrelated process waits, for queues of two, and for the pool to run
out. One semaphore of programs, one device and one terminal (two sub-devices)
give every kind of semaphore, and two lines compete for priority. `service` has
two semaphores of programs so that a termination touches both, and `MaskedIO`
FALSE. `NumSemd` is the number of PCBs, as `MAXPROC` is in `asl.c`. `MaxSem`
bounds the absolute value of a semaphore and `MaxSoft` bounds `softBlockCnt`,
which the leaks let grow without limit; both are guards of the calls. In
`safety` and `service` they are at least the number of processes, so that they
forbid no process to block; in the other runs at most two processes wait for
one semaphore, which is what those runs need. `liveness` has no symmetry, and
`BadLine` and `TermErrors` are FALSE there: an unacknowledged terminal interrupt
would starve every program, which is one of the findings.

**Lists.** Three PCBs are a first, a middle and a last element; four
descriptors, two of them the dummies, run out at the third semaphore, three at
the second.

**Dispatch.** Every class of exception code, call numbers on both sides of each
boundary (0, 1, 8, 9, 18, 19), three lines pending in any combination, and a
program of three instructions, with an exception in a handler.

**CPU time.** Two processes, slices of two ticks, four ticks: enough for a turn
that begins in another's slice, a preemption and a call in the middle.

**P2Test.** `MaxProc` is 9, the least with which the test can pass, so PCBs run
out and are used again; the loops over processes that must be killed are run
four times (`Incarnations`), those on the clock twice (`ClockLoop`), and a
process may lose the processor once within each stretch (`MaxSlices`).

**Pager.** Two processes and two pages on one frame with two values (every
fault evicts), and on two frames with one value (a fault may find a free or its
own frame). One address outside the pages of the programs. Flash errors at any
transfer.

**Calls.** Two processes on a disk of three cylinders and two heads that has the
number of one of them; the first block, one in between, and the one behind the
last, which the code lets through; one frame, so that every copy may fault in
the middle of a call. Disk and pager may fail at every operation, a copy may
trap, and a process may end in its program or in any of those places. Lines of
up to two characters with `Length` from -1 to one beyond, errors at every
character.

**Services.** Three sleepers with every delay from -1 to 2 s, and a horizon of
five ticks of half a second (`Horizon` bounds the clock), enough for a sleeper
that comes while the daemon is at work for another and is to be put before a
third. `Width` is 16, since 2^32 is beyond TLC's integers. `Lifecycle` has three
processes with a pool and a limit of four, `MAXUPROCS + 1` as in phase 5. Three
processes call the flash device with the number of the second of them, for its
last block or the one behind it, where the call ends its process with the mutex
locked; device and pager may fail, copies may trap, programs may end. It takes
three: one that dies, one it would let in, and one that is in already.

**Level.** Two processes that make all the calls between them, each one call
(`MaxCalls`) beside its faults and its end. They share the disk with the number
of the second, and a flash device that backs none. Every address, every flash
block and every transfer of the pager may be a bad one. Three processes are
beyond TLC.

**Programs.** Ten mixes, of one to four programs each, that share something or
read from a terminal; two frames
for the pages of data (text and stack are not modelled, so these are the frames
those leave over); lines of none to three characters; 25 sectors of the disk, flash
blocks up to 64. The two conversions of `sortedSeq` with every line of five characters in
base 3 and `INT_MAX` 7; its heap sort with every array of six numbers from 0 to
3. `P1Test` has the sizes of `p1test.c`.

### Where a system stops

Deadlock is checked in `safety`, `service`, `liveness`, `deadlock` and `level`:
HALT and PANIC are states in which only `Stopped` is enabled. The other
configurations say `CHECK_DEADLOCK FALSE`: programs and `test` come to their
end there, a part's clock reaches its bound, or a failed flash operation keeps
the pager's mutex for ever (a finding).

### Fairness

- *Nucleus*: weak fairness for the PLT interrupt (the timer is loaded at every
  dispatch), the interval timer (reloaded by its handler), completion of disk
  and transmitter operations, and the delivery of device interrupts. Nothing is
  assumed of programs: they may compute for ever, never release, never call. No
  fairness for receivers, as nobody need type.
- *DelayDaemon*: the daemon and a process inside SYS18 run, which `ReadyRuns`
  gives them, and the clock ticks up to its horizon. A program need not call.
- *SupportLevel*: weak fairness for each process's steps inside a call or a
  fault, and for the daemon's; device operations are among them (`DeviceWakes`).
  Strong fairness for `Wake`, which is possible each time the daemon holds the
  list: every delay runs out on one of its rounds.
- *UserPrograms*: the three processes of the mix with sleepers run and the
  clock ticks.
- *P2Test*: every step that is enabled is taken at last (`WF_vars(Next)`).
- `Pager` (`FairSpec`) and `DeviceCalls` (`Fairness`, in `CallsFairSpec`) have it
  for the two findings on locks that are never released; nothing is assumed of
  programs.

### What the models assume

- *P2Test*: the ready queue is served in order; a slice is long enough for one
  call; a wait for the clock lasts at least one round of the ready queue; user
  mode at `p5b` ends in an address error, as the test intends.
- *SupportLevel*: flash calls go to units that back no process. In phase 5 all
  eight back one; SYS16 on such a unit can wait for itself (`FlashReleased`, a
  finding), so what is said here of circles is said of programs that do not call
  it. The page that leaves is any page, a copy faults at most once and then goes
  through, and a line has at most one character. No network device is used.
- *UserPrograms*: lines fit the buffers of the programs, the clock does not wrap,
  flash unit 0 is the backing store of process 1, and the flash blocks programs
  write are pages nobody uses, as in `testers/`; a call on another block would
  overwrite a page of that process, and nothing in the code forbids it.
  Terminals may fail, which a program shows as "bad" text and never as an error;
  the endless loops a program may fall into behind a read that failed, on a
  text that is not its own, are not followed.
- *Pager*: the refinement holds until a flash operation fails; what is left of
  it then is `TablesAgree`.
- *DelayDaemon*: no run starts the clock near its limit, where a wake-up time
  wraps and a sleeper is woken at once.

## Findings

Each is quoted in full, with its lines, in `PROJECT.json`. TLC refutes what the
comment says under the configuration named. Two of them are runs. Where a
configuration refutes several statements, `tlc -continue` shows them all.

| what | refuted | configuration |
|---|---|---|
| a process killed while it waits for I/O leaves `softBlockCnt` too high; a deadlock of the others is taken for a wait | `WaitsOnlyForIO` | `Nucleus_deadlock` (run) |
| an address in KUSEG that traps in a disk call leaves the disk locked; `test` never ends | `TestTerminates` | `Level_never` (run) |
| SYS5 counts its caller even if the interrupt came first | `SoftBlockExact` | `Nucleus_refuted` |
| a terminal status other than 5 is not acknowledged | `InterruptAcknowledged` | `Nucleus_refuted` |
| the range of device semaphores is 768 bytes instead of 192 | `UserSemCounts` | `Nucleus_refuted` |
| SYS1 of phases 1 to 4 writes its result where nobody reads it, and the test does not notice | `CreateReports` | `P2_result` |
| the pc is advanced twice behind SYS9 and up | `ResumesBehind` | `Parts_refuted` |
| the mask for Reserved Instruction leaves the code of a SYSCALL | `TrapIsReserved` | `Parts_refuted` |
| the time of an I/O or interval interrupt is charged to the process it interrupts, not to the one that asked, or nobody | `RequesterPays` | `Parts_refuted` |
| a flash error kills the holder of the swap-pool mutex | `PoolReleased` | `Pager_stuck` |
| frames of a process that ended are not freed | `FramesFreed` | `Pager_refuted` |
| a page number outside the program's pages is taken modulo 32 | `RefillMatches` | `Pager_refuted` |
| a flash call faults on its caller's page while it holds the unit the pager needs | `FlashReleased` | `Calls_refuted` |
| `get_nuked` V's the mutex of a device another process is using | `Exclusive` | `Calls_refuted` |
| `get_nuked` leaves a mutex its process has on a device of another number | `EndsRelease` | `Level_refuted` |
| a printer or terminal call that stops early returns 0, or what was left in a variable | `StopIsNegative` | `Calls_refuted` |
| a character that failed is counted as transmitted | `CountSent` | `Calls_refuted` |
| SYS11 does not check its length | `LengthChecked` | `Calls_refuted` |
| the index of the pool is changed with interrupts on; two processes share a structure | `SupportUnique` | `Life_refuted` |
| the index is loaded again behind its check; a structure is stored behind the array | `PoolNotOverflowed` | `Life_refuted` |
| the entry is loaded through an index somebody has changed; `allocate` returns NULL from a pool that is not empty | `NullWhenEmpty` | `Life_refuted` |
| the programs that read lines use a negative result as an index | `TextsAlways` | `Programs`, with `TextsAlways` as its invariant |

That the leaks only ever leave the counter too *high* is `NoFalsePanic`: the
system never panics while a device or the clock would still wake somebody.

Seen while modelling, and modelled as the code has it, without a statement of
the repository to refute: SYS5 with a bad line counts the caller before it dies
(`exceptions.c:335`); the wake-up time wraps (`delayDaemon.c:230`); a bad block
number is noticed after the mutex is taken (`deviceSupportDMA.c:320`); the sector
number is compared with `>` (`deviceSupportDMA.c:78`); `sortedSeq` skips the
character behind a number (`:149`); SYS18 without a descriptor, which is to
release the list's semaphore (`delayDaemon.c:286`), cannot happen, there being
one for each process.

## Proofs

TLAPS proves what follows for every value of the constants.

| theorem | module | what it says |
|---|---|---|
| `TypeCorrect`, `NeverIdleWithWork`, `SemAddCorrect`, `NoPcbLost` | `NucleusProofs` | `TypeOK`, `WorkConserving`, `SemAddAgrees`, `PcbPartition` |
| `FifoCorrect` | `NucleusProofs` | `Fifo`, of every step |
| `UserSemCorrect` (assumes `NearSem = {}`) | `NucleusProofs` | `UserSemCounts` |
| `SoftSemCorrect`, `WaiterCorrect` | `NucleusProofs` | `SoftSemOwed`, `WaiterServed` |
| `TreeCorrect`, `HaltCorrect`, `PanicCorrect` | `NucleusProofs` | `TreeSound`, `HaltsWhenDone`, `NoFalsePanic` |
| `ServiceImplemented` (assumes `NearSem = {}`) | `NucleusProofs` | `ImplementsService` |
| `TablesCorrect`, `PagerTypeCorrect` | `PagerProofs` | `TablesAgree` and the types of `Pager` |
| `FramesExact`, `PagingInvisible` | `PagerProofs` | what the frames hold; `ImplementsMemory` |
| `PoolNeverLost` (assumes no flash errors) | `PagerProofs` | nobody ends with the swap pool |
| `NoDeadlock`, `ExclusiveHolds` (assume that flash calls go to units that back no process) | `SupportLevelProofs` | `NoCircularWait`; mutual exclusion, also when processes die |
| `TakenIsReleased`, `HeldByOneHolds` (likewise) | `SupportLevelProofs` | every taken mutex is on its way back, or was left by a process that ended in a block call or a fault; `HeldByOne` |
| `DevicesSafe`, `BlocksAtomic` | `DeviceCallsProofs` | `DeviceSafe`; `ImplementsBlockStore` |
| `AtSeek`, `ExclusiveOnDeathHolds` | `DeviceCallsProofs` | `TransferAtSeek`, `ExclusiveOnDeath` of `DeviceCalls` |
| `ChargesTrue`, `ReadingsTrue` | `KernelPartsProofs` | `ChargedRight`; `ReadingsAgree`, of every step |
| `ExceptionsDue`, `Restarted` | `KernelPartsProofs` | `Due`, `Restarts` |
| `LineIsRead`, `StopsSay` | `CallsProofs` | `LineRead`, `PrinterStops` |
| `ListCorrect` | `ServicesProofs` | the delay list is sorted and complete, descriptors suffice |
| `NobodyEarly`, `SleepersKnown` (assume `NoWrap`) | `ServicesProofs` | nobody is woken early; `SleepersListed` |
| `OneAlarmEach` (assumes `NoWrap`) | `ServicesProofs` | `ImplementsAlarms` |
| `DeathsExclude` | `ServicesProofs` | `ExclusiveOnDeath` of `services` |
| `TestOutlivesAll`, `PoolSuffices`, `TestLast` | `ServicesProofs` | the parts of `TestIsLast`, and the whole, for any number of processes and any limit |
| `CoreInvariant`, `PagerInvariant`, `TimeInvariant`, `EntryInvariant`, `CharInvariant`, `DelayInvariant`, `PoolInvariant` | | the inductive invariants |

They are the eleven properties of `safety`, that of `service`, both of `pager`,
both invariants of `level`, all four of `calls`, all of `kernel_parts` but the
two on pointers, and all of `services` but `SleeperWakes`.

### Nucleus

For every finite pool and set of semaphores and any number of devices, under
`ConstantsAssumption` (the sets are finite and disjoint where they must be, and
there are at least as many descriptors as PCBs).

The argument. None of the properties is inductive alone. `PcbPartition` needs
to know that `semAdd` of a process outside the queues is NULL, or the next
termination would look for it in a queue it is not in; `SemAddAgrees` needs
that a process in the ready queue is in no other. `Core` is the conjunction that
is inductive: types, `WorkConserving` (the handlers test `currProc` instead of
`cpu`), `Queues` (no process twice in a queue, `currProc` in none),
`SemAddAgrees`, and `Places` (free and runnable processes have no `p_semAdd`,
all others have). From it `DescriptorLeft` shows that `insertBlocked` cannot
fail when called: each descriptor in use has a head, these are different
processes, and none of them is the caller. `CoreStep` has one lemma per action.

`QueueMoves` then reduces a step, seen from one semaphore, to one of five moves
(nothing, down, up, waiters killed, clock reset); the theorems on values are
arithmetic on those (`UserSemCorrect` for `NearSem = {}`). `WaiterCorrect` needs
besides what a step does to the device behind a semaphore (`DeviceMoves`).
`Honest` adds the tree and the counters: a subtree is live and closed under children (`SubtreeLive`, `SubtreeClosed`), so a termination
lowers `procCnt` by what it frees; `SoftAfterP` and `SoftAfterWake` bound what
a step adds to the processes blocked on hardware; `SwitchHonest` concludes for
the scheduler.

`FifoCorrect` is one lemma per way a queue can change (one leaves at the head,
one joins at the tail, the killed leave in the middle, the clock's queue is
emptied into the ready queue); each keeps the order of those that stay.

`ServiceImplemented` needs three facts about every state beside `Honest`:
`UserSemCounts`, by which a value and its waiters together are the units a
program can take without waiting (`UnitsHeld`); `Owed`, a semaphore with a queue is
negative at least by its length; and `WaitCounted`, the processor waits only with
`softBlockCnt` above 0, so that a clock interrupt that wakes nobody goes back to
waiting. A handler is then one step of `ProcessService`: a P that blocks moves the
caller from `runnable` to a queue, a V that finds a waiter hands over, a
termination leaves every `val` as it was, an interrupt wakes one of `asleep` or, if
its process is dead, nobody.

`QueueLemmas` has the facts about sequences. `Without` is defined by rank
instead of recursion so that it can be reasoned about; `WithoutQ` and
`WithoutLen` say what it keeps and how many it drops.

### Pager

Under `PagerAssumption`: the sets of pages and frames are not empty, and the
names are different. `IInv` adds three things to the tables that agree.
`PoolLock`: who waits for `semaphore_swapPool` is at the start of its fault, a
unit that is left means that nobody is inside, and at most one process is. It is
what a P and a V by one process leaves true of the others (`PoolTaken`,
`PoolGiven`), also if the process inside has died there. `VictimUnused`: no page
is valid in a frame that is being emptied or filled, so the copy in
the frame is the last, and a page may be entered in it. `VictimOccupied`: only an
occupied frame is written out. `TablesStep` has one lemma for each step that
writes a table.

`PagingInvisible` adds three more (`MInv`). `Wanted`: a process at work on a
fault wants a page that is still not valid; nobody else makes it so. `Filled`: a
frame that has been read in holds what the backing store holds, until it is
entered. `Listed`: until a flash operation fails, the swap pool lists no page of
a live process that is not in its frame. With these the contents of a page have
one place at a time, and each step that moves the place moves the contents
along: taking the page away (`PickFrame`), the end of the write, `Install`. Every
other step is a load, a store or nothing to the process, an address outside its
pages (`Stray`) included. The refinement ends with the first flash operation that
fails; `PoolNeverLost` says that nobody else ends with the pool in his hands.

### Support level

`SupportLevel` reduces a handler to a sequence of steps, and so does the proof:
what is left of a handler is `Good`, a handler is good when it starts, and the
tail of a good sequence is good. `Good` has two parts beside the order of the
steps of an end. `Sound`: the mutexes are of three levels, those a call takes,
the swap pool, and the flash devices of the pager; while one is to be released
nothing of the same or a lower level is taken, no page fault begins above the
first level, and no process makes SYS2. `Tidy`: what is taken is released behind,
and where a process may end in the middle (a bad address or block, a failed
transfer of the pager) it has only mutexes that are its own, which `get_nuked`
looks at, or `Losable`: a block device that is called, or the swap pool.

- `NoDeadlock` follows from `Sound`: in a circle of waits every process would
  have a mutex of a level below the one it waits for. A process that has ended with
  a mutex waits for nothing.
- `ExclusiveHolds` is the lock argument: a value of 1 means that nobody has the
  mutex, what somebody has left nobody has (`OneHolder`), and the dead have none
  (`DeadOwnNothing`). It leaves out the mutexes in `freed`, which `get_nuked` has
  V'd behind the back of whoever had them.
- `HeldByOneHolds` and `TakenIsReleased` need in addition that a taken mutex has
  a holder who lives, or is in `left` (`Handed`), for the printer and terminal of a
  process that it is this one, or that it will come to it in `get_nuked`
  (`Settled`), and the counts of the master and the private semaphores (`Counts`,
  `Queues`). Of what is left only the `Losable` stay so: the list of the delay
  daemon, printers and terminals always come back.

The one hypothesis, also of the configuration `Level`, is `Units \cap UProc = {}`:
no program calls a flash device that is the backing store of a process. SYS16
would take such a mutex outside the swap pool and the pager takes it inside, and
they do block each other (finding `FlashReleased`). Traps in copies, bad flash
blocks and failures of the pager are in the model and the theorems; that what is
left then may be waited for for ever is `EndsRelease` and the run `level_never`.

### Disk and flash calls

Under `DeviceAssumption` (types and names of the constants) alone. A mutex can be
had in three ways: by the caller of the device from its P to its V, the page faults
of its copies included, and for good if it ends there; by the pager that uses a
flash device; by the pager in the swap pool. `One` says that at most one process
has it, in one way, and nobody if it reads 1. `Did` is what a step can do to the
mutexes (nothing, one P, one V), and one lemma shows of any such step that `One`
stays true. `Base` is `One` with the types, the order of the steps (`Asked`) and the
queues (`Line`).

`get_nuked` makes a V on a mutex that its process may not have, so `One` speaks
of the `Guarded` mutexes, those that are not `Lost`: no process has ended that has
the number of the device and was not in a call on it. What is lost stays lost
(`GuardedShrinks`), a V on a guarded mutex is by one who has it, also in
`get_nuked` (`NukeVBase`), and a V on one that is lost concerns `One` no more.
Without that it is false: three processes on a device with the number of one of
them are enough for a death to let a second one in (finding `Exclusive`).
`DevicesSafe` is the types, `One` for the guarded mutexes, and `AtSeek` together.
`DeathsExclude` cites it, through an instance of `DeviceCallsProofs`, for the flash
device of `services`.

`Work` says that what a call has prepared is as it left it: the command in the
register, the arm where the SEEK put it, the buffer what the page was.
`AtSeek` is a part of it. For `BlocksAtomic` a block and its place determine each
other (`PositionOnce`, from the uniqueness of quotient and remainder), a
transfer names a place that exists if the SEEK has succeeded (`PositionAims`; for
the block behind the last it never does),
and a step of one process changes nothing of what is known of the calls of the
others (`Unseen`): their buffers are theirs by `One`. At a device that is lost a
step may change the blocks and results of that device, which `Clash` allows
(`ClashStep`), and nothing of the others.

### Delay daemon

Under `SleepersAssumption`: the clock has the width of an int, the processes are
finitely many, and there is a descriptor for each, as `MAXUPROCS` gives the code
both. `IInv` is what SYS18 and the daemon rely on without saying so. `ListLock`: one
at a time is past the P on the list, whoever waits for it is at the start of its
stretch, and nobody waits for a list that is free. `Private`: at a private
semaphore only its process waits, when it has given back the list. `Listed`: the
processes in the list are exactly those about to sleep or asleep that the daemon
has not woken, each once; between the V of the daemon and the removal the head is
one more. `Sorted` and `Descriptors` (free and used ones add up). From `Listed`
follows `DescriptorLeft`: the caller has no descriptor, so one is left. Therefore
the branch that ends the process with the list locked is dead code
(`ListCorrect`), which needs no assumption about the clock.

The rest does. `NoWrap` says that the clock stays below 2^31 of its units, so that
`Int32` is the identity on it; beyond, a sleeper is woken at once (a hazard).
`Times`: each descriptor has the time its process asked for (`Stamped`), what the
daemon has read of the clock is not ahead of it (`Behind`), and a process woken was
due (`Ripe`). `OneAlarmEach` maps a process's deadline to the
`due` of its descriptor while it is asleep; the insertion sets one alarm and
changes no other (`AlarmSleep`), the V of the daemon clears one that is due
(`AlarmWake`), and every other step is a tick or nothing.

### CPU time

Under `CpuTimeAssumption`: finitely many processes. `TimeInv` has `Placed` (in the
modes of a process there is one, in the others none; the ready queue holds each
ready process at most once; `io` has an owner who waits), `Fresh` (a free PCB has
no ticks, no readings), `ChargedForTurns`, `Readings` (what a process was told is
no more than it would be told now) and `NoMoreThanReal`. No sum over processes is
needed for the last: the ticks charged are numbered, `ChargedTicks` is the set of
these pairs, and a step of the clock adds at most one, since one process at most
is current. Each step is then one of two kinds: it takes no time and changes the
charge of nobody alive (`AccountsKept`), whether it moves time from the running turn
to `p_time` or hands a PCB on, or it is a tick.

### Exceptions

Under `DispatchAssumption`. `EntryInv` says at each station what is known of the
state that goes on: in the nucleus it is the one raised; in the copies passed up
it is that too, but for the program counter of a system call, which the nucleus
advances before it passes the call up. It also says which codes and numbers can be
there at all, the early returns of the handlers before being what has sorted out
the others. With it each handler has to be looked at once, and `Due` is a matter
of cases. `LowestLine` shows that the scan of the lines finds the least.

### Printer and terminal

Under `CharAssumption`, with `Length` any set of integers, and errors and junk
as the constants have them. `CharInv`: one mutex at most is taken, and only in the
stretch of its call (`Mutexes`); a loop over a string counts the characters
it has passed to the device, or it has left with a negative count, or with 0 if there is no printer
and nothing was sent (`Printing`); a loop over a line has put into the buffer
what was typed, until the newline, and once a character has come its status is
one that SYS5 has set (`Reading`). `LineIsRead` has `LocksReleased` in it, for a
process that traps in the middle as well. `StopsSay` says no more than that: that
a call that stops returns a *negative* status is refuted (`StopIsNegative`).

### Lifecycle

Under `LifecycleAssumption`: the array of the pool has an entry for each process.
Nothing is assumed of the limit. `Waits` ties the master semaphore to the signals
sent and to where `test` is, `Launches` says how far the launch is. `Enough` says
that the index of the pool is never lower than if nobody had returned a
structure: what `deallocate` writes back is more than what it read, and since
`test` is the only one that allocates, an index read before is no lower than what
the processes not yet launched need. So the check of `allocate` never fails.

The rest of the pool is sound only while nobody ends during the launch, and
`PoolKept` says so (`early`). Then (`Calm`) the launch takes the structures one
after the other, and behind it each increment of the index that anybody sees
belongs to a process that has made one, so that an index read before a store is
below the number of processes, whichever load it comes from; the check of
`deallocate` has no part in it. If a process does end during the launch, a lost
update makes two processes share a structure, a store goes behind the array, or
`allocate` finds an empty entry (`Life_refuted`). `TestLast` is `PoolInv`, lifted
to the behaviours of the run.

### Only model-checked

- Liveness under fairness (`ReadyRuns`, `ClockWakes`, `DeviceWakes`, `SleeperWakes`,
  `Finishes`, `Halts`, `AllEnd`), since the provers have no rules for ENABLED.
- `ListsSound` and `ImplementsLists` of `kernel_parts`, and the test programs
  (`TestPasses`, `TestsPass`, `ResultsTrue`): `KernelLists` and `SortedSeq` compute by
  recursion over data, walking pointers or digits, which the provers cannot do
  induction on, and the programs are what they are, with no parameter to prove
  them for.
- `NucleusCalls` has no theorems: what it has beyond `Nucleus` is what `P2Test`
  observes.

## Not modelled

- *Copies*. A phase is mapped where its code is new; the same statements in the
  other phases' directories are not modelled again.
- *Memory layout*: stacks (the daemon's among them), frames of the kernel, the
  initial registers of processes, the TLB's size and random index.
- *The machine*: boot ROM, bus and emulator; a device is what its driver can see.
- *Wording* of messages, and the terminal output helpers of `p1test.c`.
- *`timeOfDay`*, which compares a busy loop with the clock, and *`asciiArt`*,
  which writes one long text.
- *The clock near its limit* beyond what `Start` and `Width` of `DelayDaemon`
  can set; no run starts there, since a sleeper then wakes at once.

## Plan

Done: every component of phase 5, the test programs, and the proofs above. What
is left, in the order of its worth:

1. The pointers of `pcb.c` for any number of PCBs. `ListsSound` would have to be
   restated without walking: a queue as a function from places to PCBs that the
   links agree with, which is then a variable of history.
2. Three processes in `SupportLevel` for TLC, which needs a coarser step between
   calls; what it would check of safety is proved.
3. `Dispatch` and `CpuTime` as parts of one machine with `NucleusCalls`, so that a
   nested interrupt is charged where it is served.
