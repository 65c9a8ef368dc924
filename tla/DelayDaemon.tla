----------------------------- MODULE DelayDaemon -----------------------------
(***************************************************************************)
(* SYS18 and the delay daemon (delayDaemon.c): the active delay list (ADL) *)
(* sorted by wake-up time, its mutex, the private semaphore each sleeper   *)
(* waits on, and the daemon that scans the list at every tick of the       *)
(* pseudo-clock.                                                           *)
(***************************************************************************)
EXTENDS Semaphores, FiniteSets

CONSTANTS
  Proc,       \* user processes; p also names its privateSema4
  Daemon,
  Adl,        \* the mutex delayDaemon_sema4
  NumDesc,    \* descriptors, without the two dummies (MAXUPROCS)
  Seconds,    \* the delays programs ask for
  Second,     \* ticks per second
  Width,      \* bits of cpu_t and int
  Start,      \* the clock when the system is up
  Horizon     \* bound on the ticks that are told apart

\* What the constants must be; the modules of the runs assume it.
DelayAssumption ==
  /\ Daemon \notin Proc /\ Adl \notin Proc
  /\ NumDesc \in Nat /\ Seconds \subseteq Int /\ Second \in Nat \ {0}
  /\ Width \in Nat \ {0} /\ Start \in Int /\ Horizon \in Nat

VARIABLES
  ticks,     \* real time since the start
  pc,
  secs,      \* the argument of SYS18
  adl,       \* the descriptors between the two dummies
  free,      \* how many are in the free list
  sem,       \* delayDaemon_sema4 and the private semaphores
  now        \* curr_time of the daemon

vars == <<ticks, pc, secs, adl, free, sem, now>>

Int32(x) == ((x + 2^(Width-1)) % 2^Width) - 2^(Width-1)
STCK == Int32(Start + ticks)

TypeOK ==
  /\ ticks \in 0..Horizon
  /\ pc \in [Proc \cup {Daemon} -> {"user", "lock", "insert", "sleep", "asleep",
                                    "dead", "clock", "tick", "scan", "wake",
                                    "drop", "unlock"}]
  /\ secs \in [Proc -> Seconds \cup {0}]
  /\ adl \in Seq([wake : Int, due : Int, proc : Proc])
  /\ free \in 0..NumDesc
  /\ sem \in Semaphores({Adl} \cup Proc, Proc \cup {Daemon})
  /\ now \in Int

At(p, l) == pc[p] = l /\ ~Blocked(sem, p)
Goto(p, l) == pc' = [pc EXCEPT ![p] = l]

\* The free list by its length: which descriptor is which does not matter.
initFreeList == free = NumDesc
alloc_descriptor == free > 0 /\ free' = free - 1
free_descriptor == free' = free + 1

\* initADL, and the private semaphores as summon_process leaves them.
Init ==
  /\ ticks = 0
  /\ pc = [p \in Proc \cup {Daemon} |-> IF p = Daemon THEN "clock" ELSE "user"]
  /\ secs = [p \in Proc |-> 0]
  /\ adl = <<>>
  /\ initFreeList
  /\ sem = [s \in {Adl} \cup Proc |-> Sema4(IF s = Adl THEN 1 ELSE 0)]
  /\ now = 0

-----------------------------------------------------------------------------
(* SYS18                                                                   *)

\* A delay of 0 returns at once and a negative one ends the process.  Delays
\* that would be over after Horizon are left out.
SYS18(p, n) ==
  /\ At(p, "user")
  /\ n > 0 => ticks + n * Second <= Horizon
  /\ Goto(p, IF n > 0 THEN "lock" ELSE IF n = 0 THEN "user" ELSE "dead")
  /\ secs' = [secs EXCEPT ![p] = IF n > 0 THEN n ELSE 0]
  /\ UNCHANGED <<ticks, adl, free, sem, now>>

P(p, from, s, to) ==
  /\ At(p, from)
  /\ sem' = passeren(sem, s, p)
  /\ Goto(p, to)
  /\ UNCHANGED <<ticks, secs, adl, free, now>>

\* How many descriptors the new one goes behind.
find_insert_position(w) ==
  Cardinality({i \in DOMAIN adl : \A j \in 1..i : adl[j].wake <= w})

\* Mutant: the delay is added to the clock in ticks, not in seconds.
wakeTime_Unscaled(p) == Int32(STCK + secs[p])

wakeTime(p) == Int32(STCK + Int32(secs[p] * Second))

insertADL(p) ==
  /\ At(p, "insert") /\ alloc_descriptor
  /\ adl' = InsertAt(adl, find_insert_position(wakeTime(p)) + 1,
                     [wake |-> wakeTime(p), due |-> ticks + secs[p] * Second,
                      proc |-> p])
  /\ Goto(p, "sleep")
  /\ UNCHANGED <<ticks, secs, sem, now>>

\* No descriptor: the process ends where it stands.
NoDescriptor(p) ==
  /\ At(p, "insert") /\ free = 0
  /\ Goto(p, "dead")
  /\ UNCHANGED <<ticks, secs, adl, free, sem, now>>

\* Mutant: the process goes to sleep with the list locked.
FallAsleep_KeepsLock(p) ==
  /\ At(p, "sleep")
  /\ sem' = passeren(sem, p, p)
  /\ Goto(p, "asleep")
  /\ UNCHANGED <<ticks, secs, adl, free, now>>

\* SYS4 on the list and SYS3 on the private semaphore, interrupts off.
FallAsleep(p) ==
  /\ At(p, "sleep")
  /\ sem' = passeren(verhogen(sem, Adl), p, p)
  /\ Goto(p, "asleep")
  /\ UNCHANGED <<ticks, secs, adl, free, now>>

Awake(p) ==
  /\ At(p, "asleep")
  /\ Goto(p, "user")
  /\ secs' = [secs EXCEPT ![p] = 0]
  /\ UNCHANGED <<ticks, adl, free, sem, now>>

Exit(p) ==
  /\ At(p, "user")
  /\ Goto(p, "dead")
  /\ UNCHANGED <<ticks, secs, adl, free, sem, now>>

-----------------------------------------------------------------------------
(* The daemon and the clock                                                *)

\* The interval timer: everyone who waits for the clock goes on.  Close to the
\* Horizon the clock waits for those on their way to insertADL.
Tick ==
  /\ ticks' = IF /\ ticks < Horizon
                 /\ \A p \in Proc : pc[p] \in {"lock", "insert"} =>
                      ticks + secs[p] * Second < Horizon
              THEN ticks + 1 ELSE ticks
  /\ pc' = [pc EXCEPT ![Daemon] = IF @ = "clock" THEN "tick" ELSE @]
  /\ UNCHANGED <<secs, adl, free, sem, now>>

ReadClock ==
  /\ At(Daemon, "scan")
  /\ now' = STCK
  /\ Goto(Daemon, "wake")
  /\ UNCHANGED <<ticks, secs, adl, free, sem>>

FirstDue == adl # <<>> /\ Head(adl).wake <= now

\* The head of the loop: SYS4 for the first descriptor if its time has come,
\* else the list is released.
WakeFirst ==
  /\ At(Daemon, "wake")
  /\ \/ /\ FirstDue
        /\ sem' = verhogen(sem, Head(adl).proc)
        /\ Goto(Daemon, "drop")
     \/ /\ ~FirstDue
        /\ sem' = verhogen(sem, Adl)
        /\ Goto(Daemon, "clock")
  /\ UNCHANGED <<ticks, secs, adl, free, now>>

\* Mutant: the descriptor is not returned to the free list.
DropFirst_Leaks ==
  /\ At(Daemon, "drop")
  /\ adl' = Tail(adl)
  /\ Goto(Daemon, "wake")
  /\ UNCHANGED <<ticks, secs, free, sem, now>>

DropFirst ==
  /\ At(Daemon, "drop")
  /\ adl' = Tail(adl)
  /\ free_descriptor
  /\ Goto(Daemon, "wake")
  /\ UNCHANGED <<ticks, secs, sem, now>>

delayDaemon ==
  P(Daemon, "tick", Adl, "scan") \/ ReadClock \/ WakeFirst \/ DropFirst

sys18Handler(p) ==
  \/ P(p, "lock", Adl, "insert") \/ insertADL(p) \/ NoDescriptor(p)
  \/ FallAsleep(p) \/ Awake(p)

Next ==
  \/ Tick \/ delayDaemon
  \/ \E p \in Proc :
       sys18Handler(p) \/ Exit(p) \/ \E n \in Seconds : SYS18(p, n)

Spec == Init /\ [][Next]_vars

\* The interval timer goes off for ever, the daemon is scheduled, and so is a
\* process on its way through sys18Handler.
Fairness ==
  /\ WF_vars(Tick) /\ WF_vars(delayDaemon)
  /\ \A p \in Proc : WF_vars(sys18Handler(p))

-----------------------------------------------------------------------------
(* Properties                                                              *)

\* The list is sorted and no process is in it twice (find_insert_position
\* relies on the first, the daemon on both).
AdlSorted ==
  \A i, j \in DOMAIN adl :
    i < j => adl[i].wake <= adl[j].wake /\ adl[i].proc # adl[j].proc

\* A process that sleeps has a descriptor, or it would sleep for ever; only
\* the daemon in the middle of its loop has woken one it still has to drop.
SleeperListed ==
  \A p \in Proc :
    LET Listed == \E i \in DOMAIN adl : adl[i].proc = p IN
    /\ (pc[p] = "asleep" /\ Blocked(sem, p)) => Listed
    /\ Listed => \/ pc[p] = "sleep"
                 \/ (pc[p] = "asleep" /\ Blocked(sem, p))
                 \/ (pc[Daemon] = "drop" /\ Head(adl).proc = p)

\* insertADL never finds the free list empty: its caller would end with the
\* list locked.
DescriptorsSuffice == \A p \in Proc : pc[p] = "insert" => Blocked(sem, p) \/ free > 0

\* Nobody is woken before its time, however late the daemon is.
NotEarly ==
  \A i \in DOMAIN adl :
    (pc[adl[i].proc] = "asleep" /\ ~Blocked(sem, adl[i].proc)) => ticks >= adl[i].due

\* The list of the delay daemon is sorted, a sleeper is in it once, with a
\* descriptor for everyone who comes, and no sleeper wakes before its time.
SleepersListed ==
  TypeOK /\ AdlSorted /\ SleeperListed /\ DescriptorsSuffice /\ NotEarly

\* Whoever sleeps wakes up.
SleeperWakes == \A p \in Proc : pc[p] = "asleep" ~> pc[p] = "user"

\* A deadline counts from insertADL to the V of the daemon.
Due(p) ==
  LET Mine == {i \in DOMAIN adl : adl[i].proc = p} IN
  IF Mine = {} \/ (pc[Daemon] = "drop" /\ 1 \in Mine) THEN 0
  ELSE adl[CHOOSE i \in Mine : TRUE].due

deadline == [p \in Proc |-> Due(p)]

AlarmService == INSTANCE Alarms
  WITH time <- ticks, Delay <- {n * Second : n \in Seconds \cap Nat}

\* One step of Alarms, or none.
AlarmStep == AlarmService!Next \/ UNCHANGED <<ticks, deadline>>

\* The list and the daemon implement one alarm per process.
ImplementsAlarms == AlarmService!Spec

=============================================================================
