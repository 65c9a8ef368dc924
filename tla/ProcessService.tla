--------------------------- MODULE ProcessService ---------------------------
(***************************************************************************)
(* What the nucleus promises to programs, with no PCBs, no ready queue and *)
(* no counters: a process is runnable, asleep until a device or the clock  *)
(* wakes it, or in the queue of a counting semaphore whose value is never  *)
(* negative.  A V hands its unit to the process that has waited longest;   *)
(* a process that dies while it waits takes no unit with it.               *)
(***************************************************************************)
EXTENDS ProcQueues

CONSTANTS Proc, Sem

VARIABLES
  runnable,   \* set of processes
  asleep,     \* set of processes
  queue,      \* per semaphore, the waiting processes
  val,        \* per semaphore, the units nobody has taken
  stopped     \* the machine has stopped

serviceVars == <<runnable, asleep, queue, val, stopped>>

Queued == UNION {ToSet(queue[s]) : s \in Sem}
Alive == runnable \cup asleep \cup Queued

Init ==
  /\ \E p \in Proc : runnable = {p}
  /\ asleep = {}
  /\ queue = [s \in Sem |-> <<>>]
  /\ val \in [Sem -> Nat]
  /\ stopped = FALSE

\* The machine may stop only when nobody can run, now or later.
MayStop == stopped' \in BOOLEAN /\ (stopped' => runnable' = {} /\ asleep' = {})

Fork(p) ==
  /\ p \notin Alive
  /\ runnable' = runnable \cup {p}
  /\ UNCHANGED <<asleep, queue, val>>

Take(s) ==
  /\ val[s] > 0
  /\ val' = [val EXCEPT ![s] = @ - 1]
  /\ UNCHANGED <<runnable, asleep, queue>>

Wait(s, p) ==
  /\ val[s] = 0
  /\ p \in runnable
  /\ runnable' = runnable \ {p}
  /\ queue' = [queue EXCEPT ![s] = Append(@, p)]
  /\ UNCHANGED <<asleep, val>>

Give(s) ==
  /\ queue[s] = <<>>
  /\ val' = [val EXCEPT ![s] = @ + 1]
  /\ UNCHANGED <<runnable, asleep, queue>>

Hand(s) ==
  /\ queue[s] # <<>>
  /\ runnable' = runnable \cup {Head(queue[s])}
  /\ queue' = [queue EXCEPT ![s] = Tail(@)]
  /\ UNCHANGED <<asleep, val>>

Sleep(p) ==
  /\ p \in runnable
  /\ runnable' = runnable \ {p}
  /\ asleep' = asleep \cup {p}
  /\ UNCHANGED <<queue, val>>

WakeUp(S) ==
  /\ S # {}
  /\ asleep' = asleep \ S
  /\ runnable' = runnable \cup S
  /\ UNCHANGED <<queue, val>>

Exit(D) ==
  /\ D \cap runnable # {}
  /\ runnable' = runnable \ D
  /\ asleep' = asleep \ D
  /\ queue' = [s \in Sem |-> Without(queue[s], D)]
  /\ UNCHANGED val

Next ==
  /\ ~stopped
  /\ runnable \cup asleep # {}
  /\ \/ \E p \in Proc : Fork(p) \/ Sleep(p)
     \/ \E s \in Sem : Take(s) \/ Give(s) \/ Hand(s)
     \/ \E s \in Sem, p \in Proc : Wait(s, p)
     \/ \E S \in SUBSET asleep : WakeUp(S)
     \/ \E D \in SUBSET Alive : Exit(D)
  /\ MayStop

Spec == Init /\ [][Next]_serviceVars
=============================================================================
