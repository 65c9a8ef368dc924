---------------------------- MODULE NucleusCalls ----------------------------
(***************************************************************************)
(* The nucleus of phase 2 as its test program drives it: a PCB pool, the   *)
(* process tree, round robin, semaphores, one terminal, the pseudo-clock,  *)
(* and exceptions passed up or answered by death (phase2/exceptions.c,     *)
(* scheduler.c, interrupts.c).  The caller of every operation is cur; k is *)
(* the place in its program where it goes on.                              *)
(***************************************************************************)
EXTENDS Semaphores, FiniteSets, FiniteSetsExt

CONSTANTS
  MaxProc,    \* MAXPROC
  MaxSlices   \* bound: how often the end of a slice takes the processor away

ASSUME CallsAssumption == MaxProc \in Nat \ {0} /\ MaxSlices \in Nat

VARIABLES
  cur,        \* currProc, 0 for NULL
  ready,      \* ReadyQueue
  parent,     \* of the PCBs in use, 0 for none
  sem,        \* semaphores of the program, of the terminal and the clock
  busy,       \* the terminal has a command
  at,         \* where each process is: a label and an index
  v0,         \* the result register of each process
  support,    \* PCBs with a support structure
  saved,      \* the exception state in that structure: code, at, user
  user,       \* PCBs in user mode
  called,     \* cur has done something in its slice
  behind,     \* who must run before the clock ticks
  stopped,    \* no, halt or panic
  slices      \* slices that have ended so far, up to MaxSlices

state == <<cur, ready, parent, sem, busy, at, v0, support, saved, user, called,
           behind, stopped>>
vars == <<state, slices>>

Pcb == 1..MaxProc
Device == {"Terminal0", "Clock"}
Alive == DOMAIN parent
NoState == [code |-> 0, at |-> <<"none", 0>>, user |-> FALSE]

\* value gives the program's semaphores their initial values.
InitCalls(start, value) ==
  /\ cur = 1 /\ ready = <<>>
  /\ parent = [p \in {1} |-> 0]
  /\ sem = [s \in DOMAIN value \cup Device |-> Sema4(IF s \in Device THEN 0 ELSE value[s])]
  /\ busy = FALSE
  /\ at = [p \in {1} |-> start] /\ v0 = [p \in {1} |-> "none"]
  /\ support = {} /\ saved = NoState /\ user = {}
  /\ called = FALSE /\ behind = {} /\ stopped = "no"
  /\ slices = 0

\* switchProcess, when c is 0, with the ready queue r; late are those in r who
\* will run before the next tick.
Schedule(c, r, late) ==
  /\ cur' = IF c = 0 /\ r # <<>> THEN Head(r) ELSE c
  /\ ready' = IF c = 0 /\ r # <<>> THEN Tail(r) ELSE r
  /\ behind' = (behind \cup late) \cap ToSet(ready')
  /\ stopped' = IF cur' # 0 THEN "no"
                ELSE IF Alive' = {} THEN "halt"
                ELSE IF \E d \in Device : sem'[d].queue # <<>> THEN "no" ELSE "panic"

GoOn(k) == at' = [at EXCEPT ![cur] = k]
Woken(s) == IF sem[s].val < 0 /\ sem[s].queue # <<>> THEN <<Head(sem[s].queue)>> ELSE <<>>

-----------------------------------------------------------------------------
(* System calls                                                            *)

\* SYS1.  The result goes to currProc->p_s, which nobody loads.
createProcess(label, supported, k) ==
  /\ UNCHANGED <<sem, busy, saved>>
  /\ IF Alive = Pcb
     THEN UNCHANGED <<parent, support, v0, user>> /\ GoOn(k) /\ Schedule(cur, ready, {})
     ELSE LET p == Min(Pcb \ Alive) IN
          /\ parent' = [q \in Alive \cup {p} |-> IF q = p THEN cur ELSE parent[q]]
          /\ v0' = [q \in Alive \cup {p} |-> IF q = p THEN "none" ELSE v0[q]]
          /\ at' = [q \in Alive \cup {p} |->
                      IF q = p THEN <<label, 1>> ELSE IF q = cur THEN k ELSE at[q]]
          /\ support' = IF supported THEN support \cup {p} ELSE support \ {p}
          /\ user' = user \ {p}
          /\ Schedule(cur, Append(ready, p), {})

\* Mutant: a process dies alone.
Subtree_Alone(p) == {p}

Subtree(p) ==
  LET below[q \in Alive] == q = p \/ (parent[q] \in Alive /\ below[parent[q]])
  IN {q \in Alive : below[q]}

\* Mutant: the semaphores keep the values the dead have left.
Unwaited_Lost(D) ==
  [s \in DOMAIN sem |-> [val |-> sem[s].val,
                         queue |-> SelectSeq(sem[s].queue, LAMBDA p : p \notin D)]]

\* The semaphores when D has left their queues; a device's keeps its value.
Unwaited(D) ==
  [s \in DOMAIN sem |->
     [val |-> sem[s].val + IF s \in Device THEN 0
                           ELSE Cardinality(D \cap ToSet(sem[s].queue)),
      queue |-> SelectSeq(sem[s].queue, LAMBDA p : p \notin D)]]

\* Mutant: only the process that makes SYS2 gives its PCB back.
Freed_First(D) == {cur}

Freed(D) == D

\* SYS2
terminateProcess ==
  LET D == Subtree(cur)
      Kept(f) == [p \in Alive \ Freed(D) |-> f[p]] IN
  /\ parent' = Kept(parent) /\ at' = Kept(at) /\ v0' = Kept(v0)
  /\ sem' = Unwaited(D)
  /\ support' = support \ D /\ user' = user \ D
  /\ UNCHANGED <<busy, saved>>
  /\ Schedule(0, SelectSeq(ready, LAMBDA p : p \notin D), {})

\* currProc becomes NULL when its call blocks it.
blockCurrProc(blocks, late) == Schedule(IF blocks THEN 0 ELSE cur, ready, late)

\* SYS3
P(s, late, k) ==
  /\ sem' = passeren(sem, s, cur)
  /\ GoOn(k)
  /\ UNCHANGED <<parent, busy, v0, support, saved, user>>
  /\ blockCurrProc(Blocked(sem', cur), late)

\* SYS4
V(s, k) ==
  /\ sem' = verhogen(sem, s)
  /\ GoOn(k)
  /\ UNCHANGED <<parent, busy, v0, support, saved, user>>
  /\ Schedule(cur, ready \o Woken(s), {})

\* A process writes the command of the terminal itself, and then makes SYS5.
WriteTerminal(k) ==
  /\ busy' = TRUE
  /\ GoOn(k)
  /\ UNCHANGED <<parent, sem, v0, support, saved, user>>
  /\ Schedule(cur, ready, {})

waitForIO(k) == P("Terminal0", {}, k)
waitForClock(late, k) == P("Clock", late, k)

\* SYS8
getSupportData(k) ==
  /\ v0' = [v0 EXCEPT ![cur] = IF cur \in support THEN "support" ELSE "NULL"]
  /\ GoOn(k)
  /\ UNCHANGED <<parent, sem, busy, support, saved, user>>
  /\ Schedule(cur, ready, {})

\* Mutant: the handler runs in the mode of the process.
exceptionPassUpHandler_KeepsMode(code, handler, k) ==
  IF cur \in support
  THEN /\ saved' = [code |-> code, at |-> k, user |-> cur \in user]
       /\ GoOn(handler)
       /\ UNCHANGED <<parent, sem, busy, v0, support, user>>
       /\ Schedule(cur, ready, {})
  ELSE terminateProcess

\* Pass up or die; handler is the context of the support structure.
exceptionPassUpHandler(code, handler, k) ==
  IF cur \in support
  THEN /\ saved' = [code |-> code, at |-> k, user |-> cur \in user]
       /\ user' = user \ {cur}
       /\ GoOn(handler)
       /\ UNCHANGED <<parent, sem, busy, v0, support>>
       /\ Schedule(cur, ready, {})
  ELSE terminateProcess

\* LDST of a saved state by a handler of the program.
LoadState(k, u) ==
  /\ user' = IF u THEN user \cup {cur} ELSE user \ {cur}
  /\ GoOn(k)
  /\ UNCHANGED <<parent, sem, busy, v0, support, saved>>
  /\ Schedule(cur, ready, {})

-----------------------------------------------------------------------------
(* Interrupts                                                              *)

\* The slice of 5 ms is long enough for one call at least.
pltInterrupt ==
  /\ stopped = "no" /\ called /\ ready # <<>>
  /\ slices < MaxSlices /\ slices' = slices + 1 /\ called' = FALSE
  /\ UNCHANGED <<parent, sem, busy, at, v0, support, saved, user>>
  /\ Schedule(0, Append(ready, cur), {})

terminalInterrupt ==
  /\ stopped = "no" /\ busy /\ UNCHANGED <<called, slices>>
  /\ busy' = FALSE
  /\ sem' = verhogen(sem, "Terminal0")
  /\ v0' = [p \in Alive |-> IF p \in ToSet(Woken("Terminal0")) THEN "status" ELSE v0[p]]
  /\ UNCHANGED <<parent, at, support, saved, user>>
  /\ Schedule(cur, ready \o Woken("Terminal0"), {})

intervalInterrupt ==
  /\ stopped = "no" /\ sem["Clock"].queue # <<>> /\ behind = {}
  /\ UNCHANGED <<called, slices>>
  /\ sem' = [sem EXCEPT !["Clock"] = Sema4(0)]
  /\ UNCHANGED <<parent, busy, at, v0, support, saved, user>>
  /\ Schedule(cur, ready \o sem["Clock"].queue, {})
=============================================================================
