------------------------------ MODULE Lifecycle ------------------------------
(***************************************************************************)
(* The instantiator process test (initProc.c): it launches the delay       *)
(* daemon and the user processes, each with a support structure of the     *)
(* pool, waits on the master semaphore once per process and terminates     *)
(* with all that is left.  A user process that ends (the tail of           *)
(* get_nuked) signals, returns its structure and makes SYS2.               *)
(***************************************************************************)
EXTENDS Integers, Sequences, FiniteSets

CONSTANTS
  MaxUProcs,     \* MAXUPROCS
  PoolSize,      \* entries of free_support_pool
  MaxSupports    \* MAX_SUPPORTS

\* What the constants must be; the modules of the runs assume it.
LifecycleAssumption ==
  /\ MaxUProcs \in Nat \ {0} /\ PoolSize \in Nat /\ PoolSize >= MaxUProcs
  /\ MaxSupports \in Nat

VARIABLES
  test,         \* where the instantiator is
  next,         \* process_id of the launch loop
  waits,        \* i of the wait loop
  daemon,       \* whether the delay daemon is there
  proc,         \* where each user process is
  struct,       \* its support structure
  reg,          \* freeSupIndex as a process has read it
  pool,         \* free_support_pool
  freeSupIndex,
  masterSema4,
  early         \* history: a process was past its signal while test was launching

vars == <<test, next, waits, daemon, proc, struct, reg, pool, freeSupIndex,
          masterSema4, early>>
supports == <<struct, reg, pool, freeSupIndex>>

UProc == 1..MaxUProcs
Struct == 1..MaxUProcs    \* support_structs_pool

TypeOK ==
  /\ test \in {"initADL", "allocate", "lower", "lowered", "index", "take",
               "wait", "waiting", "end", "dead", "panic"}
  /\ next \in 1..MaxUProcs+1 /\ waits \in 0..MaxUProcs
  /\ daemon \in BOOLEAN
  /\ proc \in [UProc -> {"none", "user", "signal", "check", "load", "raise", "store",
                         "sys2", "dead"}]
  /\ struct \in [UProc -> Struct \cup {0}]
  /\ reg \in [UProc \cup {0} -> Nat]
  /\ pool \in [0..PoolSize-1 -> Struct \cup {0}]
  /\ freeSupIndex \in Nat /\ early \in BOOLEAN
  /\ masterSema4 \in -1..MaxUProcs

initSuppPool ==
  /\ pool = [k \in 0..PoolSize-1 |-> IF k < MaxUProcs THEN k + 1 ELSE 0]
  /\ freeSupIndex = MaxUProcs

Init ==
  /\ test = "initADL" /\ next = 1 /\ waits = 0 /\ daemon = FALSE
  /\ proc = [p \in UProc |-> "none"]
  /\ struct = [p \in UProc |-> 0]
  /\ reg = [p \in UProc \cup {0} |-> 0]
  /\ initSuppPool
  /\ masterSema4 = 0 /\ early = FALSE

-----------------------------------------------------------------------------
(* test                                                                    *)

initADL ==
  /\ test = "initADL" /\ test' = "allocate"
  /\ daemon' = TRUE
  /\ UNCHANGED <<next, waits, proc, supports, masterSema4, early>>

\* A process that reads or writes the pool does so with interrupts on, and each
\* mention of freeSupIndex is a load of its own.
launching == <<next, waits, daemon, proc, pool, masterSema4, early>>

\* The check of allocate, and its decrement.
allocate ==
  \/ /\ test = "allocate" /\ next <= MaxUProcs
     /\ test' = IF freeSupIndex # 0 THEN "lower" ELSE "panic"
     /\ UNCHANGED <<launching, struct, reg, freeSupIndex>>
  \/ /\ test = "lower" /\ test' = "lowered"
     /\ reg' = [reg EXCEPT ![0] = freeSupIndex]
     /\ UNCHANGED <<launching, struct, freeSupIndex>>
  \/ /\ test = "lowered" /\ test' = "index"
     /\ freeSupIndex' = reg[0] - 1
     /\ UNCHANGED <<launching, struct, reg>>
  \/ /\ test = "index" /\ test' = "take"
     /\ reg' = [reg EXCEPT ![0] = freeSupIndex]
     /\ UNCHANGED <<launching, struct, freeSupIndex>>

\* What allocate returns: behind the pool lies what the linker has put there.
Taken(k) == IF k \in DOMAIN pool THEN {pool[k]} ELSE Struct \cup {0}

\* The entry is read; without a structure PANIC, with one SYS1.
summon_process ==
  /\ test = "take"
  /\ \E s \in Taken(reg[0]) :
       \/ /\ s = 0 /\ test' = "panic"
          /\ UNCHANGED <<struct, proc, next>>
       \/ /\ s # 0 /\ test' = "allocate"
          /\ struct' = [struct EXCEPT ![next] = s]
          /\ proc' = [proc EXCEPT ![next] = "user"]
          /\ next' = next + 1
  /\ UNCHANGED <<waits, daemon, reg, pool, freeSupIndex, masterSema4, early>>

AllLaunched ==
  /\ test = "allocate" /\ next > MaxUProcs
  /\ test' = "wait"
  /\ UNCHANGED <<next, waits, daemon, proc, supports, masterSema4, early>>

\* Mutant: one SYS3 too few.
Wait_OneLess ==
  /\ test = "wait"
  /\ IF waits < MaxUProcs - 1
     THEN /\ masterSema4' = masterSema4 - 1 /\ waits' = waits + 1
          /\ test' = IF masterSema4 > 0 THEN "wait" ELSE "waiting"
     ELSE /\ test' = "end" /\ UNCHANGED <<masterSema4, waits>>
  /\ UNCHANGED <<next, daemon, proc, supports, early>>

\* SYS3 on the master semaphore, MAXUPROCS times.
Wait ==
  /\ test = "wait"
  /\ IF waits < MaxUProcs
     THEN /\ masterSema4' = masterSema4 - 1 /\ waits' = waits + 1
          /\ test' = IF masterSema4 > 0 THEN "wait" ELSE "waiting"
     ELSE /\ test' = "end" /\ UNCHANGED <<masterSema4, waits>>
  /\ UNCHANGED <<next, daemon, proc, supports, early>>

\* SYS2 ends everything test has created: the daemon and who is not gone yet.
SYS2 ==
  /\ test = "end" /\ test' = "dead"
  /\ daemon' = FALSE
  /\ proc' = [p \in UProc |-> "dead"]
  /\ UNCHANGED <<next, waits, supports, masterSema4, early>>

-----------------------------------------------------------------------------
(* get_nuked, after the locks and the pages                                *)

Exit(p) ==
  /\ proc[p] = "user"
  /\ proc' = [proc EXCEPT ![p] = "signal"]
  /\ UNCHANGED <<test, next, waits, daemon, supports, masterSema4, early>>

Signal(p) ==
  /\ proc[p] = "signal"
  /\ masterSema4' = masterSema4 + 1
  /\ test' = IF masterSema4 < 0 THEN "wait" ELSE test
  /\ proc' = [proc EXCEPT ![p] = "check"]
  /\ early' = (early \/ next <= MaxUProcs)
  /\ UNCHANGED <<next, waits, daemon, supports>>

ending == <<test, next, waits, daemon, struct, masterSema4, early>>

\* deallocate: one load for the check; another, the index written back, and then
\* the entry, for the statement behind it.  Behind the pool nothing is kept.
deallocate(p) ==
  \/ /\ proc[p] = "check"
     /\ proc' = [proc EXCEPT ![p] = IF freeSupIndex < MaxSupports THEN "load" ELSE "sys2"]
     /\ UNCHANGED <<ending, reg, pool, freeSupIndex>>
  \/ /\ proc[p] = "load"
     /\ reg' = [reg EXCEPT ![p] = freeSupIndex]
     /\ proc' = [proc EXCEPT ![p] = "raise"]
     /\ UNCHANGED <<ending, pool, freeSupIndex>>
  \/ /\ proc[p] = "raise"
     /\ freeSupIndex' = reg[p] + 1
     /\ proc' = [proc EXCEPT ![p] = "store"]
     /\ UNCHANGED <<ending, reg, pool>>
  \/ /\ proc[p] = "store"
     /\ pool' = [k \in DOMAIN pool |-> IF k = reg[p] THEN struct[p] ELSE pool[k]]
     /\ proc' = [proc EXCEPT ![p] = "sys2"]
     /\ UNCHANGED <<ending, reg, freeSupIndex>>

Ended(p) ==
  /\ proc[p] = "sys2"
  /\ proc' = [proc EXCEPT ![p] = "dead"]
  /\ UNCHANGED <<test, next, waits, daemon, supports, masterSema4, early>>

Instantiator ==
  initADL \/ allocate \/ summon_process \/ AllLaunched \/ Wait \/ SYS2

get_nuked(p) == Signal(p) \/ deallocate(p) \/ Ended(p)

\* PANIC stops the machine.
Next ==
  /\ test # "panic"
  /\ Instantiator \/ \E p \in UProc : Exit(p) \/ get_nuked(p)

Spec == Init /\ [][Next]_vars

-----------------------------------------------------------------------------
(* Properties                                                              *)

\* Who has signalled.
Signalled == {"check", "load", "raise", "store", "sys2", "dead"}

\* test goes only when every user process has been launched and is done with
\* all but the return of its structure and SYS2.
TestIsLast == test \in {"end", "dead"} => \A p \in UProc : proc[p] \in Signalled

\* What the semaphore counts: signals sent, less waits begun.
SignalsCounted ==
  \/ masterSema4 = Cardinality({p \in UProc : proc[p] \in Signalled}) - waits
  \/ test = "dead"

\* However the steps of allocate and deallocate interleave, the index leaves
\* enough for the processes to come: the check of allocate never fails.
NeverEmpty ==
  /\ test = "allocate" => freeSupIndex > MaxUProcs - next
  /\ test = "panic" => early

\* initProc.c:55, of deallocate: "Verify that we're not overflowing the pool".
PoolNotOverflowed == \A p \in UProc : proc[p] = "store" => reg[p] < PoolSize

\* initProc.c:63, of allocate: "returns a pointer to a support structure from
\* the free_support_pool": it is nobody else's.
SupportUnique ==
  \A p, q \in UProc :
    (proc[p] = "user" /\ proc[q] = "user" /\ struct[p] = struct[q]) => p = q

\* initProc.c:64, of allocate: "If the pool is empty (freeSupIndex is 0), it
\* returns NULL", and only then.
NullWhenEmpty == test = "panic" => freeSupIndex = 0

\* If nobody ends while test is still launching, the steps of those that end
\* together do no harm: every process has a structure of its own and the pool is
\* not written beyond its end.
PoolKept == early \/ (PoolNotOverflowed /\ SupportUnique)

=============================================================================
