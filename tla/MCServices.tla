------------------------------ MODULE MCServices ------------------------------
(***************************************************************************)
(* Instances for TLC of the delay daemon, of the instantiator with its     *)
(* pool, and of calls on a flash device with a process's number, in the    *)
(* middle of which processes end.  They share no variable: a behaviour is  *)
(* one of one part, and the others stay in an initial state.               *)
(***************************************************************************)
EXTENDS DelayDaemon

CONSTANTS
  MaxUProcs, PoolSize, MaxSupports,  \* of Lifecycle
  None                               \* of DeviceCalls

VARIABLES
  part,       \* "delay", "life" or "flash"
  test, next, waits, daemon, proc, struct, reg, pool, freeSupIndex, masterSema4,
  early,
  at, call, mutex, page, frames, victim, buf, arm, job, store, v0

Life == INSTANCE Lifecycle

Flash == INSTANCE DeviceCalls
  WITH Proc <- {1, 2, 3}, Device <- {<<"flash", 2>>}, Request <- {"put", "get"},
       Block <- {0, 1}, MaxCyl <- 1, MaxHead <- 1, MaxSect <- 1, MaxBlock <- 1,
       Val <- {"v"}, NumFrames <- 1, Failures <- TRUE, Deaths <- TRUE,
       pc <- at, sem <- mutex

ServicesAssumption ==
  DelayAssumption /\ Life!LifecycleAssumption /\ Flash!DeviceAssumption

ASSUME ServicesAssumed == ServicesAssumption

life == <<test, next, waits, daemon, proc, struct, reg, pool, freeSupIndex,
          masterSema4, early>>
flash == <<at, call, mutex, page, frames, victim, buf, arm, job, store, v0>>
parts == <<part, vars, life, flash>>

ServicesInit ==
  /\ Init /\ Life!Init /\ Flash!Init
  /\ part \in {"delay", "life", "flash"}

ServicesNext ==
  \/ part = "delay" /\ Next /\ UNCHANGED <<part, life, flash>>
  \/ part = "life" /\ Life!Next /\ UNCHANGED <<part, vars, flash>>
  \/ part = "flash" /\ Flash!Next /\ UNCHANGED <<part, vars, life>>

\* As in DelayDaemon; what is said of the other parts is safety.
ServicesSpec ==
  ServicesInit /\ [][ServicesNext]_parts /\ (part = "delay" => Fairness)

\* Values of constants.
Delays == -1..2

-----------------------------------------------------------------------------
(* Properties, stated in the modules of the parts; those of the delay      *)
(* daemon are SleepersListed, ImplementsAlarms and SleeperWakes.           *)

\* initProc.c: test outlives every user process and counts their signals; the
\* pool is never found empty, and is as it should be unless a process ends while
\* test is still launching others.
TestIsLast ==
  part = "life" => /\ Life!TypeOK /\ Life!TestIsLast /\ Life!SignalsCounted
                   /\ Life!NeverEmpty /\ Life!PoolKept

\* sysSupport.c: a process that ends, in the middle of a call or not, lets no
\* second one into a call on a device without its number, into one on the device
\* it was at work on itself, or into the pager.
ExclusiveOnDeath == part = "flash" => Flash!DeviceSafe
===============================================================================
