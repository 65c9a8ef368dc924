-------------------------- MODULE KernelPartsProofs --------------------------
(***************************************************************************)
(* Proofs about CPU time and about the dispatch of exceptions.             *)
(***************************************************************************)
EXTENDS MCKernelParts, QueueLemmas

-----------------------------------------------------------------------------
(* CPU time                                                                *)

\* Who has the processor in which mode, and who may be in the ready queue.
Placed ==
  /\ mode \in {"run", "call", "plt"} => currProc # NoProc
  /\ mode \in {"switch", "idle", "stopped"} => currProc = NoProc
  /\ \A p \in Procs : state[p] = "running" <=> p = currProc
  /\ IsInjective(ReadyQueue) /\ \A p \in ToSet(ReadyQueue) : state[p] = "ready"
  /\ mode = "io" => owner \in Procs /\ state[owner] = "io"

\* A pcb in the free list has no history.
Fresh == \A p \in Procs \ Alive : spent[p] = 0 /\ taken[p] = 0 /\ reading[p] = <<0, 0>>

\* What a process has read is not less than what it would read now.
Readings ==
  \A p \in Alive : reading[p][1] <= clock - Charged(p) /\ reading[p][2] <= taken[p]

\* Everything about charges that one step can disturb.
Accounts == Fresh /\ ChargedForTurns /\ Readings /\ NoMoreThanReal

TimeInv == TypeOK /\ Placed /\ Accounts

LEMMA Typed ==
  ASSUME CpuTimeAssumption, TypeOK
  PROVE  /\ clock \in Nat /\ MaxClock \in Nat /\ clock <= MaxClock
         /\ quantum \in Nat /\ quantum <= clock
         /\ get_elapsed_time \in Nat
         /\ \A p \in Procs : p_time[p] \in Nat /\ spent[p] \in Nat /\ taken[p] \in Nat
              /\ Charged(p) \in Nat
              /\ reading[p] \in Int \X Int /\ reading[p][1] \in Int /\ reading[p][2] \in Int
<1>1. clock \in Nat /\ MaxClock \in Nat /\ clock <= MaxClock /\ quantum \in Nat /\ quantum <= clock
  BY DEF TypeOK, CpuTimeAssumption
<1>2. get_elapsed_time \in Nat
  BY <1>1 DEF get_elapsed_time
<1>3. spent \in [Procs -> Nat] /\ taken \in [Procs -> Nat] /\ p_time \in [Procs -> Nat]
      /\ reading \in [Procs -> Int \X Int]
  BY DEF TypeOK
<1>4. ASSUME NEW p \in Procs
      PROVE  p_time[p] \in Nat /\ spent[p] \in Nat /\ taken[p] \in Nat
              /\ Charged(p) \in Nat
              /\ reading[p] \in Int \X Int /\ reading[p][1] \in Int /\ reading[p][2] \in Int
  <2>1. p_time[p] \in Nat /\ spent[p] \in Nat /\ taken[p] \in Nat
        /\ reading[p] \in Int \X Int
    BY <1>3
  <2>2. Charged(p) \in Nat
    BY <1>2, <2>1 DEF Charged
  <2> QED
    BY <2>1, <2>2
<1> QED
  BY <1>1, <1>2, <1>4

\* The charged ticks are finitely many.
LEMMA TicksFinite ==
  ASSUME CpuTimeAssumption
  PROVE  IsFiniteSet(ChargedTicks) /\ Cardinality(ChargedTicks) \in Nat
<1>1. IsFiniteSet(Procs) /\ MaxClock + 1 \in Int
  BY DEF CpuTimeAssumption
<1>2. IsFiniteSet(1..MaxClock+1)
  BY <1>1, FS_Interval
<1>3. IsFiniteSet(Procs \X (1..MaxClock+1))
  BY <1>1, <1>2, FS_Product
<1>4. ChargedTicks \subseteq Procs \X (1..MaxClock+1)
  BY DEF ChargedTicks
<1> QED
  BY <1>3, <1>4, FS_Subset, FS_CardinalityType

\* A step in which no time passes, whoever is alive afterwards was charged as
\* much before, or begins, and no charge grows.
LEMMA AccountsKept ==
  ASSUME CpuTimeAssumption, TypeOK, TypeOK', Accounts, UNCHANGED clock,
         \A p \in Procs : Charged(p)' <= Charged(p),
         \A p \in Alive' : p \in Alive => Charged(p)' = Charged(p),
         \A p \in Alive' : p \notin Alive => Charged(p)' = 0,
         \A p \in Alive' : spent'[p] = spent[p] /\ taken'[p] = taken[p],
         \A p \in Alive' : reading'[p] = reading[p],
         \A p \in Procs \ Alive' :
           \/ p \in Alive /\ spent'[p] = 0 /\ taken'[p] = 0 /\ reading'[p] = <<0, 0>>
           \/ p \notin Alive /\ spent'[p] = spent[p] /\ taken'[p] = taken[p]
                /\ reading'[p] = reading[p]
  PROVE  Accounts' /\ ReadingsGrow
<1>1. Fresh /\ ChargedForTurns /\ Readings /\ NoMoreThanReal
  BY DEF Accounts
<1>2. Fresh'
  BY <1>1 DEF Fresh
<1>3. Alive \subseteq Procs /\ Alive' \subseteq Procs
  BY DEF Alive
<1>4. ASSUME NEW p \in Alive'
      PROVE  /\ Charged(p)' = spent'[p] + taken'[p]
             /\ reading'[p][1] <= clock' - Charged(p)' /\ reading'[p][2] <= taken'[p]
  <2>1. CASE p \in Alive
    BY <1>1, <2>1 DEF ChargedForTurns, Readings
  <2>2. CASE p \notin Alive
    <3>1. spent'[p] = 0 /\ taken'[p] = 0 /\ reading'[p] = <<0, 0>> /\ Charged(p)' = 0
      BY <1>1, <1>3, <2>2 DEF Fresh
    <3> QED
      BY <3>1, Typed
  <2> QED
    BY <2>1, <2>2
<1>5. ChargedForTurns' /\ Readings'
  BY <1>4 DEF ChargedForTurns, Readings
<1>6. NoMoreThanReal'
  <2>1. ChargedTicks' \subseteq ChargedTicks
    <3> SUFFICES ASSUME NEW p \in Procs, NEW n \in 1..MaxClock+1, n <= Charged(p)'
                 PROVE  n <= Charged(p)
      BY DEF ChargedTicks
    <3>1. Charged(p) \in Nat /\ Charged(p)' <= Charged(p)
      BY Typed
    <3>2. n \in Int /\ Charged(p)' \in Int
      <4>1. MaxClock \in Nat
        BY Typed
      <4>2. p_time'[p] \in Nat /\ quantum' \in Int /\ clock' \in Int
        BY DEF TypeOK
      <4> QED
        BY <4>1, <4>2 DEF Charged, get_elapsed_time
    <3> QED
      BY <3>1, <3>2
  <2>2. Cardinality(ChargedTicks') <= Cardinality(ChargedTicks)
    BY <2>1, TicksFinite, FS_Subset
  <2>3. Cardinality(ChargedTicks') \in Nat /\ Cardinality(ChargedTicks) \in Nat
    BY <2>1, TicksFinite, FS_Subset, FS_CardinalityType
  <2> QED
    BY <1>1, <2>2, <2>3, Typed DEF NoMoreThanReal
<1>7. ReadingsGrow
  <2> SUFFICES ASSUME NEW p \in Alive, state'[p] # "dead", NEW i \in 1..2
               PROVE  reading'[p][i] >= reading[p][i]
    BY DEF ReadingsGrow
  <2>1. p \in Alive' /\ p \in Procs
    BY DEF Alive
  <2>2. reading'[p] = reading[p]
    BY <2>1
  <2>3. reading[p][i] \in Int
    BY <2>1, Typed
  <2> QED
    BY <2>2, <2>3
<1> QED
  BY <1>2, <1>5, <1>6, <1>7 DEF Accounts

LEMMA AddedType ==
  ASSUME NEW f \in [Procs -> Nat], NEW p
  PROVE  /\ Added(f, p) \in [Procs -> Nat]
         /\ \A q \in Procs \ {p} : Added(f, p)[q] = f[q]
         /\ p \in Procs /\ p # NoProc => Added(f, p)[p] = f[p] + 1
<1>1. CASE p = NoProc
  BY <1>1 DEF Added
<1>2. CASE p # NoProc
  <2>1. Added(f, p) = [f EXCEPT ![p] = @ + 1]
    BY <1>2 DEF Added
  <2>2. \A q \in Procs : f[q] \in Nat /\ f[q] + 1 \in Nat
    OBVIOUS
  <2> QED
    BY <1>2, <2>1, <2>2
<1> QED
  BY <1>1, <1>2

LEMMA TickStep ==
  ASSUME CpuTimeAssumption, TimeInv, Tick
  PROVE  TimeInv' /\ ReadingsGrow
<1>1. TypeOK /\ Placed /\ Fresh /\ ChargedForTurns /\ Readings /\ NoMoreThanReal
  BY DEF TimeInv, Accounts
<1>2. /\ clock' = clock + 1 /\ clock < MaxClock /\ mode # "stopped"
      /\ UNCHANGED <<mode, currProc, ReadyQueue, quantum, p_time, state, owner, reading>>
      /\ spent' = IF mode \in {"run", "call", "plt"} THEN Added(spent, currProc) ELSE spent
      /\ taken' = IF mode \in {"io", "interval"} THEN Added(taken, currProc) ELSE taken
  BY DEF Tick, processes
<1>3. /\ clock \in Nat /\ MaxClock \in Nat /\ quantum \in Nat /\ quantum <= clock
      /\ \A p \in Procs : p_time[p] \in Nat /\ spent[p] \in Nat /\ taken[p] \in Nat
           /\ Charged(p) \in Nat /\ reading[p][1] \in Int /\ reading[p][2] \in Int
  BY <1>1, Typed
<1>4. currProc \in Procs => mode \in {"run", "call", "plt", "io", "interval"}
  BY <1>1 DEF Placed, TypeOK, Modes, CpuTimeAssumption
<1>5. spent \in [Procs -> Nat] /\ taken \in [Procs -> Nat]
  BY <1>1 DEF TypeOK
<1>6. spent' \in [Procs -> Nat] /\ taken' \in [Procs -> Nat]
  BY <1>2, <1>5, AddedType
<1>7. \A p \in Procs \ {currProc} : spent'[p] = spent[p] /\ taken'[p] = taken[p]
  BY <1>2, <1>5, AddedType
<1>8. ASSUME currProc \in Procs
      PROVE  \/ spent'[currProc] = spent[currProc] + 1 /\ taken'[currProc] = taken[currProc]
             \/ spent'[currProc] = spent[currProc] /\ taken'[currProc] = taken[currProc] + 1
  BY <1>2, <1>4, <1>5, <1>8, AddedType DEF CpuTimeAssumption
<1>9. \A p \in Procs : Charged(p)' = Charged(p) + (IF p = currProc THEN 1 ELSE 0)
  BY <1>2, <1>3 DEF Charged, get_elapsed_time
<1>10. TypeOK'
  <2>1. clock' \in 0..MaxClock /\ quantum' \in 0..clock'
    BY <1>2, <1>3
  <2> QED
    BY <1>1, <1>2, <1>6, <2>1 DEF TypeOK
<1>11. Placed' /\ Alive' = Alive
  BY <1>1, <1>2 DEF Placed, Alive
<1>12. currProc \in Procs => currProc \in Alive
  BY <1>1 DEF Placed, Alive
<1>13. Fresh'
  BY <1>1, <1>2, <1>7, <1>11, <1>12 DEF Fresh
<1>14. \A p \in Alive : p \in Procs
  BY DEF Alive
<1>15. ASSUME NEW p \in Alive
       PROVE  /\ Charged(p)' = spent'[p] + taken'[p]
              /\ reading'[p][1] <= clock' - Charged(p)' /\ reading'[p][2] <= taken'[p]
  <2>1. /\ p \in Procs /\ Charged(p) = spent[p] + taken[p]
        /\ reading[p][1] <= clock - Charged(p) /\ reading[p][2] <= taken[p]
    BY <1>1, <1>14 DEF ChargedForTurns, Readings
  <2>2. spent'[p] \in Nat /\ taken'[p] \in Nat /\ reading'[p] = reading[p]
    BY <1>2, <1>6, <2>1
  <2>3. CASE p = currProc
    <3>1. Charged(p)' = Charged(p) + 1
      BY <1>9, <2>1, <2>3
    <3> QED
      BY <1>2, <1>3, <1>8, <2>1, <2>2, <2>3, <3>1
  <2>4. CASE p # currProc
    <3>1. Charged(p)' = Charged(p)
      BY <1>3, <1>9, <2>1, <2>4
    <3> QED
      BY <1>2, <1>3, <1>7, <2>1, <2>2, <2>4, <3>1
  <2> QED
    BY <2>3, <2>4
<1>16. ChargedForTurns' /\ Readings'
  BY <1>11, <1>15 DEF ChargedForTurns, Readings
<1>17. NoMoreThanReal'
  <2>1. IsFiniteSet(ChargedTicks) /\ Cardinality(ChargedTicks) \in Nat
    BY TicksFinite
  <2>2. PICK new : new = <<currProc, Charged(currProc) + 1>>
    OBVIOUS
  <2>3. ChargedTicks' \subseteq ChargedTicks \cup {new}
    <3> SUFFICES ASSUME NEW p \in Procs, NEW n \in 1..MaxClock+1, n <= Charged(p)',
                        <<p, n>> # new
                 PROVE  n <= Charged(p)
      BY DEF ChargedTicks
    <3>1. n \in Int /\ Charged(p) \in Nat
      BY <1>3
    <3>2. CASE p = currProc
      <4>1. n <= Charged(p) + 1 /\ n # Charged(p) + 1
        BY <1>9, <2>2, <3>2
      <4> QED
        BY <3>1, <4>1
    <3>3. CASE p # currProc
      BY <1>9, <3>1, <3>3
    <3> QED
      BY <3>2, <3>3
  <2>4. IsFiniteSet(ChargedTicks \cup {new})
        /\ Cardinality(ChargedTicks \cup {new}) \in
             {Cardinality(ChargedTicks), Cardinality(ChargedTicks) + 1}
    BY <2>1, FS_AddElement
  <2>5. Cardinality(ChargedTicks') <= Cardinality(ChargedTicks \cup {new})
    BY <2>3, <2>4, FS_Subset
  <2>6. Cardinality(ChargedTicks') \in Nat
    BY <2>3, <2>4, FS_Subset, FS_CardinalityType
  <2>7. Cardinality(ChargedTicks) <= clock
    BY <1>1 DEF NoMoreThanReal
  <2>8. Cardinality(ChargedTicks') <= clock'
    BY <1>2, <1>3, <2>1, <2>4, <2>5, <2>6, <2>7
  <2> QED
    BY <2>8 DEF NoMoreThanReal
<1>18. ReadingsGrow
  BY <1>2, <1>3, <1>14 DEF ReadingsGrow
<1> QED
  BY <1>10, <1>11, <1>13, <1>16, <1>17, <1>18 DEF TimeInv, Accounts

\* The kinds of steps as far as the accounts see them.  The processor stays with
\* whom it was, and nobody is charged or read.
LEMMA AccountsQuiet ==
  ASSUME CpuTimeAssumption, TypeOK, TypeOK', Placed, Accounts,
         UNCHANGED <<clock, spent, taken, reading, currProc, quantum, p_time>>,
         Alive' = Alive
  PROVE  Accounts' /\ ReadingsGrow
<1>1. \A p \in Procs : Charged(p)' = Charged(p) /\ Charged(p) \in Nat
  BY Typed DEF Charged, get_elapsed_time
<1>2. Alive \subseteq Procs
  BY DEF Alive
<1>3. \A p \in Procs : Charged(p)' <= Charged(p)
  BY <1>1
<1> QED
  BY <1>1, <1>2, <1>3, AccountsKept

\* The current process leaves the processor, charged for its turn.
LEMMA ChargeStep ==
  ASSUME CpuTimeAssumption, TimeInv, NEW s \in {"ready"} \cup Waiting,
         mode \in {"call", "plt"}, Charge(s),
         UNCHANGED <<clock, spent, taken, owner, reading>>,
         ReadyQueue' = IF s = "ready" THEN Append(ReadyQueue, currProc) ELSE ReadyQueue
  PROVE  TimeInv' /\ ReadingsGrow
<1>1. TypeOK /\ Placed /\ Accounts
  BY DEF TimeInv
<1>2. currProc \in Procs /\ currProc # NoProc
  BY <1>1 DEF Placed, TypeOK
<1>3. /\ p_time' = [p_time EXCEPT ![currProc] = @ + get_elapsed_time]
      /\ state' = [state EXCEPT ![currProc] = s]
      /\ currProc' = NoProc /\ mode' = "switch" /\ UNCHANGED quantum
  BY DEF Charge
<1>4. ReadyQueue \in Seq(Procs) /\ currProc \notin ToSet(ReadyQueue)
  BY <1>1, <1>2 DEF Placed, TypeOK
<1>5. /\ Append(ReadyQueue, currProc) \in Seq(Procs)
      /\ ToSet(Append(ReadyQueue, currProc)) = ToSet(ReadyQueue) \cup {currProc}
      /\ IsInjective(Append(ReadyQueue, currProc))
  BY <1>1, <1>2, <1>4, AppendQ DEF Placed
<1>6. state \in [Procs -> {"dead", "ready", "running"} \cup Waiting]
      /\ p_time \in [Procs -> Nat] /\ get_elapsed_time \in Nat
  BY <1>1, Typed DEF TypeOK
<1>7. state' \in [Procs -> {"dead", "ready", "running"} \cup Waiting]
      /\ p_time' \in [Procs -> Nat]
  <2>1. state' \in [Procs -> {"dead", "ready", "running"} \cup Waiting]
    BY <1>3, <1>6
  <2>2. \A q \in Procs : p_time[q] + get_elapsed_time \in Nat
    BY <1>6
  <2> QED
    BY <1>3, <1>6, <2>1, <2>2
<1>8. TypeOK'
  BY <1>1, <1>3, <1>4, <1>5, <1>7 DEF TypeOK, Modes
<1>9. state'[currProc] = s /\ \A p \in Procs \ {currProc} : state'[p] = state[p]
  BY <1>2, <1>3, <1>6
<1>10. s \notin {"running", "dead"}
  BY DEF Waiting
<1>11. Placed'
  <2>1. \A p \in Procs : state'[p] = "running" <=> p = currProc'
    BY <1>1, <1>2, <1>3, <1>9, <1>10 DEF Placed, CpuTimeAssumption
  <2>2. IsInjective(ReadyQueue')
    BY <1>1, <1>5 DEF Placed
  <2>3. \A p \in ToSet(ReadyQueue') : state'[p] = "ready"
    <3>1. \A p \in ToSet(ReadyQueue) : p \in Procs /\ state[p] = "ready"
      BY <1>1, <1>4 DEF Placed, ToSet
    <3> QED
      BY <1>4, <1>5, <1>9, <3>1
  <2> QED
    BY <1>3, <2>1, <2>2, <2>3 DEF Placed
<1>12. Alive' = Alive
  BY <1>1, <1>2, <1>9, <1>10 DEF Alive, Placed
<1>13. \A p \in Procs : Charged(p)' = Charged(p) /\ Charged(p) \in Nat
  <2>1. p_time'[currProc] = p_time[currProc] + get_elapsed_time
        /\ \A p \in Procs \ {currProc} : p_time'[p] = p_time[p]
    BY <1>2, <1>3, <1>6
  <2>2. \A p \in Procs : p # NoProc /\ p_time[p] \in Nat
    BY <1>6 DEF CpuTimeAssumption
  <2>3. \A p \in Procs : Charged(p) \in Nat
    BY <1>1, Typed
  <2>4. \A p \in Procs : Charged(p)' = p_time'[p]
    BY <1>3, <2>2, <1>7 DEF Charged
  <2> QED
    BY <1>2, <1>6, <2>1, <2>2, <2>3, <2>4 DEF Charged
<1>14. \A p \in Procs : Charged(p)' <= Charged(p)
  BY <1>13
<1>15. Alive \subseteq Procs
  BY DEF Alive
<1>16. Accounts' /\ ReadingsGrow
  BY <1>1, <1>8, <1>12, <1>13, <1>14, <1>15, AccountsKept
<1> QED
  BY <1>8, <1>11, <1>16 DEF TimeInv

LEMMA SwitchStep ==
  ASSUME CpuTimeAssumption, TimeInv, Switch
  PROVE  TimeInv' /\ ReadingsGrow
<1>1. TypeOK /\ Placed /\ Accounts /\ ReadyQueue \in Seq(Procs)
  BY DEF TimeInv, TypeOK
<1>2. mode = "switch" /\ currProc = NoProc /\ UNCHANGED <<clock, spent, taken, owner, reading>>
  BY <1>1 DEF Switch, Placed, handled
<1>3. CASE ReadyQueue # <<>>
  <2>1. PICK first : first = Head(ReadyQueue)
    OBVIOUS
  <2>2. /\ currProc' = first /\ ReadyQueue' = Tail(ReadyQueue)
        /\ state' = [state EXCEPT ![first] = "running"]
        /\ quantum' = clock /\ mode' = "run" /\ UNCHANGED p_time
    BY <1>3, <2>1 DEF Switch, switchProcess
  <2>3. /\ first \in Procs /\ first \in ToSet(ReadyQueue)
        /\ ReadyQueue' \in Seq(Procs)
        /\ ToSet(ReadyQueue) = {first} \cup ToSet(ReadyQueue')
    BY <1>1, <1>3, <2>1, <2>2, HeadTailQ
  <2>4. IsInjective(ReadyQueue') /\ first \notin ToSet(ReadyQueue')
    BY <1>1, <1>3, <2>1, <2>2, HeadTailQ DEF Placed
  <2>5. state \in [Procs -> {"dead", "ready", "running"} \cup Waiting] /\ state[first] = "ready"
    BY <1>1, <2>3 DEF TypeOK, Placed
  <2>6. /\ state' \in [Procs -> {"dead", "ready", "running"} \cup Waiting]
        /\ state'[first] = "running" /\ \A p \in Procs \ {first} : state'[p] = state[p]
    BY <2>2, <2>3, <2>5
  <2>7. TypeOK'
    <3>1. quantum' \in 0..clock' /\ clock' \in 0..MaxClock
      BY <1>1, <1>2, <2>2, Typed
    <3> QED
      BY <1>1, <1>2, <2>2, <2>3, <2>6, <3>1 DEF TypeOK, Modes
  <2>8. ToSet(ReadyQueue') \subseteq Procs
    BY <2>3 DEF ToSet
  <2>9. Placed'
    <3>1. \A p \in Procs : state'[p] = "running" <=> p = currProc'
      BY <1>1, <1>2, <2>2, <2>3, <2>6 DEF Placed, CpuTimeAssumption
    <3>2. \A p \in ToSet(ReadyQueue') : state'[p] = "ready"
      BY <1>1, <2>3, <2>4, <2>6, <2>8 DEF Placed
    <3>3. currProc' # NoProc
      BY <2>2, <2>3 DEF CpuTimeAssumption
    <3> QED
      BY <2>2, <2>4, <3>1, <3>2, <3>3 DEF Placed
  <2>10. Alive' = Alive
    BY <2>3, <2>5, <2>6 DEF Alive
  <2>11. \A p \in Procs : Charged(p)' = Charged(p) /\ Charged(p) \in Nat
    <3>1. \A p \in Procs : p # NoProc /\ p_time[p] \in Nat /\ Charged(p) \in Nat
      BY <1>1, Typed DEF CpuTimeAssumption
    <3>2. get_elapsed_time' = 0
      BY <1>1, <1>2, <2>2, Typed DEF get_elapsed_time
    <3> QED
      BY <1>2, <2>2, <3>1, <3>2 DEF Charged
  <2>12. \A p \in Procs : Charged(p)' <= Charged(p)
    BY <2>11
  <2>13. Alive \subseteq Procs
    BY DEF Alive
  <2>14. Accounts' /\ ReadingsGrow
    BY <1>1, <1>2, <2>7, <2>10, <2>11, <2>12, <2>13, AccountsKept
  <2> QED
    BY <2>7, <2>9, <2>14 DEF TimeInv
<1>4. CASE ReadyQueue = <<>>
  <2>1. mode' \in {"idle", "stopped"} /\ UNCHANGED <<currProc, ReadyQueue, quantum, p_time, state>>
    BY <1>4 DEF Switch, switchProcess, processes
  <2>2. TypeOK'
    BY <1>1, <1>2, <2>1 DEF TypeOK, Modes
  <2>3. Placed' /\ Alive' = Alive
    BY <1>1, <1>2, <2>1 DEF Placed, Alive
  <2>4. Accounts' /\ ReadingsGrow
    BY <1>1, <1>2, <2>1, <2>2, <2>3, AccountsQuiet
  <2> QED
    BY <2>2, <2>3, <2>4 DEF TimeInv
<1> QED
  BY <1>3, <1>4

\* Into the nucleus, or into an interrupt handler.
LEMMA ModeStep ==
  ASSUME CpuTimeAssumption, TimeInv, mode' \in Modes,
         UNCHANGED <<handled, processes, reading>>, owner' \in Procs \cup {NoProc},
         mode' \in {"run", "call", "plt"} => currProc # NoProc,
         mode' \in {"switch", "idle", "stopped"} => currProc = NoProc,
         mode' = "io" => owner' \in Procs /\ state[owner'] = "io"
  PROVE  TimeInv' /\ ReadingsGrow
<1>1. TypeOK /\ Placed /\ Accounts
  BY DEF TimeInv
<1>2. UNCHANGED <<clock, spent, taken, currProc, ReadyQueue, quantum, p_time, state, reading>>
  BY DEF handled, processes
<1>3. TypeOK'
  BY <1>1, <1>2 DEF TypeOK
<1>4. Placed' /\ Alive' = Alive
  BY <1>1, <1>2 DEF Placed, Alive
<1>5. Accounts' /\ ReadingsGrow
  BY <1>1, <1>2, <1>3, <1>4, AccountsQuiet
<1> QED
  BY <1>3, <1>4, <1>5 DEF TimeInv

LEMMA EnterStep ==
  ASSUME CpuTimeAssumption, TimeInv, NEW m \in {"call", "plt"}, Enter(m)
  PROVE  TimeInv' /\ ReadingsGrow
<1>1. mode = "run" /\ mode' = m /\ UNCHANGED <<handled, processes, owner, reading>>
  BY DEF Enter
<1>2. currProc # NoProc /\ owner' \in Procs \cup {NoProc} /\ m \in Modes
  BY <1>1 DEF TimeInv, Placed, TypeOK, Modes
<1> QED
  BY <1>1, <1>2, ModeStep

LEMMA InterruptStep ==
  ASSUME CpuTimeAssumption, TimeInv, NEW m \in {"io", "interval"},
         NEW o \in Procs \cup {NoProc}, Interrupt(m, o),
         m = "io" => o \in Procs /\ state[o] = "io"
  PROVE  TimeInv' /\ ReadingsGrow
<1>1. mode' = m /\ owner' = o /\ UNCHANGED <<handled, processes, reading>>
  BY DEF Interrupt
<1>2. m \in Modes
  BY DEF Modes
<1> QED
  BY <1>1, <1>2, ModeStep

LEMMA BlockStep ==
  ASSUME CpuTimeAssumption, TimeInv, NEW s \in Waiting, Block(s)
  PROVE  TimeInv' /\ ReadingsGrow
<1>1. mode = "call" /\ Charge(s) /\ UNCHANGED <<clock, spent, taken, ReadyQueue, owner, reading>>
  BY DEF Block, blockCurrProc, handled
<1>2. s # "ready"
  BY DEF Waiting
<1> QED
  BY <1>1, <1>2, ChargeStep

LEMMA PltStep ==
  ASSUME CpuTimeAssumption, TimeInv, pltInterruptHandler
  PROVE  TimeInv' /\ ReadingsGrow
<1>1. /\ mode = "plt" /\ Charge("ready") /\ UNCHANGED <<clock, spent, taken, owner, reading>>
      /\ ReadyQueue' = Append(ReadyQueue, currProc)
  BY DEF pltInterruptHandler, handled
<1> QED
  BY <1>1, ChargeStep

\* Processes join the ready queue, and the current one goes on.
LEMMA ReadyStep ==
  ASSUME CpuTimeAssumption, TimeInv, NEW S, S \in SUBSET Procs, NEW q,
         q \in Seq(Procs), IsInjective(q), ToSet(q) \subseteq S,
         \A p \in S : state[p] \in Waiting,
         ReadyQueue' = ReadyQueue \o q,
         state' = [p \in Procs |-> IF p \in S THEN "ready" ELSE state[p]],
         UNCHANGED <<clock, spent, taken, currProc, quantum, p_time, reading>>,
         mode' \in Modes, mode' # "io", owner' \in Procs \cup {NoProc},
         mode' \in {"run", "call", "plt"} => currProc # NoProc,
         mode' \in {"switch", "idle", "stopped"} => currProc = NoProc
  PROVE  TimeInv' /\ ReadingsGrow
<1>1. TypeOK /\ Placed /\ Accounts /\ ReadyQueue \in Seq(Procs)
      /\ state \in [Procs -> {"dead", "ready", "running"} \cup Waiting]
  BY DEF TimeInv, TypeOK
<1>2. /\ \A p \in S : state'[p] = "ready" /\ p \in Procs
      /\ \A p \in Procs \ S : state'[p] = state[p]
      /\ state' \in [Procs -> {"dead", "ready", "running"} \cup Waiting]
  BY <1>1
<1>3. \A w \in Waiting : w \notin {"dead", "ready", "running"}
  BY DEF Waiting
<1>4. \A p \in ToSet(ReadyQueue) : p \in Procs /\ state[p] = "ready"
  BY <1>1 DEF Placed, ToSet
<1>5. ToSet(ReadyQueue) \cap ToSet(q) = {}
  BY <1>3, <1>4
<1>6. /\ ReadyQueue' \in Seq(Procs) /\ ToSet(ReadyQueue') = ToSet(ReadyQueue) \cup ToSet(q)
      /\ IsInjective(ReadyQueue')
  <2>1. IsInjective(ReadyQueue)
    BY <1>1 DEF Placed
  <2> QED
    BY <1>1, <1>5, <2>1, ConcatQ
<1>7. TypeOK'
  BY <1>1, <1>2, <1>6 DEF TypeOK
<1>8. Placed'
  <2>1. \A p \in Procs : state'[p] = "running" <=> p = currProc'
    BY <1>1, <1>2, <1>3 DEF Placed
  <2>2. \A p \in ToSet(ReadyQueue') : state'[p] = "ready"
    BY <1>2, <1>4, <1>6
  <2> QED
    BY <1>6, <2>1, <2>2 DEF Placed
<1>9. Alive' = Alive
  BY <1>2, <1>3 DEF Alive
<1>10. Accounts' /\ ReadingsGrow
  BY <1>1, <1>7, <1>9, AccountsQuiet
<1> QED
  BY <1>7, <1>8, <1>10 DEF TimeInv

LEMMA VStep ==
  ASSUME CpuTimeAssumption, TimeInv, V
  PROVE  TimeInv' /\ ReadingsGrow
<1>1. /\ mode = "call" /\ mode' = "run"
      /\ UNCHANGED <<clock, spent, taken, currProc, quantum, owner, p_time, reading>>
  BY DEF V, Return, handled
<1>2. TypeOK /\ currProc # NoProc /\ mode' \in Modes /\ ReadyQueue \in Seq(Procs)
      /\ owner' \in Procs \cup {NoProc}
  BY <1>1 DEF TimeInv, TypeOK, Placed, Modes
<1>3. CASE UNCHANGED <<ReadyQueue, state>>
  BY <1>1, <1>2, <1>3, ModeStep DEF handled, processes
<1>4. ASSUME NEW p \in Procs, state[p] = "sem", state' = [state EXCEPT ![p] = "ready"],
             ReadyQueue' = Append(ReadyQueue, p)
      PROVE  TimeInv' /\ ReadingsGrow
  <2>1. <<p>> \in Seq(Procs) /\ IsInjective(<<p>>) /\ ToSet(<<p>>) \subseteq {p}
    BY DEF IsInjective, ToSet
  <2>2. ReadyQueue' = ReadyQueue \o <<p>>
    BY <1>2, <1>4, AppendIsConcat
  <2>3. state' = [x \in Procs |-> IF x \in {p} THEN "ready" ELSE state[x]]
    BY <1>2, <1>4 DEF TypeOK
  <2>4. {p} \in SUBSET Procs /\ \A x \in {p} : state[x] \in Waiting
    BY <1>4 DEF Waiting
  <2> QED
    BY <1>1, <1>2, <2>1, <2>2, <2>3, <2>4, ReadyStep
<1> QED
  BY <1>3, <1>4 DEF V

LEMMA WakeStep ==
  ASSUME CpuTimeAssumption, TimeInv, NEW S \in SUBSET Procs, Wake(S),
         \A p \in S : state[p] \in Waiting
  PROVE  TimeInv' /\ ReadingsGrow
<1>1. PICK q \in SetToSeqs(S) : ReadyQueue' = ReadyQueue \o q
  BY DEF Wake
<1>2. q \in Seq(Procs) /\ IsInjective(q) /\ ToSet(q) \subseteq S
  <2>1. IsFiniteSet(S) /\ Cardinality(S) \in Nat
    BY FS_Subset, FS_CardinalityType DEF CpuTimeAssumption
  <2>2. PICK n \in Nat : n = Cardinality(S)
    BY <2>1
  <2>3. q \in [1..n -> S] /\ \A i, j \in 1..n : i # j => q[i] # q[j]
    BY <2>2 DEF SetToSeqs
  <2> QED
    BY <2>3, SeqDef DEF IsInjective, ToSet
<1>3. /\ state' = [p \in Procs |-> IF p \in S THEN "ready" ELSE state[p]]
      /\ mode' = IF currProc = NoProc THEN "switch" ELSE "run"
      /\ owner' = NoProc
      /\ UNCHANGED <<clock, spent, taken, currProc, quantum, p_time, reading>>
  BY DEF Wake, handled
<1>4. mode' \in Modes /\ mode' # "io" /\ owner' \in Procs \cup {NoProc}
  BY <1>3 DEF Modes
<1>5. mode' \in {"run", "call", "plt"} => currProc # NoProc
  BY <1>3
<1>6. mode' \in {"switch", "idle", "stopped"} => currProc = NoProc
  BY <1>3
<1> QED
  BY <1>1, <1>2, <1>3, <1>4, <1>5, <1>6, ReadyStep

\* SYS1: the new process begins with no time, and with no history.
LEMMA CreateStep ==
  ASSUME CpuTimeAssumption, TimeInv, NEW p \in Procs, createProcess(p)
  PROVE  TimeInv' /\ ReadingsGrow
<1>1. TypeOK /\ Placed /\ Accounts /\ ReadyQueue \in Seq(Procs)
      /\ state \in [Procs -> {"dead", "ready", "running"} \cup Waiting]
      /\ p_time \in [Procs -> Nat]
  BY DEF TimeInv, TypeOK
<1>2. /\ mode = "call" /\ mode' = "run" /\ state[p] = "dead"
      /\ state' = [state EXCEPT ![p] = "ready"] /\ ReadyQueue' = Append(ReadyQueue, p)
      /\ p_time' = [p_time EXCEPT ![p] = 0]
      /\ UNCHANGED <<clock, spent, taken, currProc, quantum, owner, reading>>
  BY DEF createProcess, Return, handled
<1>3. \A x \in ToSet(ReadyQueue) : x \in Procs /\ state[x] = "ready"
  BY <1>1 DEF Placed, ToSet
<1>4. p \notin ToSet(ReadyQueue)
  BY <1>2, <1>3
<1>5. /\ ReadyQueue' \in Seq(Procs) /\ ToSet(ReadyQueue') = ToSet(ReadyQueue) \cup {p}
      /\ IsInjective(ReadyQueue')
  BY <1>1, <1>2, <1>4, AppendQ DEF Placed
<1>6. /\ state' \in [Procs -> {"dead", "ready", "running"} \cup Waiting]
      /\ state'[p] = "ready" /\ \A x \in Procs \ {p} : state'[x] = state[x]
      /\ p_time' \in [Procs -> Nat]
      /\ p_time'[p] = 0 /\ \A x \in Procs \ {p} : p_time'[x] = p_time[x]
  BY <1>1, <1>2
<1>7. TypeOK'
  BY <1>1, <1>2, <1>5, <1>6 DEF TypeOK, Modes
<1>8. p # currProc
  BY <1>1, <1>2 DEF Placed
<1>9. Placed'
  <2>1. \A x \in Procs : state'[x] = "running" <=> x = currProc'
    BY <1>1, <1>2, <1>6, <1>8 DEF Placed
  <2>2. \A x \in ToSet(ReadyQueue') : state'[x] = "ready"
    BY <1>3, <1>5, <1>6
  <2>3. currProc' # NoProc
    BY <1>1, <1>2 DEF Placed
  <2> QED
    BY <1>2, <1>5, <2>1, <2>2, <2>3 DEF Placed
<1>10. Alive' = Alive \cup {p} /\ p \notin Alive /\ Alive \subseteq Procs
  BY <1>2, <1>6 DEF Alive
<1>11. \A x \in Procs : Charged(x) \in Nat
  BY <1>1, Typed
<1>12. Charged(p)' = 0
  BY <1>2, <1>6, <1>8 DEF Charged
<1>13. \A x \in Procs \ {p} : Charged(x)' = Charged(x)
  BY <1>2, <1>6 DEF Charged, get_elapsed_time
<1>14. \A x \in Procs : Charged(x)' <= Charged(x)
  BY <1>11, <1>12, <1>13
<1>15. \A x \in Alive' : x \in Alive => Charged(x)' = Charged(x)
  BY <1>10, <1>13
<1>16. \A x \in Alive' : x \notin Alive => Charged(x)' = 0
  BY <1>10, <1>12
<1>17. Accounts' /\ ReadingsGrow
  BY <1>1, <1>2, <1>7, <1>10, <1>14, <1>15, <1>16, AccountsKept
<1> QED
  BY <1>7, <1>9, <1>17 DEF TimeInv

\* SYS2: what the processes that die were charged is forgotten with them.
LEMMA TerminateStep ==
  ASSUME CpuTimeAssumption, TimeInv, NEW S \in SUBSET Procs, terminateProcess(S)
  PROVE  TimeInv' /\ ReadingsGrow
<1>1. TypeOK /\ Placed /\ Accounts /\ ReadyQueue \in Seq(Procs)
      /\ state \in [Procs -> {"dead", "ready", "running"} \cup Waiting]
      /\ spent \in [Procs -> Nat] /\ taken \in [Procs -> Nat]
      /\ reading \in [Procs -> Int \X Int]
  BY DEF TimeInv, TypeOK
<1>2. /\ mode = "call" /\ mode' = "switch" /\ currProc \in S /\ currProc' = NoProc
      /\ state' = [p \in Procs |-> IF p \in S THEN "dead" ELSE state[p]]
      /\ ReadyQueue' = Without(ReadyQueue, S)
      /\ spent' = Cleared(spent, S) /\ taken' = Cleared(taken, S)
      /\ reading' = [p \in Procs |-> IF p \in S THEN <<0, 0>> ELSE reading[p]]
      /\ UNCHANGED <<clock, quantum, p_time, owner>>
  BY DEF terminateProcess
<1>3. \A x \in ToSet(ReadyQueue) : x \in Procs /\ state[x] = "ready"
  BY <1>1 DEF Placed, ToSet
<1>4. /\ ReadyQueue' \in Seq(Procs) /\ ToSet(ReadyQueue') = ToSet(ReadyQueue) \ S
      /\ IsInjective(ReadyQueue')
  BY <1>1, <1>2, WithoutQ DEF Placed
<1>5. /\ state' \in [Procs -> {"dead", "ready", "running"} \cup Waiting]
      /\ \A p \in S : state'[p] = "dead"
      /\ \A p \in Procs \ S : state'[p] = state[p]
  BY <1>1, <1>2
<1>6. /\ spent' \in [Procs -> Nat] /\ taken' \in [Procs -> Nat]
      /\ \A p \in S : spent'[p] = 0 /\ taken'[p] = 0 /\ reading'[p] = <<0, 0>>
      /\ \A p \in Procs \ S : spent'[p] = spent[p] /\ taken'[p] = taken[p]
                              /\ reading'[p] = reading[p]
  BY <1>1, <1>2 DEF Cleared
<1>7. reading' \in [Procs -> Int \X Int]
  BY <1>1, <1>2
<1>8. TypeOK'
  BY <1>1, <1>2, <1>4, <1>5, <1>6, <1>7 DEF TypeOK, Modes
<1>9. Placed'
  <2>1. \A p \in Procs : p # NoProc
    BY DEF CpuTimeAssumption
  <2>2. \A x \in Procs : state'[x] = "running" <=> x = currProc'
    BY <1>1, <1>2, <1>5, <2>1 DEF Placed
  <2>3. \A x \in ToSet(ReadyQueue') : state'[x] = "ready"
    BY <1>3, <1>4, <1>5
  <2> QED
    BY <1>2, <1>4, <2>2, <2>3 DEF Placed
<1>10. Alive' = Alive \ S /\ Alive \subseteq Procs
  BY <1>5 DEF Alive
<1>11. \A p \in Procs : Charged(p) \in Nat /\ p_time[p] \in Nat /\ p # NoProc
  BY <1>1, Typed DEF CpuTimeAssumption
<1>12. get_elapsed_time \in Nat
  BY <1>1, Typed
<1>13. \A p \in Procs : Charged(p)' = p_time[p]
  BY <1>2, <1>11 DEF Charged
<1>14. \A p \in Procs : Charged(p)' <= Charged(p)
  BY <1>11, <1>12, <1>13 DEF Charged
<1>15. \A p \in Procs \ S : Charged(p)' = Charged(p)
  BY <1>2, <1>11, <1>13 DEF Charged
<1>16. \A p \in Procs \ Alive' :
         \/ p \in Alive /\ spent'[p] = 0 /\ taken'[p] = 0 /\ reading'[p] = <<0, 0>>
         \/ p \notin Alive /\ spent'[p] = spent[p] /\ taken'[p] = taken[p]
              /\ reading'[p] = reading[p]
  <2> SUFFICES ASSUME NEW p \in Procs, p \notin Alive'
               PROVE  \/ p \in Alive /\ spent'[p] = 0 /\ taken'[p] = 0 /\ reading'[p] = <<0, 0>>
                      \/ p \notin Alive /\ spent'[p] = spent[p] /\ taken'[p] = taken[p]
                           /\ reading'[p] = reading[p]
    OBVIOUS
  <2>1. CASE p \in Alive
    BY <1>6, <1>10, <2>1
  <2>2. CASE p \notin Alive
    <3>1. spent[p] = 0 /\ taken[p] = 0 /\ reading[p] = <<0, 0>>
      BY <1>1, <2>2 DEF Accounts, Fresh
    <3> QED
      BY <1>6, <2>2, <3>1
  <2> QED
    BY <2>1, <2>2
<1>17. \A p \in Alive' : /\ p \in Alive /\ Charged(p)' = Charged(p)
                         /\ spent'[p] = spent[p] /\ taken'[p] = taken[p]
                         /\ reading'[p] = reading[p]
  BY <1>6, <1>10, <1>15
<1>18. Accounts' /\ ReadingsGrow
  BY <1>1, <1>2, <1>8, <1>14, <1>16, <1>17, AccountsKept
<1> QED
  BY <1>8, <1>9, <1>18 DEF TimeInv

\* SYS6: the answer is what the caller has been charged, and no earlier one of its
\* own gave less.
LEMMA ReadStep ==
  ASSUME CpuTimeAssumption, TimeInv, getCPUTime
  PROVE  TimeInv' /\ ReadingsGrow
<1>1. TypeOK /\ Placed /\ Fresh /\ ChargedForTurns /\ Readings /\ NoMoreThanReal
      /\ reading \in [Procs -> Int \X Int]
  BY DEF TimeInv, TypeOK, Accounts
<1>2. currProc \in Procs /\ currProc \in Alive /\ mode = "call"
  BY <1>1 DEF getCPUTime, Placed, TypeOK, Alive
<1>3. PICK answer : answer = p_time[currProc] + get_elapsed_time
  OBVIOUS
<1>4. answer = Charged(currProc)
  BY <1>3 DEF Charged
<1>5. /\ reading' = [reading EXCEPT ![currProc] = <<clock - answer, answer - spent[currProc]>>]
      /\ mode' = "run"
      /\ UNCHANGED <<clock, spent, taken, currProc, quantum, owner, ReadyQueue, state, p_time>>
  BY <1>3 DEF getCPUTime, Compared, Return, handled
<1>6. /\ clock \in Nat /\ answer \in Nat
      /\ spent[currProc] \in Nat /\ taken[currProc] \in Nat
      /\ answer = spent[currProc] + taken[currProc]
      /\ reading[currProc][1] <= clock - answer /\ reading[currProc][2] <= taken[currProc]
      /\ \A p \in Procs : reading[p][1] \in Int /\ reading[p][2] \in Int
  BY <1>1, <1>2, <1>4, Typed DEF ChargedForTurns, Readings
<1>7. /\ reading' \in [Procs -> Int \X Int]
      /\ reading'[currProc] = <<clock - answer, answer - spent[currProc]>>
      /\ \A p \in Procs \ {currProc} : reading'[p] = reading[p]
  <2>1. <<clock - answer, answer - spent[currProc]>> \in Int \X Int
    BY <1>6
  <2> QED
    BY <1>1, <1>2, <1>5, <2>1
<1>8. reading'[currProc][1] = clock - answer /\ reading'[currProc][2] = taken[currProc]
  BY <1>6, <1>7
<1>9. TypeOK' /\ Placed' /\ Alive' = Alive
  BY <1>1, <1>2, <1>5, <1>7 DEF TypeOK, Modes, Placed, Alive
<1>10. \A p \in Procs : Charged(p)' = Charged(p)
  BY <1>5 DEF Charged, get_elapsed_time
<1>11. Fresh'
  BY <1>1, <1>2, <1>5, <1>7, <1>9 DEF Fresh
<1>12. Alive \subseteq Procs
  BY DEF Alive
<1>13. ChargedForTurns' /\ Readings'
  <2>1. ChargedForTurns'
    BY <1>1, <1>5, <1>9, <1>10, <1>12 DEF ChargedForTurns
  <2>2. ASSUME NEW p \in Alive
        PROVE  reading'[p][1] <= clock' - Charged(p)' /\ reading'[p][2] <= taken'[p]
    <3>1. CASE p = currProc
      <4>1. Charged(p)' = answer
        BY <1>2, <1>4, <1>10, <3>1
      <4>2. reading'[p][1] = clock - answer /\ reading'[p][2] = taken[p]
        BY <1>8, <3>1
      <4> QED
        BY <1>2, <1>5, <1>6, <3>1, <4>1, <4>2
    <3>2. CASE p # currProc
      BY <1>1, <1>5, <1>7, <1>10, <1>12, <3>2 DEF Readings
    <3> QED
      BY <3>1, <3>2
  <2>3. Readings'
    BY <1>9, <2>2 DEF Readings
  <2> QED
    BY <2>1, <2>3
<1>14. NoMoreThanReal'
  <2>1. ChargedTicks' = ChargedTicks
    BY <1>10 DEF ChargedTicks
  <2> QED
    BY <1>1, <1>5, <2>1 DEF NoMoreThanReal
<1>15. ReadingsGrow
  <2> SUFFICES ASSUME NEW p \in Alive, NEW i \in 1..2
               PROVE  reading'[p][i] >= reading[p][i]
    BY DEF ReadingsGrow
  <2>1. CASE p = currProc
    BY <1>6, <1>8, <2>1
  <2>2. CASE p # currProc
    BY <1>6, <1>7, <1>12, <2>2
  <2> QED
    BY <2>1, <2>2
<1> QED
  BY <1>9, <1>11, <1>13, <1>14 , <1>15 DEF TimeInv, Accounts

LEMMA TimeInit ==
  ASSUME CpuTimeAssumption, Init
  PROVE  TimeInv
<1>1. PICK p \in Procs : ReadyQueue = <<p>>
  BY DEF Init
<1>2. ReadyQueue \in Seq(Procs) /\ ToSet(ReadyQueue) = {p} /\ IsInjective(ReadyQueue)
      /\ ReadyQueue[1] = p
  BY <1>1 DEF ToSet, IsInjective
<1>3. /\ clock = 0 /\ mode = "switch" /\ currProc = NoProc /\ quantum = 0 /\ owner = NoProc
      /\ state = [q \in Procs |-> IF q = p THEN "ready" ELSE "dead"]
      /\ p_time = [q \in Procs |-> 0] /\ reading = [q \in Procs |-> <<0, 0>>]
      /\ spent = p_time /\ taken = p_time
  BY <1>2 DEF Init
<1>4. TypeOK
  BY <1>2, <1>3 DEF TypeOK, Modes, CpuTimeAssumption
<1>5. Placed
  BY <1>2, <1>3 DEF Placed, CpuTimeAssumption
<1>6. \A q \in Procs : Charged(q) = 0
  BY <1>3 DEF Charged, CpuTimeAssumption
<1>7. Fresh /\ ChargedForTurns /\ Readings
  BY <1>3, <1>6 DEF Fresh, ChargedForTurns, Readings, Alive
<1>8. NoMoreThanReal
  <2>1. ChargedTicks = {}
    BY <1>6 DEF ChargedTicks
  <2> QED
    BY <1>3, <2>1, FS_EmptySet DEF NoMoreThanReal
<1> QED
  BY <1>4, <1>5, <1>7, <1>8 DEF TimeInv, Accounts

LEMMA TimeStep ==
  ASSUME CpuTimeAssumption, TimeInv, [Next]_vars
  PROVE  TimeInv' /\ (ReadingsGrow \/ UNCHANGED vars)
<1>1. CASE UNCHANGED vars
  <2>1. TypeOK' /\ Placed' /\ Accounts'
    BY <1>1 DEF vars, processes, TimeInv, TypeOK, Placed, Accounts, Fresh,
       ChargedForTurns,
                Readings, NoMoreThanReal, Alive, Charged, get_elapsed_time, ChargedTicks
  <2> QED
    BY <1>1, <2>1 DEF TimeInv
<1>2. CASE Next
  <2>1. ASSUME NEW p \in Procs, state[p] = "io", Interrupt("io", p)
        PROVE  TimeInv' /\ ReadingsGrow
    BY <2>1, InterruptStep
  <2>2. ASSUME Interrupt("interval", NoProc) PROVE TimeInv' /\ ReadingsGrow
    BY <2>2, InterruptStep
  <2>3. ASSUME nontimerInterruptHandler PROVE TimeInv' /\ ReadingsGrow
    <3>1. owner \in Procs /\ state[owner] = "io"
      BY <2>3 DEF nontimerInterruptHandler, TimeInv, Placed
    <3>2. Wake({owner}) /\ {owner} \in SUBSET Procs /\ \A p \in {owner} : state[p] \in Waiting
      BY <2>3, <3>1 DEF nontimerInterruptHandler, Waiting
    <3> QED
      BY <3>2, WakeStep
  <2>4. ASSUME systemIntervalInterruptHandler PROVE TimeInv' /\ ReadingsGrow
    <3>1. PICK S : S = {p \in Procs : state[p] = "clock"}
      OBVIOUS
    <3>2. Wake(S) /\ S \in SUBSET Procs /\ \A p \in S : state[p] \in Waiting
      BY <2>4, <3>1 DEF systemIntervalInterruptHandler, Waiting
    <3> QED
      BY <3>2, WakeStep
  <2> QED
    BY <1>2, <2>1, <2>2, <2>3, <2>4, TickStep, SwitchStep, EnterStep, BlockStep,
       CreateStep,
       TerminateStep, VStep, ReadStep, PltStep DEF Next
<1> QED
  BY <1>1, <1>2

\* The inductive invariant of the accounts: who has the processor in which mode, who
\* may be dispatched, and what every process has been charged and has read.
THEOREM TimeInvariant == CpuTimeAssumption => (Spec => []TimeInv)
<1> SUFFICES ASSUME CpuTimeAssumption PROVE Spec => []TimeInv
  OBVIOUS
<1>1. Init => TimeInv
  BY TimeInit
<1>2. TimeInv /\ [Next]_vars => TimeInv'
  BY TimeStep
<1> QED
  BY <1>1, <1>2, PTL DEF Spec

\* CPU-time accounting: each process is charged for its own turns and for nothing
\* else, and all of them together for no more than real time.
THEOREM ChargesTrue == CpuTimeAssumption => (Spec => []ChargedRight)
<1> SUFFICES ASSUME CpuTimeAssumption PROVE Spec => []ChargedRight
  OBVIOUS
<1>1. TimeInv => ChargedRight
  BY DEF TimeInv, Accounts, ChargedRight
<1> QED
  BY <1>1, TimeInvariant, PTL

\* SYS6: between two answers a process is charged no more than the clock has
\* advanced and no less than its own instructions took.
THEOREM ReadingsTrue == CpuTimeAssumption => (Spec => ReadingsAgree)
<1> SUFFICES ASSUME CpuTimeAssumption PROVE Spec => [][ReadingsGrow]_vars
  BY DEF ReadingsAgree
<1>1. TimeInv /\ [Next]_vars => [ReadingsGrow]_vars
  BY TimeStep
<1> QED
  BY <1>1, TimeInvariant, PTL DEF Spec

-----------------------------------------------------------------------------
(* The dispatch of exceptions: names of Dispatch have the prefix Entry     *)

\* What is known of an exception on its way through the two levels.
OnTheWay ==
  /\ where = "nucleus" =>
       /\ saved = raised /\ done = Entry!Nothing /\ raised.pc < MaxPc
       /\ raised.code = 0 => pending # {}
  /\ where = "general" =>
       /\ supported /\ done = Entry!Nothing /\ raised.pc < MaxPc
       /\ raised.code = 8 =>
            /\ sup["general"].code = 8 /\ sup["general"].num = raised.num
            /\ sup["general"].pc = raised.pc + 1
            /\ raised.user \/ raised.num \notin 1..8
       /\ raised.code # 8 => sup["general"] = raised /\ raised.code \notin 0..3
  /\ where = "pgfault" =>
       /\ supported /\ done = Entry!Nothing
       /\ sup["pgfault"] = raised /\ raised.code \in 1..3

EntryInv == Entry!TypeOK /\ OnTheWay /\ Entry!Due /\ Entry!Restarts

LEMMA LowestLine ==
  ASSUME NEW S \in SUBSET (1..7), S # {}
  PROVE  Entry!Isolated(S) \in S /\ \A l \in S : Entry!Isolated(S) <= l
<1>1. \E x \in S : \A y \in S : x <= y
  <2> SUFFICES ASSUME \A x \in S : \E y \in S : y < x PROVE FALSE
    OBVIOUS
  <2>1. 1 \notin S
    OBVIOUS
  <2>2. 2 \notin S
    BY <2>1
  <2>3. 3 \notin S
    BY <2>1, <2>2
  <2>4. 4 \notin S
    BY <2>1, <2>2, <2>3
  <2>5. 5 \notin S
    BY <2>1, <2>2, <2>3, <2>4
  <2>6. 6 \notin S
    BY <2>1, <2>2, <2>3, <2>4, <2>5
  <2>7. 7 \notin S
    BY <2>1, <2>2, <2>3, <2>4, <2>5, <2>6
  <2>8. \A x \in 1..7 : x = 1 \/ x = 2 \/ x = 3 \/ x = 4 \/ x = 5 \/ x = 6 \/ x = 7
    OBVIOUS
  <2> QED
    BY <2>1, <2>2, <2>3, <2>4, <2>5, <2>6, <2>7, <2>8
<1> QED
  BY <1>1 DEF Entry!Isolated, Entry!Min

LEMMA SomeNumber == ASSUME Entry!DispatchAssumption PROVE Entry!Unset \in Numbers
BY DEF Entry!DispatchAssumption, Entry!Unset

\* A state of the program as the nucleus stores and changes it.
LEMMA StateTypes ==
  ASSUME Entry!DispatchAssumption, NEW s \in Entry!States
  PROVE  /\ s.code \in 0..31 /\ s.num \in Numbers /\ s.num \in Int
         /\ s.pc \in 0..MaxPc+1 /\ s.pc \in Nat /\ s.user \in BOOLEAN
         /\ s.pc < MaxPc + 1 => [s EXCEPT !.pc = @ + 1] \in Entry!States
         /\ \A c \in 0..31 : [s EXCEPT !.code = c] \in Entry!States
<1>1. /\ s.code \in 0..31 /\ s.num \in Numbers
      /\ s.pc \in 0..MaxPc+1 /\ s.user \in BOOLEAN
      /\ s = [code |-> s.code, num |-> s.num, pc |-> s.pc, user |-> s.user]
  BY DEF Entry!States
<1>2. s.num \in Int /\ MaxPc \in Nat /\ s.pc \in Nat
  BY <1>1 DEF Entry!DispatchAssumption
<1>3. ASSUME s.pc < MaxPc + 1 PROVE [s EXCEPT !.pc = @ + 1] \in Entry!States
  <2>1. s.pc + 1 \in 0..MaxPc+1
    BY <1>1, <1>2, <1>3
  <2> QED
    BY <2>1 DEF Entry!States
<1>4. \A c \in 0..31 : [s EXCEPT !.code = c] \in Entry!States
  BY DEF Entry!States
<1> QED
  BY <1>1, <1>2, <1>3, <1>4

LEMMA EntryInit == ASSUME Entry!DispatchAssumption, Entry!Init PROVE EntryInv
<1>1. Entry!Unset \in Numbers /\ MaxPc \in Nat
  BY SomeNumber DEF Entry!DispatchAssumption
<1>2. saved \in Entry!States
  BY <1>1 DEF Entry!Init, Entry!State, Entry!States
<1>3. Entry!TypeOK
  BY <1>1, <1>2 DEF Entry!Init, Entry!TypeOK, Entry!Kinds
<1>4. OnTheWay /\ Entry!Due /\ Entry!Restarts
  BY DEF Entry!Init, OnTheWay, Entry!Due, Entry!Restarts, Entry!Settled
<1> QED
  BY <1>3, <1>4 DEF EntryInv

\* Steps of the program, or of its devices, before the nucleus has its way.
LEMMA BeginStep ==
  ASSUME Entry!DispatchAssumption, EntryInv, NEW u \in BOOLEAN, NEW s \in BOOLEAN, Entry!Begin(u, s)
  PROVE  EntryInv'
<1>1. Entry!TypeOK'
  BY DEF EntryInv, Entry!Begin, Entry!TypeOK, Entry!DispatchAssumption
<1>2. OnTheWay' /\ Entry!Due' /\ Entry!Restarts'
  BY DEF Entry!Begin, OnTheWay, Entry!Due, Entry!Restarts, Entry!Settled
<1> QED
  BY <1>1, <1>2 DEF EntryInv

LEMMA RequestStep ==
  ASSUME Entry!DispatchAssumption, EntryInv, NEW l \in Lines, Entry!Request(l)
  PROVE  EntryInv'
<1>1. Entry!TypeOK'
  BY DEF EntryInv, Entry!Request, Entry!TypeOK
<1>2. OnTheWay' /\ Entry!Due' /\ Entry!Restarts'
  BY DEF Entry!Request, OnTheWay, Entry!Due, Entry!Restarts, Entry!Settled
<1> QED
  BY <1>1, <1>2 DEF EntryInv

LEMMA ExceptionStep ==
  ASSUME Entry!DispatchAssumption, EntryInv, NEW c \in 0..31, NEW n \in Numbers,
         Entry!Exception(c, n),
         c = 0 => pending # {}
  PROVE  EntryInv'
<1>1. /\ where = "running" /\ pc < MaxPc /\ where' = "nucleus" /\ done' = Entry!Nothing
      /\ saved' = Entry!State(c, n) /\ raised' = Entry!State(c, n)
      /\ UNCHANGED <<pc, user, supported, pending, sup>>
  BY DEF Entry!Exception
<1>2. Entry!State(c, n) \in Entry!States /\ Entry!State(c, n).pc = pc /\ Entry!State(c, n).code = c
  BY DEF Entry!State, Entry!States, EntryInv, Entry!TypeOK
<1>3. Entry!TypeOK'
  BY <1>1, <1>2 DEF EntryInv, Entry!TypeOK
<1>4. OnTheWay' /\ Entry!Due' /\ Entry!Restarts'
  BY <1>1, <1>2 DEF OnTheWay, Entry!Due, Entry!Restarts, Entry!Settled
<1> QED
  BY <1>3, <1>4 DEF EntryInv

\* To the grave.
LEMMA DieStep ==
  ASSUME Entry!DispatchAssumption, EntryInv, NEW d, Entry!Die(d),
         raised.code # 0,
         LET c == raised.code n == raised.num IN
         d = IF c = 8 /\ ~raised.user /\ n \in 1..8 THEN <<"nucleus", n>>
             ELSE IF c = 8 /\ supported /\ n \in 9..18 THEN <<"support", n>>
             ELSE IF c \in 2..3 /\ supported THEN <<"pager", c>>
             ELSE <<"died", c>>
  PROVE  EntryInv'
<1>1. where' = "dead" /\ done' = d /\ UNCHANGED <<pc, user, supported, pending, saved, sup, raised>>
  BY DEF Entry!Die
<1>2. Entry!TypeOK'
  BY <1>1 DEF EntryInv, Entry!TypeOK
<1>3. OnTheWay' /\ Entry!Restarts'
  BY <1>1 DEF OnTheWay, Entry!Restarts
<1>4. Entry!Due'
  BY <1>1 DEF Entry!Due
<1> QED
  BY <1>2, <1>3, <1>4 DEF EntryInv

\* The process goes on.
LEMMA LoadStep ==
  ASSUME Entry!DispatchAssumption, EntryInv, NEW s \in Entry!States, NEW d, Entry!Load(s, d),
         saved' \in Entry!States, sup' \in [Entry!Kinds -> Entry!States], pending' \subseteq Lines,
         raised.code # 8 => s.pc = raised.pc /\ s.user = raised.user,
         raised.code = 0 => \A l \in pending' : l > d[2],
         raised.code # 0 => d[1] # "line",
         raised.code # 0 =>
           LET c == raised.code n == raised.num IN
           d = IF c = 8 /\ ~raised.user /\ n \in 1..8 THEN <<"nucleus", n>>
               ELSE IF c = 8 /\ supported /\ n \in 9..18 THEN <<"support", n>>
               ELSE IF c \in 2..3 /\ supported THEN <<"pager", c>>
               ELSE <<"died", c>>
  PROVE  EntryInv'
<1>1. where' = "running" /\ pc' = s.pc /\ user' = s.user /\ done' = d
      /\ UNCHANGED <<supported, raised>>
  BY DEF Entry!Load
<1>2. s.pc \in 0..MaxPc+1 /\ s.user \in BOOLEAN
  BY StateTypes
<1>3. Entry!TypeOK'
  BY <1>1, <1>2 DEF EntryInv, Entry!TypeOK
<1>4. OnTheWay'
  BY <1>1 DEF OnTheWay
<1>5. Entry!Restarts'
  BY <1>1 DEF Entry!Restarts
<1>6. Entry!Due'
  BY <1>1 DEF Entry!Due
<1> QED
  BY <1>3, <1>4, <1>5, <1>6 DEF EntryInv

\* To the support level.
LEMMA PassUpStep ==
  ASSUME Entry!DispatchAssumption, EntryInv, where = "nucleus", NEW k \in Entry!Kinds,
         NEW s \in Entry!States,
         Entry!exceptionPassUpHandler(k, s), raised.code # 0,
         k = "general" =>
           /\ raised.code = 8 =>
                /\ raised.user \/ raised.num \notin 1..8
                /\ s.pc = raised.pc + 1 /\ s.num = raised.num /\ s.code = 8
           /\ raised.code # 8 => s = raised /\ raised.code \notin 0..3,
         k = "pgfault" => s = raised /\ raised.code \in 1..3
  PROVE  EntryInv'
<1>0. saved = raised /\ done = Entry!Nothing /\ raised.pc < MaxPc
  BY DEF EntryInv, OnTheWay
<1>1. CASE supported
  <2>1. /\ sup' = [sup EXCEPT ![k] = s] /\ saved' = s
        /\ where' = k /\ user' = FALSE /\ UNCHANGED <<pc, supported, pending, done, raised>>
    BY <1>1 DEF Entry!exceptionPassUpHandler
  <2>2. sup \in [Entry!Kinds -> Entry!States]
    BY DEF EntryInv, Entry!TypeOK
  <2>3. sup' \in [Entry!Kinds -> Entry!States] /\ sup'[k] = s
    BY <2>1, <2>2
  <2>4. Entry!TypeOK'
    BY <2>1, <2>3 DEF EntryInv, Entry!TypeOK
  <2>5. OnTheWay'
    BY <1>0, <1>1, <2>1, <2>3 DEF OnTheWay, Entry!Kinds
  <2>6. Entry!Due' /\ Entry!Restarts'
    BY <2>1 DEF Entry!Due, Entry!Restarts, Entry!Settled, Entry!Kinds
  <2> QED
    BY <2>4, <2>5, <2>6 DEF EntryInv
<1>2. CASE ~supported
  <2>1. Entry!Die(<<"died", s.code>>)
    BY <1>2 DEF Entry!exceptionPassUpHandler
  <2>2. s.code = raised.code
    BY DEF Entry!Kinds
  <2>3. raised.code = 8 => raised.user \/ raised.num \notin 1..8
    BY DEF Entry!Kinds
  <2> QED
    BY <1>2, <2>1, <2>2, <2>3, DieStep
<1> QED
  BY <1>1, <1>2

LEMMA LineStep ==
  ASSUME Entry!DispatchAssumption, EntryInv, where = "nucleus", saved.code = 0, Entry!interruptsHandler
  PROVE  EntryInv'
<1>1. saved = raised /\ pending # {}
  BY DEF EntryInv, OnTheWay
<1>2. pending \in SUBSET (1..7) /\ pending \subseteq Lines /\ saved \in Entry!States
      /\ sup \in [Entry!Kinds -> Entry!States]
  BY DEF EntryInv, Entry!TypeOK, Entry!DispatchAssumption
<1>3. Entry!Isolated(pending) \in pending /\ \A l \in pending : Entry!Isolated(pending) <= l
  BY <1>1, <1>2, LowestLine
<1> DEFINE n == Entry!Isolated(pending)
           d == <<"line", n>>
<1>4. /\ pending' = pending \ {n} /\ Entry!Load(saved, d) /\ saved' = saved /\ sup' = sup
  BY DEF Entry!interruptsHandler
<1>5. \A l \in pending' : l > d[2]
  <2>1. n \in 1..7 /\ \A l \in pending : n <= l /\ l \in 1..7
    BY <1>2, <1>3
  <2> HIDE DEF n
  <2> QED
    BY <1>4, <2>1
<1> HIDE DEF d
<1> QED
  BY <1>1, <1>2, <1>4, <1>5, LoadStep

LEMMA TrapStep ==
  ASSUME Entry!DispatchAssumption, EntryInv, where = "nucleus", saved.code = 8, Entry!sysTrapHandler
  PROVE  EntryInv'
<1> DEFINE s == [saved EXCEPT !.pc = @ + 1]
<1>1. saved = raised /\ saved \in Entry!States /\ raised.pc < MaxPc
      /\ sup \in [Entry!Kinds -> Entry!States]
      /\ pending \subseteq Lines
  BY DEF EntryInv, OnTheWay, Entry!TypeOK
<1>2. MaxPc \in Nat /\ saved.pc \in Nat
  BY <1>1, StateTypes DEF Entry!DispatchAssumption
<1>3. /\ s \in Entry!States /\ s.pc = raised.pc + 1 /\ s.num = raised.num /\ s.code = 8
      /\ s.user = raised.user /\ s.user \in BOOLEAN /\ s.num \in Int
  <2>1. s \in Entry!States
    <3>1. saved.pc < MaxPc + 1
      BY <1>1, <1>2
    <3> QED
      BY <1>1, <3>1, StateTypes
  <2>2. saved.num \in Int /\ saved.user \in BOOLEAN
    BY <1>1, StateTypes
  <2> QED
    BY <1>1, <2>1, <2>2 DEF Entry!States
<1>4. [s EXCEPT !.code = Entry!Masked(@)] = s
  <2>1. Entry!Masked(8) = 8
    BY DEF Entry!Masked
  <2>2. s = [s EXCEPT !.code = s.code]
    BY <1>3 DEF Entry!States
  <2> HIDE DEF s
  <2>3. [s EXCEPT !.code = Entry!Masked(@)] = [s EXCEPT !.code = Entry!Masked(s.code)]
    BY <1>3
  <2> QED
    BY <1>3, <2>1, <2>2, <2>3
<1>5. \/ (s.user \/ s.num \notin 1..8) /\ Entry!exceptionPassUpHandler("general", s)
      \/ ~s.user /\ s.num = 2 /\ Entry!Die(<<"nucleus", 2>>)
      \/ /\ ~s.user /\ s.num \in 1..8 /\ Entry!Load(s, <<"nucleus", s.num>>)
         /\ UNCHANGED <<pending, saved, sup>>
  BY <1>3, <1>4 DEF Entry!sysTrapHandler
<1> HIDE DEF s
<1>6. CASE (s.user \/ s.num \notin 1..8) /\ Entry!exceptionPassUpHandler("general", s)
  BY <1>1, <1>3, <1>6, PassUpStep DEF Entry!Kinds
<1>7. CASE ~s.user /\ s.num = 2 /\ Entry!Die(<<"nucleus", 2>>)
  BY <1>1, <1>3, <1>7, DieStep
<1>8. CASE /\ ~s.user /\ s.num \in 1..8 /\ Entry!Load(s, <<"nucleus", s.num>>)
           /\ UNCHANGED <<pending, saved, sup>>
  BY <1>1, <1>3, <1>8, LoadStep
<1> QED
  BY <1>5, <1>6, <1>7, <1>8

LEMMA NucleusStep ==
  ASSUME Entry!DispatchAssumption, EntryInv, Entry!gen_exception_handler
  PROVE  EntryInv'
<1>1. where = "nucleus" /\ saved = raised /\ saved \in Entry!States
  BY DEF EntryInv, OnTheWay, Entry!TypeOK, Entry!gen_exception_handler
<1>2. saved.code \in 0..31
  BY <1>1, StateTypes
<1>3. CASE saved.code = 0 /\ Entry!interruptsHandler
  BY <1>1, <1>3, LineStep
<1>4. CASE saved.code \in 1..3 /\ Entry!exceptionPassUpHandler("pgfault", saved)
  BY <1>1, <1>4, PassUpStep DEF Entry!Kinds
<1>5. CASE saved.code = 8 /\ Entry!sysTrapHandler
  BY <1>1, <1>5, TrapStep
<1>6. CASE saved.code \notin 0..3 \cup {8} /\ Entry!exceptionPassUpHandler("general", saved)
  BY <1>1, <1>2, <1>6, PassUpStep DEF Entry!Kinds
<1> QED
  BY <1>3, <1>4, <1>5, <1>6 DEF Entry!gen_exception_handler

LEMMA SupportStep ==
  ASSUME Entry!DispatchAssumption, EntryInv, Entry!sysSupportGenHandler
  PROVE  EntryInv'
<1> DEFINE s == sup["general"]
<1>1. /\ where = "general" /\ supported /\ done = Entry!Nothing /\ raised.pc < MaxPc
      /\ raised.code = 8 =>
           /\ s.code = 8 /\ s.num = raised.num /\ s.pc = raised.pc + 1
           /\ raised.user \/ raised.num \notin 1..8
      /\ raised.code # 8 => s = raised /\ raised.code \notin 0..3
  BY DEF Entry!sysSupportGenHandler, EntryInv, OnTheWay
<1>2. s \in Entry!States /\ sup \in [Entry!Kinds -> Entry!States]
      /\ saved \in Entry!States /\ raised \in Entry!States
      /\ pending \subseteq Lines
  BY DEF EntryInv, Entry!TypeOK, Entry!Kinds
<1>3. s.code \in 0..31 /\ s.num \in Int /\ s.pc \in Nat /\ MaxPc \in Nat
  BY <1>2, StateTypes DEF Entry!DispatchAssumption
<1>4. CASE s.code # 8 /\ Entry!Die(<<"died", s.code>>)
  BY <1>1, <1>3, <1>4, DieStep
<1>5. CASE s.code = 8 /\ Entry!syscall_excp_handler
  <2>1. raised.code = 8
    BY <1>1, <1>5
  <2>2. CASE s.num \notin 9..18 /\ Entry!Die(<<"died", s.code>>)
    BY <1>1, <2>1, <2>2, DieStep
  <2>3. CASE s.num = 9 /\ Entry!Die(<<"support", 9>>)
    BY <1>1, <2>1, <2>3, DieStep
  <2>4. ASSUME s.num \in 10..18, sup' = [sup EXCEPT !["general"].pc = @ + 1],
               Entry!Load(sup'["general"], <<"support", s.num>>), UNCHANGED <<pending, saved>>
        PROVE  EntryInv'
    <3> DEFINE t == [s EXCEPT !.pc = @ + 1]
    <3>1. CASE raised.pc + 1 < MaxPc + 1
      <4>1. t \in Entry!States
        BY <1>1, <1>2, <1>3, <2>1, <3>1, StateTypes
      <4>2. sup' \in [Entry!Kinds -> Entry!States] /\ sup'["general"] = t
        BY <1>2, <2>4, <4>1 DEF Entry!Kinds
      <4>3. Entry!Load(t, <<"support", s.num>>)
        BY <2>4, <4>2
      <4> QED
        BY <1>1, <1>2, <1>3, <2>1, <2>4, <4>1, <4>2, <4>3, LoadStep
    <3>2. raised.pc \in Nat
      BY <1>2, StateTypes
    <3> QED
      BY <1>1, <1>3, <3>1, <3>2
  <2> QED
    BY <1>5, <2>2, <2>3, <2>4 DEF Entry!syscall_excp_handler
<1> QED
  BY <1>4, <1>5 DEF Entry!sysSupportGenHandler

LEMMA PagerStep ==
  ASSUME Entry!DispatchAssumption, EntryInv, Entry!tlb_exception_handler
  PROVE  EntryInv'
<1> DEFINE s == sup["pgfault"]
<1>1. where = "pgfault" /\ supported /\ s = raised /\ raised.code \in 1..3
  BY DEF Entry!tlb_exception_handler, EntryInv, OnTheWay
<1>2. s \in Entry!States /\ sup \in [Entry!Kinds -> Entry!States]
      /\ saved \in Entry!States /\ pending \subseteq Lines
  BY DEF EntryInv, Entry!TypeOK, Entry!Kinds
<1>3. CASE s.code = 1 /\ Entry!Die(<<"died", 1>>)
  BY <1>1, <1>3, DieStep
<1>4. CASE s.code # 1 /\ Entry!Load(s, <<"pager", s.code>>) /\ UNCHANGED <<pending, saved, sup>>
  BY <1>1, <1>2, <1>4, LoadStep
<1> QED
  BY <1>3, <1>4 DEF Entry!tlb_exception_handler

LEMMA EntryStep ==
  ASSUME Entry!DispatchAssumption, EntryInv, [Entry!Next]_(Entry!vars)
  PROVE EntryInv'
<1>1. Codes \subseteq 0..31 /\ Entry!Unset \in Numbers
  BY SomeNumber DEF Entry!DispatchAssumption
<1>2. CASE UNCHANGED Entry!vars
  BY <1>2 DEF Entry!vars, EntryInv, Entry!TypeOK, OnTheWay, Entry!Due, Entry!Restarts,
     Entry!Settled
<1>3. ASSUME NEW c \in Codes \ {0, 8}, Entry!Exception(c, Entry!Unset) PROVE EntryInv'
  BY <1>1, <1>3, ExceptionStep
<1>4. ASSUME NEW n \in Numbers, Entry!Exception(8, n) PROVE EntryInv'
  BY <1>4, ExceptionStep
<1>5. CASE pending # {} /\ Entry!Exception(0, Entry!Unset)
  BY <1>1, <1>5, ExceptionStep
<1>6. ASSUME NEW u \in BOOLEAN, NEW s \in BOOLEAN, Entry!Begin(u, s) PROVE EntryInv'
  BY <1>6, BeginStep
<1>7. CASE Entry!Begin(user, supported)
  BY <1>6, <1>7 DEF EntryInv, Entry!TypeOK
<1> QED
  BY <1>2, <1>3, <1>4, <1>5, <1>6, <1>7, RequestStep, NucleusStep, SupportStep, PagerStep
     DEF Entry!Next

\* The inductive invariant of the way of an exception: at each of its stations the
\* state that goes on is the one that was raised, but for the program counter.
THEOREM EntryInvariant == Entry!DispatchAssumption => (Entry!Spec => []EntryInv)
<1> SUFFICES ASSUME Entry!DispatchAssumption PROVE Entry!Spec => []EntryInv
  OBVIOUS
<1>1. Entry!Init => EntryInv
  BY EntryInit
<1>2. EntryInv /\ [Entry!Next]_(Entry!vars) => EntryInv'
  BY EntryStep
<1> QED
  BY <1>1, <1>2, PTL DEF Entry!Spec

\* A behaviour of the parts is one of the dispatch of exceptions, or leaves it alone.
LEMMA PartsInvariant ==
  Entry!DispatchAssumption => (PartsSpec => [](part = "entry" => EntryInv))
<1> DEFINE I == part = "entry" => EntryInv
<1> SUFFICES ASSUME Entry!DispatchAssumption PROVE PartsSpec => []I
  OBVIOUS
<1>1. PartsInit => I
  BY EntryInit DEF PartsInit
<1>2. I /\ [PartsNext]_parts => I'
  <2> SUFFICES ASSUME I, [PartsNext]_parts, part' = "entry" PROVE EntryInv'
    OBVIOUS
  <2>1. part = "entry" /\ [Entry!Next]_(Entry!vars)
    BY DEF PartsNext, parts, entry, Entry!vars
  <2> QED
    BY <2>1, EntryStep
<1> QED
  BY <1>1, <1>2, PTL DEF PartsSpec

\* gen_exception_handler, sysSupportGenHandler: whatever way an exception takes
\* through the early returns of both levels, it comes to what is due.
THEOREM ExceptionsDue == Entry!DispatchAssumption => (PartsSpec => []Due)
<1> SUFFICES ASSUME Entry!DispatchAssumption PROVE PartsSpec => []Due
  OBVIOUS
<1>1. (part = "entry" => EntryInv) => Due
  BY DEF EntryInv, Due
<1> QED
  BY <1>1, PartsInvariant, PTL

\* interruptsHandler, and the way back from the pager: the instruction is executed
\* again in its mode, and of the lines that request an interrupt the lowest is served.
THEOREM Restarted == Entry!DispatchAssumption => (PartsSpec => []Restarts)
<1> SUFFICES ASSUME Entry!DispatchAssumption PROVE PartsSpec => []Restarts
  OBVIOUS
<1>1. (part = "entry" => EntryInv) => Restarts
  BY DEF EntryInv, Restarts
<1> QED
  BY <1>1, PartsInvariant, PTL
=============================================================================
