----------------------------- MODULE ListService -----------------------------
(***************************************************************************)
(* What pcb.c and asl.c promise: a pool of process blocks, first-in        *)
(* first-out queues, an ordered set of children for each process, and a    *)
(* queue for each of at most NumSem semaphores.                            *)
(***************************************************************************)
EXTENDS Sequences, SequencesExt, FiniteSets

CONSTANTS Pcb, Sem, NumSem, Null

VARIABLES
  free,       \* the pool
  ready,      \* a queue
  children,   \* the youngest first
  blocked,    \* the queue of each semaphore
  ret         \* what the last operation returned

listVars == <<free, ready, children, blocked, ret>>

Init ==
  /\ free = Pcb
  /\ ready = <<>>
  /\ children = [p \in Pcb |-> <<>>]
  /\ blocked = [s \in Sem |-> <<>>]
  /\ ret = Null

First(q) == IF q = <<>> THEN Null ELSE Head(q)
Rest(q) == IF q = <<>> THEN q ELSE Tail(q)
In(q, p) == p \in ToSet(q)
Drop(q, p) == SelectSeq(q, LAMBDA x : x # p)

allocPcb ==
  /\ ret' \in IF free = {} THEN {Null} ELSE free
  /\ free' = free \ {ret'}
  /\ UNCHANGED <<ready, children, blocked>>

freePcb(p) ==
  /\ ret' = Null
  /\ free' = free \cup {p}
  /\ UNCHANGED <<ready, children, blocked>>

insertProcQ(p) ==
  /\ ret' = Null
  /\ ready' = Append(ready, p)
  /\ UNCHANGED <<free, children, blocked>>

removeProcQ ==
  /\ ret' = First(ready) /\ ready' = Rest(ready)
  /\ UNCHANGED <<free, children, blocked>>

outProcQ(p) ==
  /\ ret' = IF In(ready, p) THEN p ELSE Null
  /\ ready' = Drop(ready, p)
  /\ UNCHANGED <<free, children, blocked>>

insertChild(p, c) ==
  /\ ret' = Null
  /\ children' = [children EXCEPT ![p] = <<c>> \o @]
  /\ UNCHANGED <<free, ready, blocked>>

removeChild(p) ==
  /\ ret' = First(children[p])
  /\ children' = [children EXCEPT ![p] = Rest(@)]
  /\ UNCHANGED <<free, ready, blocked>>

outChild(c) ==
  /\ ret' = IF \E p \in Pcb : In(children[p], c) THEN c ELSE Null
  /\ children' = [p \in Pcb |-> Drop(children[p], c)]
  /\ UNCHANGED <<free, ready, blocked>>

\* Refused (Null) when the semaphore is not active and NumSem others are.
insertBlocked(s, p) ==
  LET refused == /\ blocked[s] = <<>>
                 /\ Cardinality({t \in Sem : blocked[t] # <<>>}) = NumSem IN
  /\ ret' = IF refused THEN Null ELSE p
  /\ blocked' = IF refused THEN blocked ELSE [blocked EXCEPT ![s] = Append(@, p)]
  /\ UNCHANGED <<free, ready, children>>

removeBlocked(s) ==
  /\ ret' = First(blocked[s])
  /\ blocked' = [blocked EXCEPT ![s] = Rest(@)]
  /\ UNCHANGED <<free, ready, children>>

outBlocked(p) ==
  /\ ret' = IF \E s \in Sem : In(blocked[s], p) THEN p ELSE Null
  /\ blocked' = [s \in Sem |-> Drop(blocked[s], p)]
  /\ UNCHANGED <<free, ready, children>>

headBlocked(s) ==
  /\ ret' = First(blocked[s])
  /\ UNCHANGED <<free, ready, children, blocked>>

Next ==
  \/ allocPcb \/ removeProcQ
  \/ \E p \in Pcb :
       \/ freePcb(p) \/ insertProcQ(p) \/ outProcQ(p) \/ removeChild(p)
       \/ outChild(p) \/ outBlocked(p)
       \/ \E c \in Pcb : insertChild(p, c)
       \/ \E s \in Sem : insertBlocked(s, p)
  \/ \E s \in Sem : removeBlocked(s) \/ headBlocked(s)

Spec == Init /\ [][Next]_listVars
=============================================================================
