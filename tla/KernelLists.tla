----------------------------- MODULE KernelLists -----------------------------
(***************************************************************************)
(* The data structures of phase 1, pointer by pointer: the free list, the  *)
(* circular queues and the sibling lists of process blocks (pcb.c), and    *)
(* the sorted list of active semaphores with its dummies (asl.c).  The     *)
(* functions are operators from a heap to a heap; pointers are numbers,    *)
(* Null is NULL.  A queue is named by what holds its tail pointer: Ready,  *)
(* the queue outside this module, or a semaphore descriptor.               *)
(***************************************************************************)
EXTENDS Integers, Sequences, FiniteSets

CONSTANTS
  MaxProc,     \* MAXPROC
  MaxSemd,     \* MAXPROC_SEM, with the two dummies
  Sem,         \* addresses of semaphores, all above LargestAddr
  LargestAddr  \* LARGEST_ADDR, the address in the tail dummy

\* What the constants must be; the modules of the runs assume it.
ListsAssumption ==
  /\ MaxProc \in Nat \ {0} /\ MaxSemd \in Nat /\ MaxSemd >= 2
  /\ LargestAddr \in Nat \ {0} /\ \A a \in Sem : a > LargestAddr

Null == 0
Pcb == 1..MaxProc
Semd == 1..MaxSemd
Ready == 0
Queues == {Ready} \cup Semd

\* Writes through Null do not happen.
Put(f, x, v) == IF x = Null THEN f ELSE [f EXCEPT ![x] = v]
Link(h, a, b) == [h EXCEPT !.next = Put(@, a, b), !.prev = Put(@, b, a)]

\* The nodes a loop along f meets from x up to stop or Null, at most n.
Walk(f, x, stop, n) ==
  LET from[y \in DOMAIN f \cup {Null}, k \in 0..n] ==
        IF y = Null \/ k = 0 THEN <<>>
        ELSE IF y = stop THEN <<y>>
        ELSE <<y>> \o from[f[y], k - 1]
  IN from[x, n]

-----------------------------------------------------------------------------
(* The free list                                                           *)

freePcb(h, p) ==
  [h EXCEPT !.next[p] = h.pcbFree, !.prev = Put(Put(@, p, Null), h.pcbFree, p),
            !.pcbFree = p]

\* The links of the tree are p_child, p_sib (which nothing uses) and p_prnt.
allocPcb(h) ==
  LET p == h.pcbFree IN
  IF p = Null THEN h
  ELSE [h EXCEPT !.pcbFree = h.next[p], !.prev = Put(Put(@, h.next[p], Null), p, Null),
                 !.next[p] = Null, !.child[p] = Null, !.prnt[p] = Null,
                 !.semAdd[p] = Null]

initPcbs(h) ==
  LET freed[n \in 0..MaxProc] ==
        IF n = 0 THEN [h EXCEPT !.pcbFree = Null] ELSE freePcb(freed[n - 1], n)
  IN freed[MaxProc]

-----------------------------------------------------------------------------
(* Queues                                                                  *)

insertProcQ(h, q, p) ==
  LET t == h.tail[q] IN
  IF t = Null THEN [Link(h, p, p) EXCEPT !.tail[q] = p]
  ELSE [Link(Link(h, p, h.next[t]), t, p) EXCEPT !.tail[q] = p]

emptyProcQ(h, q) == h.tail[q] = Null

headProcQ(h, q) == IF emptyProcQ(h, q) THEN Null ELSE h.next[h.tail[q]]

\* p is taken out from behind the block before it.
Unlink(h, q, before, p) ==
  LET l == [h EXCEPT !.tail[q] = IF before = p THEN Null
                                 ELSE IF @ = p THEN before ELSE @]
      m == IF before = p THEN l ELSE Link(l, before, h.next[p])
  IN [m EXCEPT !.next[p] = Null, !.prev[p] = Null]

removeProcQ(h, q) ==
  IF emptyProcQ(h, q) THEN h ELSE Unlink(h, q, h.tail[q], headProcQ(h, q))

\* The blocks from the head to the tail, as the loop of outProcQ meets them.
Chain(h, q) ==
  LET t == h.tail[q] IN
  IF t = Null THEN <<>> ELSE Walk(h.next, h.next[t], t, MaxProc)

Position(s, x) == {n \in DOMAIN s : s[n] = x}

\* Mutant: the tail pointer stays when the last block is taken out.
outProcQ_KeepsTail(h, q, p) ==
  LET c == Chain(h, q)
      l == CHOOSE n \in Position(c, p) : TRUE IN
  IF Position(c, p) = {} THEN h
  ELSE [Unlink(h, q, IF l = 1 THEN h.tail[q] ELSE c[l - 1], p)
          EXCEPT !.tail[q] = IF Len(c) = 1 THEN Null ELSE h.tail[q]]

outProcQ(h, q, p) ==
  LET c == Chain(h, q)
      l == CHOOSE n \in Position(c, p) : TRUE IN
  IF Position(c, p) = {} THEN h
  ELSE Unlink(h, q, IF l = 1 THEN h.tail[q] ELSE c[l - 1], p)

-----------------------------------------------------------------------------
(* Trees                                                                   *)

insertChild(h, prnt, p) ==
  [h EXCEPT !.child[prnt] = p, !.prnt[p] = prnt, !.rsib[p] = h.child[prnt],
            !.lsib = Put(Put(@, p, Null), h.child[prnt], p)]

emptyChild(h, p) == h.child[p] = Null

removeChild(h, prnt) ==
  LET c == h.child[prnt] IN
  IF emptyChild(h, prnt) THEN h
  ELSE [h EXCEPT !.child[prnt] = h.rsib[c], !.prnt[c] = Null, !.rsib[c] = Null,
                 !.lsib = Put(Put(@, c, Null), h.rsib[c], Null)]

\* Mutant: the right sibling goes on pointing to the block taken out.
outChild_OneWay(h, p) ==
  LET l == h.lsib[p] r == h.rsib[p] IN
  IF h.prnt[p] = Null THEN h
  ELSE [h EXCEPT !.child = IF l = Null THEN [@ EXCEPT ![h.prnt[p]] = r] ELSE @,
                 !.rsib = Put(Put(@, l, r), p, Null),
                 !.lsib = Put(@, p, Null),
                 !.prnt[p] = Null]

outChild(h, p) ==
  LET l == h.lsib[p] r == h.rsib[p] IN
  IF h.prnt[p] = Null THEN h
  ELSE [h EXCEPT !.child = IF l = Null THEN [@ EXCEPT ![h.prnt[p]] = r] ELSE @,
                 !.rsib = Put(Put(@, l, r), p, Null),
                 !.lsib = Put(Put(@, r, l), p, Null),
                 !.prnt[p] = Null]

-----------------------------------------------------------------------------
(* Active semaphores                                                       *)

freeSemaphore(h, d) == [h EXCEPT !.sNext[d] = h.semdFree, !.semdFree = d]

initASL(h) ==
  LET freed[n \in 0..MaxSemd] ==
        IF n = 0 THEN [h EXCEPT !.semdFree = Null] ELSE freeSemaphore(freed[n - 1], n)
      g == freed[MaxSemd]
      head == g.semdFree
      tail == g.sNext[head]
  IN [g EXCEPT !.semdFree = g.sNext[tail],
               !.sNext = [@ EXCEPT ![tail] = Null, ![head] = tail],
               !.sAdd = [@ EXCEPT ![tail] = LargestAddr, ![head] = 0],
               !.semd_h = head]

\* The descriptors in the order of the list.
Descriptors(h) == Walk(h.sNext, h.semd_h, Null, MaxSemd)

\* The descriptor in front of the first that is not below a or is the tail.
search_semp(h, a) ==
  LET d == Descriptors(h)
      stop == {n \in DOMAIN d : h.sAdd[d[n]] >= a \/ h.sAdd[d[n]] = LargestAddr}
      n == IF stop = {} THEN Len(d) + 1 ELSE CHOOSE m \in stop : \A k \in stop : m <= k
  IN IF n = 1 THEN Null ELSE d[n - 1]

Found(h, a) ==
  LET before == search_semp(h, a)
      d == IF before = Null THEN Null ELSE h.sNext[before]
  IN IF d # Null /\ h.sAdd[d] = a THEN d ELSE Null

insertRefused(h, a) == Found(h, a) = Null /\ h.semdFree = Null

\* Mutant: the process notes the semaphore before a descriptor is found for it.
insertBlocked_NotesFirst(h, a, p) ==
  LET before == search_semp(h, a)
      d == IF Found(h, a) # Null THEN Found(h, a) ELSE h.semdFree
      g == IF Found(h, a) # Null THEN h
           ELSE [h EXCEPT !.semdFree = h.sNext[d], !.sAdd[d] = a, !.tail[d] = Null,
                          !.sNext = [@ EXCEPT ![d] = h.sNext[before], ![before] = d]]
  IN IF insertRefused(h, a) THEN [h EXCEPT !.semAdd[p] = a]
     ELSE [insertProcQ(g, d, p) EXCEPT !.semAdd[p] = a]

insertBlocked(h, a, p) ==
  LET before == search_semp(h, a)
      d == IF Found(h, a) # Null THEN Found(h, a) ELSE h.semdFree
      g == IF Found(h, a) # Null THEN h
           ELSE [h EXCEPT !.semdFree = h.sNext[d], !.sAdd[d] = a, !.tail[d] = Null,
                          !.sNext = [@ EXCEPT ![d] = h.sNext[before], ![before] = d]]
  IN IF insertRefused(h, a) THEN h
     ELSE [insertProcQ(g, d, p) EXCEPT !.semAdd[p] = a]

\* Mutant: a descriptor with an empty queue stays in the list.
Retire_Keeps(h, a, d) == h

\* The descriptor goes back to the free list with its last process.
Retire(h, a, d) ==
  IF ~emptyProcQ(h, d) THEN h
  ELSE freeSemaphore([h EXCEPT !.sNext[search_semp(h, a)] = h.sNext[d]], d)

headBlocked(h, a) == IF Found(h, a) = Null THEN Null ELSE headProcQ(h, Found(h, a))

removeBlocked(h, a) ==
  LET d == Found(h, a) p == headBlocked(h, a) IN
  IF p = Null THEN h
  ELSE Retire([removeProcQ(h, d) EXCEPT !.semAdd[p] = Null], a, d)

\* Whether outBlocked finds p where p_semAdd says it is.
Waits(h, p) ==
  LET d == Found(h, h.semAdd[p]) IN
  h.semAdd[p] # Null /\ d # Null /\ Position(Chain(h, d), p) # {}

outBlocked(h, p) ==
  LET a == h.semAdd[p] IN
  IF ~Waits(h, p) THEN h
  ELSE Retire([outProcQ(h, Found(h, a), p) EXCEPT !.semAdd[p] = Null], a, Found(h, a))

\* Memory before initPcbs and initASL.
Blank ==
  LET zero == [p \in Pcb |-> Null] none == [d \in Semd |-> Null] IN
  [next |-> zero, prev |-> zero, child |-> zero, prnt |-> zero, lsib |-> zero,
   rsib |-> zero, semAdd |-> zero, pcbFree |-> Null,
   tail |-> [q \in Queues |-> Null],
   sNext |-> none, sAdd |-> none, semd_h |-> Null, semdFree |-> Null]
=============================================================================
