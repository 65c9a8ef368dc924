--------------------------- MODULE ListOperations ---------------------------
(***************************************************************************)
(* The operations of KernelLists in any order the kernel may call them in: *)
(* a process block is freed when it is in no queue and no tree, queued     *)
(* once at a time, and made a child when it has just been allocated.       *)
(***************************************************************************)
EXTENDS KernelLists

VARIABLES h, ret

vars == <<h, ret>>

Members(s) == {s[n] : n \in DOMAIN s}
FreePcbs == Members(Walk(h.next, h.pcbFree, Null, MaxProc))
Active == Members(Descriptors(h)) \ {d \in Semd : h.sAdd[d] \in {0, LargestAddr}}
Queued(p) == \E q \in {Ready} \cup Active : p \in Members(Chain(h, q))
Used(p) == p \notin FreePcbs
Alone(p) == Used(p) /\ h.prnt[p] = Null /\ h.child[p] = Null

Init ==
  /\ h = initASL(initPcbs(Blank))
  /\ ret = Null

Returns(g, r) == h' = g /\ ret' = r

Next ==
  \/ Returns(allocPcb(h), h.pcbFree)
  \/ Returns(removeProcQ(h, Ready), headProcQ(h, Ready))
  \/ \E p \in Pcb :
       \/ Alone(p) /\ ~Queued(p) /\ Returns(freePcb(h, p), Null)
       \/ Used(p) /\ ~Queued(p) /\ Returns(insertProcQ(h, Ready, p), Null)
       \/ Used(p) /\ Returns(outProcQ(h, Ready, p),
                             IF p \in Members(Chain(h, Ready))
                             THEN p ELSE Null)
       \/ Used(p) /\ Returns(removeChild(h, p), h.child[p])
       \/ Used(p) /\ Returns(outChild(h, p), IF h.prnt[p] = Null THEN Null ELSE p)
       \/ Used(p) /\ Returns(outBlocked(h, p), IF Waits(h, p) THEN p ELSE Null)
       \/ \E c \in Pcb : /\ Used(p) /\ Alone(c) /\ c # p
                         /\ Returns(insertChild(h, p, c), Null)
       \/ \E a \in Sem : /\ Used(p) /\ ~Queued(p)
                         /\ Returns(insertBlocked(h, a, p),
                                    IF insertRefused(h, a) THEN Null ELSE p)
  \/ \E a \in Sem : \/ Returns(removeBlocked(h, a), headBlocked(h, a))
                    \/ Returns(h, headBlocked(h, a))

Spec == Init /\ [][Next]_vars

-----------------------------------------------------------------------------
(* Properties                                                              *)

\* Forward and backward pointers agree: in every queue, among siblings, and
\* between a child and its parent.
LinksAgree ==
  /\ \A p \in Pcb : Queued(p) => h.next[h.prev[p]] = p /\ h.prev[h.next[p]] = p
  /\ \A p \in Pcb : Used(p) =>
       /\ h.rsib[p] # Null => h.lsib[h.rsib[p]] = p /\ h.prnt[h.rsib[p]] = h.prnt[p]
       /\ h.lsib[p] # Null => h.rsib[h.lsib[p]] = p
       /\ h.child[p] # Null => h.prnt[h.child[p]] = p /\ h.lsib[h.child[p]] = Null

\* The active list is sorted between its dummies, has no empty queue, and with
\* the free list it accounts for every descriptor.
AslSorted ==
  LET d == Descriptors(h) IN
  /\ \A n \in 2..Len(d)-1 : /\ h.sAdd[d[n]] \in Sem /\ h.tail[d[n]] # Null
                            /\ n > 2 => h.sAdd[d[n-1]] < h.sAdd[d[n]]
  /\ h.sAdd[d[1]] = 0 /\ h.sAdd[d[Len(d)]] = LargestAddr
  /\ Len(d) + Len(Walk(h.sNext, h.semdFree, Null, MaxSemd)) = MaxSemd

\* A process block knows the semaphore it waits for.
SemAddAgrees ==
  \A p \in Pcb : Used(p) =>
    {h.semAdd[p]} \ {Null} = {h.sAdd[d] : d \in {e \in Active : p \in Members(Chain(h, e))}}

Children(p) == Walk(h.rsib, h.child[p], Null, MaxProc)

Waiting(a) ==
  LET D == {d \in Active : h.sAdd[d] = a} IN
  IF D = {} THEN <<>> ELSE Chain(h, CHOOSE d \in D : TRUE)

children == [p \in Pcb |-> IF Used(p) THEN Children(p) ELSE <<>>]
blocked == [a \in Sem |-> Waiting(a)]
View == <<FreePcbs, Chain(h, Ready), children, blocked, ret>>

Service == INSTANCE ListService WITH
  NumSem <- MaxSemd - 2,
  free <- FreePcbs,
  ready <- Chain(h, Ready)

\* One step of ListService, or none.
ServiceStep == Service!Next \/ UNCHANGED View

\* The pointers implement the pool, the queues and the sets of children.
ImplementsLists == Service!Spec
=============================================================================
