----------------------------- MODULE PagerProofs -----------------------------
(***************************************************************************)
(* The swap pool, the page tables and the TLB agree, and one process at a  *)
(* time changes them, also when flash operations fail and processes end in *)
(* the middle.  Whatever is taken out, brought in, refilled or lost, each  *)
(* process sees a private memory (PagedMemory).  All of it for any number  *)
(* of processes, pages, frames and contents.                               *)
(***************************************************************************)
EXTENDS Pager, QueueLemmas

\* p is past the P on semaphore_swapPool.
Inside(p) == HoldsPool(p) /\ p \notin ToSet(sem[SwapPool].queue)

\* The mutex: who waits has its P behind it, and a unit that is left means that
\* nobody is inside.
PoolLock ==
  /\ \A p \in Proc : p \in ToSet(sem[SwapPool].queue) => pc[p] = "pick"
  /\ sem[SwapPool].val <= 1
  /\ sem[SwapPool].val = 1 => \A p \in Proc : ~Inside(p)
  /\ \A p, q \in Proc : Inside(p) /\ Inside(q) => p = q

Chosen(p) == HoldsPool(p) /\ pc[p] # "pick" /\ pc[p] # "release"

\* No page is valid in a frame that a process is emptying or filling.
VictimUnused ==
  \A p \in Proc : Chosen(p) => \A q \in Proc, g \in Page : pte[q][g] # victim[p]

\* Only an occupied frame is written out.
VictimOccupied ==
  \A p \in Proc : pc[p] \in {"out", "outIO", "outV", "outErr"} => swap[victim[p]] # FREE

IInv == TypeOK /\ FramesOwned /\ TlbAgrees /\ PoolLock /\ VictimUnused /\ VictimOccupied

\* Where a process is in a program counter, and what the mutex names are.
LEMMA Names ==
  /\ SwapPool \notin Proc
  /\ 0 \in Frame
  /\ \A f \in Frame : f \in Int /\ f # Invalid /\ f # Absent
  /\ Invalid # Absent
  /\ FREE \notin Page \cup Stray \cup Occupant
<1>1. 0 \in Frame /\ \A f \in Frame : f \in Int
  BY PagerAssumption DEF Frame
<1> QED
  BY <1>1, PagerAssumption DEF Frame

\* A page is looked up in an entry of a page table.
LEMMA SlotType == ASSUME NEW g PROVE Slot(g) \in Page
  BY PagerAssumption DEF Slot

-----------------------------------------------------------------------------
(* The mutex on the swap pool.                                             *)

\* A step that leaves semaphore_swapPool alone, by a process that does not
\* come past its P.
LEMMA LockKept ==
  ASSUME PoolLock, TypeOK, NEW p \in Proc, NEW l,
         p \notin ToSet(sem[SwapPool].queue),
         sem'[SwapPool] = sem[SwapPool],
         pc' = [pc EXCEPT ![p] = l],
         HoldsPool(p)' => HoldsPool(p)
  PROVE  PoolLock'
<1>1. \A q \in Proc : q # p => pc'[q] = pc[q]
  BY DEF TypeOK
<1>2. \A q \in Proc : Inside(q)' => Inside(q)
  BY <1>1 DEF Inside, HoldsPool
<1> QED
  BY <1>1, <1>2 DEF PoolLock

\* The P on the mutex of the pool.
LEMMA PoolP ==
  ASSUME TypeOK, NEW p \in Proc, P(p, "fault", SwapPool, "pick")
  PROVE  /\ sem'[SwapPool].val = sem[SwapPool].val - 1
         /\ sem[SwapPool].val > 0 =>
              ToSet(sem'[SwapPool].queue) = ToSet(sem[SwapPool].queue)
         /\ ~(sem[SwapPool].val > 0) =>
              ToSet(sem'[SwapPool].queue) = ToSet(sem[SwapPool].queue) \cup {p}
<1> PICK S, sm, new : S = {SwapPool} \cup Proc /\ sm = sem /\ new = sem'
  OBVIOUS
<1>1. sm \in Semaphores(S, Proc) /\ SwapPool \in S
  BY DEF TypeOK
<1>2. new = passeren(sm, SwapPool, p)
  BY DEF P
<1>3. /\ new[SwapPool].val = sm[SwapPool].val - 1
      /\ sm[SwapPool].val > 0 => new[SwapPool].queue = sm[SwapPool].queue
  BY <1>1, <1>2, TakeFacts
<1>4. ~(sm[SwapPool].val > 0) => new[SwapPool].queue = Append(sm[SwapPool].queue, p)
  BY <1>1, <1>2, TakeFacts
<1>5. ToSet(Append(sm[SwapPool].queue, p)) = ToSet(sm[SwapPool].queue) \cup {p}
  BY <1>1, AppendQ DEF Semaphores
<1> QED
  BY <1>3, <1>4, <1>5

LEMMA PoolTaken ==
  ASSUME PoolLock, TypeOK, NEW p \in Proc, P(p, "fault", SwapPool, "pick")
  PROVE  PoolLock'
<1>1. sem[SwapPool].val \in Int
  BY DEF TypeOK, Semaphores
<1>2. /\ sem'[SwapPool].val = sem[SwapPool].val - 1
      /\ sem[SwapPool].val > 0 =>
           ToSet(sem'[SwapPool].queue) = ToSet(sem[SwapPool].queue)
      /\ ~(sem[SwapPool].val > 0) =>
           ToSet(sem'[SwapPool].queue) = ToSet(sem[SwapPool].queue) \cup {p}
  BY PoolP
<1>3. /\ pc[p] = "fault" /\ pc'[p] = "pick"
      /\ \A q \in Proc : q # p => pc'[q] = pc[q]
  BY DEF P, At, Goto, TypeOK
<1>4. \A q \in Proc : q # p /\ Inside(q)' => Inside(q)
  BY <1>2, <1>3 DEF Inside, HoldsPool
<1>5. \A q \in Proc : q \in ToSet(sem'[SwapPool].queue) => pc'[q] = "pick"
  BY <1>2, <1>3 DEF PoolLock
<1>6. CASE sem[SwapPool].val > 0
  <2>1. sem[SwapPool].val = 1 /\ \A q \in Proc : ~Inside(q)
    BY <1>1, <1>6 DEF PoolLock
  <2> QED
    BY <1>1, <1>2, <1>4, <1>5, <2>1 DEF PoolLock
<1>7. CASE ~(sem[SwapPool].val > 0)
  <2>1. ~Inside(p)'
    BY <1>2, <1>7 DEF Inside
  <2>2. sem'[SwapPool].val <= 1 /\ sem'[SwapPool].val # 1
    BY <1>1, <1>2, <1>7
  <2> QED
    BY <1>4, <1>5, <2>1, <2>2 DEF PoolLock
<1> QED
  BY <1>6, <1>7

LEMMA PoolGiven ==
  ASSUME PoolLock, TypeOK, NEW p \in Proc, V(p, "release", SwapPool, "user")
  PROVE  PoolLock'
<1> DEFINE S == {SwapPool} \cup Proc
<1>1. sem \in Semaphores(S, Proc) /\ sem[SwapPool].val \in Int /\ DOMAIN sem = S
  BY DEF TypeOK, Semaphores
<1> DEFINE old == ToSet(sem[SwapPool].queue)
<1> DEFINE now == ToSet(sem'[SwapPool].queue)
<1>2. /\ sem'[SwapPool].val = sem[SwapPool].val + 1
      /\ \A x \in now : x \in old
  <2>1. sem' = verhogen(sem, SwapPool)
    BY DEF V
  <2>2. SwapPool \in S
    OBVIOUS
  <2> HIDE DEF S
  <2>3. sem'[SwapPool].val = sem[SwapPool].val + 1
    BY <1>1, <2>1, <2>2, GiveFacts
  <2>4. \A x \in now : x \in old
    BY <1>1, <2>1, <2>2, GivePops
  <2> QED
    BY <2>3, <2>4
<1>3. ASSUME NEW x \in old, NEW y \in old, x \notin now, y \notin now
      PROVE  x = y /\ sem[SwapPool].val < 0
  <2>1. sem' = verhogen(sem, SwapPool)
    BY DEF V
  <2>2. SwapPool \in S
    OBVIOUS
  <2> HIDE DEF S
  <2> QED
    BY <1>1, <1>3, <2>1, <2>2, GivePops
<1>4. /\ pc[p] = "release" /\ pc'[p] = "user" /\ p \notin ToSet(sem[SwapPool].queue)
      /\ \A q \in Proc : q # p => pc'[q] = pc[q]
  BY <1>1 DEF V, At, Goto, TypeOK, Blocked
<1>5. Inside(p) /\ ~Inside(p)' /\ sem[SwapPool].val # 1
  BY <1>4 DEF Inside, HoldsPool, PoolLock
\* Whoever is inside now has been taken off the queue.
<1>6. \A q \in Proc : Inside(q)' =>
        /\ q \in ToSet(sem[SwapPool].queue) /\ q \notin ToSet(sem'[SwapPool].queue)
        /\ sem[SwapPool].val < 0
  <2> SUFFICES ASSUME NEW q \in Proc, Inside(q)'
               PROVE  /\ q \in ToSet(sem[SwapPool].queue)
                      /\ q \notin ToSet(sem'[SwapPool].queue)
                      /\ sem[SwapPool].val < 0
    OBVIOUS
  <2>1. q # p /\ HoldsPool(q) /\ q \notin ToSet(sem'[SwapPool].queue)
    BY <1>4, <1>5 DEF Inside, HoldsPool
  <2>2. q \in ToSet(sem[SwapPool].queue)
    BY <1>5, <2>1 DEF Inside, PoolLock
  <2> QED
    BY <1>1, <1>2, <1>3, <2>1, <2>2
<1>7. \A q \in Proc : q \in ToSet(sem'[SwapPool].queue) => pc'[q] = "pick"
  BY <1>2, <1>4 DEF PoolLock
<1>8. sem'[SwapPool].val <= 1 /\ (sem'[SwapPool].val = 1 => ~(sem[SwapPool].val < 0))
  BY <1>1, <1>2, <1>5 DEF PoolLock
<1> QED
  BY <1>2, <1>3, <1>6, <1>7, <1>8 DEF PoolLock

-----------------------------------------------------------------------------
(* Types                                                                   *)

Pcs == {"user", "outErr", "inErr"} \cup PagerPc \cup NukePc

LEMMA FrameFound == ASSUME TypeOK PROVE find_frame_swapPool \in Frame
<1> DEFINE Ahead(i) == (last + i) % NumFrames
<1> DEFINE F == {i \in 0..NumFrames-1 : swap[Ahead(i)] = FREE}
<1>1. NumFrames \in Nat \ {0} /\ last \in Int
  BY PagerAssumption DEF TypeOK, Frame
<1>2. \A i \in Int : Ahead(i) \in Frame
  BY <1>1 DEF Frame
<1>3. CASE F = {}
  BY <1>2, <1>3 DEF find_frame_swapPool
<1>4. CASE F # {}
  <2>1. F \subseteq Nat
    BY <1>1
  <2> DEFINE least == CHOOSE k \in F : \A j \in F : k <= j
  <2>2. least \in Nat
    <3> HIDE DEF F
    <3>1. PICK i \in F : \A j \in F : ~ (<<j, i>> \in OpToRel(<, Nat))
      BY <1>4, <2>1, WFMin, NatLessThanWellFounded
    <3>2. \A j \in F : ~ (j < i)
      BY <2>1, <3>1 DEF OpToRel
    <3>3. \A j \in F : i <= j
      BY <2>1, <3>2
    <3> QED
      BY <2>1, <3>3
  <2>3. find_frame_swapPool = Ahead(least)
    BY <1>4 DEF find_frame_swapPool
  <2> HIDE DEF least
  <2> QED
    BY <1>2, <2>2, <2>3
<1> QED
  BY <1>3, <1>4

\* A P or a V changes no more than the semaphore and the program counter.
LEMMA PType ==
  ASSUME TypeOK, NEW p \in Proc, NEW from, NEW s \in {SwapPool} \cup Proc,
         NEW to \in Pcs, P(p, from, s, to)
  PROVE  TypeOK'
<1> DEFINE S == {SwapPool} \cup Proc
<1>1. sem \in Semaphores(S, Proc) /\ sem' = passeren(sem, s, p) /\ s \in S
  BY DEF TypeOK, P
<1>2. sem' \in Semaphores(S, Proc)
  <2> HIDE DEF S
  <2> QED
    BY <1>1, TakeFacts
<1> QED
  BY <1>2 DEF TypeOK, P, Goto, Pcs

LEMMA VType ==
  ASSUME TypeOK, NEW p \in Proc, NEW from, NEW s \in {SwapPool} \cup Proc,
         NEW to \in Pcs, V(p, from, s, to)
  PROVE  TypeOK'
<1> DEFINE S == {SwapPool} \cup Proc
<1>1. sem \in Semaphores(S, Proc) /\ sem' = verhogen(sem, s) /\ s \in S
  BY DEF TypeOK, V
<1>2. sem' \in Semaphores(S, Proc)
  <2> HIDE DEF S
  <2> QED
    BY <1>1, GiveFacts
<1> QED
  BY <1>2 DEF TypeOK, V, Goto, Pcs

LEMMA TlbType ==
  ASSUME TypeOK, NEW p \in Proc, NEW g \in Page, NEW v \in Frame \cup {Invalid}
  PROVE  update_tlb_handler(tlb, p, g, v) \in [Proc -> [Page -> Frame \cup {Invalid, Absent}]]
  BY DEF TypeOK, update_tlb_handler

LEMMA TypeStep == ASSUME IInv, [Next]_vars PROVE TypeOK'
<1> USE DEF IInv
<1>1. CASE UNCHANGED vars
  BY <1>1 DEF vars, TypeOK, Semaphores
<1>2. ASSUME NEW p \in Proc, \E g \in Page \cup Stray : Touch(p, g)
      PROVE  TypeOK'
  BY <1>2 DEF Touch, TypeOK
<1>3. ASSUME NEW p \in Proc, Nuke(p) PROVE TypeOK'
  BY <1>3 DEF Nuke, TypeOK, Goto, NukePc
<1>4. ASSUME NEW p \in Proc, Access(p) PROVE TypeOK'
  BY <1>4 DEF Access, TypeOK
<1>5. ASSUME NEW p \in Proc, uTLB_RefillHandler(p) PROVE TypeOK'
  <2> DEFINE g == Slot(want[p])
  <2>1. g \in Page
    BY SlotType
  <2> HIDE DEF g
  <2>2. PICK q \in Proc, h \in Page :
          tlb' = [tlb EXCEPT ![q][h] = Absent, ![p][g] = pte[p][g]]
    BY <1>5 DEF uTLB_RefillHandler, TLBWR, g
  <2>3. pte[p][g] \in Frame \cup {Invalid}
    BY <2>1 DEF TypeOK
  <2>4. [tlb EXCEPT ![q][h] = Absent] \in [Proc -> [Page -> Frame \cup {Invalid, Absent}]]
    BY DEF TypeOK
  <2>5. tlb' \in [Proc -> [Page -> Frame \cup {Invalid, Absent}]]
    BY <2>1, <2>2, <2>3, <2>4
  <2> QED
    BY <1>5, <2>5 DEF uTLB_RefillHandler, TypeOK
<1>6. ASSUME NEW p \in Proc, PageFault(p) PROVE TypeOK'
  BY <1>6 DEF PageFault, TypeOK, Goto, PagerPc
<1>7. ASSUME NEW p \in Proc, PickFrame(p) PROVE TypeOK'
  <2> DEFINE f == find_frame_swapPool
  <2>1. f \in Frame
    BY FrameFound
  <2>2. swap[f] # FREE => swap[f].asid \in Proc /\ swap[f].page \in Page
    BY <2>1 DEF TypeOK, Occupant
  <2>3. /\ pc' \in [Proc -> Pcs] /\ victim' \in [Proc -> Frame] /\ last' \in Frame
    BY <1>7, <2>1 DEF PickFrame, Goto, TypeOK, Pcs, PagerPc
  <2> DEFINE o == swap[f].asid
  <2> DEFINE g == swap[f].page
  <2>4. pte' \in [Proc -> [Page -> Frame \cup {Invalid}]]
    <3>1. swap[f] = FREE => pte' = pte
      BY <1>7 DEF PickFrame
    <3>2. swap[f] # FREE => pte' = [pte EXCEPT ![o][g] = Invalid]
      BY <1>7 DEF PickFrame
    <3>3. swap[f] # FREE => o \in Proc /\ g \in Page
      BY <2>2
    <3>4. pte \in [Proc -> [Page -> Frame \cup {Invalid}]]
      BY DEF TypeOK
    <3> HIDE DEF o, g, f
    <3> QED
      BY <3>1, <3>2, <3>3, <3>4
  <2>5. tlb' \in [Proc -> [Page -> Frame \cup {Invalid, Absent}]]
    BY <1>7, <2>2, TlbType DEF PickFrame, TypeOK
  <2> QED
    BY <1>7, <2>3, <2>4, <2>5 DEF PickFrame, TypeOK, Pcs
<1>8. ASSUME NEW p \in Proc, WriteOut(p) PROVE TypeOK'
  <2>1. swap[victim[p]] \in Occupant /\ frame[victim[p]] \in Val
    BY <1>8 DEF WriteOut, At, VictimOccupied, TypeOK
  <2>2. flash' \in [Proc -> [Page -> Val]]
    <3> DEFINE o == swap[victim[p]].asid
    <3> DEFINE g == swap[victim[p]].page
    <3> DEFINE v == frame[victim[p]]
    <3>1. o \in Proc /\ g \in Page /\ v \in Val
      BY <2>1 DEF Occupant
    <3>2. flash' = [flash EXCEPT ![o][g] = v] \/ flash' = flash
      BY <1>8 DEF WriteOut
    <3>3. flash \in [Proc -> [Page -> Val]]
      BY DEF TypeOK
    <3> HIDE DEF o, g, v
    <3> QED
      BY <3>1, <3>2, <3>3
  <2> QED
    BY <1>8, <2>2 DEF WriteOut, TypeOK, Goto, PagerPc
<1>9. ASSUME NEW p \in Proc, ReadIn(p) PROVE TypeOK'
  <2>1. Slot(want[p]) \in Page
    BY SlotType
  <2>2. frame' \in [Frame -> Val]
    <3> DEFINE v == flash[p][Slot(want[p])]
    <3>1. v \in Val
      BY <2>1 DEF TypeOK
    <3>2. frame' = [frame EXCEPT ![victim[p]] = v] \/ frame' = frame
      BY <1>9 DEF ReadIn
    <3> HIDE DEF v
    <3> QED
      BY <3>1, <3>2 DEF TypeOK
  <2> QED
    BY <1>9, <2>2 DEF ReadIn, TypeOK, Goto, PagerPc
<1>10. ASSUME NEW p \in Proc, Install(p) PROVE TypeOK'
  <2>1. Slot(want[p]) \in Page /\ victim[p] \in Frame
    BY SlotType DEF TypeOK
  <2>2. tlb' \in [Proc -> [Page -> Frame \cup {Invalid, Absent}]]
    BY <1>10, <2>1, TlbType DEF Install
  <2>3. pte' \in [Proc -> [Page -> Frame \cup {Invalid}]]
    BY <1>10, <2>1 DEF Install, TypeOK
  <2>4. swap' \in [Frame -> Occupant \cup {FREE}]
    BY <1>10, <2>1 DEF Install, TypeOK, Occupant
  <2> QED
    BY <1>10, <2>2, <2>3, <2>4 DEF Install, TypeOK, Goto, PagerPc
<1>11. ASSUME NEW p \in Proc, NukeTest(p) PROVE TypeOK'
  BY <1>11 DEF NukeTest, TypeOK, Goto, NukePc
<1>12. ASSUME NEW p \in Proc, NukePage(p) PROVE TypeOK'
  <2>1. tlb' \in [Proc -> [Page -> Frame \cup {Invalid, Absent}]]
    BY <1>12, TlbType DEF NukePage, TypeOK
  <2>2. pte' \in [Proc -> [Page -> Frame \cup {Invalid}]]
    <3>1. pte' = pte \/ \E g \in Page : pte' = [pte EXCEPT ![p][g] = Invalid]
      BY <1>12 DEF NukePage
    <3>2. pte \in [Proc -> [Page -> Frame \cup {Invalid}]]
      BY DEF TypeOK
    <3> QED
      BY <3>1, <3>2
  <2> QED
    BY <1>12, <2>1, <2>2 DEF NukePage, TypeOK, Goto, NukePc
<1>13. ASSUME NEW p \in Proc, flash_read_write(p) PROVE TypeOK'
  <2> DEFINE owner == swap[victim[p]].asid
  <2>1. swap[victim[p]] # FREE => owner \in Proc
    BY DEF TypeOK, Occupant
  <2> QED
    BY <1>8, <1>9, <1>13, <2>1, PType, VType
      DEF flash_read_write, Pcs, PagerPc, NukePc
<1>14. ASSUME NEW p \in Proc, tlb_exception_handler(p) PROVE TypeOK'
  BY <1>7, <1>10, <1>13, <1>14, PType, VType DEF tlb_exception_handler, Pcs, PagerPc
<1>15. ASSUME NEW p \in Proc, get_nuked(p) PROVE TypeOK'
  BY <1>11, <1>12, <1>15, VType DEF get_nuked, Pcs, NukePc
<1> QED
  BY <1>1, <1>2, <1>3, <1>4, <1>5, <1>6, <1>14, <1>15 DEF Next, Progress, Ended

-----------------------------------------------------------------------------
(* The tables                                                              *)

Tables == FramesOwned /\ TlbAgrees /\ PoolLock /\ VictimUnused /\ VictimOccupied

\* A process that takes a step waits for nothing.
LEMMA NotQueued ==
  ASSUME TypeOK, NEW p \in Proc, NEW l, At(p, l)
  PROVE  pc[p] = l /\ p \notin ToSet(sem[SwapPool].queue)
<1>1. SwapPool \in DOMAIN sem
  BY DEF TypeOK, Semaphores
<1> QED
  BY <1>1 DEF At, Blocked

\* Nobody has chosen a frame while another process is inside.
LEMMA Alone ==
  ASSUME PoolLock, NEW p \in Proc, Inside(p), NEW q \in Proc, q # p
  PROVE  ~Chosen(q)
  BY DEF PoolLock, Inside, Chosen

\* A step that changes no table, and by which no process comes to choose a frame.
LEMMA QuietStep ==
  ASSUME IInv, NEW p \in Proc, NEW from, NEW to, At(p, from),
         pc' = [pc EXCEPT ![p] = to],
         UNCHANGED <<victim, swap, pte, tlb>>, sem'[SwapPool] = sem[SwapPool],
         HoldsPool(p)' => HoldsPool(p),
         Chosen(p)' => Chosen(p),
         to \in {"out", "outIO", "outV", "outErr"} => from \in {"out", "outIO", "outV", "outErr"}
  PROVE  Tables'
<1> USE DEF IInv
<1>1. /\ pc[p] = from /\ p \notin ToSet(sem[SwapPool].queue)
      /\ pc'[p] = to /\ \A q \in Proc : q # p => pc'[q] = pc[q]
  BY NotQueued DEF TypeOK
<1>2. PoolLock'
  BY <1>1, LockKept
<1>3. FramesOwned' /\ TlbAgrees'
  BY DEF FramesOwned, TlbAgrees
<1>4. \A q \in Proc : Chosen(q)' => Chosen(q)
  BY <1>1 DEF Chosen, HoldsPool
<1>5. VictimUnused'
  BY <1>4 DEF VictimUnused
<1>6. VictimOccupied'
  BY <1>1 DEF VictimOccupied
<1> QED
  BY <1>2, <1>3, <1>5, <1>6 DEF Tables

\* The mutexes of the flash devices are not the one of the pool.
LEMMA DeviceP ==
  ASSUME IInv, NEW p \in Proc, NEW d \in Proc, NEW from, NEW to, P(p, from, d, to),
         \/ from = "out" /\ to = "outIO"
         \/ from = "in" /\ to = "inIO"
  PROVE  Tables'
<1> DEFINE S == {SwapPool} \cup Proc
<1>1. sem \in Semaphores(S, Proc) /\ sem' = passeren(sem, d, p) /\ d \in S
  BY DEF IInv, TypeOK, P
<1>2. \A t \in S \ {d} : sem'[t] = sem[t]
  <2> HIDE DEF S
  <2> QED
    BY <1>1, TakeFacts
<1>3. sem'[SwapPool] = sem[SwapPool]
  BY <1>2, Names
<1>4. pc[p] = from /\ pc'[p] = to
  BY DEF IInv, TypeOK, P, At, Goto
<1>5. (HoldsPool(p)' => HoldsPool(p)) /\ (Chosen(p)' => Chosen(p))
  BY <1>4 DEF Chosen, HoldsPool
<1> QED
  BY <1>3, <1>5, QuietStep DEF P, Goto

LEMMA DeviceV ==
  ASSUME IInv, NEW p \in Proc, NEW d \in Proc, NEW from, NEW to, V(p, from, d, to),
         \/ from = "outV" /\ to = "in"
         \/ from = "inV" /\ to = "install"
         \/ from \in {"outErr", "inErr"} /\ to = "nuke"
         \/ from = "nukeV" /\ to = "nukePages"
  PROVE  Tables'
<1> DEFINE S == {SwapPool} \cup Proc
<1>1. sem \in Semaphores(S, Proc) /\ sem' = verhogen(sem, d) /\ d \in S
  BY DEF IInv, TypeOK, V
<1>2. \A t \in S \ {d} : sem'[t] = sem[t]
  <2> HIDE DEF S
  <2> QED
    BY <1>1, GiveFacts
<1>3. sem'[SwapPool] = sem[SwapPool]
  BY <1>2, Names
<1>4. pc[p] = from /\ pc'[p] = to
  BY DEF IInv, TypeOK, V, At, Goto
<1>5. (HoldsPool(p)' => HoldsPool(p)) /\ (Chosen(p)' => Chosen(p))
  BY <1>4 DEF Chosen, HoldsPool
<1> QED
  BY <1>3, <1>5, QuietStep DEF V, Goto

\* update_tlb_handler changes one entry, if it is there.
LEMMA TlbEntry ==
  ASSUME TypeOK, NEW p \in Proc, NEW g \in Page, NEW v, NEW t,
         t = update_tlb_handler(tlb, p, g, v), NEW q \in Proc, NEW h \in Page
  PROVE  t[q][h] = IF q = p /\ h = g /\ tlb[p][g] # Absent THEN v ELSE tlb[q][h]
  BY DEF TypeOK, update_tlb_handler

\* As in the page table.
LEMMA PteEntry ==
  ASSUME TypeOK, NEW p \in Proc, NEW g \in Page, NEW v, NEW t,
         t = [pte EXCEPT ![p][g] = v], NEW q \in Proc, NEW h \in Page
  PROVE  t[q][h] = IF q = p /\ h = g THEN v ELSE pte[q][h]
  BY DEF TypeOK

\* The same change in the page table and in the TLB.
LEMMA TlbKept ==
  ASSUME TypeOK, TlbAgrees, NEW p \in Proc, NEW g \in Page,
         NEW v \in Frame \cup {Invalid},
         pte' = [pte EXCEPT ![p][g] = v], tlb' = update_tlb_handler(tlb, p, g, v)
  PROVE  TlbAgrees'
<1> SUFFICES ASSUME NEW q \in Proc, NEW h \in Page, tlb'[q][h] # Absent
             PROVE  tlb'[q][h] = pte'[q][h]
  BY DEF TlbAgrees
<1>1. tlb'[q][h] = IF q = p /\ h = g /\ tlb[p][g] # Absent THEN v ELSE tlb[q][h]
  BY TlbEntry
<1>2. pte'[q][h] = IF q = p /\ h = g THEN v ELSE pte[q][h]
  BY PteEntry
<1> QED
  BY <1>1, <1>2 DEF TlbAgrees

LEMMA PickStep == ASSUME IInv, NEW p \in Proc, PickFrame(p) PROVE Tables'
<1> USE DEF IInv
<1> DEFINE f == find_frame_swapPool
<1> DEFINE o == swap[f].asid
<1> DEFINE g == swap[f].page
<1>1. /\ pc[p] = "pick" /\ p \notin ToSet(sem[SwapPool].queue)
      /\ Inside(p)
  BY NotQueued DEF PickFrame, Inside, HoldsPool
<1>2. f \in Frame /\ swap[f] \in Occupant \cup {FREE}
  BY FrameFound DEF TypeOK
<1>3. swap[f] # FREE => o \in Proc /\ g \in Page
  BY <1>2 DEF Occupant
<1>4. UNCHANGED <<swap, sem>> /\ victim' = [victim EXCEPT ![p] = f]
  BY DEF PickFrame
<1>5. PICK to \in {"in", "out"} :
        pc' = [pc EXCEPT ![p] = to] /\ (to = "out" <=> swap[f] # FREE)
  BY DEF PickFrame, Goto
<1>6. \/ swap[f] = FREE /\ UNCHANGED <<pte, tlb>>
      \/ /\ swap[f] # FREE
         /\ pte' = [pte EXCEPT ![o][g] = Invalid]
         /\ tlb' = update_tlb_handler(tlb, o, g, Invalid)
  BY DEF PickFrame
<1> HIDE DEF f
<1>7. /\ pc'[p] = to /\ victim'[p] = f
      /\ \A q \in Proc : q # p => pc'[q] = pc[q] /\ victim'[q] = victim[q]
  BY <1>4, <1>5 DEF TypeOK
<1>8. PoolLock'
  <2>1. HoldsPool(p)' => HoldsPool(p)
    BY <1>1 DEF HoldsPool
  <2> QED
    BY <1>1, <1>4, <1>5, <2>1, LockKept
<1>9. TlbAgrees'
  BY <1>3, <1>6, TlbKept DEF TlbAgrees
\* The table loses a page at most, the one that was in f.
<1>10. \A q \in Proc, h \in Page :
         pte'[q][h] # Invalid => pte'[q][h] = pte[q][h] /\ pte[q][h] # f
  <2> SUFFICES ASSUME NEW q \in Proc, NEW h \in Page, pte'[q][h] # Invalid
               PROVE  pte'[q][h] = pte[q][h] /\ pte[q][h] # f
    OBVIOUS
  <2>1. CASE swap[f] = FREE
    <3>1. pte' = pte
      BY <1>6, <2>1
    <3>2. swap[pte[q][h]] = [asid |-> q, page |-> h]
      BY <3>1 DEF FramesOwned
    <3>3. [asid |-> q, page |-> h] # FREE
      BY Names DEF Occupant
    <3>4. ASSUME pte[q][h] = f PROVE FALSE
      <4>1. swap[f] = [asid |-> q, page |-> h]
        BY <3>2, <3>4
      <4> QED
        BY <2>1, <3>3, <4>1
    <3> QED
      BY <3>1, <3>4
  <2>2. CASE swap[f] # FREE
    <3>1. pte'[q][h] = IF q = o /\ h = g THEN Invalid ELSE pte[q][h]
      <4>1. /\ o \in Proc /\ g \in Page
            /\ pte' = [pte EXCEPT ![o][g] = Invalid]
        BY <1>3, <1>6, <2>2
      <4> HIDE DEF o, g
      <4> QED
        BY <4>1, PteEntry
    <3>2. pte'[q][h] = pte[q][h] /\ ~(q = o /\ h = g)
      BY <3>1
    <3>3. swap[pte[q][h]] = [asid |-> q, page |-> h]
      BY <3>2 DEF FramesOwned
    <3> QED
      BY <3>2, <3>3
  <2> QED
    BY <2>1, <2>2
<1>11. FramesOwned'
  BY <1>4, <1>10 DEF FramesOwned
<1>12. VictimUnused'
  <2> SUFFICES ASSUME NEW q \in Proc, Chosen(q)', NEW r \in Proc, NEW h \in Page
               PROVE  pte'[r][h] # victim'[q]
    BY DEF VictimUnused
  <2>1. q = p
    BY <1>1, <1>7, Alone DEF Chosen, HoldsPool
  <2> QED
    BY <1>2, <1>7, <1>10, <2>1, Names
<1>13. VictimOccupied'
  <2> SUFFICES ASSUME NEW q \in Proc, pc'[q] \in {"out", "outIO", "outV", "outErr"}
               PROVE  swap[victim'[q]] # FREE
    BY <1>4 DEF VictimOccupied
  <2> QED
    BY <1>5, <1>7 DEF VictimOccupied
<1> QED
  BY <1>8, <1>9, <1>11, <1>12, <1>13 DEF Tables

LEMMA InstallStep == ASSUME IInv, NEW p \in Proc, Install(p) PROVE Tables'
<1> USE DEF IInv
<1> DEFINE g == Slot(want[p])
<1> DEFINE f == victim[p]
<1>1. /\ pc[p] = "install" /\ p \notin ToSet(sem[SwapPool].queue)
      /\ Inside(p) /\ Chosen(p)
  BY NotQueued DEF Install, Inside, HoldsPool, Chosen
<1>2. g \in Page /\ f \in Frame
  BY SlotType DEF TypeOK
<1>3. /\ pc' = [pc EXCEPT ![p] = "release"]
      /\ UNCHANGED <<victim, sem>>
      /\ swap' = [swap EXCEPT ![f] = [asid |-> p, page |-> g]]
      /\ pte' = [pte EXCEPT ![p][g] = f]
      /\ tlb' = update_tlb_handler(tlb, p, g, f)
  BY DEF Install, Goto
<1> HIDE DEF g
<1>4. pc'[p] = "release" /\ \A q \in Proc : q # p => pc'[q] = pc[q]
  BY <1>3 DEF TypeOK
<1>5. PoolLock'
  <2>1. HoldsPool(p)' => HoldsPool(p)
    BY <1>1 DEF HoldsPool
  <2> QED
    BY <1>1, <1>3, <2>1, LockKept
<1>6. TlbAgrees'
  BY <1>2, <1>3, TlbKept
<1>7. FramesOwned'
  <2> SUFFICES ASSUME NEW q \in Proc, NEW h \in Page, pte'[q][h] # Invalid
               PROVE  swap'[pte'[q][h]] = [asid |-> q, page |-> h]
    BY DEF FramesOwned
  <2>0. pte \in [Proc -> [Page -> Frame \cup {Invalid}]]
    BY DEF TypeOK
  <2>1. pte'[q][h] = IF q = p /\ h = g THEN f ELSE pte[q][h]
    BY <1>2, <1>3, <2>0
  <2>2. CASE q = p /\ h = g
    BY <1>2, <1>3, <2>1, <2>2 DEF TypeOK
  <2>3. CASE ~(q = p /\ h = g)
    <3>1. pte'[q][h] = pte[q][h] /\ pte[q][h] # f
      BY <1>1, <2>1, <2>3 DEF VictimUnused
    <3>2. swap[pte[q][h]] = [asid |-> q, page |-> h] /\ pte[q][h] \in Frame
      BY <3>1 DEF FramesOwned, TypeOK
    <3> QED
      BY <1>3, <3>1, <3>2 DEF TypeOK
  <2> QED
    BY <2>2, <2>3
\* Nobody else is at work on a frame.
<1>8. \A q \in Proc : ~Chosen(q)'
  BY <1>1, <1>4, Alone DEF Chosen, HoldsPool
<1>9. VictimUnused' /\ VictimOccupied'
  BY <1>8 DEF VictimUnused, VictimOccupied, Chosen, HoldsPool
<1> QED
  BY <1>5, <1>6, <1>7, <1>9 DEF Tables

LEMMA NukePageStep == ASSUME IInv, NEW p \in Proc, NukePage(p) PROVE Tables'
<1> USE DEF IInv
<1>1. pc[p] = "nukePages" /\ p \notin ToSet(sem[SwapPool].queue)
  BY NotQueued DEF NukePage
<1>2. CASE UNCHANGED <<pte, tlb>> /\ Goto(p, "dead")
  <2>1. (HoldsPool(p)' => HoldsPool(p)) /\ (Chosen(p)' => Chosen(p))
    BY <1>2 DEF TypeOK, Goto, Chosen, HoldsPool
  <2> QED
    BY <1>2, <2>1, QuietStep DEF NukePage, Goto
<1>3. ASSUME NEW g \in Page, UNCHANGED pc,
             pte' = [pte EXCEPT ![p][g] = Invalid],
             tlb' = update_tlb_handler(tlb, p, g, Invalid)
      PROVE  Tables'
  <2>1. UNCHANGED <<pc, victim, sem, swap>>
    BY <1>3 DEF NukePage
  <2>2. \A q \in Proc, h \in Page :
          pte'[q][h] # Invalid => pte'[q][h] = pte[q][h]
    BY <1>3, PteEntry
  <2>3. TlbAgrees'
    BY <1>3, TlbKept
  <2>4. FramesOwned'
    BY <2>1, <2>2 DEF FramesOwned
  <2>5. PoolLock' /\ VictimOccupied'
    BY <2>1 DEF PoolLock, VictimOccupied, Inside, HoldsPool
  <2>6. VictimUnused'
    <3> SUFFICES ASSUME NEW q \in Proc, Chosen(q)', NEW r \in Proc, NEW h \in Page
                 PROVE  pte'[r][h] # victim'[q]
      BY DEF VictimUnused
    <3>1. Chosen(q)
      BY <2>1 DEF Chosen, HoldsPool
    <3>2. victim[q] \in Frame /\ pte[r][h] # victim[q]
      BY <3>1 DEF VictimUnused, TypeOK
    <3> QED
      BY <2>1, <2>2, <3>2, Names
  <2> QED
    BY <2>3, <2>4, <2>5, <2>6 DEF Tables
<1> QED
  BY <1>2, <1>3 DEF NukePage

LEMMA RefillStep == ASSUME IInv, NEW p \in Proc, uTLB_RefillHandler(p) PROVE Tables'
<1> USE DEF IInv
<1>1. UNCHANGED <<pc, victim, sem, swap, pte>>
  BY DEF uTLB_RefillHandler
<1>2. FramesOwned' /\ PoolLock' /\ VictimUnused' /\ VictimOccupied'
  BY <1>1 DEF FramesOwned, PoolLock, VictimUnused, VictimOccupied, Inside, HoldsPool, Chosen
<1> DEFINE g == Slot(want[p])
<1>3. g \in Page
  BY SlotType
<1>4. PICK o \in Proc, h \in Page :
        tlb' = [tlb EXCEPT ![o][h] = Absent, ![p][g] = pte[p][g]]
  BY DEF uTLB_RefillHandler, TLBWR
<1> HIDE DEF g
<1>5. \A q \in Proc, i \in Page : tlb'[q][i] \in {tlb[q][i], Absent, pte[q][i]}
  BY <1>3, <1>4 DEF TypeOK
<1>6. TlbAgrees'
  BY <1>1, <1>5 DEF TlbAgrees
<1> QED
  BY <1>2, <1>6 DEF Tables

LEMMA TablesStep == ASSUME IInv, [Next]_vars PROVE Tables'
<1> USE DEF IInv
<1>1. CASE UNCHANGED vars
  BY <1>1 DEF vars, Tables, FramesOwned, TlbAgrees, PoolLock, VictimUnused,
    VictimOccupied, Inside, HoldsPool, Chosen
<1>2. ASSUME NEW p \in Proc, \/ \E g \in Page \cup Stray : Touch(p, g)
                             \/ Access(p)
      PROVE  Tables'
  BY <1>2 DEF Touch, Access, Tables, FramesOwned, TlbAgrees, PoolLock, VictimUnused,
    VictimOccupied, Inside, HoldsPool, Chosen
<1>3. ASSUME NEW p \in Proc, NEW from, NEW to, At(p, from), Goto(p, to),
             UNCHANGED <<victim, swap, pte, tlb, sem>>,
             \/ from = "user" /\ to \in {"fault", "nuke"}
             \/ from = "outIO" /\ to \in {"outV", "outErr"}
             \/ from = "inIO" /\ to \in {"inV", "inErr"}
             \/ from = "nuke" /\ to \in {"nukeV", "nukePages"}
      PROVE  Tables'
  <2>1. pc[p] = from /\ pc' = [pc EXCEPT ![p] = to] /\ pc'[p] = to
    BY <1>3 DEF TypeOK, At, Goto
  <2>2. (HoldsPool(p)' => HoldsPool(p)) /\ (Chosen(p)' => Chosen(p))
    BY <1>3, <2>1 DEF Chosen, HoldsPool
  <2> QED
    BY <1>3, <2>1, <2>2, QuietStep
<1>4. ASSUME NEW p \in Proc, Nuke(p) \/ PageFault(p) PROVE Tables'
  BY <1>3, <1>4 DEF Nuke, PageFault
<1>5. ASSUME NEW p \in Proc, WriteOut(p) PROVE Tables'
  BY <1>3, <1>5 DEF WriteOut
<1>6. ASSUME NEW p \in Proc, ReadIn(p) PROVE Tables'
  BY <1>3, <1>6 DEF ReadIn
<1>7. ASSUME NEW p \in Proc, NukeTest(p) PROVE Tables'
  BY <1>3, <1>7 DEF NukeTest
<1>8. ASSUME NEW p \in Proc, flash_read_write(p) PROVE Tables'
  <2> DEFINE owner == swap[victim[p]].asid
  <2>1. swap[victim[p]] # FREE => owner \in Proc
    BY DEF TypeOK, Occupant
  <2> QED
    BY <1>5, <1>6, <1>8, <2>1, DeviceP, DeviceV DEF flash_read_write
\* The P and the V on the swap pool.
<1>9. ASSUME NEW p \in Proc, \/ P(p, "fault", SwapPool, "pick")
                             \/ V(p, "release", SwapPool, "user")
      PROVE  Tables'
  <2>1. PoolLock'
    BY <1>9, PoolTaken, PoolGiven
  <2>2. UNCHANGED <<victim, swap, pte, tlb>>
    BY <1>9 DEF P, V
  <2>3. \A q \in Proc : pc'[q] = pc[q] \/ pc'[q] \in {"pick", "user"}
    BY <1>9 DEF P, V, Goto, TypeOK
  <2>4. \A q \in Proc : Chosen(q)' => Chosen(q)
    BY <2>3 DEF Chosen, HoldsPool
  <2>5. VictimUnused' /\ VictimOccupied'
    BY <2>2, <2>3, <2>4 DEF VictimUnused, VictimOccupied
  <2> QED
    BY <2>1, <2>2, <2>5 DEF Tables, FramesOwned, TlbAgrees
<1>10. ASSUME NEW p \in Proc, tlb_exception_handler(p) PROVE Tables'
  BY <1>8, <1>9, <1>10, PickStep, InstallStep DEF tlb_exception_handler
<1>11. ASSUME NEW p \in Proc, get_nuked(p) PROVE Tables'
  BY <1>7, <1>11, NukePageStep, DeviceV DEF get_nuked
<1> QED
  BY <1>1, <1>2, <1>4, <1>10, <1>11, RefillStep DEF Next, Progress, Ended

LEMMA InitIInv == ASSUME Init PROVE IInv
<1>1. PICK v \in Val : /\ frame = [f \in Frame |-> v]
                       /\ flash = [p \in Proc |-> [g \in Page |-> v]]
  BY DEF Init
<1>2. sem \in Semaphores({SwapPool} \cup Proc, Proc)
  BY EmptyQ DEF Init, Sema4, Semaphores
<1>3. TypeOK
  BY <1>1, <1>2, Names DEF Init, TypeOK
<1>4. sem[SwapPool].val = 1 /\ ToSet(sem[SwapPool].queue) = {}
  BY EmptyQ DEF Init, Sema4
<1>5. \A p \in Proc : ~HoldsPool(p)
  BY DEF Init, HoldsPool
<1>6. PoolLock
  BY <1>4, <1>5 DEF PoolLock, Inside
<1>7. FramesOwned /\ TlbAgrees
  BY DEF Init, FramesOwned, TlbAgrees
<1>8. VictimUnused /\ VictimOccupied
  BY <1>5 DEF VictimUnused, VictimOccupied, Chosen, HoldsPool
<1> QED
  BY <1>3, <1>6, <1>7, <1>8 DEF IInv

-----------------------------------------------------------------------------
(* Theorems                                                                *)

\* vmSupport.c: the inductive invariant of the pager.
THEOREM PagerInvariant == Spec => []IInv
<1>1. Init => IInv
  BY InitIInv
<1>2. IInv /\ [Next]_vars => IInv'
  BY TypeStep, TablesStep DEF IInv, Tables
<1> QED
  BY <1>1, <1>2, PTL DEF Spec

\* vmSupport.c: the variables keep their types for any number of processes,
\* pages and frames; no page is written to the device of a free frame's owner.
THEOREM PagerTypeCorrect == Spec => []TypeOK
<1>1. IInv => TypeOK
  BY DEF IInv
<1> QED
  BY <1>1, PagerInvariant, PTL

\* vmSupport.c: swap pool table, page tables and TLB agree at every moment, and
\* one process at a time is between P and V of the swap pool, whatever operations
\* fail and whoever ends.
THEOREM TablesCorrect == Spec => []TablesAgree
<1>1. PoolLock => PoolMutex
  BY DEF PoolLock, PoolMutex, Inside
<1>2. IInv => TablesAgree
  BY <1>1 DEF IInv, TablesAgree
<1> QED
  BY <1>2, PagerInvariant, PTL

-----------------------------------------------------------------------------
(* Paging is invisible.  A frame is the place of a page until the step that  *)
(* takes it away, the frame on its way out until the step that has written   *)
(* it, and the backing store until Install.                                  *)

\* p is between its fault and the moment its page is valid.
Faulting(p) == pc[p] = "fault" \/ (HoldsPool(p) /\ pc[p] # "release")

\* It faulted for a page of its table that is not valid, and stays so.
Wanted ==
  \A p \in Proc : Faulting(p) => want[p] \in Page /\ pte[p][want[p]] = Invalid

\* A frame that has been read in holds what the backing store holds.
Filled ==
  \A p \in Proc :
    pc[p] \in {"inV", "install"} => frame[victim[p]] = flash[p][want[p]]

\* The table lists no page of a live process that is not in its frame, except
\* in the frame at work.
Listed ==
  ~FlashFailed =>
    \A f \in Frame : swap[f] # FREE =>
      \/ swap[f].asid \in Ending
      \/ pte[swap[f].asid][swap[f].page] = f
      \/ \E p \in Proc : Chosen(p) /\ victim[p] = f

MInv == IInv /\ Wanted /\ Filled /\ Listed

DeviceMoves ==
  {<<"out", "outIO">>, <<"in", "inIO">>, <<"outV", "in">>, <<"outErr", "nuke">>,
   <<"inV", "install">>, <<"inErr", "nuke">>, <<"nukeV", "nukePages">>}

\* A P or a V on the mutex of a flash device.
DeviceMutex(p) ==
  \E m \in DeviceMoves :
    /\ At(p, m[1]) /\ Goto(p, m[2])
    /\ sem'[SwapPool] = sem[SwapPool]
    /\ UNCHANGED <<want, victim, swap, last, pte, tlb, frame, flash>>

\* The mutexes of the flash devices are not the one of the pool.
LEMMA DevicePV ==
  ASSUME TypeOK, NEW p \in Proc, NEW d \in Proc, NEW from, NEW to,
         <<from, to>> \in DeviceMoves, P(p, from, d, to) \/ V(p, from, d, to)
  PROVE  DeviceMutex(p)
<1> DEFINE S == {SwapPool} \cup Proc
<1>1. sem \in Semaphores(S, Proc) /\ d \in S /\ SwapPool \in S \ {d}
  BY Names DEF TypeOK
<1>2. sem' = passeren(sem, d, p) \/ sem' = verhogen(sem, d)
  BY DEF P, V
<1>3. sem'[SwapPool] = sem[SwapPool]
  <2> HIDE DEF S
  <2>1. sem' = passeren(sem, d, p) => \A t \in S \ {d} : sem'[t] = sem[t]
    BY <1>1, TakeFacts
  <2>2. sem' = verhogen(sem, d) => \A t \in S \ {d} : sem'[t] = sem[t]
    BY <1>1, GiveFacts
  <2> QED
    BY <1>1, <1>2, <2>1, <2>2
<1> QED
  BY <1>3 DEF DeviceMutex, P, V

\* What the mutex of the pool can meet with.
Steps(p) ==
  \/ \E g \in Page \cup Stray : Touch(p, g)
  \/ Nuke(p) \/ Access(p) \/ uTLB_RefillHandler(p) \/ PageFault(p)
  \/ PickFrame(p) \/ WriteOut(p) \/ ReadIn(p) \/ Install(p)
  \/ NukeTest(p) \/ NukePage(p) \/ DeviceMutex(p)
PoolPV(p) == P(p, "fault", SwapPool, "pick") \/ V(p, "release", SwapPool, "user")

LEMMA StepCases ==
  ASSUME TypeOK, [Next]_vars
  PROVE  UNCHANGED vars \/ \E p \in Proc : Steps(p) \/ PoolPV(p)
<1>1. ASSUME NEW p \in Proc, flash_read_write(p) PROVE Steps(p)
  <2>1. swap[victim[p]] # FREE => swap[victim[p]].asid \in Proc
    BY DEF TypeOK, Occupant
  <2>2. /\ \A x \in {"out"} : <<x, "outIO">> \in DeviceMoves
        /\ <<"in", "inIO">> \in DeviceMoves /\ <<"outV", "in">> \in DeviceMoves
        /\ <<"outErr", "nuke">> \in DeviceMoves /\ <<"inV", "install">> \in DeviceMoves
        /\ <<"inErr", "nuke">> \in DeviceMoves
    BY DEF DeviceMoves
  <2>3. CASE WriteOut(p) \/ ReadIn(p)
    BY <2>3 DEF Steps
  <2>4. CASE ~(WriteOut(p) \/ ReadIn(p))
    <3>1. DeviceMutex(p)
      BY <1>1, <2>1, <2>2, <2>4, DevicePV DEF flash_read_write
    <3> QED
      BY <3>1 DEF Steps
  <2> QED
    BY <2>3, <2>4
<1>2. ASSUME NEW p \in Proc, get_nuked(p) PROVE Steps(p)
  <2>1. <<"nukeV", "nukePages">> \in DeviceMoves
    BY DEF DeviceMoves
  <2> QED
    BY <1>2, <2>1, DevicePV DEF get_nuked, Steps
<1>3. ASSUME NEW p \in Proc, tlb_exception_handler(p) PROVE Steps(p) \/ PoolPV(p)
  BY <1>1, <1>3 DEF tlb_exception_handler, Steps, PoolPV
<1>4. ASSUME NEW p \in Proc,
             (\E g \in Page \cup Stray : Touch(p, g)) \/ Nuke(p) \/ Progress(p)
      PROVE  Steps(p) \/ PoolPV(p)
  BY <1>2, <1>3, <1>4 DEF Progress, Steps
<1> QED
  BY <1>4 DEF Next, Ended

\* Where a step leaves the others, and the mutex of the pool.
LEMMA StepMoves ==
  ASSUME TypeOK, NEW p \in Proc, Steps(p)
  PROVE  /\ p \notin ToSet(sem[SwapPool].queue)
         /\ sem'[SwapPool] = sem[SwapPool]
         /\ \A q \in Proc : q # p => pc'[q] = pc[q] /\ want'[q] = want[q] /\ victim'[q] = victim[q]
         /\ HoldsPool(p)' => HoldsPool(p)
         /\ Faulting(p)' => Faulting(p) \/ PageFault(p)
         /\ pc[p] \in {"outErr", "inErr"} => pc'[p] \in {"nuke", "outErr", "inErr"}
         /\ p \in Ending => p \in Ending'
         /\ Chosen(p) => Chosen(p)' \/ pc[p] \in {"install", "outErr", "inErr"}
         /\ victim'[p] = victim[p] \/ pc[p] = "pick"
         /\ want'[p] = want[p] \/ ~Faulting(p)
         /\ HoldsPool(p) => HoldsPool(p)' \/ pc[p] \in {"outErr", "inErr"}
<1>1. p \notin ToSet(sem[SwapPool].queue)
  BY NotQueued DEF Steps, Touch, Nuke, Access, uTLB_RefillHandler, PageFault,
    PickFrame, WriteOut, ReadIn, Install, NukeTest, NukePage, DeviceMutex
<1>2. sem'[SwapPool] = sem[SwapPool]
  BY DEF Steps, Touch, Nuke, Access, uTLB_RefillHandler, PageFault,
    PickFrame, WriteOut, ReadIn, Install, NukeTest, NukePage, DeviceMutex
<1>3. \A q \in Proc : q # p => want'[q] = want[q] /\ victim'[q] = victim[q]
  BY DEF TypeOK, Steps, Touch, Nuke, Access, uTLB_RefillHandler, PageFault,
    PickFrame, WriteOut, ReadIn, Install, NukeTest, NukePage, DeviceMutex
<1>4. PICK from \in Pcs, to \in Pcs :
        /\ pc[p] = from /\ pc' = [pc EXCEPT ![p] = to]
        /\ \/ from = to
           \/ <<from, to>> \in DeviceMoves
           \/ PageFault(p) /\ from = "user" /\ to = "fault"
           \/ <<from, to>> \in {<<"user", "nuke">>, <<"pick", "in">>,
                <<"pick", "out">>, <<"outIO", "outV">>, <<"outIO", "outErr">>, <<"inIO", "inV">>,
                <<"inIO", "inErr">>, <<"install", "release">>, <<"nuke", "nukeV">>,
                <<"nuke", "nukePages">>, <<"nukePages", "dead">>}
  <2> DEFINE Moved(from, to) == pc[p] = from /\ pc' = [pc EXCEPT ![p] = to]
  <2>1. pc[p] \in Pcs
    BY DEF TypeOK, Pcs
  <2>2. CASE (\E g \in Page \cup Stray : Touch(p, g)) \/ Access(p) \/ uTLB_RefillHandler(p)
    <3>1. pc' = pc
      BY <2>2 DEF Touch, Access, uTLB_RefillHandler
    <3> QED
      BY <2>1, <3>1 DEF TypeOK
  <2>3. CASE Nuke(p) \/ PageFault(p)
    BY <2>3 DEF Nuke, PageFault, At, Goto, Pcs, PagerPc, NukePc
  <2>4. CASE PickFrame(p)
    BY <2>4 DEF PickFrame, At, Goto, Pcs, PagerPc, NukePc
  <2>5. CASE WriteOut(p) \/ ReadIn(p)
    BY <2>5 DEF WriteOut, ReadIn, At, Goto, Pcs, PagerPc, NukePc
  <2>6. CASE Install(p) \/ NukeTest(p)
    BY <2>6 DEF Install, NukeTest, At, Goto, Pcs, PagerPc, NukePc
  <2>7. CASE NukePage(p)
    <3>1. CASE Goto(p, "dead")
      BY <2>7, <3>1 DEF NukePage, At, Goto, Pcs, PagerPc, NukePc
    <3>2. CASE pc' = pc
      BY <2>1, <3>2 DEF TypeOK
    <3> QED
      BY <2>7, <3>1, <3>2 DEF NukePage
  <2>8. CASE DeviceMutex(p)
    <3>1. PICK m \in DeviceMoves : At(p, m[1]) /\ Goto(p, m[2])
      BY <2>8 DEF DeviceMutex
    <3>2. m[1] \in Pcs /\ m[2] \in Pcs /\ <<m[1], m[2]>> \in DeviceMoves
      BY DEF DeviceMoves, Pcs, PagerPc, NukePc
    <3> QED
      BY <3>1, <3>2 DEF At, Goto
  <2> QED
    BY <2>2, <2>3, <2>4, <2>5, <2>6, <2>7, <2>8 DEF Steps
<1>5. pc'[p] = to /\ \A q \in Proc : q # p => pc'[q] = pc[q]
  BY <1>4 DEF TypeOK
<1>6. HoldsPool(p)' => HoldsPool(p)
  BY <1>4, <1>5 DEF HoldsPool, DeviceMoves
<1>7. Faulting(p)' => Faulting(p) \/ PageFault(p)
  BY <1>4, <1>5 DEF HoldsPool, Faulting, DeviceMoves
<1>8. pc[p] \in {"outErr", "inErr"} => pc'[p] \in {"nuke", "outErr", "inErr"}
  BY <1>4, <1>5 DEF DeviceMoves
<1>9. p \in Ending => p \in Ending'
  BY <1>4, <1>5 DEF DeviceMoves, Ending, NukePc
<1>10. Chosen(p) => Chosen(p)' \/ pc[p] \in {"install", "outErr", "inErr"}
  BY <1>4, <1>5 DEF DeviceMoves, Chosen, HoldsPool
<1>11. victim'[p] = victim[p] \/ pc[p] = "pick"
  BY DEF Steps, Touch, Nuke, Access, uTLB_RefillHandler, PageFault, At,
    PickFrame, WriteOut, ReadIn, Install, NukeTest, NukePage, DeviceMutex
<1>12. want'[p] = want[p] \/ ~Faulting(p)
  BY DEF Steps, Touch, Nuke, Access, uTLB_RefillHandler, PageFault, At, Faulting, HoldsPool,
    PickFrame, WriteOut, ReadIn, Install, NukeTest, NukePage, DeviceMutex
<1>13. HoldsPool(p) => HoldsPool(p)' \/ pc[p] \in {"outErr", "inErr"}
  BY <1>4, <1>5 DEF DeviceMoves, HoldsPool
<1> QED
  BY <1>1, <1>2, <1>3, <1>5, <1>6, <1>7, <1>8, <1>9, <1>10, <1>11, <1>12, <1>13

\* A P or a V on the mutex of the pool.
LEMMA PoolMoves ==
  ASSUME TypeOK, NEW p \in Proc, PoolPV(p)
  PROVE  /\ UNCHANGED <<want, victim, swap, pte, tlb, frame, flash>>
         /\ p \notin ToSet(sem[SwapPool].queue)
         /\ \/ pc[p] = "fault" /\ pc'[p] = "pick"
            \/ pc[p] = "release" /\ pc'[p] = "user"
         /\ \A q \in Proc : q # p => pc'[q] = pc[q]
  BY NotQueued DEF PoolPV, P, V, Goto, At, TypeOK

\* Who works on a frame waits for no mutex of the pool, and is alone.
LEMMA ChosenInside ==
  ASSUME PoolLock, NEW p \in Proc
  PROVE  /\ Chosen(p) => Inside(p)
         /\ \A q \in Proc : Inside(p) /\ Inside(q) => q = p
         /\ Inside(p) => sem[SwapPool].val # 1
  BY DEF PoolLock, Chosen, Inside

\* vmSupport.c: after a failed transfer nobody gets the pool again.
LEMMA FailureStays == ASSUME IInv, [Next]_vars, FlashFailed PROVE FlashFailed'
<1> USE DEF IInv
<1>1. sem[SwapPool].val \in Int
  BY DEF TypeOK, Semaphores
<1>2. CASE UNCHANGED vars
  BY <1>2 DEF vars, FlashFailed, PoolLost, HoldsPool
<1>3. ASSUME NEW p \in Proc, Steps(p) PROVE FlashFailed'
  <2>1. /\ p \notin ToSet(sem[SwapPool].queue)
        /\ sem'[SwapPool] = sem[SwapPool]
        /\ \A q \in Proc : q # p => pc'[q] = pc[q]
        /\ HoldsPool(p)' => HoldsPool(p)
        /\ pc[p] \in {"outErr", "inErr"} => pc'[p] \in {"nuke", "outErr", "inErr"}
    BY <1>3, StepMoves
  <2>2. \A q \in Proc : HoldsPool(q)' => HoldsPool(q)
    BY <2>1 DEF HoldsPool
  <2>3. CASE PoolLost
    BY <2>1, <2>2, <2>3 DEF PoolLost, FlashFailed
  <2>4. ASSUME NEW x \in Proc, pc[x] \in {"outErr", "inErr"} PROVE FlashFailed'
    <3>1. CASE pc'[x] \in {"outErr", "inErr"}
      BY <3>1 DEF FlashFailed
    <3>2. CASE pc'[x] \notin {"outErr", "inErr"}
      <4>1. x = p /\ pc'[p] = "nuke"
        BY <2>1, <2>4, <3>2
      <4>2. Inside(p) /\ ~HoldsPool(p)'
        BY <2>1, <2>4, <4>1 DEF Inside, HoldsPool
      <4>3. sem[SwapPool].val <= 0
        BY <1>1, <4>2 DEF PoolLock
      <4>4. \A q \in Proc : HoldsPool(q)' => q \in ToSet(sem'[SwapPool].queue)
        BY <2>1, <2>2, <4>2 DEF PoolLock, Inside
      <4> QED
        BY <2>1, <4>3, <4>4 DEF FlashFailed, PoolLost
    <3> QED
      BY <3>1, <3>2
  <2> QED
    BY <2>3, <2>4 DEF FlashFailed
<1>4. ASSUME NEW p \in Proc, PoolPV(p) PROVE FlashFailed'
  <2>1. CASE PoolLost
    <3>1. P(p, "fault", SwapPool, "pick")
      BY <1>4, <2>1, PoolMoves DEF PoolPV, V, At, PoolLost, HoldsPool
    <3>3. /\ sem'[SwapPool].val = sem[SwapPool].val - 1
          /\ ~(sem[SwapPool].val > 0) =>
               ToSet(sem'[SwapPool].queue) = ToSet(sem[SwapPool].queue) \cup {p}
      BY <3>1, PoolP
    <3>4. sem'[SwapPool].val <= 0 /\ ~(sem[SwapPool].val > 0)
      BY <1>1, <2>1, <3>3 DEF PoolLost
    <3>5. \A q \in Proc : q # p => pc'[q] = pc[q]
      BY <1>4, PoolMoves
    <3> QED
      BY <2>1, <3>3, <3>4, <3>5 DEF FlashFailed, PoolLost, HoldsPool
  <2>2. ASSUME NEW x \in Proc, pc[x] \in {"outErr", "inErr"} PROVE FlashFailed'
    BY <1>4, <2>2, PoolMoves DEF FlashFailed
  <2> QED
    BY <2>1, <2>2 DEF FlashFailed
<1> QED
  BY <1>2, <1>3, <1>4, StepCases

\* A page becomes valid by Install only.
LEMMA PteKept ==
  ASSUME IInv, NEW p \in Proc, Steps(p), NEW q \in Proc, NEW g \in Page,
         ~(Install(p) /\ q = p)
  PROVE  pte'[q][g] = pte[q][g] \/ pte'[q][g] = Invalid
<1> USE DEF IInv
<1>1. CASE Install(p)
  <2>1. /\ Slot(want[p]) \in Page /\ q # p
        /\ pte' = [pte EXCEPT ![p][Slot(want[p])] = victim[p]]
    BY <1>1, SlotType DEF Install
  <2> QED
    BY <2>1, PteEntry
<1>2. CASE PickFrame(p)
  <2> DEFINE f == find_frame_swapPool
  <2>1. CASE swap[f] # FREE
    <3>1. swap[f].asid \in Proc /\ swap[f].page \in Page
      BY <2>1, FrameFound DEF TypeOK, Occupant
    <3>2. pte' = [pte EXCEPT ![swap[f].asid][swap[f].page] = Invalid]
      BY <1>2, <2>1 DEF PickFrame
    <3> QED
      BY <3>1, <3>2, PteEntry
  <2>2. CASE swap[f] = FREE
    BY <1>2, <2>2 DEF PickFrame
  <2> QED
    BY <2>1, <2>2
<1>3. CASE NukePage(p)
  BY <1>3, PteEntry DEF NukePage
<1> QED
  BY <1>1, <1>2, <1>3 DEF Steps, Touch, Nuke, Access, uTLB_RefillHandler, PageFault,
    WriteOut, ReadIn, NukeTest, DeviceMutex

LEMMA WantedStep == ASSUME MInv, [Next]_vars PROVE Wanted'
<1> USE DEF MInv, IInv
<1>1. CASE UNCHANGED vars
  BY <1>1 DEF vars, Wanted, Faulting, HoldsPool
<1>2. ASSUME NEW p \in Proc, Steps(p) PROVE Wanted'
  <2> SUFFICES ASSUME NEW q \in Proc, Faulting(q)'
               PROVE  want'[q] \in Page /\ pte'[q][want'[q]] = Invalid
    BY DEF Wanted
  <2>1. CASE Faulting(q)
    <3>1. want'[q] = want[q] /\ want[q] \in Page /\ pte[q][want[q]] = Invalid
      BY <1>2, <2>1, StepMoves DEF Wanted
    <3>2. ~(Install(p) /\ q = p)
      BY DEF Install, Goto, TypeOK, Faulting, HoldsPool
    <3> QED
      BY <1>2, <3>1, <3>2, PteKept
  <2>2. CASE ~Faulting(q)
    <3>1. q = p /\ PageFault(p)
      <4>1. \A r \in Proc : r # p => pc'[r] = pc[r]
        BY <1>2, StepMoves
      <4>2. Faulting(p)' => Faulting(p) \/ PageFault(p)
        BY <1>2, StepMoves
      <4> QED
        BY <2>2, <4>1, <4>2 DEF Faulting, HoldsPool
    <3>2. /\ UNCHANGED <<want, pte>>
          /\ Cached(p, want[p]) = Invalid
      BY <3>1 DEF PageFault
    <3>3. want[p] \in Page /\ tlb[p][want[p]] = Invalid
      BY <3>2, Names DEF Cached
    <3>4. pte[p][want[p]] = Invalid
      BY <3>3, Names DEF TlbAgrees
    <3> QED
      BY <3>1, <3>2, <3>3, <3>4
  <2> QED
    BY <2>1, <2>2
<1>3. ASSUME NEW p \in Proc, PoolPV(p) PROVE Wanted'
  <2>1. \A q \in Proc : Faulting(q)' => Faulting(q)
    BY <1>3, PoolMoves DEF Faulting, HoldsPool
  <2>2. UNCHANGED <<want, pte>>
    BY <1>3, PoolMoves
  <2> QED
    BY <2>1, <2>2 DEF Wanted
<1> QED
  BY <1>1, <1>2, <1>3, StepCases

\* Nobody writes to a frame, or to a backing store, while another fills a frame.
LEMMA FilledStep == ASSUME MInv, [Next]_vars PROVE Filled'
<1> USE DEF MInv, IInv
<1>1. CASE UNCHANGED vars
  BY <1>1 DEF vars, Filled
<1>2. ASSUME NEW p \in Proc, Steps(p), NEW q \in Proc, pc'[q] \in {"inV", "install"}
      PROVE  frame'[victim'[q]] = flash'[q][want'[q]]
  <2>1. CASE q = p
    <3>1. CASE ReadIn(p)
      <4>1. want[p] \in Page
        BY <3>1 DEF ReadIn, At, Wanted, Faulting, HoldsPool
      <4>2. frame' = [frame EXCEPT ![victim[p]] = flash[p][want[p]]]
        BY <1>2, <2>1, <3>1, <4>1 DEF ReadIn, Goto, TypeOK, Slot
      <4> QED
        BY <2>1, <3>1, <4>2 DEF ReadIn, TypeOK
    <3>2. CASE ~ReadIn(p)
      <4>1. DeviceMutex(p)
        BY <1>2, <2>1, <3>2 DEF Steps, Touch, Nuke, Access, uTLB_RefillHandler, PageFault,
          At, Goto, PickFrame, WriteOut, Install, NukeTest, NukePage, TypeOK
      <4>2. pc[p] \in {"inV"} /\ UNCHANGED <<want, victim, frame, flash>>
        BY <1>2, <2>1, <4>1 DEF DeviceMutex, DeviceMoves, At, Goto, TypeOK
      <4> QED
        BY <2>1, <4>2 DEF Filled
    <3> QED
      BY <3>1, <3>2
  <2>2. CASE q # p
    <3>1. /\ pc[q] \in {"inV", "install"} /\ want'[q] = want[q] /\ victim'[q] = victim[q]
          /\ p \notin ToSet(sem[SwapPool].queue)
      BY <1>2, <2>2, StepMoves
    <3>2. Chosen(q) /\ ~HoldsPool(p)
      <4>1. Chosen(q)
        BY <3>1 DEF Chosen, HoldsPool
      <4> QED
        BY <2>2, <3>1, <4>1, ChosenInside DEF Inside
    <3>3. flash' = flash
      BY <1>2, <3>2 DEF Steps, Touch, Nuke, Access, uTLB_RefillHandler, PageFault, HoldsPool, At,
        PickFrame, WriteOut, ReadIn, Install, NukeTest, NukePage, DeviceMutex
    <3>4. frame'[victim[q]] = frame[victim[q]]
      <4>1. CASE Access(p)
        <5>1. Cached(p, want[p]) # victim[q]
          BY <3>2, <4>1, Names DEF Access, Cached, VictimUnused, TlbAgrees
        <5> QED
          BY <4>1, <5>1 DEF Access, TypeOK
      <4>2. CASE ~Access(p)
        BY <1>2, <3>2, <4>2 DEF Steps, Touch, Nuke, uTLB_RefillHandler, PageFault, HoldsPool, At,
          PickFrame, WriteOut, ReadIn, Install, NukeTest, NukePage, DeviceMutex
      <4> QED
        BY <4>1, <4>2
    <3> QED
      BY <3>1, <3>3, <3>4 DEF Filled
  <2> QED
    BY <2>1, <2>2
<1>3. ASSUME NEW p \in Proc, PoolPV(p) PROVE Filled'
  <2>1. \A q \in Proc : pc'[q] \in {"inV", "install"} => pc[q] \in {"inV", "install"}
    BY <1>3, PoolMoves
  <2>2. UNCHANGED <<want, victim, frame, flash>>
    BY <1>3, PoolMoves
  <2> QED
    BY <2>1, <2>2 DEF Filled
<1> QED
  BY <1>1, <1>2, <1>3, StepCases DEF Filled

\* What Listed says of a frame.
ListedAt(f) ==
  \/ swap[f].asid \in Ending
  \/ pte[swap[f].asid][swap[f].page] = f
  \/ \E p \in Proc : Chosen(p) /\ victim[p] = f

\* The frame p chooses holds the page the table says, or one of nobody's.
LEMMA FrameListed ==
  ASSUME MInv, ~FlashFailed, NEW p \in Proc, At(p, "pick"), NEW f \in Frame, swap[f] # FREE
  PROVE  swap[f].asid \in Ending \/ pte[swap[f].asid][swap[f].page] = f
<1> USE DEF MInv, IInv
<1>1. Inside(p)
  BY NotQueued DEF Inside, HoldsPool
<1>2. \A q \in Proc : ~Chosen(q)
  BY <1>1, Alone DEF Chosen, At
<1> QED
  BY <1>2 DEF Listed

LEMMA ListedStep == ASSUME MInv, [Next]_vars PROVE Listed'
<1> USE DEF MInv, IInv
<1> SUFFICES ASSUME ~FlashFailed', NEW f \in Frame, swap'[f] # FREE
             PROVE  ListedAt(f)'
  BY DEF Listed, ListedAt
<1>1. ~FlashFailed
  BY FailureStays
<1>2. swap[f] # FREE => ListedAt(f)
  BY <1>1 DEF Listed, ListedAt
<1>3. CASE UNCHANGED vars
  BY <1>2, <1>3 DEF vars, ListedAt, Ending, Chosen, HoldsPool
<1>4. ASSUME NEW p \in Proc, PoolPV(p) PROVE ListedAt(f)'
  <2>1. UNCHANGED <<victim, swap, pte>>
    BY <1>4, PoolMoves
  <2>2. (\A q \in Proc : Chosen(q) => Chosen(q)') /\ Ending \subseteq Ending'
    BY <1>4, PoolMoves DEF Chosen, HoldsPool, Ending, NukePc
  <2>3. ListedAt(f)
    BY <1>2, <2>1
  <2> QED
    BY <2>1, <2>2, <2>3 DEF ListedAt
<1>5. ASSUME NEW p \in Proc, Steps(p), ~Install(p) PROVE ListedAt(f)'
  <2>1. swap' = swap
    BY <1>5 DEF Steps, Touch, Nuke, Access, uTLB_RefillHandler, PageFault,
      PickFrame, WriteOut, ReadIn, NukeTest, NukePage, DeviceMutex
  <2> DEFINE o == swap[f].asid
  <2> DEFINE g == swap[f].page
  <2>2. o \in Proc /\ g \in Page
    BY <2>1 DEF TypeOK, Occupant
  <2>3. \A q \in Proc : q # p => pc'[q] = pc[q] /\ victim'[q] = victim[q]
    BY <1>5, StepMoves
  <2>4. CASE o \in Ending
    <3>1. o \in Ending'
      <4>1. p \in Ending => p \in Ending'
        BY <1>5, StepMoves
      <4> QED
        BY <2>3, <2>4, <4>1 DEF Ending
    <3> QED
      BY <2>1, <3>1 DEF ListedAt
  <2>5. ASSUME NEW q \in Proc, Chosen(q), victim[q] = f PROVE ListedAt(f)'
    <3>1. CASE q # p
      <4>1. Chosen(q)' /\ victim'[q] = f
        BY <2>3, <2>5, <3>1 DEF Chosen, HoldsPool
      <4> QED
        BY <4>1 DEF ListedAt
    <3>2. CASE q = p
      <4>1. Chosen(p)' \/ pc[p] \in {"install", "outErr", "inErr"}
        BY <1>5, <2>5, <3>2, StepMoves
      <4>2. pc[p] \notin {"outErr", "inErr"}
        BY <1>1 DEF FlashFailed
      <4>3. pc[p] # "install"
        <5>1. CASE pc[p] = "install"
          <6>1. DeviceMutex(p)
            BY <1>5, <2>5, <3>2, <5>1 DEF Steps, Touch, Nuke, Access, uTLB_RefillHandler, PageFault,
              At, PickFrame, WriteOut, ReadIn, NukeTest, NukePage
          <6> QED
            BY <5>1, <6>1 DEF DeviceMutex, DeviceMoves, At
        <5> QED
          BY <5>1
      <4>4. victim'[p] = victim[p]
        BY <1>5, <2>5, <3>2, StepMoves DEF Chosen
      <4> QED
        BY <2>5, <3>2, <4>1, <4>2, <4>3, <4>4 DEF ListedAt
    <3> QED
      BY <3>1, <3>2
  <2>6. CASE o \notin Ending /\ pte[o][g] = f
    <3>1. CASE PickFrame(p)
      <4> DEFINE e == find_frame_swapPool
      <4>1. e \in Frame /\ At(p, "pick")
        BY <3>1, FrameFound DEF PickFrame
      <4>2. CASE f = e
        <5>1. victim'[p] = f /\ pc'[p] \in {"in", "out"}
          BY <3>1, <4>2 DEF PickFrame, Goto, TypeOK
        <5>2. Chosen(p)'
          BY <5>1 DEF Chosen, HoldsPool
        <5> QED
          BY <5>1, <5>2 DEF ListedAt
      <4>3. CASE f # e
        <5>1. pte'[o][g] = pte[o][g]
          <6>1. CASE swap[e] = FREE
            BY <3>1, <6>1 DEF PickFrame
          <6>2. CASE swap[e] # FREE
            <7>1. swap[e].asid \in Proc /\ swap[e].page \in Page
              BY <4>1, <6>2 DEF TypeOK, Occupant
            <7>2. pte' = [pte EXCEPT ![swap[e].asid][swap[e].page] = Invalid]
              BY <3>1, <6>2 DEF PickFrame
            <7>3. swap[e].asid \in Ending \/ pte[swap[e].asid][swap[e].page] = e
              BY <1>1, <4>1, <6>2, FrameListed
            <7>4. ~(o = swap[e].asid /\ g = swap[e].page)
              BY <2>6, <4>3, <7>3
            <7> HIDE DEF o, g, e
            <7> QED
              BY <2>2, <7>1, <7>2, <7>4, PteEntry
          <6> QED
            BY <6>1, <6>2
        <5> QED
          BY <2>1, <2>6, <5>1 DEF ListedAt
      <4> QED
        BY <4>2, <4>3
    <3>2. CASE NukePage(p)
      <4>1. o # p
        BY <2>6, <3>2 DEF NukePage, At, Ending, NukePc
      <4>2. pte'[o][g] = pte[o][g]
        <5> HIDE DEF o, g
        <5> QED
          BY <2>2, <3>2, <4>1, PteEntry DEF NukePage
      <4> QED
        BY <2>1, <2>6, <4>2 DEF ListedAt
    <3>3. CASE ~PickFrame(p) /\ ~NukePage(p)
      <4>1. pte' = pte
        BY <1>5, <3>3 DEF Steps, Touch, Nuke, Access, uTLB_RefillHandler, PageFault,
          WriteOut, ReadIn, NukeTest, DeviceMutex
      <4> QED
        BY <2>1, <2>6, <4>1 DEF ListedAt
    <3> QED
      BY <3>1, <3>2, <3>3
  <2> QED
    BY <1>2, <2>1, <2>4, <2>5, <2>6 DEF ListedAt
<1>6. ASSUME NEW p \in Proc, Steps(p), Install(p) PROVE ListedAt(f)'
  <2>1. want[p] \in Page /\ pte[p][want[p]] = Invalid /\ Chosen(p)
    BY <1>6 DEF Install, At, Wanted, Faulting, HoldsPool, Chosen
  <2>2. Slot(want[p]) = want[p]
    BY <2>1 DEF Slot
  <2>3. /\ swap' = [swap EXCEPT ![victim[p]] = [asid |-> p, page |-> want[p]]]
        /\ pte' = [pte EXCEPT ![p][want[p]] = victim[p]]
        /\ victim[p] \in Frame
    BY <1>6, <2>2 DEF Install, TypeOK
  <2>4. CASE f = victim[p]
    <3>1. swap'[f] = [asid |-> p, page |-> want[p]]
      BY <2>3, <2>4 DEF TypeOK
    <3>2. pte'[p][want[p]] = f
      BY <2>1, <2>3, <2>4 DEF TypeOK
    <3> QED
      BY <3>1, <3>2 DEF ListedAt
  <2>5. CASE f # victim[p]
    <3>1. swap'[f] = swap[f]
      BY <2>3, <2>5 DEF TypeOK
    <3> DEFINE o == swap[f].asid
    <3> DEFINE g == swap[f].page
    <3>2. o \in Proc /\ g \in Page
      BY <3>1 DEF TypeOK, Occupant
    <3>3. \A q \in Proc : ~(Chosen(q) /\ victim[q] = f)
      BY <2>1, <2>5, ChosenInside
    <3>4. CASE o \in Ending
      <4>1. o # p
        BY <1>6, <3>4 DEF Install, At, Ending, NukePc
      <4>2. o \in Ending'
        BY <1>6, <3>2, <3>4, <4>1, StepMoves DEF Ending
      <4> QED
        BY <3>1, <4>2 DEF ListedAt
    <3>5. CASE pte[o][g] = f
      <4>1. ~(o = p /\ g = want[p])
        BY <2>1, <3>5, Names
      <4>2. pte'[o][g] = f
        <5> HIDE DEF o, g
        <5> QED
          BY <2>1, <2>3, <3>2, <3>5, <4>1, PteEntry
      <4> QED
        BY <3>1, <4>2 DEF ListedAt
    <3> QED
      BY <1>2, <3>1, <3>3, <3>4, <3>5 DEF ListedAt
  <2> QED
    BY <2>4, <2>5
<1> QED
  BY <1>3, <1>4, <1>5, <1>6, StepCases

\* vmSupport.c: a page that is being brought in is valid nowhere, its frame
\* is filled with what the backing store holds, and the swap pool table says
\* of every live page that is in a frame where it is.
THEOREM FramesExact == Spec => []MInv
<1>1. Init => MInv
  <2>1. ASSUME Init PROVE Wanted /\ Filled /\ Listed
    <3>1. \A p \in Proc : pc[p] = "user"
      BY <2>1 DEF Init
    <3>2. \A f \in Frame : swap[f] = FREE
      BY <2>1 DEF Init
    <3> QED
      BY <3>1, <3>2 DEF Wanted, Filled, Listed, Faulting, HoldsPool
  <2> QED
    BY <2>1, InitIInv DEF MInv
<1>2. MInv /\ [Next]_vars => MInv'
  BY TypeStep, TablesStep, WantedStep, FilledStep, ListedStep DEF MInv, IInv, Tables
<1> QED
  BY <1>1, <1>2, PTL DEF Spec

-----------------------------------------------------------------------------
(* The pool is lost only by a failing transfer.                            *)

\* The units of semaphore_swapPool: its queue is as long as it is negative,
\* and somebody is inside unless it is positive.
PoolUnits ==
  /\ IsInjective(sem[SwapPool].queue)
  /\ sem[SwapPool].val >= 0 => sem[SwapPool].queue = <<>>
  /\ sem[SwapPool].val < 0 => Len(sem[SwapPool].queue) = 0 - sem[SwapPool].val
  /\ sem[SwapPool].val <= 0 => \E p \in Proc : Inside(p)

NoFailure == \A p \in Proc : pc[p] \notin {"outErr", "inErr"}

LEMMA UnitsKept ==
  ASSUME IInv, IInv', NoFailure, PoolUnits, [Next]_vars PROVE PoolUnits'
<1> USE DEF IInv
<1> DEFINE s == sem[SwapPool]
<1> DEFINE t == sem'[SwapPool]
<1>1. /\ s.val \in Int /\ s.queue \in Seq(Proc)
      /\ t.val \in Int /\ t.queue \in Seq(Proc)
  BY DEF TypeOK, Semaphores
<1>2. CASE UNCHANGED vars
  BY <1>2 DEF vars, PoolUnits, Inside, HoldsPool
<1>3. ASSUME NEW p \in Proc, Steps(p) PROVE PoolUnits'
  <2>1. t = s
    BY <1>3, StepMoves
  <2>2. \A q \in Proc : q # p => pc'[q] = pc[q]
    BY <1>3, StepMoves
  <2>3. HoldsPool(p) => HoldsPool(p)'
    BY <1>3, StepMoves DEF NoFailure
  <2>4. \A q \in Proc : Inside(q) => Inside(q)'
    BY <2>1, <2>2, <2>3 DEF Inside, HoldsPool
  <2> QED
    BY <2>1, <2>4 DEF PoolUnits
<1>4. ASSUME NEW p \in Proc, P(p, "fault", SwapPool, "pick") PROVE PoolUnits'
  <2> DEFINE S == {SwapPool} \cup Proc
  <2>1. sem \in Semaphores(S, Proc) /\ SwapPool \in S /\ sem' = passeren(sem, SwapPool, p)
    BY <1>4 DEF TypeOK, P
  <2>2. /\ t.val = s.val - 1
        /\ t.queue = IF s.val > 0 THEN s.queue ELSE Append(s.queue, p)
    BY <2>1 DEF passeren, Semaphores
  <2>3. p \notin ToSet(s.queue) /\ pc[p] = "fault" /\ pc'[p] = "pick"
    BY <1>4, NotQueued DEF P, Goto, TypeOK
  <2>4. \A q \in Proc : q # p => pc'[q] = pc[q]
    BY <1>4, <2>3 DEF P, Goto, TypeOK
  <2>5. CASE s.val > 0
    <3>1. s.val = 1 /\ s.queue = <<>> /\ t.val = 0 /\ t.queue = <<>>
      BY <1>1, <2>2, <2>5 DEF PoolLock, PoolUnits
    <3>2. Inside(p)'
      BY <2>3, <3>1, EmptyQ DEF Inside, HoldsPool
    <3> QED
      BY <3>1, <3>2, EmptyQ DEF PoolUnits
  <2>6. CASE ~(s.val > 0)
    <3>1. /\ t.queue = Append(s.queue, p) /\ t.val < 0
      BY <1>1, <2>2, <2>6
    <3>2. /\ IsInjective(t.queue) /\ Len(t.queue) = Len(s.queue) + 1
          /\ ToSet(t.queue) = ToSet(s.queue) \cup {p}
      BY <1>1, <2>3, <3>1, AppendQ DEF PoolUnits
    <3>3. Len(s.queue) = 0 - s.val
      BY <1>1, <2>6, EmptyQ DEF PoolUnits
    <3>4. Len(t.queue) = 0 - t.val
      BY <1>1, <2>2, <3>2, <3>3
    <3>5. PICK q \in Proc : Inside(q)
      BY <1>1, <2>6 DEF PoolUnits
    <3>6. Inside(q)'
      BY <2>3, <2>4, <3>2, <3>5 DEF Inside, HoldsPool
    <3> QED
      BY <1>1, <3>1, <3>2, <3>4, <3>6 DEF PoolUnits
  <2> QED
    BY <2>5, <2>6
<1>5. ASSUME NEW p \in Proc, V(p, "release", SwapPool, "user") PROVE PoolUnits'
  <2> DEFINE S == {SwapPool} \cup Proc
  <2>1. sem \in Semaphores(S, Proc) /\ SwapPool \in S /\ sem' = verhogen(sem, SwapPool)
    BY <1>5 DEF TypeOK, V
  <2>2. /\ t.val = s.val + 1
        /\ t.queue = IF s.val < 0 /\ s.queue # <<>> THEN Tail(s.queue) ELSE s.queue
    BY <2>1 DEF verhogen, Semaphores
  <2>3. p \notin ToSet(s.queue) /\ pc[p] = "release" /\ pc'[p] = "user"
    BY <1>5, NotQueued DEF V, Goto, TypeOK
  <2>4. \A q \in Proc : q # p => pc'[q] = pc[q]
    BY <1>5, <2>3 DEF V, Goto, TypeOK
  <2>5. Inside(p) /\ s.val # 1
    BY <2>3 DEF Inside, HoldsPool, PoolLock
  <2>6. CASE s.val >= 0
    <3>1. s.val = 0 /\ t.val = 1 /\ t.queue = <<>>
      BY <1>1, <2>2, <2>5, <2>6 DEF PoolLock, PoolUnits
    <3> QED
      BY <3>1, EmptyQ DEF PoolUnits
  <2>7. CASE s.val < 0
    <3>1. Len(s.queue) = 0 - s.val /\ s.queue # <<>> /\ IsInjective(s.queue)
      BY <1>1, <2>7, EmptyQ DEF PoolUnits
    <3>2. /\ t.queue = Tail(s.queue) /\ Len(t.queue) = Len(s.queue) - 1
          /\ Head(s.queue) \in Proc /\ Head(s.queue) \in ToSet(s.queue)
          /\ IsInjective(t.queue) /\ Head(s.queue) \notin ToSet(t.queue)
      BY <1>1, <2>2, <2>7, <3>1, HeadTailQ
    <3>3. Len(t.queue) = 0 - t.val
      BY <1>1, <2>2, <3>1, <3>2
    <3>4. t.val <= 0
      BY <1>1, <2>2, <2>7
    <3>5. t.val = 0 => t.queue = <<>>
      BY <1>1, <3>3, EmptyQ
    <3>6. \E q \in Proc : Inside(q)'
      <4>1. PICK q \in Proc : q \in ToSet(s.queue) /\ q \notin ToSet(t.queue)
        BY <3>2
      <4>2. pc[q] = "pick" /\ q # p
        BY <2>3, <4>1 DEF PoolLock
      <4>3. Inside(q)'
        BY <2>4, <4>1, <4>2 DEF Inside, HoldsPool
      <4> QED
        BY <4>3
    <3>7. t.val >= 0 => t.queue = <<>>
      BY <1>1, <3>4, <3>5
    <3> QED
      BY <3>2, <3>3, <3>6, <3>7 DEF PoolUnits
  <2> QED
    BY <1>1, <2>6, <2>7
<1> QED
  BY <1>2, <1>3, <1>4, <1>5, StepCases DEF PoolPV

\* vmSupport.c: the pool is lost by a failing transfer and in no other way.
THEOREM PoolNeverLost == FlashErrors = FALSE => (Spec => []~FlashFailed)
<1> SUFFICES ASSUME FlashErrors = FALSE PROVE Spec => []~FlashFailed
  OBVIOUS
<1>1. Init => NoFailure /\ PoolUnits
  <2> SUFFICES ASSUME Init PROVE NoFailure /\ PoolUnits
    OBVIOUS
  <2>1. sem[SwapPool].val = 1 /\ sem[SwapPool].queue = <<>>
    BY DEF Init, Sema4
  <2>2. NoFailure
    BY DEF Init, NoFailure
  <2>3. IsInjective(sem[SwapPool].queue)
    BY <2>1, EmptyQ
  <2> QED
    BY <2>1, <2>2, <2>3 DEF PoolUnits
<1>2. IInv /\ NoFailure /\ [Next]_vars => NoFailure'
  <2> SUFFICES ASSUME IInv, NoFailure, [Next]_vars PROVE NoFailure'
    OBVIOUS
  <2> USE DEF IInv
  <2>1. CASE UNCHANGED vars
    BY <2>1 DEF vars, NoFailure
  <2>2. ASSUME NEW p \in Proc, Steps(p) PROVE NoFailure'
    <3>1. pc'[p] \notin {"outErr", "inErr"}
      <4>1. CASE DeviceMutex(p)
        BY <4>1 DEF DeviceMutex, DeviceMoves, Goto, TypeOK
      <4>2. CASE ~DeviceMutex(p)
        BY <2>2, <4>2 DEF Steps, Touch, Nuke, Access, uTLB_RefillHandler, PageFault, PickFrame,
          WriteOut, ReadIn, Install, NukeTest, NukePage, Goto, TypeOK, NoFailure
      <4> QED
        BY <4>1, <4>2
    <3>2. \A q \in Proc : q # p => pc'[q] = pc[q]
      BY <2>2, StepMoves
    <3> QED
      BY <3>1, <3>2 DEF NoFailure
  <2>3. ASSUME NEW p \in Proc, PoolPV(p) PROVE NoFailure'
    BY <2>3, PoolMoves DEF NoFailure
  <2> QED
    BY <2>1, <2>2, <2>3, StepCases
<1>3. IInv /\ IInv' /\ NoFailure /\ PoolUnits /\ [Next]_vars => PoolUnits'
  BY UnitsKept
<1>4. NoFailure /\ PoolUnits => ~FlashFailed
  BY DEF NoFailure, PoolUnits, FlashFailed, PoolLost, Inside
<1> QED
  BY <1>1, <1>2, <1>3, <1>4, PagerInvariant, PTL DEF Spec

-----------------------------------------------------------------------------
(* What the pages of a process hold.                                       *)

\* The page [q, g] is in the frame p writes out.
Takes(p, q, g) ==
  pc[p] \in {"out", "outIO"} /\ swap[victim[p]] = [asid |-> q, page |-> g]

\* One frame at a time is written out.
LEMMA TakesOne ==
  IInv => \A p, q \in Proc :
            pc[p] \in {"out", "outIO"} /\ pc[q] \in {"out", "outIO"} => p = q
  BY ChosenInside DEF IInv, Chosen, HoldsPool

LEMMA ContentsAre ==
  IInv => \A q \in Proc, g \in Page :
    /\ pte[q][g] # Invalid => Contents(q, g) = frame[pte[q][g]]
    /\ \A p \in Proc : pte[q][g] = Invalid /\ Takes(p, q, g)
                         => Contents(q, g) = frame[victim[p]]
    /\ pte[q][g] = Invalid /\ (\A p \in Proc : ~Takes(p, q, g))
         => Contents(q, g) = flash[q][g]
<1> SUFFICES ASSUME IInv, NEW q \in Proc, NEW g \in Page
             PROVE
    /\ pte[q][g] # Invalid => Contents(q, g) = frame[pte[q][g]]
    /\ \A p \in Proc : pte[q][g] = Invalid /\ Takes(p, q, g)
                         => Contents(q, g) = frame[victim[p]]
    /\ pte[q][g] = Invalid /\ (\A p \in Proc : ~Takes(p, q, g))
         => Contents(q, g) = flash[q][g]
  OBVIOUS
<1>1. \A p \in Proc : p \in Leaving(q, g) <=> Takes(p, q, g)
  BY DEF Leaving, Takes
<1>2. pte[q][g] # Invalid => Contents(q, g) = frame[pte[q][g]]
  BY DEF Contents
<1>3. ASSUME NEW p \in Proc, pte[q][g] = Invalid, Takes(p, q, g)
      PROVE  Contents(q, g) = frame[victim[p]]
  <2>1. Leaving(q, g) = {p}
    BY <1>3, TakesOne DEF Leaving, Takes
  <2> QED
    BY <1>3, <2>1 DEF Contents
<1>4. pte[q][g] = Invalid /\ (\A p \in Proc : ~Takes(p, q, g))
        => Contents(q, g) = flash[q][g]
  <2>1. (\A p \in Proc : ~Takes(p, q, g)) => Leaving(q, g) = {}
    BY DEF Leaving, Takes
  <2> QED
    BY <2>1 DEF Contents
<1> QED
  BY <1>2, <1>3, <1>4

\* A step that moves no page, and no frame to or from the device.
LEMMA ContentsQuiet ==
  ASSUME IInv, IInv', NEW q \in Proc, NEW g \in Page,
         UNCHANGED <<frame, flash, victim, swap>>, pte'[q][g] = pte[q][g],
         \A p \in Proc : pc'[p] \in {"out", "outIO"} <=> pc[p] \in {"out", "outIO"}
  PROVE  Contents(q, g)' = Contents(q, g)
<1>1. Leaving(q, g)' = Leaving(q, g)
  BY DEF Leaving
<1> QED
  BY <1>1 DEF Contents

LEMMA ContentsPrimed ==
  IInv' => \A q \in Proc, g \in Page :
    /\ pte'[q][g] # Invalid => Contents(q, g)' = frame'[pte'[q][g]]
    /\ \A p \in Proc : pte'[q][g] = Invalid /\ Takes(p, q, g)'
                         => Contents(q, g)' = frame'[victim'[p]]
    /\ pte'[q][g] = Invalid /\ (\A p \in Proc : ~Takes(p, q, g)')
         => Contents(q, g)' = flash'[q][g]
<1>1. (IInv => \A q \in Proc, g \in Page :
    /\ pte[q][g] # Invalid => Contents(q, g) = frame[pte[q][g]]
    /\ \A p \in Proc : pte[q][g] = Invalid /\ Takes(p, q, g)
                         => Contents(q, g) = frame[victim[p]]
    /\ pte[q][g] = Invalid /\ (\A p \in Proc : ~Takes(p, q, g))
         => Contents(q, g) = flash[q][g])'
  BY ContentsAre, PTL
<1> QED
  BY <1>1

\* vmSupport.c: the page goes from its frame to the frame on its way out ...
LEMMA ContentsPicked ==
  ASSUME MInv, IInv', NEW p \in Proc, PickFrame(p), ~FlashFailed,
         NEW q \in Proc \ Ending, NEW g \in Page
  PROVE  Contents(q, g)' = Contents(q, g)
<1> USE DEF MInv, IInv
<1> DEFINE f == find_frame_swapPool
<1>1. /\ f \in Frame /\ At(p, "pick") /\ UNCHANGED <<swap, frame, flash>>
      /\ victim' = [victim EXCEPT ![p] = f]
  BY FrameFound DEF PickFrame
<1>2. /\ victim'[p] = f /\ pc'[p] \in {"in", "out"} /\ (pc'[p] = "out" <=> swap[f] # FREE)
      /\ \A r \in Proc : r # p => pc'[r] = pc[r] /\ victim'[r] = victim[r]
  BY <1>1 DEF PickFrame, Goto, TypeOK
<1>3. \A r \in Proc : pc[r] \notin {"out", "outIO"}
  <2>1. Inside(p)
    BY <1>1, NotQueued DEF Inside, HoldsPool
  <2> QED
    BY <1>1, <2>1, Alone DEF Chosen, HoldsPool, At
<1>4. \A r \in Proc : ~Takes(r, q, g)
  BY <1>3 DEF Takes
<1>5. \A r \in Proc : Takes(r, q, g)' => r = p
  BY <1>2, <1>3 DEF Takes
<1>6. CASE swap[f] = FREE
  <2>1. pte' = pte /\ \A r \in Proc : ~Takes(r, q, g)'
    BY <1>2, <1>5, <1>6 DEF PickFrame, Takes
  <2> QED
    BY <1>1, <1>4, <2>1, ContentsAre, ContentsPrimed
<1>7. CASE swap[f] # FREE
  <2> DEFINE o == swap[f].asid
  <2> DEFINE h == swap[f].page
  <2>1. /\ o \in Proc /\ h \in Page /\ swap[f] = [asid |-> o, page |-> h]
    <3>1. swap[f] \in Occupant
      BY <1>1, <1>7 DEF TypeOK
    <3> QED
      BY <3>1 DEF Occupant
  <2>2. pte' = [pte EXCEPT ![o][h] = Invalid]
    BY <1>7 DEF PickFrame
  <2>3. o \in Ending \/ pte[o][h] = f
    BY <1>1, <1>7, FrameListed
  <2> HIDE DEF o, h, f
  <2>4. pte'[q][g] = IF q = o /\ g = h THEN Invalid ELSE pte[q][g]
    <3>1. q \in Proc /\ pte \in [Proc -> [Page -> Frame \cup {Invalid}]]
      BY DEF TypeOK
    <3> QED
      BY <2>1, <2>2, <3>1
  <2>5. Takes(p, q, g)' <=> q = o /\ g = h
    BY <1>1, <1>2, <1>7, <2>1 DEF Takes
  <2>6. CASE q = o /\ g = h
    <3>1. Contents(q, g) = frame[f]
      BY <1>1, <2>3, <2>6, Names, ContentsAre
    <3>2. Contents(q, g)' = frame'[f]
      BY <1>2, <2>4, <2>5, <2>6, ContentsPrimed
    <3> QED
      BY <1>1, <3>1, <3>2
  <2>7. CASE ~(q = o /\ g = h)
    <3>1. \A r \in Proc : ~Takes(r, q, g)'
      BY <1>5, <2>5, <2>7
    <3>2. pte'[q][g] = pte[q][g]
      BY <2>4, <2>7
    <3> QED
      BY <1>1, <1>4, <3>1, <3>2, ContentsAre, ContentsPrimed
  <2> QED
    BY <2>6, <2>7
<1> QED
  BY <1>6, <1>7

\* ... then to the backing store ...
LEMMA ContentsWritten ==
  ASSUME MInv, IInv', NEW p \in Proc, WriteOut(p), ~FlashFailed',
         NEW q \in Proc, NEW g \in Page
  PROVE  Contents(q, g)' = Contents(q, g)
<1> USE DEF MInv, IInv
<1> DEFINE o == swap[victim[p]].asid
<1> DEFINE h == swap[victim[p]].page
<1>1. /\ o \in Proc /\ h \in Page /\ swap[victim[p]] = [asid |-> o, page |-> h]
  BY DEF TypeOK, Occupant, VictimOccupied, WriteOut, At
<1>2. pc'[p] # "outErr"
  BY DEF FlashFailed
<1>3. /\ flash' = [flash EXCEPT ![o][h] = frame[victim[p]]]
      /\ pc' = [pc EXCEPT ![p] = "outV"] /\ pc[p] = "outIO"
      /\ UNCHANGED <<pte, frame, victim, swap>>
  BY <1>2 DEF WriteOut, Goto, At, TypeOK
<1> HIDE DEF o, h
<1>4. pc'[p] = "outV" /\ \A r \in Proc : r # p => pc'[r] = pc[r]
  BY <1>3 DEF TypeOK
<1>5. \A r \in Proc : ~Takes(r, q, g)'
  BY <1>3, <1>4, TakesOne DEF Takes
<1>6. \A r \in Proc : Takes(r, q, g) => r = p
  BY <1>3, TakesOne DEF Takes
<1>7. Takes(p, q, g) <=> q = o /\ g = h
  BY <1>1, <1>3 DEF Takes
<1>8. flash'[q][g] = IF q = o /\ g = h THEN frame[victim[p]] ELSE flash[q][g]
  BY <1>1, <1>3 DEF TypeOK
<1>9. CASE pte[q][g] # Invalid
  BY <1>3, <1>9, ContentsAre, ContentsPrimed
<1>10. CASE pte[q][g] = Invalid /\ q = o /\ g = h
  BY <1>3, <1>5, <1>7, <1>8, <1>10, ContentsAre, ContentsPrimed
<1>11. CASE pte[q][g] = Invalid /\ ~(q = o /\ g = h)
  BY <1>3, <1>5, <1>6, <1>7, <1>8, <1>11, ContentsAre, ContentsPrimed
<1> QED
  BY <1>9, <1>10, <1>11

\* ... which a process that has a frame to fill reads ...
LEMMA ContentsRead ==
  ASSUME MInv, IInv', NEW p \in Proc, ReadIn(p),
         NEW q \in Proc, NEW g \in Page
  PROVE  Contents(q, g)' = Contents(q, g)
<1> USE DEF MInv, IInv
<1>1. pc[p] = "inIO" /\ Chosen(p) /\ UNCHANGED <<pte, flash, victim, swap>>
  BY DEF ReadIn, At, Chosen, HoldsPool
<1>2. \A r \in Proc : pc[r] \notin {"out", "outIO"}
  BY <1>1, ChosenInside DEF Chosen, HoldsPool
<1>3. \A r \in Proc : pc'[r] \notin {"out", "outIO"}
  BY <1>2 DEF ReadIn, Goto, TypeOK
<1>4. \A f \in Frame : f # victim[p] => frame'[f] = frame[f]
  BY DEF ReadIn, TypeOK
<1>5. pte[q][g] # Invalid => pte[q][g] \in Frame /\ pte[q][g] # victim[p]
  BY <1>1 DEF TypeOK, VictimUnused
<1>6. \A r \in Proc : ~Takes(r, q, g) /\ ~Takes(r, q, g)'
  BY <1>2, <1>3 DEF Takes
<1> QED
  BY <1>1, <1>4, <1>5, <1>6, ContentsAre, ContentsPrimed

\* ... before the page is valid there.
LEMMA ContentsInstalled ==
  ASSUME MInv, IInv', NEW p \in Proc, Install(p),
         NEW q \in Proc, NEW g \in Page
  PROVE  Contents(q, g)' = Contents(q, g)
<1> USE DEF MInv, IInv
<1>1. pc[p] = "install" /\ Chosen(p) /\ UNCHANGED <<flash, frame, victim>>
  BY DEF Install, At, Chosen, HoldsPool
<1>2. \A r \in Proc : pc[r] \notin {"out", "outIO"}
  BY <1>1, ChosenInside DEF Chosen, HoldsPool
<1>3. \A r \in Proc : pc'[r] \notin {"out", "outIO"}
  BY <1>2 DEF Install, Goto, TypeOK
<1>4. \A r \in Proc : ~Takes(r, q, g) /\ ~Takes(r, q, g)'
  BY <1>2, <1>3 DEF Takes
<1>5. want[p] \in Page /\ pte[p][want[p]] = Invalid
  BY <1>1 DEF Wanted, Faulting, HoldsPool
<1>6. pte' = [pte EXCEPT ![p][want[p]] = victim[p]]
  BY <1>5 DEF Install, Slot
<1>7. pte'[q][g] = IF q = p /\ g = want[p] THEN victim[p] ELSE pte[q][g]
  BY <1>5, <1>6 DEF TypeOK
<1>8. victim[p] # Invalid /\ frame[victim[p]] = flash[p][want[p]]
  BY <1>1, Names DEF Filled, TypeOK
<1>9. CASE q = p /\ g = want[p]
  BY <1>1, <1>4, <1>5, <1>7, <1>8, <1>9, ContentsAre, ContentsPrimed
<1>10. CASE ~(q = p /\ g = want[p])
  BY <1>1, <1>4, <1>7, <1>10, ContentsAre, ContentsPrimed
<1> QED
  BY <1>9, <1>10

\* Nothing a process can see changes.
LEMMA Unseen ==
  ASSUME ~FlashFailed, ~FlashFailed', Ending' = Ending,
         \A q \in Proc \ Ending : /\ want'[q] = want[q] \/ {want'[q], want[q]} \cap Page = {}
                                 /\ \A g \in Page : Contents(q, g)' = Contents(q, g)
  PROVE  UNCHANGED <<Alive, Touching, Memories>>
<1>1. Alive' = Alive /\ Alive = Proc \ Ending
  BY DEF Alive
<1>2. Touching' = Touching
  <2>1. \A q \in Proc :
          (IF q \in Alive' /\ want'[q] \in Page THEN want'[q] ELSE FREE)
            = (IF q \in Alive /\ want[q] \in Page THEN want[q] ELSE FREE)
    BY <1>1
  <2> QED
    BY <2>1 DEF Touching
<1>3. Memories' = Memories
  <2>1. \A q \in Alive : [g \in Page |-> Contents(q, g)'] = [g \in Page |-> Contents(q, g)]
    BY <1>1
  <2> QED
    BY <1>1, <2>1 DEF Memories, Nothing
<1> QED
  BY <1>1, <1>2, <1>3

LEMMA Stutter ==
  ASSUME UNCHANGED <<Alive, Touching, Memories>>
  PROVE  [Memory!Next]_(Memory!memoryVars)
  BY DEF Memory!memoryVars

\* A process ends, or all at once if the pool is lost.
LEMMA Ends ==
  ASSUME NEW S, S # {}, S \subseteq Alive, Alive' = Alive \ S,
         Touching' = [p \in Proc |-> IF p \in S THEN FREE ELSE Touching[p]],
         \A q \in Alive' : Memories'[q] = Memories[q]
  PROVE  Memory!Next
  BY DEF Memory!Next, Memory!End

LEMMA SeeFailure ==
  ASSUME ~FlashFailed, FlashFailed'
  PROVE  [Memory!Next]_(Memory!memoryVars)
<1>1. /\ Alive' = {}
      /\ Touching' = [p \in Proc |-> FREE]
      /\ Memories' = [p \in Proc |-> Nothing]
  BY DEF Alive, Touching, Memories, Nothing
<1>2. CASE Alive = {}
  <2>1. /\ Touching = [p \in Proc |-> FREE]
        /\ Memories = [p \in Proc |-> Nothing]
    BY <1>2 DEF Touching, Memories
  <2> QED
    BY <1>1, <1>2, <2>1, Stutter
<1>3. CASE Alive # {}
  <2>1. Touching' = [p \in Proc |-> IF p \in Alive THEN FREE ELSE Touching[p]]
    BY <1>1 DEF Touching
  <2>2. Memory!Next
    <3>1. Alive' = Alive \ Alive /\ \A q \in Alive' : Memories'[q] = Memories[q]
      BY <1>1
    <3> QED
      BY <1>3, <2>1, <3>1, Ends
  <2> QED
    BY <2>2
<1> QED
  BY <1>2, <1>3

LEMMA SeeFailed ==
  ASSUME FlashFailed, FlashFailed'
  PROVE  [Memory!Next]_(Memory!memoryVars)
<1>1. UNCHANGED <<Alive, Touching, Memories>>
  BY DEF Alive, Touching, Memories, Nothing
<1> QED
  BY <1>1, Stutter

LEMMA SeeTouch ==
  ASSUME MInv, IInv', NEW p \in Proc, NEW g \in Page \cup Stray, Touch(p, g),
         ~FlashFailed, ~FlashFailed'
  PROVE  [Memory!Next]_(Memory!memoryVars)
<1> USE DEF MInv, IInv
<1>1. /\ pc[p] = "user" /\ want[p] = FREE /\ want' = [want EXCEPT ![p] = g]
      /\ UNCHANGED <<pc, victim, swap, pte, frame, flash>>
  BY DEF Touch, At
<1>2. Ending' = Ending /\ Alive' = Alive /\ Alive = Proc \ Ending /\ p \in Alive
  BY <1>1 DEF Ending, Alive, NukePc
<1>3. \A q \in Proc, h \in Page : Contents(q, h)' = Contents(q, h)
  BY <1>1, ContentsQuiet
<1>4. want'[p] = g /\ \A q \in Proc : q # p => want'[q] = want[q]
  BY <1>1 DEF TypeOK
<1>5. CASE g \in Page
  <2>1. Touching[p] = FREE
    BY <1>1 DEF Touching
  <2>2. Touching' = [Touching EXCEPT ![p] = g]
    BY <1>2, <1>4, <1>5 DEF Touching
  <2>3. Memories' = Memories
    BY <1>2, <1>3 DEF Memories, Nothing
  <2>4. Memory!Touch(p, g)
    BY <1>2, <2>1, <2>2, <2>3 DEF Memory!Touch
  <2> QED
    BY <1>5, <2>4 DEF Memory!Next
<1>6. CASE g \notin Page
  <2>1. {want'[p], want[p]} \cap Page = {}
    BY <1>1, <1>4, <1>6, Names
  <2> QED
    BY <1>2, <1>3, <1>4, <2>1, Unseen, Stutter
<1> QED
  BY <1>5, <1>6

LEMMA SeeAccess ==
  ASSUME MInv, IInv', NEW p \in Proc, Access(p), ~FlashFailed, ~FlashFailed'
  PROVE  [Memory!Next]_(Memory!memoryVars)
<1> USE DEF MInv, IInv
<1>1. /\ pc[p] = "user" /\ want' = [want EXCEPT ![p] = FREE]
      /\ UNCHANGED <<pc, victim, swap, pte, flash>>
  BY DEF Access, At
<1> PICK g \in Page, f \in Frame : g = want[p] /\ pte[p][g] = f /\ Cached(p, g) = f
  BY Names DEF Access, Cached, TlbAgrees
<1>2. g = want[p] /\ pte[p][g] = f /\ Cached(p, g) = f
  OBVIOUS
<1>3. PICK v \in Val : frame' = [frame EXCEPT ![f] = v]
  BY <1>2 DEF Access
<1>4. Ending' = Ending /\ Alive' = Alive /\ Alive = Proc \ Ending /\ p \in Alive
  BY <1>1 DEF Ending, Alive, NukePc
<1>5. want'[p] = FREE /\ \A q \in Proc : q # p => want'[q] = want[q]
  BY <1>1 DEF TypeOK
<1>6. Contents(p, g)' = v
  <2>1. pte'[p][g] = f /\ f # Invalid
    BY <1>1, <1>2, Names
  <2>2. frame'[f] = v
    BY <1>2, <1>3 DEF TypeOK
  <2> QED
    BY <1>2, <2>1, <2>2, ContentsPrimed
\* No other page is in the frame, and nobody writes it out.
<1>7. ASSUME NEW q \in Proc, NEW h \in Page, ~(q = p /\ h = g)
      PROVE  Contents(q, h)' = Contents(q, h)
  <2>1. pte[q][h] # Invalid => pte[q][h] # f
    <3>1. swap[f] = [asid |-> p, page |-> g]
      BY <1>2, Names DEF FramesOwned
    <3>2. pte[q][h] = f => swap[f] = [asid |-> q, page |-> h]
      BY Names DEF FramesOwned
    <3>3. [asid |-> q, page |-> h] # [asid |-> p, page |-> g]
      BY <1>7
    <3> QED
      BY <3>1, <3>2, <3>3
  <2>2. \A e \in Frame : e # f => frame'[e] = frame[e]
    BY <1>3 DEF TypeOK
  <2>3. \A r \in Proc : Takes(r, q, h) => victim[r] \in Frame /\ victim[r] # f
    BY <1>2 DEF Takes, VictimUnused, Chosen, HoldsPool, TypeOK
  <2>4. \A r \in Proc : Takes(r, q, h)' <=> Takes(r, q, h)
    BY <1>1 DEF Takes
  <2>5. pte[q][h] # Invalid => pte[q][h] \in Frame
    BY DEF TypeOK
  <2>6. UNCHANGED <<pte, flash, victim>>
    BY <1>1
  <2>7. CASE pte[q][h] # Invalid
    BY <2>1, <2>2, <2>5, <2>6, <2>7, ContentsAre, ContentsPrimed
  <2>8. ASSUME pte[q][h] = Invalid, NEW r \in Proc, Takes(r, q, h)
        PROVE  Contents(q, h)' = Contents(q, h)
    BY <2>2, <2>3, <2>4, <2>6, <2>8, ContentsAre, ContentsPrimed
  <2>9. CASE pte[q][h] = Invalid /\ \A r \in Proc : ~Takes(r, q, h)
    BY <2>4, <2>6, <2>9, ContentsAre, ContentsPrimed
  <2> QED
    BY <2>7, <2>8, <2>9
<1>8. Touching[p] = g /\ g # FREE
  BY <1>2, <1>4, Names DEF Touching
<1>9. Touching' = [Touching EXCEPT ![p] = FREE]
  BY <1>4, <1>5, Names DEF Touching
<1>10. Memories' = [Memories EXCEPT ![p][g] = v]
  <2>1. ASSUME NEW q \in Proc PROVE Memories'[q] = [Memories EXCEPT ![p][g] = v][q]
    <3>1. CASE q = p
      <4>1. [h \in Page |-> Contents(p, h)'] = [[h \in Page |-> Contents(p, h)] EXCEPT ![g] = v]
        <5>1. \A h \in Page : Contents(p, h)' = IF h = g THEN v ELSE Contents(p, h)
          BY <1>6, <1>7
        <5> QED
          BY <5>1
      <4> QED
        BY <1>4, <3>1, <4>1 DEF Memories
    <3>2. CASE q # p
      <4>1. [h \in Page |-> Contents(q, h)'] = [h \in Page |-> Contents(q, h)]
        BY <1>7, <3>2
      <4> QED
        BY <1>4, <3>2, <4>1 DEF Memories, Nothing
    <3> QED
      BY <3>1, <3>2
  <2> QED
    BY <2>1 DEF Memories
<1>11. Memory!Access(p, v)
  <2> QED
    BY <1>4, <1>8, <1>9, <1>10 DEF Memory!Access
<1> QED
  BY <1>11 DEF Memory!Next

LEMMA SeeNuke ==
  ASSUME MInv, IInv', NEW p \in Proc, Nuke(p), ~FlashFailed, ~FlashFailed'
  PROVE  [Memory!Next]_(Memory!memoryVars)
<1> USE DEF MInv, IInv
<1>1. /\ pc[p] = "user" /\ pc' = [pc EXCEPT ![p] = "nuke"]
      /\ UNCHANGED <<want, victim, swap, pte, frame, flash>>
  BY DEF Nuke, At, Goto
<1>2. pc'[p] = "nuke" /\ \A q \in Proc : q # p => pc'[q] = pc[q]
  BY <1>1 DEF TypeOK
<1>3. Alive = Proc \ Ending /\ Alive' = Alive \ {p} /\ p \in Alive
  BY <1>1, <1>2 DEF Ending, Alive, NukePc
<1>4. \A q \in Proc, h \in Page : Contents(q, h)' = Contents(q, h)
  BY <1>1, <1>2, ContentsQuiet
<1>5. Touching' = [q \in Proc |-> IF q \in {p} THEN FREE ELSE Touching[q]]
  BY <1>1, <1>3 DEF Touching
<1>6. \A q \in Alive' : Memories'[q] = Memories[q]
  BY <1>3, <1>4 DEF Memories, Alive
<1> QED
  BY <1>3, <1>5, <1>6, Ends

LEMMA SeeOther ==
  ASSUME MInv, IInv', NEW p \in Proc, Steps(p), ~Access(p), ~Nuke(p),
         ~(\E g \in Page \cup Stray : Touch(p, g)), ~FlashFailed, ~FlashFailed'
  PROVE  [Memory!Next]_(Memory!memoryVars)
<1> USE DEF MInv, IInv
<1>1. \A q \in Proc : q # p => pc'[q] = pc[q] /\ want'[q] = want[q]
  BY StepMoves
<1>2. pc[p] \notin {"outErr", "inErr"} /\ pc'[p] \notin {"outErr", "inErr"}
  BY DEF FlashFailed
<1>3. (p \in Ending' <=> p \in Ending) /\ (want'[p] = want[p] \/ p \in Ending)
  <2>1. p \in Ending => p \in Ending'
    BY StepMoves
  <2>2. p \in Ending' => p \in Ending
    <3>1. CASE DeviceMutex(p)
      BY <1>2, <3>1 DEF DeviceMutex, DeviceMoves, At, Goto, TypeOK, Ending, NukePc
    <3>2. CASE ~DeviceMutex(p)
      BY <3>2 DEF Steps, uTLB_RefillHandler, PageFault, PickFrame, WriteOut, ReadIn, Install,
        NukeTest, NukePage, At, Goto, TypeOK, Ending, NukePc
    <3> QED
      BY <3>1, <3>2
  <2>3. want'[p] = want[p] \/ p \in Ending
    BY DEF Steps, uTLB_RefillHandler, PageFault, PickFrame, WriteOut, ReadIn, Install,
      NukeTest, NukePage, At, DeviceMutex, Ending, NukePc
  <2> QED
    BY <2>1, <2>2, <2>3
<1>4. Ending' = Ending
  BY <1>1, <1>3 DEF Ending
<1>5. ASSUME NEW q \in Proc \ Ending, NEW g \in Page PROVE Contents(q, g)' = Contents(q, g)
  <2>1. CASE PickFrame(p) \/ WriteOut(p) \/ ReadIn(p) \/ Install(p)
    BY <1>5, <2>1, ContentsPicked, ContentsWritten, ContentsRead, ContentsInstalled
  <2>2. CASE ~(PickFrame(p) \/ WriteOut(p) \/ ReadIn(p) \/ Install(p))
    <3>1. UNCHANGED <<frame, flash, victim, swap>>
      BY <2>2 DEF Steps, uTLB_RefillHandler, PageFault, NukeTest, NukePage, DeviceMutex
    <3>2. pc'[p] \in {"out", "outIO"} <=> pc[p] \in {"out", "outIO"}
      BY <2>2 DEF Steps, uTLB_RefillHandler, PageFault, NukeTest, NukePage, DeviceMutex,
        DeviceMoves, At, Goto, TypeOK
    <3>3. pte'[q][g] = pte[q][g]
      <4>1. CASE NukePage(p)
        <5>1. q # p
          BY <1>5, <4>1 DEF NukePage, At, Ending, NukePc
        <5> QED
          BY <1>5, <4>1, <5>1, PteEntry DEF NukePage
      <4>2. CASE ~NukePage(p)
        BY <2>2, <4>2 DEF Steps, uTLB_RefillHandler, PageFault, NukeTest, DeviceMutex
      <4> QED
        BY <4>1, <4>2
    <3> QED
      BY <1>1, <1>5, <3>1, <3>2, <3>3, ContentsQuiet
  <2> QED
    BY <2>1, <2>2
<1> QED
  BY <1>1, <1>3, <1>4, <1>5, Unseen, Stutter

LEMMA SeeNext ==
  ASSUME MInv, IInv', [Next]_vars
  PROVE  [Memory!Next]_(Memory!memoryVars)
<1> USE DEF MInv, IInv
<1>1. FlashFailed => FlashFailed'
  BY FailureStays
<1>2. CASE FlashFailed'
  BY <1>2, SeeFailure, SeeFailed
<1>3. CASE ~FlashFailed'
  <2>1. CASE UNCHANGED vars
    <3>1. UNCHANGED <<pc, want, frame, flash, victim, swap, pte>>
      BY <2>1 DEF vars
    <3>2. Ending' = Ending
      BY <3>1 DEF Ending
    <3>3. \A q \in Proc, g \in Page : Contents(q, g)' = Contents(q, g)
      BY <3>1, ContentsQuiet
    <3> QED
      BY <1>1, <1>3, <3>1, <3>2, <3>3, Unseen, Stutter
  <2>2. ASSUME NEW p \in Proc, PoolPV(p) PROVE [Memory!Next]_(Memory!memoryVars)
    <3>1. /\ UNCHANGED <<want, frame, flash, victim, swap, pte>>
          /\ \A q \in Proc : pc'[q] = pc[q] \/ {pc[q], pc'[q]} \cap (NukePc \cup {"out", "outIO"}) = {}
      BY <2>2, PoolMoves DEF NukePc
    <3>2. Ending' = Ending
      BY <3>1 DEF Ending
    <3>3. \A q \in Proc, g \in Page : Contents(q, g)' = Contents(q, g)
      BY <3>1, ContentsQuiet
    <3> QED
      BY <1>1, <1>3, <3>1, <3>2, <3>3, Unseen, Stutter
  <2>3. ASSUME NEW p \in Proc, Steps(p) PROVE [Memory!Next]_(Memory!memoryVars)
    BY <1>1, <1>3, <2>3, SeeTouch, SeeAccess, SeeNuke, SeeOther
  <2> QED
    BY <2>1, <2>2, <2>3, StepCases
<1> QED
  BY <1>2, <1>3

LEMMA SeeInit == ASSUME Init PROVE Memory!Init
<1>1. PICK v \in Val : /\ frame = [f \in Frame |-> v]
                       /\ flash = [p \in Proc |-> [g \in Page |-> v]]
  BY DEF Init
<1>2. IInv
  BY InitIInv
<1>3. /\ \A p \in Proc : pc[p] = "user" /\ want[p] = FREE
      /\ pte = [p \in Proc |-> [g \in Page |-> Invalid]]
      /\ sem[SwapPool].val = 1
  BY DEF Init, Sema4
<1>4. ~FlashFailed /\ Alive = Proc
  BY <1>3 DEF FlashFailed, PoolLost, Alive, Ending, NukePc
<1>5. \A p \in Proc, g \in Page : Contents(p, g) = v
  BY <1>1, <1>2, <1>3, ContentsAre DEF Takes
<1>6. Touching = [p \in Proc |-> FREE]
  BY <1>3, Names DEF Touching
<1>7. Memories = [p \in Proc |-> [g \in Page |-> v]]
  BY <1>4, <1>5 DEF Memories
<1> QED
  BY <1>4, <1>6, <1>7 DEF Memory!Init

\* vmSupport.c: paging is invisible.
THEOREM PagingInvisible == Spec => ImplementsMemory
<1>1. Init => Memory!Init
  BY SeeInit
<1>2. MInv /\ MInv' /\ [Next]_vars => [Memory!Next]_(Memory!memoryVars)
  BY SeeNext DEF MInv
<1> QED
  BY <1>1, <1>2, FramesExact, PTL DEF Spec, ImplementsMemory, Memory!Spec
=============================================================================
