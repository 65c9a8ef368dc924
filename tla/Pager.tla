-------------------------------- MODULE Pager --------------------------------
(***************************************************************************)
(* Demand paging of user processes (vmSupport.c): page tables, TLB, swap   *)
(* pool, one flash device per process as its backing store, the mutexes on *)
(* the pool and on each flash device, and what get_nuked (sysSupport.c)    *)
(* does to them when a process ends.                                       *)
(*                                                                         *)
(* The pager runs with interrupts on, so its steps are the stretches       *)
(* between system calls and those it runs with interrupts off.             *)
(***************************************************************************)
EXTENDS Semaphores, FiniteSets

CONSTANTS
  Proc,        \* user processes; p also names its flash device and mutex
  Page,        \* the pages of a page table
  Stray,       \* pages of KUSEG that no page table holds
  NumFrames,   \* SWAP_POOL_CAP
  Val,         \* contents of a page
  SwapPool,    \* the mutex semaphore_swapPool
  FREE,
  Invalid,     \* a page-table or TLB entry with the V bit off
  Absent,      \* no entry in the TLB
  FlashErrors  \* a flash operation may end with a status other than READY

Frame == 0..NumFrames-1

Occupant == [asid : Proc, page : Page]

ASSUME PagerAssumption ==
  /\ NumFrames \in Nat \ {0}
  /\ Page # {} /\ Val # {}
  /\ Stray \cap Page = {} /\ SwapPool \notin Proc
  /\ FREE \notin Page \cup Stray \cup Occupant
  /\ {Invalid, Absent} \cap Frame = {} /\ Invalid # Absent
  /\ FlashErrors \in BOOLEAN

VARIABLES
  pc,      \* where each process is: in its program, the pager or get_nuked
  want,    \* the page a process is touching, FREE if none
  victim,  \* free_frame_num of a process in the pager
  sem,     \* semaphore_swapPool and the flash part of devSema4_support
  swap,    \* swap_pool: asid and page of each frame
  last,    \* last_replaced_idx
  pte,     \* the page tables: a frame, or V off
  tlb,
  frame,   \* contents of the frames of the pool
  flash    \* contents of the backing stores

vars == <<pc, want, victim, sem, swap, last, pte, tlb, frame, flash>>

PagerPc == {"fault", "pick", "out", "outIO", "outV", "in", "inIO", "inV",
            "install", "release"}
NukePc == {"nuke", "nukeV", "nukePages", "dead"}

TypeOK ==
  /\ pc \in [Proc -> {"user", "outErr", "inErr"} \cup PagerPc \cup NukePc]
  /\ want \in [Proc -> Page \cup Stray \cup {FREE}]
  /\ victim \in [Proc -> Frame]
  /\ sem \in Semaphores({SwapPool} \cup Proc, Proc)
  /\ swap \in [Frame -> Occupant \cup {FREE}]
  /\ last \in Frame
  /\ pte \in [Proc -> [Page -> Frame \cup {Invalid}]]
  /\ tlb \in [Proc -> [Page -> Frame \cup {Invalid, Absent}]]
  /\ frame \in [Frame -> Val]
  /\ flash \in [Proc -> [Page -> Val]]

\* initSwapStructs, and the page tables as summon_process leaves them.
Init ==
  /\ pc = [p \in Proc |-> "user"]
  /\ want = [p \in Proc |-> FREE]
  /\ victim = [p \in Proc |-> 0]
  /\ sem = [s \in {SwapPool} \cup Proc |-> Sema4(1)]
  /\ swap = [f \in Frame |-> FREE]
  /\ last = 0
  /\ pte = [p \in Proc |-> [g \in Page |-> Invalid]]
  /\ tlb = [p \in Proc |-> [g \in Page |-> Absent]]
  /\ \E v \in Val : /\ frame = [f \in Frame |-> v]
                    /\ flash = [p \in Proc |-> [g \in Page |-> v]]

-----------------------------------------------------------------------------
(* The program of a user process, the TLB and its refill.                  *)

At(p, l) == pc[p] = l /\ ~Blocked(sem, p)
Goto(p, l) == pc' = [pc EXCEPT ![p] = l]

\* Where a page is looked up: its number modulo 32.
Slot(g) == IF g \in Page THEN g ELSE CHOOSE s \in Page : TRUE

Touch(p, g) ==
  /\ At(p, "user") /\ want[p] = FREE
  /\ want' = [want EXCEPT ![p] = g]
  /\ UNCHANGED <<pc, victim, sem, swap, last, pte, tlb, frame, flash>>

Cached(p, g) == IF g \in Page THEN tlb[p][g] ELSE Absent

\* The instruction goes through: it reads the page or writes it.
Access(p) ==
  /\ At(p, "user") /\ want[p] # FREE
  /\ Cached(p, want[p]) \in Frame
  /\ \E v \in Val : frame' = [frame EXCEPT ![Cached(p, want[p])] = v]
  /\ want' = [want EXCEPT ![p] = FREE]
  /\ UNCHANGED <<pc, victim, sem, swap, last, pte, tlb, flash>>

\* TLBWR writes a random entry: it may push out any other.
TLBWR(p, g) ==
  \E q \in Proc, h \in Page :
    tlb' = [tlb EXCEPT ![q][h] = Absent, ![p][g] = pte[p][g]]

uTLB_RefillHandler(p) ==
  /\ At(p, "user") /\ want[p] # FREE
  /\ Cached(p, want[p]) = Absent
  /\ TLBWR(p, Slot(want[p]))
  /\ UNCHANGED <<pc, want, victim, sem, swap, last, pte, frame, flash>>

\* The entry is there and not valid: the nucleus passes the fault up.
PageFault(p) ==
  /\ At(p, "user") /\ want[p] # FREE
  /\ Cached(p, want[p]) = Invalid
  /\ Goto(p, "fault")
  /\ UNCHANGED <<want, victim, sem, swap, last, pte, tlb, frame, flash>>

-----------------------------------------------------------------------------
(* tlb_exception_handler                                                   *)

\* Mutant: the TLB is left as it is when a page is taken away.
update_tlb_handler_NoProbe(t, p, g, v) == t

update_tlb_handler(t, p, g, v) ==
  IF t[p][g] = Absent THEN t ELSE [t EXCEPT ![p][g] = v]

P(p, from, s, to) ==
  /\ At(p, from)
  /\ sem' = passeren(sem, s, p)
  /\ Goto(p, to)
  /\ UNCHANGED <<want, victim, swap, last, pte, tlb, frame, flash>>

V(p, from, s, to) ==
  /\ At(p, from)
  /\ sem' = verhogen(sem, s)
  /\ Goto(p, to)
  /\ UNCHANGED <<want, victim, swap, last, pte, tlb, frame, flash>>

\* The next free frame, counting from the last one replaced; if there is
\* none, the one after it.
find_frame_swapPool ==
  LET Ahead(i) == (last + i) % NumFrames
      FreeAhead == {i \in 0..NumFrames-1 : swap[Ahead(i)] = FREE}
  IN IF FreeAhead = {} THEN Ahead(1)
     ELSE Ahead(CHOOSE i \in FreeAhead : \A j \in FreeAhead : i <= j)

\* Mutant: the page keeps its V bit while its frame is taken.
PickFrame_KeepsPage(p) ==
  /\ At(p, "pick")
  /\ LET f == find_frame_swapPool IN
     /\ last' = f
     /\ victim' = [victim EXCEPT ![p] = f]
     /\ Goto(p, IF swap[f] = FREE THEN "in" ELSE "out")
  /\ UNCHANGED <<want, sem, swap, pte, tlb, frame, flash>>

\* A victim is chosen; its page, if it holds one, is taken from its owner
\* with interrupts off.
PickFrame(p) ==
  /\ At(p, "pick")
  /\ LET f == find_frame_swapPool IN
     /\ last' = f
     /\ victim' = [victim EXCEPT ![p] = f]
     /\ \/ /\ swap[f] = FREE
           /\ Goto(p, "in")
           /\ UNCHANGED <<pte, tlb>>
        \/ /\ swap[f] # FREE
           /\ LET o == swap[f].asid  g == swap[f].page IN
              /\ pte' = [pte EXCEPT ![o][g] = Invalid]
              /\ tlb' = update_tlb_handler(tlb, o, g, Invalid)
           /\ Goto(p, "out")
  /\ UNCHANGED <<want, sem, swap, frame, flash>>

\* Mutant: a page is dropped as if it had never been written to.
WriteOut_Skipped(p) ==
  /\ At(p, "outIO")
  /\ Goto(p, "outV")
  /\ UNCHANGED <<want, victim, sem, swap, last, pte, tlb, frame, flash>>

\* The device is done and the process goes on with the status it reported.
WriteOut(p) ==
  /\ At(p, "outIO")
  /\ LET o == swap[victim[p]] IN
     \/ /\ Goto(p, "outV")
        /\ flash' = [flash EXCEPT ![o.asid][o.page] = frame[victim[p]]]
     \/ FlashErrors /\ Goto(p, "outErr") /\ UNCHANGED flash
  /\ UNCHANGED <<want, victim, sem, swap, last, pte, tlb, frame>>

ReadIn(p) ==
  /\ At(p, "inIO")
  /\ \/ /\ Goto(p, "inV")
        /\ frame' = [frame EXCEPT ![victim[p]] = flash[p][Slot(want[p])]]
     \/ FlashErrors /\ Goto(p, "inErr") /\ UNCHANGED frame
  /\ UNCHANGED <<want, victim, sem, swap, last, pte, tlb, flash>>

Install(p) ==
  /\ At(p, "install")
  /\ LET g == Slot(want[p])  f == victim[p] IN
     /\ swap' = [swap EXCEPT ![f] = [asid |-> p, page |-> g]]
     /\ pte' = [pte EXCEPT ![p][g] = f]
     /\ tlb' = update_tlb_handler(tlb, p, g, f)
  /\ Goto(p, "release")
  /\ UNCHANGED <<want, victim, sem, last, frame, flash>>

\* A P or a V on the flash mutex of the device an operation is for; an
\* operation that failed ends in the trap handler, after the V.
flash_read_write(p) ==
  LET owner == swap[victim[p]].asid IN
  \/ swap[victim[p]] # FREE /\ P(p, "out", owner, "outIO")
  \/ WriteOut(p)
  \/ swap[victim[p]] # FREE /\ V(p, "outV", owner, "in")
  \/ swap[victim[p]] # FREE /\ V(p, "outErr", owner, "nuke")
  \/ P(p, "in", p, "inIO")
  \/ ReadIn(p)
  \/ V(p, "inV", p, "install")
  \/ V(p, "inErr", p, "nuke")

tlb_exception_handler(p) ==
  \/ P(p, "fault", SwapPool, "pick")
  \/ PickFrame(p)
  \/ flash_read_write(p)
  \/ Install(p)
  \/ V(p, "release", SwapPool, "user")

-----------------------------------------------------------------------------
(* get_nuked, from SYS9 or a trap: the part of it the pager can see.       *)

Nuke(p) ==
  /\ At(p, "user")
  /\ Goto(p, "nuke")
  /\ UNCHANGED <<want, victim, sem, swap, last, pte, tlb, frame, flash>>

\* The mutex with the number of the process is released if it is 0.
NukeTest(p) ==
  /\ At(p, "nuke")
  /\ Goto(p, IF sem[p].val = 0 THEN "nukeV" ELSE "nukePages")
  /\ UNCHANGED <<want, victim, sem, swap, last, pte, tlb, frame, flash>>

\* One valid page after the other, each with interrupts off.
NukePage(p) ==
  /\ At(p, "nukePages")
  /\ \/ \E g \in Page :
          /\ pte[p][g] # Invalid
          /\ pte' = [pte EXCEPT ![p][g] = Invalid]
          /\ tlb' = update_tlb_handler(tlb, p, g, Invalid)
          /\ UNCHANGED <<pc, want>>
     \/ /\ \A g \in Page : pte[p][g] = Invalid
        /\ Goto(p, "dead")
        /\ want' = [want EXCEPT ![p] = FREE]
        /\ UNCHANGED <<pte, tlb>>
  /\ UNCHANGED <<victim, sem, swap, last, frame, flash>>

get_nuked(p) ==
  NukeTest(p) \/ V(p, "nukeV", p, "nukePages") \/ NukePage(p)

Ended == (\A p \in Proc : pc[p] = "dead") /\ UNCHANGED vars

Progress(p) ==
  Access(p) \/ uTLB_RefillHandler(p) \/ PageFault(p)
    \/ tlb_exception_handler(p) \/ get_nuked(p)

Next ==
  \/ \E p \in Proc : (\E g \in Page \cup Stray : Touch(p, g)) \/ Nuke(p) \/ Progress(p)
  \/ Ended

Spec == Init /\ [][Next]_vars

-----------------------------------------------------------------------------
(* Properties                                                              *)

\* A valid page is in the frame that the swap pool table lists it in, so no
\* two pages share a frame (the table and the page tables change at
\* different moments of tlb_exception_handler).
FramesOwned ==
  \A p \in Proc, g \in Page :
    pte[p][g] # Invalid => swap[pte[p][g]] = [asid |-> p, page |-> g]

\* An entry in the TLB says what the page table says, whoever changed the
\* page table (update_tlb_handler in the pager and in get_nuked).
TlbAgrees ==
  \A p \in Proc, g \in Page : tlb[p][g] # Absent => tlb[p][g] = pte[p][g]

HoldsPool(p) == pc[p] \in {"pick", "out", "outIO", "outV", "outErr", "in",
                           "inIO", "inV", "inErr", "install", "release"}

\* One process at a time chooses and fills a frame; the rest of those past
\* the P wait in the queue of semaphore_swapPool.
PoolMutex ==
  \A p, q \in Proc :
    HoldsPool(p) /\ HoldsPool(q) /\ p # q
      => \E r \in {p, q} : r \in ToSet(sem[SwapPool].queue)

\* vmSupport.c: swap pool table, page tables and TLB agree, at whatever moment a
\* page is taken away, brought in or given up, and one process at a time does so.
TablesAgree == FramesOwned /\ TlbAgrees /\ PoolMutex

\* The entry a refill writes is the one for the page that was missed
\* (vmSupport.c:204 of uTLB_RefillHandler).
RefillMatches ==
  [][\A p \in Proc : uTLB_RefillHandler(p) => want[p] \in Page]_vars

\* The frames of a process that has ended are free again (the comment on the
\* loop over its pages in get_nuked).
FramesFreed ==
  \A p \in Proc, f \in Frame :
    pc[p] = "dead" /\ swap[f] # FREE => swap[f].asid # p

\* The pager leaves the swap pool to the next one even if it fails (step 13
\* of its description).
PoolReleased ==
  \A p \in Proc : HoldsPool(p) ~> ~HoldsPool(p) /\ pc[p] = "user"

\* The pages of the processes that have not ended, wherever they are: in a
\* frame, in a frame on its way out, or in the backing store.
Leaving(p, g) ==
  {q \in Proc : /\ pc[q] \in {"out", "outIO"}
                /\ swap[victim[q]] = [asid |-> p, page |-> g]}
Contents(p, g) ==
  IF pte[p][g] # Invalid THEN frame[pte[p][g]]
  ELSE IF Leaving(p, g) # {} THEN frame[victim[CHOOSE q \in Leaving(p, g) : TRUE]]
  ELSE flash[p][g]
Ending == {p \in Proc : pc[p] \in NukePc}
Nothing == [g \in Page |-> CHOOSE v \in Val : TRUE]

\* A flash operation has failed: its process has ended, or will, with the pool
\* locked for ever.
PoolLost ==
  /\ sem[SwapPool].val <= 0
  /\ \A p \in Proc : HoldsPool(p) => p \in ToSet(sem[SwapPool].queue)
FlashFailed == PoolLost \/ \E p \in Proc : pc[p] \in {"outErr", "inErr"}

\* What a process can tell of the pager: where it wants to go, if the page
\* table has a page for it, and what its pages hold.
Alive == IF FlashFailed THEN {} ELSE Proc \ Ending
Touching == [p \in Proc |-> IF p \in Alive /\ want[p] \in Page THEN want[p] ELSE FREE]
Memories == [p \in Proc |-> IF p \in Alive THEN [g \in Page |-> Contents(p, g)]
                            ELSE Nothing]

Memory == INSTANCE PagedMemory
  WITH None <- FREE, alive <- Alive, touching <- Touching, mem <- Memories

\* Paging is invisible: the pager implements one private memory per process,
\* as long as no flash operation fails.
ImplementsMemory == Memory!Spec

\* A process that is not blocked gets on with the pager and with get_nuked;
\* nothing is assumed of programs.
Fairness ==
  \A p \in Proc : WF_vars(tlb_exception_handler(p)) /\ WF_vars(get_nuked(p))

FairSpec == Spec /\ Fairness
=============================================================================
