-------------------------- MODULE DeviceCallsProofs --------------------------
(***************************************************************************)
(* SYS14 to SYS17 are atomic reads and writes of blocks (BlockStore), and  *)
(* one process at a time commands a device, for any number of processes,   *)
(* devices, blocks and frames and any geometry, whoever ends where: but on *)
(* the devices whose number a process had that ended elsewhere (Lost),     *)
(* whose mutex get_nuked may release behind the back of who has it.  A     *)
(* mutex can be had in three ways, and each step keeps that one process    *)
(* has it, in one of them; one that ended in a call has it still.          *)
(***************************************************************************)
EXTENDS DeviceCalls, QueueLemmas

\* A process waits for the mutex it has just asked for.
Waits(p, s) == p \in ToSet(sem[s].queue)
Asks(p, s) ==
  \/ pc[p] = "pick" /\ s = SwapPool
  \/ pc[p] = "out" /\ s = Flash(victim[p])
  \/ pc[p] = "in" /\ s = Flash(p)
  \/ call[p] # NoCall /\ pc[p] = FirstStep(call[p]) /\ s = call[p].dev
Line ==
  \A s \in Locks :
    /\ IsInjective(sem[s].queue)
    /\ \A p \in Proc : Waits(p, s) => Asks(p, s)

\* What a process is doing with its call.
InOrder(p) ==
  /\ pc[p] = "user" => call[p] = NoCall
  /\ pc[p] \in InCall \cup {"lock"} => call[p] # NoCall
  /\ pc[p] = "copyin" => call[p].op = "put"
  /\ pc[p] = "copyout" => call[p].op = "get"
  /\ pc[p] = "validate" => ~IsDisk(call[p].dev)
  /\ pc[p] \in {"seek", "seeking"} => IsDisk(call[p].dev)
  /\ call[p] # NoCall /\ pc[p] \notin Ended =>
       /\ IsDisk(call[p].dev) => call[p].blk \in 0..Capacity
       /\ ~IsDisk(call[p].dev) /\ pc[p] \notin {"lock", "validate"} =>
            call[p].blk \in 0..MaxBlock-1
  /\ v0[p] = None <=> pc[p] # "unlock"
  /\ pc[p] \in {"outlock", "out"} => victim[p] \in Proc
Asked == \A p \in Proc : InOrder(p)

\* The ways to have a mutex: as the caller of the device, also when it has ended
\* in the call, as the pager that uses a flash device, as the pager that changes
\* the pool.
HasCall(p, d) ==
  /\ call[p] # NoCall /\ call[p].dev = d
  /\ pc[p] \in Faulting \/ (pc[p] \in InCall /\ ~Waits(p, d)) \/ Keeps(p, d)
HasFlash(p, d) == pc[p] \in {"out", "in"} /\ Asks(p, d) /\ ~Waits(p, d)
HasPool(p, d) == pc[p] \in Faulting /\ d = SwapPool /\ ~Waits(p, d)
Has(p, w, d) ==
  \/ w = "call" /\ HasCall(p, d)
  \/ w = "flash" /\ HasFlash(p, d)
  \/ w = "pool" /\ HasPool(p, d)
Way == {"call", "flash", "pool"}

\* One process has a mutex at a time, and in one way; nobody has one that reads 1.
One ==
  \A d \in Guarded :
    /\ sem[d].val <= 1
    /\ sem[d].val = 1 => \A p \in Proc, w \in Way : ~Has(p, w, d)
    /\ \A p, q \in Proc, w, x \in Way : Has(p, w, d) /\ Has(q, x, d) => p = q /\ w = x

\* The pager has a frame from the moment it has taken one.
Room == \A p \in Proc : pc[p] \in Faulting \ {"pick"} => Len(frames) < NumFrames

Aimed == \A d \in Device : job[d] = None \/ job[d] \in [place : Aims(d), op : Request]

Base == TypeOK /\ Asked /\ Line /\ One /\ Room /\ Aimed

-----------------------------------------------------------------------------
(* Blocks and positions                                                    *)

\* What a division gives.
LEMMA Divide ==
  ASSUME NEW a \in Int, NEW m \in Nat \ {0}
  PROVE  /\ a \div m \in Int /\ a % m \in 0..m-1
         /\ a = m * (a \div m) + (a % m)
OBVIOUS

LEMMA Below ==
  ASSUME NEW m \in Nat \ {0}, NEW q \in Int, NEW x \in Int, q < x
  PROVE  m * q + m <= m * x
<1>1. PICK k \in Nat : x = q + 1 + k
  <2>1. x - q - 1 \in Nat
    OBVIOUS
  <2>2. x = q + 1 + (x - q - 1)
    OBVIOUS
  <2> QED
    BY <2>1, <2>2
<1>2. m * x = m * q + m + m * k /\ m * k \in Nat
  BY <1>1
<1> QED
  BY <1>2

\* There is no other way to divide.
LEMMA Unique ==
  ASSUME NEW m \in Nat \ {0}, NEW q \in Int, NEW x \in Int,
         NEW r \in 0..m-1, NEW y \in 0..m-1, m * q + r = m * x + y
  PROVE  q = x /\ r = y
<1>1. ~(q < x)
  BY Below
<1>2. ~(x < q)
  BY Below
<1> QED
  BY <1>1, <1>2

\* The quotient of a number up to m*n.
LEMMA Quotient ==
  ASSUME NEW m \in Nat \ {0}, NEW n \in Nat, NEW a \in Nat, a <= m * n
  PROVE  a \div m \in 0..n /\ (a < m * n => a \div m \in 0..n-1)
<1> DEFINE q == a \div m
<1>1. q \in Int /\ a % m \in 0..m-1 /\ a = m * q + (a % m)
  BY Divide
<1> HIDE DEF q
<1>2. q >= 0
  <2> SUFFICES ASSUME q < 0 PROVE FALSE
    BY <1>1
  <2>1. m * q + m <= m * 0
    BY <1>1, Below
  <2> QED
    BY <1>1, <2>1
<1>3. q <= n
  <2> SUFFICES ASSUME n < q PROVE FALSE
    BY <1>1
  <2>1. m * n + m <= m * q
    BY <1>1, Below
  <2> QED
    BY <1>1, <2>1
<1>4. a < m * n => q # n
  BY <1>1
<1> QED
  BY <1>1, <1>2, <1>3, <1>4 DEF q

LEMMA Constants ==
  ASSUME DeviceAssumption
  PROVE  /\ MaxCyl \in Nat \ {0} /\ MaxHead \in Nat \ {0} /\ MaxSect \in Nat \ {0}
         /\ MaxBlock \in Nat \ {0} /\ NumFrames \in Nat \ {0}
         /\ MaxHead * MaxSect \in Nat \ {0}
         /\ Capacity \in Nat /\ Capacity = (MaxHead * MaxSect) * MaxCyl
         /\ Proc \subseteq Nat \ {0}
         /\ Device \subseteq {"disk", "flash"} \X Nat
         /\ Request \subseteq {"put", "get"} /\ Block \subseteq Int
         /\ Deaths \in BOOLEAN
<1>1. /\ MaxCyl \in Nat \ {0} /\ MaxHead \in Nat \ {0} /\ MaxSect \in Nat \ {0}
      /\ MaxBlock \in Nat \ {0} /\ NumFrames \in Nat \ {0}
  BY DEF DeviceAssumption
<1>2. /\ MaxHead * MaxSect \in Nat \ {0}
      /\ Capacity \in Nat /\ Capacity = (MaxHead * MaxSect) * MaxCyl
  BY <1>1 DEF Capacity
<1> QED
  BY <1>1, <1>2 DEF DeviceAssumption

\* The parts of a block number of a disk.
LEMMA DiskParts ==
  ASSUME DeviceAssumption, NEW d \in Device, IsDisk(d), NEW b \in Int
  PROVE  /\ Position(d, b) = <<Position(d, b)[1], Position(d, b)[2], Position(d, b)[3]>>
         /\ Position(d, b)[1] = b \div (MaxHead * MaxSect) /\ Position(d, b)[1] \in Int
         /\ Position(d, b)[2] \in 0..MaxHead-1 /\ Position(d, b)[3] \in 0..MaxSect-1
         /\ b = MaxSect * (MaxHead * Position(d, b)[1] + Position(d, b)[2]) + Position(d, b)[3]
<1>1. PICK H \in Nat \ {0}, S \in Nat \ {0} : H = MaxHead /\ S = MaxSect
  BY Constants
<1>2. PICK hs \in Nat \ {0} : hs = H * S
  BY Constants, <1>1
<1>3. PICK q \in Int, r \in 0..hs-1 : q = b \div hs /\ r = b % hs /\ b = hs * q + r
  BY Divide
<1>4. PICK h \in Int, s \in 0..S-1 : h = r \div S /\ s = r % S /\ r = S * h + s
  BY Divide
<1>5. b = hs * q + r /\ r = S * h + s /\ hs = H * S /\ r \in Nat /\ r < S * H
  <2>1. b = hs * q + r /\ r \in Nat /\ r < hs
    BY <1>3
  <2>2. r = S * h + s
    BY <1>4
  <2>3. hs = H * S
    BY <1>2
  <2>4. S * H = hs
    BY <2>3
  <2> QED
    BY <2>1, <2>2, <2>3, <2>4
<1>6. h \in 0..H-1
  <2>1. r <= S * H /\ r < S * H /\ r \in Nat /\ H \in Nat
    <3> S * H \in Int
      OBVIOUS
    <3> QED
      BY <1>5
  <2>2. r \div S \in 0..H-1
    BY <2>1, Quotient
  <2> QED
    BY <1>4, <2>2
<1>7. b = S * (H * q + h) + s
  BY <1>5
<1>8. b % S = s
  <2>1. PICK x, y : x = b \div S /\ y = b % S
    OBVIOUS
  <2>2. x \in Int /\ y \in 0..S-1 /\ b = S * x + y
    BY <2>1, Divide
  <2>3. PICK z \in Int : z = H * q + h
    OBVIOUS
  <2>4. S * x + y = S * z + s
    BY <1>7, <2>2, <2>3
  <2>5. y = s
    BY <2>2, <2>4, Unique
  <2> QED
    BY <2>1, <2>5
<1>9. Position(d, b) = <<q, h, s>> /\ q = b \div (MaxHead * MaxSect)
  BY <1>1, <1>2, <1>3, <1>4, <1>8 DEF Position
<1>10. PICK x : x = b \div (MaxHead * MaxSect)
  OBVIOUS
<1>11. Position(d, b) = <<q, h, s>> /\ q = x
  BY <1>9, <1>10
<1>12. b = MaxSect * (MaxHead * q + h) + s
  BY <1>1, <1>7
<1> QED
  BY <1>1, <1>6, <1>10, <1>11, <1>12

\* A block that passes the checks can be commanded; it is on the device if its
\* cylinder is.
LEMMA PositionAims ==
  ASSUME DeviceAssumption, NEW d \in Device, NEW b \in Int,
         IF IsDisk(d) THEN b \in 0..Capacity ELSE b \in 0..MaxBlock-1
  PROVE  /\ Position(d, b) \in Aims(d)
         /\ ~IsDisk(d) \/ Position(d, b)[1] < MaxCyl => Position(d, b) \in Places(d)
<1>1. CASE IsDisk(d)
  <2> DEFINE m == MaxHead * MaxSect
  <2>1. m \in Nat \ {0} /\ MaxCyl \in Nat \ {0} /\ b \in Nat /\ b <= m * MaxCyl
    BY <1>1, Constants
  <2>2. b \div m \in 0..MaxCyl
    <3> HIDE DEF m
    <3> QED
      BY <2>1, Quotient
  <2> QED
    BY <1>1, <2>1, <2>2, DiskParts DEF Aims, Places
<1>2. CASE ~IsDisk(d)
  BY <1>2 DEF Position, Aims, Places
<1> QED
  BY <1>1, <1>2

\* Two blocks are in two places.
LEMMA PositionOnce ==
  ASSUME DeviceAssumption, NEW d \in Device, NEW b \in Int, NEW c \in Int,
         Position(d, b) = Position(d, c)
  PROVE  b = c
<1>1. CASE IsDisk(d)
  BY <1>1, DiskParts
<1>2. CASE ~IsDisk(d)
  BY <1>2 DEF Position
<1> QED
  BY <1>1, <1>2

\* The arm of a disk in the place of the cylinder of a command.
LEMMA AimsPlace ==
  ASSUME DeviceAssumption, NEW d \in Device, NEW x \in Aims(d), NEW c \in 0..MaxCyl-1
  PROVE  /\ IsDisk(d) => /\ [x EXCEPT ![1] = c] \in Places(d) /\ x[1] \in 0..MaxCyl
                         /\ x[1] = c => [x EXCEPT ![1] = c] = x
         /\ ~IsDisk(d) => x \in Places(d)
<1>1. ASSUME IsDisk(d)
      PROVE  /\ [x EXCEPT ![1] = c] \in Places(d) /\ x[1] \in 0..MaxCyl
             /\ x[1] = c => [x EXCEPT ![1] = c] = x
  <2>1. PICK i \in 0..MaxCyl, j \in 0..MaxHead-1, k \in 0..MaxSect-1 : x = <<i, j, k>>
    BY <1>1 DEF Aims
  <2>2. [x EXCEPT ![1] = c] = <<c, j, k>> /\ x[1] = i
    BY <2>1
  <2> QED
    BY <1>1, <2>1, <2>2 DEF Places
<1>2. ~IsDisk(d) => x \in Places(d)
  BY DEF Aims
<1> QED
  BY <1>1, <1>2

\* No mutex has two names.
LEMMA Names ==
  ASSUME DeviceAssumption
  PROVE  /\ SwapPool \in Guarded /\ Guarded \subseteq Locks /\ Device \subseteq Locks
         /\ SwapPool \notin Device /\ \A p : Flash(p) # SwapPool
         /\ \A p \in Proc : Flash(p) \in Locks
<1>1. SwapPool \notin Device /\ \A p : Flash(p) # SwapPool /\ SwapPool # <<"disk", p>>
  BY Constants DEF SwapPool, Flash
<1>2. Device \subseteq Locks /\ SwapPool \in Locks /\ \A p \in Proc : Flash(p) \in Locks
  BY DEF Locks
<1>3. SwapPool \notin Lost
  BY <1>1 DEF Lost, Left, EndedProc, Own
<1> QED
  BY <1>1, <1>2, <1>3 DEF Guarded

\* The places of the devices.
LEMMA PlaceOf ==
  ASSUME NEW d \in Device, NEW x \in Places(d)
  PROVE  <<d, x>> \in Place
BY DEF Place

-----------------------------------------------------------------------------
(* What a step does to the mutexes                                         *)

Same(p) ==
  \A q \in Proc \ {p} : pc'[q] = pc[q] /\ call'[q] = call[q] /\ victim'[q] = victim[q]
Runs(p) == \A s \in Locks : ~Waits(p, s)
Only(s) == \A t \in Locks \ {s} : sem'[t] = sem[t]

Quiet(p) ==
  /\ \A s \in Locks : sem'[s] = sem[s]
  /\ \A x \in Way, d \in Guarded : Has(p, x, d)' => Has(p, x, d)
Takes(p, w, s) ==
  /\ Only(s) /\ sem'[s].val = sem[s].val - 1
  /\ sem[s].val > 0 => sem'[s].queue = sem[s].queue
  /\ ~(sem[s].val > 0) => sem'[s].queue = Append(sem[s].queue, p)
  /\ Asks(p, s)'
  /\ \A x \in Way, d \in Guarded :
       Has(p, x, d)' => Has(p, x, d) \/ (x = w /\ d = s /\ ~Waits(p, s)')
Gives(p, w, s) ==
  /\ Only(s) /\ sem'[s].val = sem[s].val + 1
  /\ sem[s].val < 0 /\ sem[s].queue # <<>> => sem'[s].queue = Tail(sem[s].queue)
  /\ sem[s].val >= 0 \/ sem[s].queue = <<>> => sem'[s].queue = sem[s].queue
  /\ s \in Guarded => Has(p, w, s)
  /\ \A x \in Way, d \in Guarded : Has(p, x, d)' => Has(p, x, d) /\ ~(x = w /\ d = s)
\* Who has ended stays where it ended, and what is lost is lost.
Stays(p) == pc[p] \in Ended => pc'[p] \in Ended /\ call'[p] = call[p]
Shrinks == Guarded' \subseteq Guarded
Did(p) ==
  /\ Same(p) /\ Runs(p) /\ Stays(p)
  /\ Quiet(p) \/ \E s \in Locks, w \in Way : Takes(p, w, s) \/ Gives(p, w, s)

\* Which way a process has a mutex that it is handed.
ByWay(p) ==
  IF pc[p] = "pick" THEN "pool" ELSE IF pc[p] \in {"out", "in"} THEN "flash" ELSE "call"

LEMMA SemTypes ==
  ASSUME TypeOK, NEW s \in Locks
  PROVE  sem[s].val \in Int /\ sem[s].queue \in Seq(Proc) /\ DOMAIN sem = Locks
BY DEF TypeOK, Semaphores

LEMMA GuardedShrinks ==
  ASSUME NEW p \in Proc, Same(p), Stays(p)
  PROVE  Shrinks
<1> SUFFICES ASSUME NEW q \in Proc, q \in EndedProc
             PROVE  q \in EndedProc' /\ Left(q)' = Left(q)
  BY DEF Shrinks, Guarded, Lost, EndedProc
<1>1. pc'[q] \in Ended /\ call'[q] = call[q]
  BY DEF Same, Stays, EndedProc
<1> QED
  BY <1>1 DEF EndedProc, Left

\* The queues change at the ends.
LEMMA QueueStep ==
  ASSUME TypeOK, Line, NEW p \in Proc, Did(p), NEW s \in Locks
  PROVE  /\ IsInjective(sem'[s].queue)
         /\ \A q \in Proc : Waits(q, s)' => Waits(q, s) \/ (q = p /\ Asks(p, s)')
         /\ \A q \in Proc : Waits(q, s) /\ ~Waits(q, s)' =>
              /\ \E w \in Way : Gives(p, w, s)
              /\ sem[s].val < 0 /\ sem[s].queue # <<>> /\ q = Head(sem[s].queue)
<1> PICK n, h, k : n = sem[s].val /\ h = sem[s].queue /\ k = sem'[s].queue
  OBVIOUS
<1>1. n \in Int /\ h \in Seq(Proc) /\ IsInjective(h) /\ p \notin ToSet(h)
  BY SemTypes DEF Line, Did, Runs, Waits
<1>2. CASE k = h /\ sem'[s] = sem[s]
  BY <1>1, <1>2 DEF Waits
<1>3. CASE \E w \in Way : Takes(p, w, s)
  <2>1. Asks(p, s)' /\ (k = h \/ k = Append(h, p))
    BY <1>1, <1>3 DEF Takes
  <2>2. CASE k = h
    BY <1>1, <2>2 DEF Waits
  <2>3. CASE k = Append(h, p)
    <3>1. ToSet(k) = ToSet(h) \cup {p} /\ IsInjective(k)
      BY <1>1, <2>3, AppendQ
    <3> QED
      BY <2>1, <3>1 DEF Waits
  <2> QED
    BY <2>1, <2>2, <2>3
<1>4. CASE \E w \in Way : Gives(p, w, s)
  <2>1. CASE n < 0 /\ h # <<>>
    <3>1. k = Tail(h)
      BY <1>4, <2>1 DEF Gives
    <3>2. /\ ToSet(h) = {Head(h)} \cup ToSet(Tail(h))
          /\ IsInjective(Tail(h))
      BY <1>1, <2>1, HeadTailQ
    <3> QED
      BY <1>4, <2>1, <3>1, <3>2 DEF Waits
  <2>2. CASE ~(n < 0 /\ h # <<>>)
    <3>1. k = h
      BY <1>1, <1>4, <2>2 DEF Gives
    <3> QED
      BY <1>1, <3>1 DEF Waits
  <2> QED
    BY <2>1, <2>2
<1> QED
  BY <1>2, <1>3, <1>4 DEF Did, Quiet, Takes, Gives, Only

LEMMA LineStep ==
  ASSUME TypeOK, Line, NEW p \in Proc, Did(p)
  PROVE  Line'
<1> SUFFICES ASSUME NEW s \in Locks
             PROVE  /\ IsInjective(sem'[s].queue)
                    /\ \A q \in Proc : Waits(q, s)' => Asks(q, s)'
  BY DEF Line
<1>1. IsInjective(sem'[s].queue)
  BY QueueStep
<1>2. ASSUME NEW q \in Proc, Waits(q, s)' PROVE Asks(q, s)'
  <2>1. CASE q = p
    BY <1>2, <2>1, QueueStep DEF Did, Runs
  <2>2. CASE q # p
    <3>1. Asks(q, s)
      BY <1>2, <2>2, QueueStep DEF Line
    <3> QED
      BY <2>2, <3>1 DEF Asks, Did, Same
  <2> QED
    BY <2>1, <2>2
<1> QED
  BY <1>1, <1>2

LEMMA CallTypes ==
  ASSUME DeviceAssumption, TypeOK, NEW p \in Proc
  PROVE  /\ NoCall \notin [op : Request, dev : Device, blk : Block]
         /\ call[p] # NoCall =>
              /\ call[p] \in [op : Request, dev : Device, blk : Block]
              /\ call[p].dev \in Device /\ call[p].blk \in Block /\ call[p].blk \in Int
              /\ call[p].op \in Request /\ call[p].op \in {"put", "get"}
              /\ FirstStep(call[p]) \in {"validate", "copyin", "seek"}
<1>1. None \notin Request
  BY DEF DeviceAssumption
<1>2. NoCall \notin [op : Request, dev : Device, blk : Block]
  BY <1>1 DEF NoCall
<1>3. call[p] \in {NoCall} \cup [op : Request, dev : Device, blk : Block]
  BY DEF TypeOK
<1> QED
  BY <1>2, <1>3, Constants DEF FirstStep

\* Who has a mutex after a step had it before, or takes it, or is handed it.
LEMMA HasStep ==
  ASSUME DeviceAssumption, TypeOK, Line, NEW p \in Proc, Did(p),
         NEW d \in Guarded, NEW r \in Proc, NEW x \in Way, Has(r, x, d)'
  PROVE  \/ Has(r, x, d)
         \/ r = p /\ sem[d].val > 0 /\ \E w \in Way : Takes(p, w, d)
         \/ /\ r # p /\ \E w \in Way : Gives(p, w, d)
            /\ sem[d].val < 0 /\ r = Head(sem[d].queue) /\ x = ByWay(r)
<1> SUFFICES ASSUME ~Has(r, x, d)
             PROVE  \/ r = p /\ sem[d].val > 0 /\ \E w \in Way : Takes(p, w, d)
                    \/ /\ r # p /\ \E w \in Way : Gives(p, w, d)
                       /\ sem[d].val < 0 /\ r = Head(sem[d].queue) /\ x = ByWay(r)
  OBVIOUS
<1>1. d \in Locks
  BY Names
<1>2. CASE r = p
  <2>1. PICK w \in Way : Takes(p, w, d) /\ ~Waits(p, d)'
    BY <1>2 DEF Did, Quiet, Takes, Gives
  <2>2. sem[d].val > 0
    <3>1. SUFFICES ASSUME ~(sem[d].val > 0) PROVE Waits(p, d)'
      BY <2>1
    <3>2. sem'[d].queue = Append(sem[d].queue, p) /\ sem[d].queue \in Seq(Proc)
      BY <1>1, <2>1, <3>1, SemTypes DEF Takes
    <3>3. p \in ToSet(Append(sem[d].queue, p))
      BY <3>2, AppendQ
    <3> QED
      BY <3>2, <3>3 DEF Waits
  <2> QED
    BY <1>2, <2>1, <2>2
<1>3. CASE r # p
  <2>1. pc'[r] = pc[r] /\ call'[r] = call[r] /\ victim'[r] = victim[r]
    BY <1>3 DEF Did, Same
  <2>2. Asks(r, d)' = Asks(r, d) /\ Keeps(r, d)' = Keeps(r, d)
    <3>1. Asks(r, d)' = Asks(r, d)
      BY <2>1 DEF Asks
    <3>2. Keeps(r, d)' = Keeps(r, d)
      BY <2>1 DEF Keeps
    <3> QED
      BY <3>1, <3>2
  <2>3. Waits(r, d) /\ ~Waits(r, d)'
    BY <2>1, <2>2 DEF Has, HasCall, HasFlash, HasPool
  <2>4. /\ \E w \in Way : Gives(p, w, d)
        /\ sem[d].val < 0 /\ r = Head(sem[d].queue)
    BY <1>1, <2>3, QueueStep
  <2>5. Asks(r, d)
    BY <1>1, <2>3 DEF Line
  <2>6. x = ByWay(r)
    <3>1. CASE x = "call"
      <4>1. pc[r] \in InCall
        BY <2>1, <2>2, <3>1 DEF Has, HasCall
      <4> QED
        BY <3>1, <4>1 DEF ByWay, InCall
    <3>2. CASE x = "flash"
      BY <2>1, <3>2 DEF Has, HasFlash, ByWay
    <3>3. CASE x = "pool"
      <4>1. d = SwapPool /\ pc[r] \in Faulting
        BY <2>1, <3>3 DEF Has, HasPool
      <4>2. pc[r] = "pick"
        BY <2>5, <4>1, Names, CallTypes DEF Asks, Faulting
      <4> QED
        BY <3>3, <4>2 DEF ByWay
    <3> QED
      BY <3>1, <3>2, <3>3 DEF Way
  <2> QED
    BY <1>3, <2>4, <2>6
<1> QED
  BY <1>2, <1>3

\* A mutex is passed on, or taken when nobody has it.
LEMMA OneStep ==
  ASSUME DeviceAssumption, TypeOK, Line, One, NEW p \in Proc, Did(p)
  PROVE  One'
<1>10. Shrinks
  BY GuardedShrinks DEF Did
<1> SUFFICES ASSUME NEW d \in Guarded
             PROVE  /\ sem'[d].val <= 1
                    /\ sem'[d].val = 1 => \A r \in Proc, x \in Way : ~Has(r, x, d)'
                    /\ \A r, q \in Proc, x, y \in Way :
                         Has(r, x, d)' /\ Has(q, y, d)' => r = q /\ x = y
  BY <1>10 DEF One, Shrinks
<1>1. d \in Locks /\ sem[d].val \in Int
  BY Names, SemTypes
<1>2. /\ sem[d].val <= 1
      /\ sem[d].val = 1 => \A r \in Proc, x \in Way : ~Has(r, x, d)
      /\ \A r, q \in Proc, x, y \in Way : Has(r, x, d) /\ Has(q, y, d) => r = q /\ x = y
  BY DEF One
<1>3. ASSUME NEW w \in Way, Takes(p, w, d)
      PROVE  /\ sem'[d].val <= 0
             /\ \A r, q \in Proc, x, y \in Way :
                  Has(r, x, d)' /\ Has(q, y, d)' => r = q /\ x = y
  <2>1. sem'[d].val = sem[d].val - 1
    BY <1>3 DEF Takes
  <2>2. \A r \in Proc, x \in Way : Has(r, x, d)' =>
          Has(r, x, d) \/ (sem[d].val > 0 /\ r = p /\ x = w)
    <3> SUFFICES ASSUME NEW r \in Proc, NEW x \in Way, Has(r, x, d)', ~Has(r, x, d)
                 PROVE  sem[d].val > 0 /\ r = p /\ x = w
      OBVIOUS
    <3>1. ~\E v \in Way : Gives(p, v, d)
      BY <1>1, <1>3, <2>1 DEF Gives
    <3>2. r = p /\ sem[d].val > 0
      BY <3>1, HasStep
    <3> QED
      BY <1>3, <3>2 DEF Takes
  <2>3. sem[d].val > 0 => sem[d].val = 1
    BY <1>1, <1>2
  <2> QED
    BY <1>1, <1>2, <2>1, <2>2, <2>3
<1>4. ASSUME NEW w \in Way, Gives(p, w, d)
      PROVE  /\ sem'[d].val <= 1
             /\ sem'[d].val = 1 => \A r \in Proc, x \in Way : ~Has(r, x, d)'
             /\ \A r, q \in Proc, x, y \in Way :
                  Has(r, x, d)' /\ Has(q, y, d)' => r = q /\ x = y
  <2>1. sem'[d].val = sem[d].val + 1 /\ Has(p, w, d)
    BY <1>4 DEF Gives
  <2>2. sem[d].val <= 0
    BY <1>1, <1>2, <2>1
  <2>3. \A r \in Proc, x \in Way : Has(r, x, d)' =>
          sem[d].val < 0 /\ r = Head(sem[d].queue) /\ x = ByWay(r)
    <3> SUFFICES ASSUME NEW r \in Proc, NEW x \in Way, Has(r, x, d)'
                 PROVE  sem[d].val < 0 /\ r = Head(sem[d].queue) /\ x = ByWay(r)
      OBVIOUS
    <3>1. ~Has(r, x, d)
      BY <1>2, <1>4, <2>1 DEF Gives
    <3>2. ~\E v \in Way : Takes(p, v, d)
      BY <1>1, <2>1 DEF Takes
    <3> QED
      BY <3>1, <3>2, HasStep
  <2> QED
    BY <1>1, <2>1, <2>2, <2>3
<1>5. ASSUME \A w \in Way : ~Takes(p, w, d) /\ ~Gives(p, w, d)
      PROVE  /\ sem'[d] = sem[d]
             /\ \A r \in Proc, x \in Way : Has(r, x, d)' => Has(r, x, d)
  <2>1. sem'[d] = sem[d]
    BY <1>1, <1>5 DEF Did, Quiet, Takes, Gives, Only
  <2> QED
    BY <1>5, <2>1, HasStep
<1>6. CASE \E w \in Way : Takes(p, w, d)
  <2>1. /\ sem'[d].val = sem[d].val - 1 /\ sem'[d].val <= 0
        /\ \A r, q \in Proc, x, y \in Way :
             Has(r, x, d)' /\ Has(q, y, d)' => r = q /\ x = y
    BY <1>3, <1>6 DEF Takes
  <2>2. sem'[d].val <= 1 /\ sem'[d].val # 1
    BY <1>1, <2>1
  <2> QED
    BY <2>1, <2>2
<1>7. CASE \E w \in Way : Gives(p, w, d)
  BY <1>4, <1>7
<1>8. CASE \A w \in Way : ~Takes(p, w, d) /\ ~Gives(p, w, d)
  BY <1>2, <1>5, <1>8
<1> QED
  BY <1>6, <1>7, <1>8

\* What is left to show of a step.
LEMMA BaseStep ==
  ASSUME DeviceAssumption, Base, NEW p \in Proc, Did(p), TypeOK',
         \A q \in Proc \ {p} : v0'[q] = v0[q],
         InOrder(p)', Room', Aimed'
  PROVE  Base' /\ Shrinks
<1>0. Shrinks
  BY GuardedShrinks DEF Did
<1>1. Line' /\ One'
  BY LineStep, OneStep DEF Base
<1>2. ASSUME NEW q \in Proc PROVE InOrder(q)'
  <2>1. CASE q = p
    BY <2>1
  <2>2. CASE q # p
    BY <2>2 DEF Did, Same, InOrder, Base, Asked
  <2> QED
    BY <2>1, <2>2
<1> QED
  BY <1>0, <1>1, <1>2 DEF Base, Asked

LEMMA Goes ==
  ASSUME TypeOK, NEW p \in Proc, NEW l, NEW m, At(p, l), Goto(p, m)
  PROVE  /\ pc[p] = l /\ pc'[p] = m /\ Runs(p)
         /\ \A q \in Proc \ {p} : pc'[q] = pc[q]
BY DEF TypeOK, At, Goto, Blocked, Runs, Waits, Semaphores

\* The steps of get_nuked.
Further(l, m) ==
  \/ l = "nukedisk" /\ m \in {"nukediskV", "nukeflash"}
  \/ l = "nukediskV" /\ m = "nukeflash"
  \/ l = "nukeflash" /\ m \in {"nukeflashV", "dead"}
  \/ l = "nukeflashV" /\ m = "dead"

\* A step that leaves the mutexes alone, and is not the first past one.
LEMMA QuietStep ==
  ASSUME TypeOK, NEW p \in Proc, NEW l, NEW m, At(p, l), Goto(p, m),
         sem' = sem, call' = call, \A q \in Proc \ {p} : victim'[q] = victim[q],
         m \in Faulting => l \in Faulting, m \in InCall => l \in InCall,
         m \notin {"out", "in"}, l \in Ended => m \in Ended,
         m \in Ended => l \in InCall \cup Faulting \/ call[p] = NoCall \/ Further(l, m)
  PROVE  Did(p)
<1>1. /\ pc[p] = l /\ pc'[p] = m /\ Runs(p)
      /\ \A q \in Proc \ {p} : pc'[q] = pc[q]
  BY Goes
<1>2. \A x \in Way, d \in Guarded : Has(p, x, d)' => Has(p, x, d)
  <2> SUFFICES ASSUME NEW d \in Guarded
               PROVE  /\ HasCall(p, d)' => HasCall(p, d)
                      /\ HasFlash(p, d)' => HasFlash(p, d)
                      /\ HasPool(p, d)' => HasPool(p, d)
    BY DEF Has, Way
  <2>1. d \in Locks /\ ~Waits(p, d)
    BY <1>1 DEF Guarded, Runs
  <2>2. Keeps(p, d)' => m \in Ended /\ (Further(l, m) => Keeps(p, d))
    BY <1>1 DEF Keeps, Further, Ended
  <2>3. HasCall(p, d)' => HasCall(p, d)
    BY <1>1, <2>1, <2>2 DEF HasCall
  <2> QED
    BY <1>1, <2>1, <2>3 DEF HasFlash, HasPool
<1> QED
  BY <1>1, <1>2 DEF Did, Same, Quiet, Stays

\* A P.
LEMMA TakeStep ==
  ASSUME TypeOK, NEW p \in Proc, NEW l, NEW m, NEW s \in Locks, NEW w \in Way,
         P(p, l, s, m), Asks(p, s)', l \notin Ended,
         \A x \in Way, d \in Guarded :
           Has(p, x, d)' => Has(p, x, d) \/ (x = w /\ d = s /\ ~Waits(p, s)')
  PROVE  Did(p) /\ sem' \in Semaphores(Locks, Proc)
<1>1. /\ At(p, l) /\ Goto(p, m) /\ sem' = passeren(sem, s, p)
      /\ call' = call /\ victim' = victim
  BY DEF P, data
<1>2. pc[p] = l /\ Runs(p) /\ \A q \in Proc \ {p} : pc'[q] = pc[q]
  BY <1>1, Goes
<1>3. sem \in Semaphores(Locks, Proc)
  BY DEF TypeOK
<1>4. /\ sem' \in Semaphores(Locks, Proc)
      /\ \A t \in Locks \ {s} : sem'[t] = sem[t]
      /\ sem'[s].val = sem[s].val - 1
      /\ sem[s].val > 0 => sem'[s].queue = sem[s].queue
      /\ ~(sem[s].val > 0) => sem'[s].queue = Append(sem[s].queue, p)
  <2> PICK new : new = passeren(sem, s, p)
    OBVIOUS
  <2>1. /\ new \in Semaphores(Locks, Proc)
        /\ \A t \in Locks \ {s} : new[t] = sem[t]
        /\ new[s].val = sem[s].val - 1
        /\ sem[s].val > 0 => new[s].queue = sem[s].queue
        /\ ~(sem[s].val > 0) => new[s].queue = Append(sem[s].queue, p)
    BY <1>3, TakeFacts
  <2> QED
    BY <1>1, <2>1
<1>5. Takes(p, w, s)
  BY <1>4 DEF Takes, Only
<1> QED
  BY <1>1, <1>2, <1>4, <1>5 DEF Did, Same, Stays

\* A V, of a mutex that p has or that is not guarded.
LEMMA GiveStep ==
  ASSUME TypeOK, NEW p \in Proc, NEW l, NEW m, NEW s \in Locks, NEW w \in Way,
         At(p, l), Goto(p, m), sem' = verhogen(sem, s),
         \A q \in Proc \ {p} : call'[q] = call[q] /\ victim'[q] = victim[q],
         l \in Ended => m \in Ended /\ call'[p] = call[p],
         s \in Guarded => Has(p, w, s),
         \A x \in Way, d \in Guarded :
           Runs(p)' /\ Has(p, x, d)' => Has(p, x, d) /\ ~(x = w /\ d = s)
  PROVE  Did(p) /\ sem' \in Semaphores(Locks, Proc) /\ Runs(p)'
<1>2. pc[p] = l /\ pc'[p] = m /\ Runs(p) /\ \A q \in Proc \ {p} : pc'[q] = pc[q]
  BY Goes
<1>3. sem \in Semaphores(Locks, Proc)
  BY DEF TypeOK
<1>4. /\ sem' \in Semaphores(Locks, Proc)
      /\ \A t \in Locks \ {s} : sem'[t] = sem[t]
      /\ sem'[s].val = sem[s].val + 1
      /\ sem[s].val < 0 /\ sem[s].queue # <<>> => sem'[s].queue = Tail(sem[s].queue)
      /\ sem[s].val >= 0 \/ sem[s].queue = <<>> => sem'[s].queue = sem[s].queue
      /\ \A x \in ToSet(sem'[s].queue) : x \in ToSet(sem[s].queue)
  <2> PICK new : new = verhogen(sem, s)
    OBVIOUS
  <2>1. /\ new \in Semaphores(Locks, Proc)
        /\ \A t \in Locks \ {s} : new[t] = sem[t]
        /\ new[s].val = sem[s].val + 1
        /\ sem[s].val < 0 /\ sem[s].queue # <<>> => new[s].queue = Tail(sem[s].queue)
        /\ sem[s].val >= 0 \/ sem[s].queue = <<>> => new[s].queue = sem[s].queue
    BY <1>3, GiveFacts
  <2>2. \A x \in ToSet(new[s].queue) : x \in ToSet(sem[s].queue)
    BY <1>3, GivePops
  <2> QED
    BY <2>1, <2>2
<1>5. Runs(p)'
  BY <1>2, <1>4 DEF Runs, Waits
<1>6. Gives(p, w, s)
  BY <1>4, <1>5 DEF Gives, Only
<1> QED
  BY <1>2, <1>4, <1>5, <1>6 DEF Did, Same, Stays

LEMMA RoomKept ==
  ASSUME Room, NEW p \in Proc, \A q \in Proc \ {p} : pc'[q] = pc[q], frames' = frames,
         pc'[p] \in Faulting \ {"pick"} => pc[p] \in Faulting \ {"pick"}
  PROVE  Room'
BY DEF Room

-----------------------------------------------------------------------------
(* The steps of the calls                                                  *)

LEMMA InvokeBase ==
  ASSUME DeviceAssumption, Base, NEW p \in Proc, NEW r \in Calls, NEW v \in Val, Invoke(p, r, v)
  PROVE  Base' /\ Shrinks
<1>1. /\ At(p, "user") /\ sem' = sem /\ frames' = frames /\ victim' = victim
      /\ page' = [page EXCEPT ![p] = v]
      /\ v0' = v0 /\ buf' = buf /\ arm' = arm /\ job' = job /\ store' = store
  BY DEF Invoke, devices
<1>2. TypeOK /\ InOrder(p)
  BY DEF Base, Asked
<1>3. /\ r \in [op : Request, dev : Device, blk : Block] /\ r.blk \in Int
      /\ r.dev \in Device /\ r.blk \in Block /\ r # NoCall
  <2>1. r \in [op : Request, dev : Device, blk : Block]
    BY DEF Calls
  <2>2. r # NoCall
    BY <1>2, <2>1, CallTypes
  <2> QED
    BY <2>1, <2>2, Constants
<1>4. pc[p] = "user" /\ call[p] = NoCall /\ v0[p] = None /\ Runs(p)
  BY <1>1, <1>2, Goes DEF At, InOrder, Blocked, Runs, Waits, TypeOK, Semaphores
<1>5. PICK m \in {"lock", "nukedisk"} :
        /\ Goto(p, m)
        /\ \/ m = "nukedisk" /\ call' = call
           \/ /\ m = "lock" /\ call' = [call EXCEPT ![p] = r]
              /\ IsDisk(r.dev) => r.blk \in 0..Capacity
  BY DEF Invoke
<1>6. pc'[p] = m /\ \A q \in Proc \ {p} : pc'[q] = pc[q]
  BY <1>1, <1>2, <1>5, Goes
<1>7. /\ m = "nukedisk" => call'[p] = NoCall
      /\ m = "lock" => call'[p] = r
      /\ \A q \in Proc \ {p} : call'[q] = call[q]
      /\ call' \in [Proc -> {NoCall} \cup [op : Request, dev : Device, blk : Block]]
  BY <1>2, <1>3, <1>4, <1>5 DEF TypeOK
<1>8. TypeOK'
  BY <1>1, <1>2, <1>5, <1>7 DEF TypeOK, Goto
<1>9. Did(p)
  <2>1. \A x \in Way, d \in Guarded : ~Has(p, x, d)'
    BY <1>5, <1>6, <1>7 DEF Has, HasCall, HasFlash, HasPool, InCall, Faulting, Keeps
  <2> QED
    BY <1>1, <1>4, <1>6, <1>7, <2>1 DEF Did, Same, Quiet, Stays, Ended
<1>10. InOrder(p)'
  BY <1>1, <1>3, <1>4, <1>5, <1>6, <1>7 DEF InOrder, InCall, Ended
<1>11. Room' /\ Aimed'
  BY <1>1, <1>5, <1>6, RoomKept DEF Base, Aimed, Faulting
<1> QED
  BY <1>1, <1>8, <1>9, <1>10, <1>11, BaseStep

LEMMA LockBase ==
  ASSUME DeviceAssumption, Base, NEW p \in Proc, Lock(p)
  PROVE  Base' /\ Shrinks
<1> PICK s, m : s = call[p].dev /\ m = FirstStep(call[p])
  OBVIOUS
<1>1. /\ At(p, "lock") /\ Goto(p, m) /\ P(p, "lock", s, m)
      /\ UNCHANGED <<call, page, frames, victim, buf, arm, job, store, v0>>
  BY DEF Lock, P, data, devices
<1>2. TypeOK /\ InOrder(p)
  BY DEF Base, Asked
<1>3. /\ pc[p] = "lock" /\ pc'[p] = m /\ Runs(p)
      /\ \A q \in Proc \ {p} : pc'[q] = pc[q]
  BY <1>1, <1>2, Goes
<1>4. /\ call[p] # NoCall /\ s \in Device /\ s \in Locks
      /\ m \in {"validate", "copyin", "seek"} /\ call[p].op \in {"put", "get"}
  BY <1>2, <1>3, CallTypes, Names DEF InOrder
<1>5. Did(p) /\ sem' \in Semaphores(Locks, Proc)
  <2>1. Asks(p, s)'
    BY <1>1, <1>3, <1>4 DEF Asks
  <2>2. \A x \in Way, d \in Guarded :
          Has(p, x, d)' => Has(p, x, d) \/ (x = "call" /\ d = s /\ ~Waits(p, s)')
    BY <1>1, <1>3, <1>4 DEF Has, HasCall, HasFlash, HasPool, InCall, Faulting, Keeps
  <2>3. "call" \in Way /\ "lock" \notin Ended
    BY DEF Way, Ended
  <2> QED
    BY <1>1, <1>2, <1>4, <2>1, <2>2, <2>3, TakeStep
<1>6. TypeOK'
  BY <1>1, <1>2, <1>4, <1>5 DEF TypeOK, Goto
<1>7. InOrder(p)'
  BY <1>1, <1>2, <1>3, <1>4 DEF InOrder, InCall, Ended, Faulting, FirstStep
<1>8. Room' /\ Aimed'
  BY <1>1, <1>3, <1>4, RoomKept DEF Base, Aimed, Faulting
<1> QED
  BY <1>1, <1>5, <1>6, <1>7, <1>8, BaseStep

LEMMA ValidateBase ==
  ASSUME DeviceAssumption, Base, NEW p \in Proc, Validate(p)
  PROVE  Base' /\ Shrinks
<1> PICK m : m = IF call[p].blk \notin 0..MaxBlock-1 THEN "nukedisk"
                 ELSE IF call[p].op = "put" THEN "copyin" ELSE "transfer"
  OBVIOUS
<1>1. /\ At(p, "validate") /\ Goto(p, m)
      /\ UNCHANGED <<call, sem, page, frames, victim, buf, arm, job, store, v0>>
  BY DEF Validate, data, devices
<1>2. TypeOK /\ InOrder(p)
  BY DEF Base, Asked
<1>3. /\ pc[p] = "validate" /\ pc'[p] = m /\ Runs(p)
      /\ \A q \in Proc \ {p} : pc'[q] = pc[q]
  BY <1>1, <1>2, Goes
<1>4. /\ call[p] # NoCall /\ call[p].dev \in Device /\ call[p].blk \in Block
      /\ ~IsDisk(call[p].dev) /\ m \in {"nukedisk", "copyin", "transfer"}
  BY <1>2, <1>3, CallTypes DEF InOrder, InCall
<1>5. Did(p)
  BY <1>1, <1>2, <1>4, QuietStep DEF InCall, Faulting, Ended
<1>6. TypeOK'
  BY <1>1, <1>2, <1>4 DEF TypeOK, Goto
<1>7. InOrder(p)'
  BY <1>1, <1>2, <1>3, <1>4 DEF InOrder, InCall, Ended
<1>8. Room' /\ Aimed'
  BY <1>1, <1>3, <1>4, RoomKept DEF Base, Aimed, Faulting
<1> QED
  BY <1>1, <1>5, <1>6, <1>7, <1>8, BaseStep

LEMMA CopyInBase ==
  ASSUME DeviceAssumption, Base, NEW p \in Proc, CopyIn(p)
  PROVE  Base' /\ Shrinks
<1> PICK m : m = IF IsDisk(call[p].dev) THEN "seek" ELSE "transfer"
  OBVIOUS
<1>1. /\ At(p, "copyin") /\ Goto(p, m) /\ buf' = [buf EXCEPT ![call[p].dev] = page[p]]
      /\ UNCHANGED <<call, sem, page, frames, victim, arm, job, store, v0>>
  BY DEF CopyIn, data
<1>2. TypeOK /\ InOrder(p)
  BY DEF Base, Asked
<1>3. /\ pc[p] = "copyin" /\ pc'[p] = m /\ Runs(p)
      /\ \A q \in Proc \ {p} : pc'[q] = pc[q]
  BY <1>1, <1>2, Goes
<1>4. call[p] # NoCall /\ m \in {"seek", "transfer"}
  BY <1>2, <1>3 DEF InOrder, InCall
<1>5. Did(p)
  BY <1>1, <1>2, <1>4, QuietStep DEF InCall, Faulting, Ended
<1>6. TypeOK'
  BY <1>1, <1>2, <1>4 DEF TypeOK, Goto
<1>7. InOrder(p)'
  BY <1>1, <1>2, <1>3, <1>4 DEF InOrder, InCall, Ended
<1>8. Room' /\ Aimed'
  BY <1>1, <1>3, <1>4, RoomKept DEF Base, Aimed, Faulting
<1> QED
  BY <1>1, <1>5, <1>6, <1>7, <1>8, BaseStep

\* A command names a place a device can be asked for.
LEMMA Commanded ==
  ASSUME DeviceAssumption, Base, NEW p \in Proc, pc[p] \in {"seek", "transfer"},
         job' = [job EXCEPT ![call[p].dev] =
                   [place |-> Position(call[p].dev, call[p].blk), op |-> call[p].op]]
  PROVE  /\ job' \in [Device -> [place : UNION {Aims(d) : d \in Device}, op : Request]
                                  \cup {None}]
         /\ Aimed'
<1> PICK d, b, x : d = call[p].dev /\ b = call[p].blk /\ x = Position(d, b)
  OBVIOUS
<1>1. TypeOK /\ InOrder(p)
  BY DEF Base, Asked
<1>2. /\ d \in Device /\ b \in Int /\ call[p].op \in Request
      /\ IF IsDisk(d) THEN b \in 0..Capacity ELSE b \in 0..MaxBlock-1
  BY <1>1, CallTypes DEF InOrder, InCall, Ended
<1>3. x \in Aims(d)
  BY <1>2, PositionAims
<1>4. x \in UNION {Aims(c) : c \in Device}
  BY <1>2, <1>3
<1>5. PICK j : j = [place |-> x, op |-> call[p].op]
  OBVIOUS
<1>6. /\ j \in [place : UNION {Aims(c) : c \in Device}, op : Request]
      /\ j \in [place : Aims(d), op : Request]
  BY <1>2, <1>3, <1>4, <1>5
<1>7. job' = [job EXCEPT ![d] = j]
  BY <1>5
<1>8. job' \in [Device -> [place : UNION {Aims(c) : c \in Device}, op : Request] \cup {None}]
  BY <1>1, <1>2, <1>6, <1>7 DEF TypeOK
<1>9. Aimed'
  BY <1>1, <1>2, <1>6, <1>7 DEF Base, TypeOK, Aimed
<1> QED
  BY <1>8, <1>9

LEMMA SeekBase ==
  ASSUME DeviceAssumption, Base, NEW p \in Proc, Seek(p)
  PROVE  Base' /\ Shrinks
<1>1. /\ At(p, "seek") /\ Goto(p, "seeking")
      /\ UNCHANGED <<call, sem, page, frames, victim, buf, arm, store, v0>>
      /\ job' = [job EXCEPT ![call[p].dev] =
                   [place |-> Position(call[p].dev, call[p].blk), op |-> call[p].op]]
  BY DEF Seek, data
<1>2. TypeOK /\ InOrder(p)
  BY DEF Base, Asked
<1>3. /\ pc[p] = "seek" /\ pc'[p] = "seeking" /\ Runs(p)
      /\ \A q \in Proc \ {p} : pc'[q] = pc[q]
  BY <1>1, <1>2, Goes
<1>4. /\ job' \in [Device -> [place : UNION {Aims(d) : d \in Device}, op : Request]
                               \cup {None}]
      /\ Aimed'
  BY <1>1, <1>3, Commanded
<1>5. Did(p)
  BY <1>1, <1>2, QuietStep DEF InCall, Faulting, Ended
<1>6. TypeOK'
  BY <1>1, <1>2, <1>4 DEF TypeOK, Goto
<1>7. InOrder(p)'
  BY <1>1, <1>2, <1>3, <1>4 DEF InOrder, InCall, Ended
<1>8. Room'
  BY <1>1, <1>3, RoomKept DEF Base, Faulting
<1> QED
  BY <1>1, <1>4, <1>5, <1>6, <1>7, <1>8, BaseStep

LEMMA TransferBase ==
  ASSUME DeviceAssumption, Base, NEW p \in Proc, Transfer(p)
  PROVE  Base' /\ Shrinks
<1>1. /\ At(p, "transfer") /\ Goto(p, "moving")
      /\ UNCHANGED <<call, sem, page, frames, victim, buf, arm, store, v0>>
      /\ job' = [job EXCEPT ![call[p].dev] =
                   [place |-> Position(call[p].dev, call[p].blk), op |-> call[p].op]]
  BY DEF Transfer, data
<1>2. TypeOK /\ InOrder(p)
  BY DEF Base, Asked
<1>3. /\ pc[p] = "transfer" /\ pc'[p] = "moving" /\ Runs(p)
      /\ \A q \in Proc \ {p} : pc'[q] = pc[q]
  BY <1>1, <1>2, Goes
<1>4. /\ job' \in [Device -> [place : UNION {Aims(d) : d \in Device}, op : Request]
                               \cup {None}]
      /\ Aimed'
  BY <1>1, <1>3, Commanded
<1>5. Did(p)
  BY <1>1, <1>2, QuietStep DEF InCall, Faulting, Ended
<1>6. TypeOK'
  BY <1>1, <1>2, <1>4 DEF TypeOK, Goto
<1>7. InOrder(p)'
  BY <1>1, <1>2, <1>3, <1>4 DEF InOrder, InCall, Ended
<1>8. Room'
  BY <1>1, <1>3, RoomKept DEF Base, Faulting
<1> QED
  BY <1>1, <1>4, <1>5, <1>6, <1>7, <1>8, BaseStep

\* A device that has answered has no command.
LEMMA Answers ==
  ASSUME TypeOK, Aimed, NEW d \in Device, job' = [job EXCEPT ![d] = None]
  PROVE  /\ job' \in [Device -> [place : UNION {Aims(c) : c \in Device}, op : Request]
                                  \cup {None}]
         /\ Aimed'
<1>1. job' \in [Device -> [place : UNION {Aims(c) : c \in Device}, op : Request] \cup {None}]
  BY DEF TypeOK
<1>2. \A c \in Device : job'[c] = None \/ job'[c] = job[c]
  BY DEF TypeOK
<1>3. Aimed'
  BY <1>2 DEF Aimed
<1> QED
  BY <1>1, <1>3

LEMMA SeekDoneBase ==
  ASSUME DeviceAssumption, Base, NEW p \in Proc, SeekDone(p)
  PROVE  Base' /\ Shrinks
<1> PICK d : d = call[p].dev
  OBVIOUS
<1>1. PICK m \in {"transfer", "unlock"} :
      /\ At(p, "seeking") /\ Goto(p, m) /\ job[d] # None
      /\ UNCHANGED <<call, sem, page, frames, victim, buf, store>>
      /\ job' = [job EXCEPT ![d] = None]
      /\ \/ /\ job[d].place[1] < MaxCyl /\ m = "transfer"
            /\ arm' = [arm EXCEPT ![d] = job[d].place[1]] /\ v0' = v0
         \/ v0' = [v0 EXCEPT ![p] = "-error"] /\ m = "unlock" /\ arm' = arm
  BY DEF SeekDone, data
<1>2. TypeOK /\ InOrder(p) /\ Aimed
  BY DEF Base, Asked
<1>3. /\ pc[p] = "seeking" /\ pc'[p] = m /\ Runs(p)
      /\ \A q \in Proc \ {p} : pc'[q] = pc[q]
  BY <1>1, <1>2, Goes
<1>4. call[p] # NoCall /\ d \in Device /\ IsDisk(d)
  BY <1>2, <1>3, CallTypes DEF InOrder, InCall
<1>5. arm' \in [Device -> 0..MaxCyl-1]
  <2>1. job[d].place \in Aims(d)
    BY <1>1, <1>2, <1>4 DEF Aimed
  <2>2. MaxCyl \in Nat \ {0}
    BY Constants
  <2>3. job[d].place[1] \in 0..MaxCyl
    <3>1. 0 \in 0..MaxCyl-1
      BY <2>2
    <3> QED
      BY <1>4, <2>1, <3>1, AimsPlace
  <2>4. PICK c : c = job[d].place[1]
    OBVIOUS
  <2>5. c < MaxCyl => c \in 0..MaxCyl-1
    BY <2>2, <2>3, <2>4
  <2>6. (arm' = [arm EXCEPT ![d] = c] /\ c < MaxCyl) \/ arm' = arm
    BY <1>1, <2>4
  <2> QED
    BY <1>2, <2>5, <2>6 DEF TypeOK
<1>6. Did(p)
  BY <1>1, <1>2, QuietStep DEF InCall, Faulting, Ended
<1>7. /\ job' \in [Device -> [place : UNION {Aims(c) : c \in Device}, op : Request]
                               \cup {None}]
      /\ Aimed'
  BY <1>1, <1>2, <1>4, Answers
<1>8. TypeOK'
  <2>1. v0' \in [Proc -> {None, "ready", "error", "-error"}]
    BY <1>1, <1>2 DEF TypeOK
  <2>2. pc' \in [Proc -> {"user", "lock", "validate", "copyin", "seek", "transfer",
                          "seeking", "moving", "copyout", "unlock", "pick", "outlock",
                          "out", "inlock", "in", "install", "nukedisk", "nukediskV",
                          "nukeflash", "nukeflashV", "dead"}]
    BY <1>1, <1>2 DEF TypeOK, Goto
  <2> QED
    BY <1>1, <1>2, <1>5, <1>7, <2>1, <2>2 DEF TypeOK
<1>9. v0'[p] = None <=> m # "unlock"
  <2>1. v0[p] = None /\ None # "-error"
    BY <1>2, <1>3, <1>4 DEF InOrder, DeviceAssumption
  <2> QED
    BY <1>1, <1>2, <2>1 DEF TypeOK
<1>10. InOrder(p)'
  BY <1>1, <1>2, <1>3, <1>4, <1>9 DEF InOrder, InCall, Ended
<1>11. Room'
  BY <1>1, <1>3, RoomKept DEF Base, Faulting
<1>12. \A q \in Proc \ {p} : v0'[q] = v0[q]
  BY <1>1, <1>2 DEF TypeOK
<1> QED
  BY <1>6, <1>7, <1>8, <1>10, <1>11, <1>12, BaseStep

\* What Answered does to the result.
LEMMA AnsweredFacts ==
  ASSUME DeviceAssumption, TypeOK, NEW p \in Proc, NEW ok \in BOOLEAN, Answered(p, ok)
  PROVE  /\ v0' \in [Proc -> {None, "ready", "error", "-error"}]
         /\ v0'[p] # None /\ v0'[p] \in (IF ok THEN {"ready"} ELSE {"error", "-error"})
         /\ \A q \in Proc \ {p} : v0'[q] = v0[q]
<1> PICK v : v = IF ok THEN "ready" ELSE IF IsDisk(call[p].dev) THEN "-error" ELSE "error"
  OBVIOUS
<1>1. v \in {"ready", "error", "-error"} /\ v \in (IF ok THEN {"ready"} ELSE {"error", "-error"})
  OBVIOUS
<1>2. v # None
  BY <1>1 DEF DeviceAssumption
<1>3. v0' = [v0 EXCEPT ![p] = v]
  BY DEF Answered
<1> QED
  BY <1>1, <1>2, <1>3 DEF TypeOK

\* The place a transfer is about is one of the device.
LEMMA Target ==
  ASSUME DeviceAssumption, TypeOK, Aimed, NEW d \in Device, job[d] # None, NEW x,
         x = <<d, IF IsDisk(d) THEN [job[d].place EXCEPT ![1] = arm[d]] ELSE job[d].place>>
  PROVE  x \in Place
<1>1. job[d].place \in Aims(d) /\ arm[d] \in 0..MaxCyl-1
  BY DEF Aimed, TypeOK
<1> PICK y : y = IF IsDisk(d) THEN [job[d].place EXCEPT ![1] = arm[d]] ELSE job[d].place
  OBVIOUS
<1>2. y \in Places(d)
  BY <1>1, AimsPlace
<1> QED
  BY <1>2, PlaceOf

LEMMA TransferDoneBase ==
  ASSUME DeviceAssumption, Base, NEW p \in Proc, TransferDone(p)
  PROVE  Base' /\ Shrinks
<1> PICK d : d = call[p].dev
  OBVIOUS
<1> PICK x : x = <<d, IF IsDisk(d) THEN [job[d].place EXCEPT ![1] = arm[d]] ELSE job[d].place>>
  OBVIOUS
<1>1. PICK m \in {"copyout", "unlock"} :
      /\ At(p, "moving") /\ Goto(p, m) /\ job[d] # None
      /\ UNCHANGED <<call, sem, page, frames, victim, arm>>
      /\ job' = [job EXCEPT ![d] = None]
      /\ \/ m = "unlock" /\ (Answered(p, TRUE) \/ Answered(p, FALSE))
         \/ m = "copyout" /\ v0' = v0 /\ call[p].op = "get"
      /\ buf' = buf \/ buf' = [buf EXCEPT ![d] = store[x]]
      /\ store' = store \/ store' = [store EXCEPT ![x] = buf[d]]
  <2>1. ASSUME Moved(d)
        PROVE  /\ buf' = buf \/ buf' = [buf EXCEPT ![d] = store[x]]
               /\ store' = store \/ store' = [store EXCEPT ![x] = buf[d]]
    BY <2>1 DEF Moved
  <2> QED
    BY <2>1 DEF TransferDone, data
<1>2. TypeOK /\ InOrder(p) /\ Aimed
  BY DEF Base, Asked
<1>3. /\ pc[p] = "moving" /\ pc'[p] = m /\ Runs(p)
      /\ \A q \in Proc \ {p} : pc'[q] = pc[q]
  BY <1>1, <1>2, Goes
<1>4. call[p] # NoCall /\ d \in Device
  BY <1>2, <1>3, CallTypes DEF InOrder, InCall
<1>5. x \in Place
  BY <1>1, <1>2, <1>4, Target
<1>6. Did(p)
  BY <1>1, <1>2, QuietStep DEF InCall, Faulting, Ended
<1>7. /\ job' \in [Device -> [place : UNION {Aims(c) : c \in Device}, op : Request]
                               \cup {None}]
      /\ Aimed'
  BY <1>1, <1>2, <1>4, Answers
<1>8. /\ v0' \in [Proc -> {None, "ready", "error", "-error"}]
      /\ v0'[p] = None <=> m # "unlock"
      /\ \A q \in Proc \ {p} : v0'[q] = v0[q]
  <2>1. v0[p] = None
    BY <1>2, <1>3, <1>4 DEF InOrder
  <2>2. CASE m = "unlock"
    <3>1. PICK ok \in BOOLEAN : Answered(p, ok)
      BY <1>1, <2>2
    <3> QED
      BY <1>2, <2>2, <3>1, AnsweredFacts
  <2>3. CASE m = "copyout"
    BY <1>1, <1>2, <2>1, <2>3 DEF TypeOK
  <2> QED
    BY <2>2, <2>3
<1>9. TypeOK'
  <2>1. buf' \in [Device -> Val] /\ store' \in [Place -> Val]
    <3>1. PICK v, w : v = store[x] /\ w = buf[d]
      OBVIOUS
    <3>2. v \in Val /\ w \in Val
      BY <1>2, <1>4, <1>5, <3>1 DEF TypeOK
    <3>3. /\ buf' = buf \/ buf' = [buf EXCEPT ![d] = v]
          /\ store' = store \/ store' = [store EXCEPT ![x] = w]
      BY <1>1, <3>1
    <3>4. buf \in [Device -> Val] /\ store \in [Place -> Val]
      BY <1>2 DEF TypeOK
    <3>5. buf' \in [Device -> Val]
      BY <3>2, <3>3, <3>4
    <3>6. store' \in [Place -> Val]
      BY <3>2, <3>3, <3>4
    <3> QED
      BY <3>5, <3>6
  <2>2. pc' \in [Proc -> {"user", "lock", "validate", "copyin", "seek", "transfer",
                          "seeking", "moving", "copyout", "unlock", "pick", "outlock",
                          "out", "inlock", "in", "install", "nukedisk", "nukediskV",
                          "nukeflash", "nukeflashV", "dead"}]
    BY <1>1, <1>2 DEF TypeOK, Goto
  <2> QED
    BY <1>1, <1>2, <1>7, <1>8, <2>1, <2>2 DEF TypeOK
<1>10. InOrder(p)'
  BY <1>1, <1>2, <1>3, <1>4, <1>8 DEF InOrder, InCall, Ended
<1>11. Room'
  BY <1>1, <1>3, RoomKept DEF Base, Faulting
<1> QED
  BY <1>6, <1>7, <1>8, <1>9, <1>10, <1>11, BaseStep

LEMMA CopyOutBase ==
  ASSUME DeviceAssumption, Base, NEW p \in Proc, CopyOut(p)
  PROVE  Base' /\ Shrinks
<1>1. /\ At(p, "copyout") /\ Goto(p, "unlock") /\ Answered(p, TRUE)
      /\ UNCHANGED <<call, sem, frames, victim, buf, arm, job, store>>
      /\ page' = [page EXCEPT ![p] = buf[call[p].dev]]
  BY DEF CopyOut, devices
<1>2. TypeOK /\ InOrder(p)
  BY DEF Base, Asked
<1>3. /\ pc[p] = "copyout" /\ pc'[p] = "unlock" /\ Runs(p)
      /\ \A q \in Proc \ {p} : pc'[q] = pc[q]
  BY <1>1, <1>2, Goes
<1>4. call[p] # NoCall /\ call[p].dev \in Device
  BY <1>2, <1>3, CallTypes DEF InOrder, InCall
<1>5. /\ v0' \in [Proc -> {None, "ready", "error", "-error"}]
      /\ v0'[p] # None /\ \A q \in Proc \ {p} : v0'[q] = v0[q]
  BY <1>1, <1>2, AnsweredFacts
<1>6. Did(p)
  BY <1>1, <1>2, QuietStep DEF InCall, Faulting, Ended
<1>7. TypeOK'
  <2>1. page' \in [Proc -> Val]
    BY <1>1, <1>2, <1>4 DEF TypeOK
  <2> QED
    BY <1>1, <1>2, <1>5, <2>1 DEF TypeOK, Goto
<1>8. InOrder(p)'
  BY <1>1, <1>2, <1>3, <1>4, <1>5 DEF InOrder, InCall, Ended
<1>9. Room' /\ Aimed'
  BY <1>1, <1>3, RoomKept DEF Base, Aimed, Faulting
<1> QED
  BY <1>5, <1>6, <1>7, <1>8, <1>9, BaseStep

LEMMA UnlockBase ==
  ASSUME DeviceAssumption, Base, NEW p \in Proc, Unlock(p)
  PROVE  Base' /\ Shrinks
<1> PICK s : s = call[p].dev
  OBVIOUS
<1>1. /\ At(p, "unlock") /\ Goto(p, "user") /\ sem' = verhogen(sem, s)
      /\ call' = [call EXCEPT ![p] = NoCall] /\ v0' = [v0 EXCEPT ![p] = None]
      /\ UNCHANGED <<page, frames, victim, buf, arm, job, store>>
  BY DEF Unlock, data, devices
<1>2. TypeOK /\ InOrder(p)
  BY DEF Base, Asked
<1>3. /\ pc[p] = "unlock" /\ pc'[p] = "user" /\ Runs(p)
      /\ \A q \in Proc \ {p} : pc'[q] = pc[q]
  BY <1>1, <1>2, Goes
<1>4. call[p] # NoCall /\ s \in Device /\ s \in Locks
  BY <1>2, <1>3, CallTypes, Names DEF InOrder, InCall
<1>5. /\ call' \in [Proc -> {NoCall} \cup [op : Request, dev : Device, blk : Block]]
      /\ call'[p] = NoCall /\ \A q \in Proc \ {p} : call'[q] = call[q]
      /\ v0' \in [Proc -> {None, "ready", "error", "-error"}]
      /\ v0'[p] = None /\ \A q \in Proc \ {p} : v0'[q] = v0[q]
  BY <1>1, <1>2 DEF TypeOK
<1>6. Did(p) /\ sem' \in Semaphores(Locks, Proc)
  <2>1. Has(p, "call", s) /\ "call" \in Way
    BY <1>3, <1>4 DEF Has, HasCall, Runs, InCall, Way
  <2>2. \A x \in Way, d \in Guarded : ~Has(p, x, d)'
    BY <1>3 DEF Has, HasCall, HasFlash, HasPool, InCall, Faulting, Keeps
  <2> QED
    BY <1>1, <1>2, <1>4, <1>5, <2>1, <2>2, GiveStep DEF Ended
<1>7. TypeOK'
  BY <1>1, <1>2, <1>5, <1>6 DEF TypeOK, Goto
<1>8. InOrder(p)'
  <2>1. pc'[p] = "user" /\ call'[p] = NoCall /\ v0'[p] = None
    BY <1>3, <1>5
  <2>2. v0'[p] = None <=> pc'[p] # "unlock"
    BY <2>1
  <2> QED
    BY <2>1, <2>2 DEF InOrder, InCall, Ended
<1>9. Room' /\ Aimed'
  BY <1>1, <1>3, RoomKept DEF Base, Aimed, Faulting
<1> QED
  BY <1>1, <1>5, <1>6, <1>7, <1>8, <1>9, BaseStep

-----------------------------------------------------------------------------
(* The steps of the pager                                                  *)

LEMMA FaultBase ==
  ASSUME DeviceAssumption, Base, NEW p \in Proc, Fault(p)
  PROVE  Base' /\ Shrinks
<1>1. PICK l \in {"copyin", "copyout", "user"} : P(p, l, SwapPool, "pick")
  BY DEF Fault, P
<1>2. /\ At(p, l) /\ Goto(p, "pick")
      /\ UNCHANGED <<call, page, frames, victim, buf, arm, job, store, v0>>
  BY <1>1 DEF P, data, devices
<1>3. TypeOK /\ InOrder(p)
  BY DEF Base, Asked
<1>4. /\ pc[p] = l /\ pc'[p] = "pick" /\ Runs(p)
      /\ \A q \in Proc \ {p} : pc'[q] = pc[q]
  BY <1>2, <1>3, Goes
<1>5. Did(p) /\ sem' \in Semaphores(Locks, Proc)
  <2>1. Asks(p, SwapPool)'
    BY <1>4 DEF Asks
  <2>2. SwapPool \in Locks /\ "pool" \in Way /\ SwapPool \notin Device
    BY Names DEF Way
  <2>3. \A x \in Way, d \in Guarded :
          Has(p, x, d)' => Has(p, x, d) \/ (x = "pool" /\ d = SwapPool /\ ~Waits(p, SwapPool)')
    <3> SUFFICES ASSUME NEW x \in Way, NEW d \in Guarded, Has(p, x, d)'
                 PROVE  Has(p, x, d) \/ (x = "pool" /\ d = SwapPool /\ ~Waits(p, SwapPool)')
      OBVIOUS
    <3>1. CASE x = "call"
      <4>1. call[p] # NoCall /\ call[p].dev = d /\ l \in {"copyin", "copyout"}
        BY <1>2, <1>3, <1>4, <3>1 DEF Has, HasCall, InOrder, Keeps
      <4>2. ~Waits(p, d)
        BY <1>4, Names DEF Runs
      <4> QED
        BY <1>4, <3>1, <4>1, <4>2 DEF Has, HasCall, InCall
    <3>2. CASE x = "flash"
      BY <1>4, <3>2 DEF Has, HasFlash
    <3>3. CASE x = "pool"
      BY <3>3 DEF Has, HasPool
    <3> QED
      BY <3>1, <3>2, <3>3 DEF Way
  <2>4. l \notin Ended
    BY DEF Ended
  <2> QED
    BY <1>1, <1>3, <2>1, <2>2, <2>3, <2>4, TakeStep
<1>6. TypeOK'
  BY <1>2, <1>3, <1>5 DEF TypeOK, Goto
<1>7. InOrder(p)'
  BY <1>2, <1>3, <1>4 DEF InOrder, InCall, Ended
<1>8. Room' /\ Aimed'
  BY <1>2, <1>4, RoomKept DEF Base, Aimed, Faulting
<1> QED
  BY <1>2, <1>5, <1>6, <1>7, <1>8, BaseStep

\* Whoever is past the P on the pool has it, and is the only one.
LEMMA PoolHeld ==
  ASSUME DeviceAssumption, Base, NEW p \in Proc, pc[p] \in Faulting \ {"pick"}
  PROVE  /\ Has(p, "pool", SwapPool) /\ "pool" \in Way /\ SwapPool \in Guarded
         /\ \A q \in Proc : pc[q] \in Faulting \ {"pick"} => q = p
<1>1. TypeOK /\ Line /\ One
  BY DEF Base
<1>2. SwapPool \in Guarded /\ SwapPool \in Locks /\ SwapPool \notin Device
      /\ \A q : Flash(q) # SwapPool
  BY Names
<1>3. "pool" \in Way
  BY DEF Way
<1>4. ASSUME NEW q \in Proc, pc[q] \in Faulting \ {"pick"}
      PROVE  Has(q, "pool", SwapPool)
  <2>1. ~Asks(q, SwapPool)
    BY <1>1, <1>2, <1>4, CallTypes DEF Asks, Faulting
  <2>2. ~Waits(q, SwapPool)
    BY <1>1, <1>2, <2>1 DEF Line
  <2> QED
    BY <1>4, <2>2 DEF Has, HasPool
<1> QED
  BY <1>1, <1>2, <1>3, <1>4 DEF One

LEMMA PickFrameBase ==
  ASSUME DeviceAssumption, Base, NEW p \in Proc, PickFrame(p)
  PROVE  Base' /\ Shrinks
<1>1. PICK m \in {"outlock", "inlock"} :
      /\ At(p, "pick") /\ Goto(p, m)
      /\ UNCHANGED <<call, sem, page, buf, arm, job, store, v0>>
      /\ \/ /\ Len(frames) = NumFrames /\ frames' = Tail(frames)
            /\ victim' = [victim EXCEPT ![p] = Head(frames)]
         \/ /\ Len(frames) # NumFrames /\ frames' = frames /\ victim' = victim
            /\ m = "inlock"
  BY DEF PickFrame, Full, devices
<1>2. TypeOK /\ InOrder(p)
  BY DEF Base, Asked
<1>3. /\ pc[p] = "pick" /\ pc'[p] = m /\ Runs(p)
      /\ \A q \in Proc \ {p} : pc'[q] = pc[q]
  BY <1>1, <1>2, Goes
<1>4. /\ frames' \in Seq(Proc) /\ Len(frames') < NumFrames
      /\ victim' \in [Proc -> Proc \cup {None}]
      /\ \A q \in Proc \ {p} : victim'[q] = victim[q]
      /\ m = "outlock" => victim'[p] \in Proc
  <2>1. /\ frames \in Seq(Proc) /\ Len(frames) \in Nat /\ Len(frames) <= NumFrames
        /\ NumFrames \in Nat \ {0} /\ victim \in [Proc -> Proc \cup {None}]
    BY <1>2, Constants, LenProperties DEF TypeOK
  <2>2. CASE Len(frames) = NumFrames
    <3>1. frames # <<>>
      BY <2>1, <2>2, EmptyQ
    <3>2. /\ Head(frames) \in Proc /\ Tail(frames) \in Seq(Proc)
          /\ Len(Tail(frames)) = Len(frames) - 1
      BY <2>1, <3>1, HeadTailQ
    <3> QED
      BY <1>1, <2>1, <2>2, <3>2
  <2>3. CASE Len(frames) # NumFrames
    BY <1>1, <2>1, <2>3
  <2> QED
    BY <2>2, <2>3
<1>5. Did(p)
  BY <1>1, <1>2, <1>4, QuietStep DEF InCall, Faulting, Ended
<1>6. TypeOK'
  <2>1. Len(frames') <= NumFrames
    BY <1>4, Constants, LenProperties
  <2> QED
    BY <1>1, <1>2, <1>4, <2>1 DEF TypeOK, Goto
<1>7. InOrder(p)'
  BY <1>1, <1>2, <1>3, <1>4 DEF InOrder, InCall, Ended
<1>8. Room' /\ Aimed'
  BY <1>1, <1>4 DEF Base, Aimed, Room
<1> QED
  BY <1>1, <1>5, <1>6, <1>7, <1>8, BaseStep

\* The mutex of a flash device is taken in the pager.
LEMMA FlashPBase ==
  ASSUME DeviceAssumption, Base, NEW p \in Proc, NEW l, NEW s, NEW m,
         \/ l = "outlock" /\ s = Flash(victim[p]) /\ m = "out"
         \/ l = "inlock" /\ s = Flash(p) /\ m = "in",
         P(p, l, s, m)
  PROVE  Base' /\ Shrinks
<1>1. /\ At(p, l) /\ Goto(p, m)
      /\ UNCHANGED <<call, page, frames, victim, buf, arm, job, store, v0>>
  BY DEF P, data, devices
<1>2. TypeOK /\ InOrder(p)
  BY DEF Base, Asked
<1>3. /\ pc[p] = l /\ pc'[p] = m /\ Runs(p)
      /\ \A q \in Proc \ {p} : pc'[q] = pc[q]
  BY <1>1, <1>2, Goes
<1>4. s \in Locks /\ s # SwapPool
  BY <1>2, <1>3, Names DEF InOrder
<1>5. Did(p) /\ sem' \in Semaphores(Locks, Proc)
  <2>1. Asks(p, s)' /\ "flash" \in Way
    BY <1>1, <1>3 DEF Asks, Way
  <2>2. \A x \in Way, d \in Guarded :
          Has(p, x, d)' => Has(p, x, d) \/ (x = "flash" /\ d = s /\ ~Waits(p, s)')
    <3> SUFFICES ASSUME NEW x \in Way, NEW d \in Guarded, Has(p, x, d)'
                 PROVE  Has(p, x, d) \/ (x = "flash" /\ d = s /\ ~Waits(p, s)')
      OBVIOUS
    <3>1. CASE x = "call"
      BY <1>1, <1>3, <3>1 DEF Has, HasCall, Faulting, InCall, Keeps
    <3>2. CASE x = "flash"
      <4>1. Asks(p, d)' /\ ~Waits(p, d)'
        BY <3>2 DEF Has, HasFlash
      <4>2. FirstStep(call[p]) \in {"validate", "copyin", "seek"} \/ call[p] = NoCall
        BY <1>2, CallTypes
      <4>3. d = s
        BY <1>1, <1>3, <4>1, <4>2 DEF Asks
      <4> QED
        BY <3>2, <4>1, <4>3
    <3>3. CASE x = "pool"
      BY <1>3, <3>3, PoolHeld DEF Has, HasPool, Faulting
    <3> QED
      BY <3>1, <3>2, <3>3 DEF Way
  <2>3. l \notin Ended
    BY DEF Ended
  <2> QED
    BY <1>2, <1>4, <2>1, <2>2, <2>3, TakeStep
<1>6. TypeOK'
  BY <1>1, <1>2, <1>5 DEF TypeOK, Goto
<1>7. InOrder(p)'
  BY <1>1, <1>2, <1>3 DEF InOrder, InCall, Ended
<1>8. Room' /\ Aimed'
  BY <1>1, <1>3, RoomKept DEF Base, Aimed, Faulting
<1> QED
  BY <1>1, <1>5, <1>6, <1>7, <1>8, BaseStep

\* It is given back in the pager, which goes on or ends the process.
LEMMA FlashVBase ==
  ASSUME DeviceAssumption, Base, NEW p \in Proc, NEW l, NEW s, NEW m,
         \/ /\ l = "out" /\ s = Flash(victim[p]) /\ m \in {"inlock", "nukedisk"}
            /\ victim' = [victim EXCEPT ![p] = None]
         \/ /\ l = "in" /\ s = Flash(p) /\ m \in {"install", "nukedisk"}
            /\ victim' = victim,
         At(p, l), Goto(p, m), sem' = verhogen(sem, s),
         UNCHANGED <<call, page, frames, buf, arm, job, store, v0>>
  PROVE  Base' /\ Shrinks
<1>1. TypeOK /\ InOrder(p)
  BY DEF Base, Asked
<1>2. /\ pc[p] = l /\ pc'[p] = m /\ Runs(p)
      /\ \A q \in Proc \ {p} : pc'[q] = pc[q]
  BY <1>1, Goes
<1>3. s \in Locks
  BY <1>1, <1>2, Names DEF InOrder
<1>4. /\ victim' \in [Proc -> Proc \cup {None}]
      /\ \A q \in Proc \ {p} : call'[q] = call[q] /\ victim'[q] = victim[q]
  BY <1>1 DEF TypeOK
<1>5. Did(p) /\ sem' \in Semaphores(Locks, Proc)
  <2>1. Has(p, "flash", s) /\ "flash" \in Way
    BY <1>2, <1>3 DEF Has, HasFlash, Asks, Runs, Way
  <2>2. \A x \in Way, d \in Guarded :
          Runs(p)' /\ Has(p, x, d)' => Has(p, x, d) /\ ~(x = "flash" /\ d = s)
    <3> SUFFICES ASSUME NEW x \in Way, NEW d \in Guarded, Has(p, x, d)'
                 PROVE  Has(p, x, d) /\ ~(x = "flash" /\ d = s)
      OBVIOUS
    <3>1. CASE x = "call"
      BY <1>2, <3>1 DEF Has, HasCall, Faulting, InCall, Keeps
    <3>2. CASE x = "flash"
      BY <1>2, <3>2 DEF Has, HasFlash
    <3>3. CASE x = "pool"
      BY <1>2, <3>3, PoolHeld DEF Has, HasPool, Faulting
    <3> QED
      BY <3>1, <3>2, <3>3 DEF Way
  <2> QED
    BY <1>1, <1>3, <1>4, <2>1, <2>2, GiveStep DEF Ended
<1>6. TypeOK'
  BY <1>1, <1>4, <1>5 DEF TypeOK, Goto
<1>7. InOrder(p)'
  BY <1>1, <1>2 DEF InOrder, InCall, Ended
<1>8. Room' /\ Aimed'
  BY <1>2, RoomKept DEF Base, Aimed, Faulting
<1> QED
  BY <1>5, <1>6, <1>7, <1>8, BaseStep

LEMMA InstallBase ==
  ASSUME DeviceAssumption, Base, NEW p \in Proc, Install(p)
  PROVE  Base' /\ Shrinks
<1> PICK m : m = IF call[p] = NoCall THEN "user"
                 ELSE IF call[p].op = "put" THEN "copyin" ELSE "copyout"
  OBVIOUS
<1>1. /\ At(p, "install") /\ Goto(p, m) /\ sem' = verhogen(sem, SwapPool)
      /\ frames' = Append(frames, p)
      /\ UNCHANGED <<call, page, victim, buf, arm, job, store, v0>>
  BY DEF Install, devices
<1>2. TypeOK /\ InOrder(p) /\ Room
  BY DEF Base, Asked
<1>3. /\ pc[p] = "install" /\ pc'[p] = m /\ Runs(p)
      /\ \A q \in Proc \ {p} : pc'[q] = pc[q]
  BY <1>1, <1>2, Goes
<1>4. /\ Has(p, "pool", SwapPool) /\ "pool" \in Way /\ SwapPool \in Guarded
      /\ \A q \in Proc : pc[q] \in Faulting \ {"pick"} => q = p
      /\ SwapPool \in Locks
  BY <1>3, PoolHeld, Names DEF Faulting
<1>5. frames' \in Seq(Proc) /\ Len(frames') <= NumFrames
  <2>1. frames \in Seq(Proc) /\ Len(frames) < NumFrames
    BY <1>2, <1>3 DEF TypeOK, Room, Faulting
  <2>2. Append(frames, p) \in Seq(Proc) /\ Len(Append(frames, p)) = Len(frames) + 1
    BY <2>1, AppendQ
  <2>3. Len(frames) \in Nat /\ NumFrames \in Nat
    BY <2>1, LenProperties, Constants
  <2> QED
    BY <1>1, <2>1, <2>2, <2>3
<1>6. Did(p) /\ sem' \in Semaphores(Locks, Proc)
  <2>1. \A x \in Way, d \in Guarded :
          Runs(p)' /\ Has(p, x, d)' => Has(p, x, d) /\ ~(x = "pool" /\ d = SwapPool)
    <3> SUFFICES ASSUME NEW x \in Way, NEW d \in Guarded, Has(p, x, d)'
                 PROVE  Has(p, x, d) /\ ~(x = "pool" /\ d = SwapPool)
      OBVIOUS
    <3>1. CASE x = "call"
      BY <1>1, <1>3, <3>1 DEF Has, HasCall, Faulting, InCall, Keeps
    <3>2. CASE x = "flash"
      BY <1>3, <3>2 DEF Has, HasFlash
    <3>3. CASE x = "pool"
      BY <1>3, <3>3 DEF Has, HasPool, Faulting
    <3> QED
      BY <3>1, <3>2, <3>3 DEF Way
  <2> QED
    BY <1>1, <1>2, <1>4, <2>1, GiveStep DEF Ended
<1>7. TypeOK'
  BY <1>1, <1>2, <1>5, <1>6 DEF TypeOK, Goto
<1>8. InOrder(p)'
  <2>1. call[p] # NoCall => call[p].op \in {"put", "get"}
    BY <1>2, CallTypes
  <2> QED
    BY <1>1, <1>2, <1>3, <2>1 DEF InOrder, InCall, Ended
<1>9. Room' /\ Aimed'
  BY <1>1, <1>3, <1>4 DEF Base, Aimed, Room, Faulting
<1> QED
  BY <1>1, <1>6, <1>7, <1>8, <1>9, BaseStep

-----------------------------------------------------------------------------
(* The end of a process                                                    *)

\* A step that changes nothing but where a process that ends stands.
LEMMA EndingBase ==
  ASSUME DeviceAssumption, Base, NEW p \in Proc, NEW l, NEW m,
         At(p, l), Goto(p, m), Further(l, m) \/ (m = "nukedisk" /\ l \in {"user", "copyin", "copyout"}),
         UNCHANGED <<call, sem, page, frames, victim, buf, arm, job, store, v0>>
  PROVE  Base' /\ Shrinks
<1>1. TypeOK /\ InOrder(p)
  BY DEF Base, Asked
<1>2. /\ pc[p] = l /\ pc'[p] = m /\ Runs(p)
      /\ \A q \in Proc \ {p} : pc'[q] = pc[q]
  BY <1>1, Goes
<1>3. m \in Ended /\ m \notin InCall \cup Faulting /\ l # "unlock"
  BY DEF Further, Ended, InCall, Faulting
<1>4. Did(p)
  <2>1. l \in InCall \cup Faulting \/ call[p] = NoCall \/ Further(l, m)
    BY <1>1, <1>2 DEF InCall, InOrder
  <2>2. m \notin {"out", "in"}
    BY <1>3 DEF Faulting
  <2> QED
    BY <1>1, <1>3, <2>1, <2>2, QuietStep
<1>5. TypeOK'
  BY <1>1, <1>3 DEF TypeOK, Goto, Ended
<1>6. InOrder(p)'
  BY <1>1, <1>2, <1>3 DEF InOrder, InCall, Ended
<1>7. Room' /\ Aimed'
  BY <1>2, <1>3, RoomKept DEF Base, Aimed
<1> QED
  BY <1>4, <1>5, <1>6, <1>7, BaseStep

\* get_nuked releases a mutex that the process has or that is lost.
LEMMA NukeVBase ==
  ASSUME DeviceAssumption, Base, NEW p \in Proc, NEW l, NEW m, NEW s,
         \/ l = "nukediskV" /\ m = "nukeflash" /\ s = <<"disk", p>>
         \/ l = "nukeflashV" /\ m = "dead" /\ s = Flash(p),
         At(p, l), Goto(p, m), sem' = verhogen(sem, s),
         UNCHANGED <<call, page, frames, victim, buf, arm, job, store, v0>>
  PROVE  Base' /\ Shrinks
<1>1. TypeOK /\ InOrder(p)
  BY DEF Base, Asked
<1>2. /\ pc[p] = l /\ pc'[p] = m /\ Runs(p)
      /\ \A q \in Proc \ {p} : pc'[q] = pc[q]
  BY <1>1, Goes
<1>3. CASE s \in Locks
  <2>1. s \in Guarded => Has(p, "call", s)
    <3> SUFFICES ASSUME s \in Guarded PROVE HasCall(p, s)
      BY DEF Has
    <3>1. s \in Own[p] /\ s \notin Left(p)
      BY <1>2 DEF Own, Guarded, Lost, EndedProc, Ended
    <3>2. call[p] # NoCall /\ call[p].dev = s
      BY <3>1 DEF Left
    <3>3. Keeps(p, s)
      BY <1>2 DEF Keeps, Flash
    <3> QED
      BY <3>2, <3>3 DEF HasCall
  <2>2. \A x \in Way, d \in Guarded : Has(p, x, d)' => Has(p, x, d) /\ ~(x = "call" /\ d = s)
    <3> SUFFICES ASSUME NEW d \in Guarded
                 PROVE  /\ HasCall(p, d)' => HasCall(p, d) /\ d # s
                        /\ ~HasFlash(p, d)' /\ ~HasPool(p, d)'
      BY DEF Has, Way
    <3>1. ~HasFlash(p, d)' /\ ~HasPool(p, d)'
      BY <1>2 DEF HasFlash, HasPool, Faulting
    <3>2. HasCall(p, d)' => HasCall(p, d) /\ d # s
      BY <1>2 DEF HasCall, Keeps, InCall, Faulting, Flash
    <3> QED
      BY <3>1, <3>2
  <2>3. Did(p) /\ sem' \in Semaphores(Locks, Proc)
    <3>1. "call" \in Way /\ l \in Ended /\ m \in Ended
      BY DEF Way, Ended
    <3> QED
      BY <1>1, <1>3, <2>1, <2>2, <3>1, GiveStep
  <2>4. TypeOK'
    BY <1>1, <2>3 DEF TypeOK, Goto
  <2>5. InOrder(p)'
    BY <1>1, <1>2 DEF InOrder, InCall, Ended
  <2>6. Room' /\ Aimed'
    BY <1>2, RoomKept DEF Base, Aimed, Faulting
  <2> QED
    BY <2>3, <2>4, <2>5, <2>6, BaseStep
<1>4. CASE s \notin Locks
  <2>1. sem' = sem
    BY <1>1, <1>4 DEF TypeOK, Semaphores, verhogen
  <2>2. Further(l, m)
    BY DEF Further
  <2> QED
    BY <2>1, <2>2, EndingBase
<1> QED
  BY <1>3, <1>4

-----------------------------------------------------------------------------
LEMMA InitBase == ASSUME DeviceAssumption, Init PROVE Base
<1>1. /\ pc = [p \in Proc |-> "user"] /\ call = [p \in Proc |-> NoCall]
      /\ sem = [s \in Locks |-> Sema4(1)] /\ frames = <<>>
      /\ victim = [p \in Proc |-> None] /\ arm = [d \in Device |-> 0]
      /\ job = [d \in Device |-> None] /\ v0 = [p \in Proc |-> None]
  BY DEF Init
<1>2. sem \in Semaphores(Locks, Proc) /\ \A s \in Locks : sem[s].val = 1 /\ sem[s].queue = <<>>
  BY <1>1, EmptyQ DEF Sema4, Semaphores
<1>3. TypeOK
  <2>1. frames \in Seq(Proc) /\ Len(frames) <= NumFrames
    BY <1>1, EmptyQ, Constants
  <2>2. arm \in [Device -> 0..MaxCyl-1]
    BY <1>1, Constants
  <2>3. page \in [Proc -> Val] /\ buf \in [Device -> Val] /\ store \in [Place -> Val]
    BY DEF Init
  <2> QED
    BY <1>1, <1>2, <2>1, <2>2, <2>3 DEF TypeOK
<1>4. Asked
  BY <1>1 DEF Asked, InOrder, InCall, Ended
<1>5. Line
  <2>1. \A s \in Locks : IsInjective(sem[s].queue) /\ ToSet(sem[s].queue) = {}
    BY <1>2, EmptyQ
  <2> QED
    BY <2>1 DEF Line, Waits
<1>6. One
  <2>1. \A p \in Proc, w \in Way, d \in Guarded : ~Has(p, w, d)
    BY <1>1 DEF Has, HasCall, HasFlash, HasPool, InCall, Faulting, Keeps
  <2>2. \A d \in Guarded : sem[d].val = 1
    BY <1>2 DEF Guarded
  <2> QED
    BY <2>1, <2>2 DEF One
<1>7. Room /\ Aimed
  BY <1>1 DEF Room, Aimed, Faulting
<1> QED
  BY <1>3, <1>4, <1>5, <1>6, <1>7 DEF Base

\* The steps by their names in the code.
LEMMA CallStep ==
  ASSUME NEW p \in Proc, Call(p)
  PROVE  \/ Lock(p) \/ Validate(p) \/ CopyIn(p) \/ Seek(p) \/ SeekDone(p) \/ Transfer(p)
         \/ TransferDone(p) \/ CopyOut(p) \/ Unlock(p) \/ Trap(p)
BY DEF Call, disk_put, disk_get, flashOperation

LEMMA NukedStep ==
  ASSUME NEW p \in Proc, get_nuked(p)
  PROVE  \E l, m :
           /\ At(p, l) /\ Goto(p, m) /\ Further(l, m)
           /\ UNCHANGED <<call, page, frames, victim, buf, arm, job, store, v0>>
           /\ \/ sem' = sem
              \/ /\ l = "nukediskV" /\ m = "nukeflash" /\ sem' = verhogen(sem, <<"disk", p>>)
              \/ /\ l = "nukeflashV" /\ m = "dead" /\ sem' = verhogen(sem, Flash(p))
<1> USE DEF Release, Further, data, devices
<1>1. CASE Release(p, "nukedisk", <<"disk", p>>, "nukediskV", "nukeflash")
  <2>1. CASE At(p, "nukedisk")
    BY <1>1, <2>1 DEF At
  <2>2. CASE ~At(p, "nukedisk")
    BY <1>1, <2>2
  <2> QED
    BY <2>1, <2>2
<1>2. CASE Release(p, "nukeflash", Flash(p), "nukeflashV", "dead")
  <2>1. CASE At(p, "nukeflash")
    BY <1>2, <2>1 DEF At
  <2>2. CASE ~At(p, "nukeflash")
    BY <1>2, <2>2
  <2> QED
    BY <2>1, <2>2
<1> QED
  BY <1>1, <1>2 DEF get_nuked

\* The V on a flash device in the pager, and where it goes from there.
PagerV(p, l, s, m) ==
  /\ \/ /\ l = "out" /\ s = Flash(victim[p]) /\ m \in {"inlock", "nukedisk"}
        /\ victim' = [victim EXCEPT ![p] = None]
     \/ /\ l = "in" /\ s = Flash(p) /\ m \in {"install", "nukedisk"}
        /\ victim' = victim
  /\ At(p, l) /\ Goto(p, m) /\ sem' = verhogen(sem, s)
  /\ UNCHANGED <<call, page, frames, buf, arm, job, store, v0>>

LEMMA PagerStep ==
  ASSUME NEW p \in Proc, Pager(p)
  PROVE  \/ PickFrame(p) \/ Install(p)
         \/ P(p, "outlock", Flash(victim[p]), "out") \/ P(p, "inlock", Flash(p), "in")
         \/ \E l, s, m : PagerV(p, l, s, m)
<1>1. CASE WriteOut(p)
  BY <1>1 DEF WriteOut, Moves, PagerV, devices
<1>2. CASE ReadIn(p)
  BY <1>2 DEF ReadIn, Moves, PagerV, data, devices
<1> QED
  BY <1>1, <1>2 DEF Pager

LEMMA NextBase == ASSUME DeviceAssumption, Base, [Next]_vars PROVE Base' /\ Shrinks
<1>1. CASE UNCHANGED vars
  <2>1. Base'
    BY <1>1 DEF vars, Base, TypeOK, Asked, InOrder, Line, Asks, Waits, One, Has, HasCall,
                HasFlash, HasPool, Keeps, Guarded, Lost, Left, EndedProc, Room, Aimed
  <2>2. Shrinks
    BY <1>1 DEF vars, Shrinks, Guarded, Lost, Left, EndedProc
  <2> QED
    BY <2>1, <2>2
<1>2. ASSUME NEW p \in Proc, Call(p) PROVE Base' /\ Shrinks
  <2>1. CASE Trap(p)
    BY <2>1, EndingBase DEF Trap, data, devices
  <2> QED
    BY <1>2, <2>1, CallStep, LockBase, ValidateBase, CopyInBase, SeekBase, SeekDoneBase,
       TransferBase, TransferDoneBase, CopyOutBase, UnlockBase
<1>3. ASSUME NEW p \in Proc, Pager(p) PROVE Base' /\ Shrinks
  <2>1. CASE PickFrame(p) \/ Install(p)
    BY <2>1, PickFrameBase, InstallBase
  <2>2. CASE P(p, "outlock", Flash(victim[p]), "out") \/ P(p, "inlock", Flash(p), "in")
    BY <2>2, FlashPBase
  <2>3. CASE \E l, s, m : PagerV(p, l, s, m)
    BY <2>3, FlashVBase DEF PagerV
  <2> QED
    BY <1>3, <2>1, <2>2, <2>3, PagerStep
<1>4. ASSUME NEW p \in Proc, get_nuked(p) PROVE Base' /\ Shrinks
  <2>1. PICK l, m :
           /\ At(p, l) /\ Goto(p, m) /\ Further(l, m)
           /\ UNCHANGED <<call, page, frames, victim, buf, arm, job, store, v0>>
           /\ \/ sem' = sem
              \/ /\ l = "nukediskV" /\ m = "nukeflash" /\ sem' = verhogen(sem, <<"disk", p>>)
              \/ /\ l = "nukeflashV" /\ m = "dead" /\ sem' = verhogen(sem, Flash(p))
    BY <1>4, NukedStep
  <2>2. CASE sem' = sem
    BY <2>1, <2>2, EndingBase
  <2>3. CASE l = "nukediskV" /\ m = "nukeflash" /\ sem' = verhogen(sem, <<"disk", p>>)
    BY <2>1, <2>3, NukeVBase
  <2>4. CASE l = "nukeflashV" /\ m = "dead" /\ sem' = verhogen(sem, Flash(p))
    BY <2>1, <2>4, NukeVBase
  <2> QED
    BY <2>1, <2>2, <2>3, <2>4
<1>5. ASSUME NEW p \in Proc, Exit(p) PROVE Base' /\ Shrinks
  BY <1>5, EndingBase DEF Exit, data, devices
<1>6. ASSUME NEW p \in Proc, Fault(p) PROVE Base' /\ Shrinks
  BY <1>6, FaultBase
<1>7. ASSUME NEW p \in Proc, NEW r \in Calls, NEW v \in Val, Invoke(p, r, v)
      PROVE  Base' /\ Shrinks
  BY <1>7, InvokeBase
<1> QED
  BY <1>1, <1>2, <1>3, <1>4, <1>5, <1>6, <1>7 DEF Next

LEMMA BaseInvariant == ASSUME DeviceAssumption PROVE Spec => []Base
<1>1. Init => Base
  BY InitBase
<1>2. Base /\ [Next]_vars => Base'
  BY NextBase
<1> QED
  BY <1>1, <1>2, PTL DEF Spec

\* deviceSupportDMA.c: the types of the calls, of the pager they meet and of
\* get_nuked.
THEOREM TypesHold == DeviceAssumption => (Spec => []TypeOK)
<1> SUFFICES ASSUME DeviceAssumption PROVE Spec => []TypeOK
  OBVIOUS
<1>1. Base => TypeOK
  BY DEF Base
<1> QED
  BY <1>1, BaseInvariant, PTL

\* Who uses a mutex has it.
LEMMA UsesHas ==
  ASSUME DeviceAssumption, Base, NEW p \in Proc, NEW d \in Locks, Uses(p, d)
  PROVE  \E w \in Way : Has(p, w, d)
<1>1. \A s \in Locks : ~Blocked(sem, p) => ~Waits(p, s)
  BY SemTypes DEF Base, Blocked, Waits
<1>2. CASE /\ call[p] # NoCall /\ call[p].dev = d
           /\ (pc[p] \in InCall /\ ~Blocked(sem, p)) \/ pc[p] \in Faulting \/ Keeps(p, d)
  <2>1. Has(p, "call", d)
    BY <1>1, <1>2 DEF Has, HasCall
  <2> QED
    BY <2>1 DEF Way
<1>3. CASE /\ pc[p] \in {"out", "in"} /\ ~Blocked(sem, p)
           /\ d = Flash(IF pc[p] = "out" THEN victim[p] ELSE p)
  <2>1. Has(p, "flash", d)
    BY <1>1, <1>3 DEF Has, HasFlash, Asks
  <2> QED
    BY <2>1 DEF Way
<1>4. CASE pc[p] \in Faulting /\ ~Blocked(sem, p) /\ d = SwapPool
  <2>1. Has(p, "pool", d)
    BY <1>1, <1>4 DEF Has, HasPool
  <2> QED
    BY <2>1 DEF Way
<1> QED
  BY <1>2, <1>3, <1>4 DEF Uses

\* sysSupport.c, get_nuked: one process at a time is in a call on a device, fills its
\* buffer or changes the swap pool, and one that ended there keeps the others out,
\* whoever ends where, but on the devices that are lost.
THEOREM ExclusiveOnDeathHolds == DeviceAssumption => (Spec => []ExclusiveOnDeath)
<1> SUFFICES ASSUME DeviceAssumption PROVE Spec => []ExclusiveOnDeath
  OBVIOUS
<1>1. Base => ExclusiveOnDeath
  <2> SUFFICES ASSUME Base, NEW d \in Guarded, NEW p \in Proc, NEW q \in Proc,
                      Uses(p, d), Uses(q, d)
               PROVE  p = q
    BY DEF ExclusiveOnDeath, Alone
  <2>1. d \in Locks
    BY Names
  <2>2. \E w, x \in Way : Has(p, w, d) /\ Has(q, x, d)
    BY <2>1, UsesHas
  <2> QED
    BY <2>2 DEF Base, One
<1> QED
  BY <1>1, BaseInvariant, PTL

-----------------------------------------------------------------------------
(* What a call has prepared is as it left it                               *)

Working(p) ==
  call[p].dev \in Guarded =>
    /\ pc[p] \in {"seeking", "moving"} =>
         job[call[p].dev] = [place |-> Position(call[p].dev, call[p].blk), op |-> call[p].op]
    /\ pc[p] \in {"transfer", "moving"} /\ IsDisk(call[p].dev) =>
         arm[call[p].dev] = Position(call[p].dev, call[p].blk)[1]
    /\ pc[p] \in {"seek", "seeking", "transfer", "moving"} /\ call[p].op = "put" =>
         buf[call[p].dev] = page[p]
Work == \A p \in Proc : Working(p)

\* A process that has prepared something has the device.
LEMMA Prepared ==
  ASSUME DeviceAssumption, Base, NEW p \in Proc,
         \/ pc[p] \in {"seeking", "transfer", "moving", "copyout", "unlock"}
         \/ pc[p] = "seek" /\ call[p].op = "put"
         \/ pc[p] \in Faulting /\ call[p] # NoCall
  PROVE  call[p] # NoCall /\ call[p].dev \in Device /\ HasCall(p, call[p].dev)
<1>1. TypeOK /\ InOrder(p) /\ Line
  BY DEF Base, Asked
<1>2. call[p] # NoCall
  BY <1>1 DEF InOrder, InCall
<1>3. call[p].dev \in Device /\ call[p].dev \in Locks /\ call[p].op \in {"put", "get"}
  BY <1>1, <1>2, CallTypes, Names
<1>4. CASE pc[p] \in Faulting
  BY <1>2, <1>3, <1>4 DEF HasCall
<1>5. CASE pc[p] \notin Faulting
  <2>1. pc[p] # FirstStep(call[p])
    BY <1>5 DEF FirstStep
  <2>2. ~Asks(p, call[p].dev)
    BY <1>5, <2>1 DEF Asks, Faulting
  <2>3. ~Waits(p, call[p].dev)
    BY <1>1, <1>3, <2>2 DEF Line
  <2> QED
    BY <1>2, <1>3, <1>5, <2>3 DEF HasCall, InCall
<1> QED
  BY <1>4, <1>5

\* Nobody else has it.
LEMMA AloneThere ==
  ASSUME Base, NEW d \in Device, d \in Guarded,
         NEW p \in Proc, HasCall(p, d), NEW q \in Proc, HasCall(q, d)
  PROVE  p = q
<1>1. "call" \in Way /\ Has(p, "call", d) /\ Has(q, "call", d)
  BY DEF Way, Has
<1> QED
  BY <1>1 DEF Base, One

\* A step of p that commands its own device only.
LEMMA WorkStep ==
  ASSUME DeviceAssumption, Base, Work, Shrinks,
         NEW p \in Proc, NEW d \in Device, HasCall(p, d),
         \A q \in Proc \ {p} : pc'[q] = pc[q] /\ call'[q] = call[q] /\ page'[q] = page[q],
         \A c \in Device \ {d} : job'[c] = job[c] /\ arm'[c] = arm[c] /\ buf'[c] = buf[c],
         Working(p)'
  PROVE  Work'
<1> SUFFICES ASSUME NEW q \in Proc, q # p, call[q].dev \in Guarded PROVE Working(q)'
  BY DEF Work, Working, Shrinks
<1>1. CASE \/ pc[q] \in {"seeking", "transfer", "moving"}
           \/ pc[q] = "seek" /\ call[q].op = "put"
  <2>1. call[q].dev \in Device \ {d}
    BY <1>1, Prepared, AloneThere
  <2> QED
    BY <2>1 DEF Work, Working
<1>2. CASE ~(\/ pc[q] \in {"seeking", "transfer", "moving"}
             \/ pc[q] = "seek" /\ call[q].op = "put")
  BY <1>2 DEF Work, Working
<1> QED
  BY <1>1, <1>2

\* A step that commands none.
LEMMA WorkKept ==
  ASSUME Work, Shrinks, NEW p \in Proc,
         \A q \in Proc \ {p} : pc'[q] = pc[q] /\ call'[q] = call[q] /\ page'[q] = page[q],
         job' = job, arm' = arm, buf' = buf, Working(p)'
  PROVE  Work'
BY DEF Work, Working, Shrinks

\* Who is elsewhere has prepared nothing.
LEMMA WorkElsewhere ==
  ASSUME TypeOK, Work, Shrinks, NEW p \in Proc, NEW l, NEW m, At(p, l), Goto(p, m),
         \A q \in Proc \ {p} : call'[q] = call[q],
         job' = job, arm' = arm, buf' = buf, \A q \in Proc \ {p} : page'[q] = page[q],
         m \notin {"seek", "seeking", "transfer", "moving"}
  PROVE  Work'
<1>1. pc'[p] = m /\ \A q \in Proc \ {p} : pc'[q] = pc[q]
  BY Goes
<1>2. Working(p)'
  BY <1>1 DEF Working
<1> QED
  BY <1>1, <1>2, WorkKept

LEMMA CallWork ==
  ASSUME DeviceAssumption, Base, Work, Shrinks, NEW p \in Proc, Call(p)
  PROVE  Work'
<1>1. TypeOK /\ InOrder(p) /\ Working(p) /\ Aimed
  BY DEF Base, Asked, Work
<1> PICK d, b : d = call[p].dev /\ b = call[p].blk
  OBVIOUS
<1>2. CASE Lock(p)
  <2> PICK m : m = FirstStep(call[p])
    OBVIOUS
  <2>1. /\ At(p, "lock") /\ Goto(p, m)
        /\ UNCHANGED <<call, page, job, arm, buf>>
    BY <1>2 DEF Lock, P, data, devices
  <2>2. pc'[p] = m /\ \A q \in Proc \ {p} : pc'[q] = pc[q]
    BY <1>1, <2>1, Goes
  <2>3. Working(p)'
    BY <2>1, <2>2 DEF Working, FirstStep
  <2> QED
    BY <2>1, <2>2, <2>3, WorkKept
<1>3. CASE Validate(p)
  <2>1. PICK m \in {"nukedisk", "copyin", "transfer"} :
        /\ At(p, "validate") /\ Goto(p, m)
        /\ m = "transfer" => call[p].op # "put"
        /\ UNCHANGED <<call, page, job, arm, buf>>
    BY <1>3 DEF Validate, data, devices
  <2>2. pc[p] = "validate" /\ pc'[p] = m /\ \A q \in Proc \ {p} : pc'[q] = pc[q]
    BY <1>1, <2>1, Goes
  <2>3. Working(p)'
    BY <1>1, <2>1, <2>2 DEF Working, InOrder
  <2> QED
    BY <2>1, <2>2, <2>3, WorkKept
<1>4. CASE CopyIn(p)
  <2>1. PICK m \in {"seek", "transfer"} :
        /\ At(p, "copyin") /\ Goto(p, m)
        /\ m = "transfer" => ~IsDisk(d)
        /\ buf' = [buf EXCEPT ![d] = page[p]]
        /\ UNCHANGED <<call, page, job, arm>>
    BY <1>4 DEF CopyIn, data
  <2>2. pc[p] = "copyin" /\ pc'[p] = m /\ Runs(p) /\ \A q \in Proc \ {p} : pc'[q] = pc[q]
    BY <1>1, <2>1, Goes
  <2>3. call[p] # NoCall /\ d \in Device /\ d \in Locks
    BY <1>1, <2>2, CallTypes, Names DEF InOrder, InCall
  <2>4. HasCall(p, d)
    BY <2>2, <2>3 DEF HasCall, InCall, Runs
  <2>5. buf'[d] = page[p] /\ \A c \in Device \ {d} : buf'[c] = buf[c]
    BY <1>1, <2>1, <2>3 DEF TypeOK
  <2>6. Working(p)'
    BY <2>1, <2>2, <2>5 DEF Working
  <2> QED
    BY <2>1, <2>2, <2>3, <2>4, <2>5, <2>6, WorkStep
<1>5. CASE Seek(p) \/ Transfer(p)
  <2>1. PICK l, m : /\ (l = "seek" /\ m = "seeking") \/ (l = "transfer" /\ m = "moving")
                    /\ At(p, l) /\ Goto(p, m)
                    /\ job' = [job EXCEPT ![d] = [place |-> Position(d, b), op |-> call[p].op]]
                    /\ UNCHANGED <<call, page, arm, buf>>
    BY <1>5 DEF Seek, Transfer, data
  <2>2. pc[p] = l /\ pc'[p] = m /\ Runs(p) /\ \A q \in Proc \ {p} : pc'[q] = pc[q]
    BY <1>1, <2>1, Goes
  <2>3. call[p] # NoCall /\ d \in Device /\ d \in Locks
    BY <1>1, <2>1, <2>2, CallTypes, Names DEF InOrder, InCall
  <2>4. HasCall(p, d)
    BY <2>1, <2>2, <2>3 DEF HasCall, InCall, Runs
  <2>5. /\ job'[d] = [place |-> Position(d, b), op |-> call[p].op]
        /\ \A c \in Device \ {d} : job'[c] = job[c]
    BY <1>1, <2>1, <2>3 DEF TypeOK
  <2>6. Working(p)'
    BY <1>1, <2>1, <2>2, <2>5 DEF Working, Shrinks
  <2> QED
    BY <2>1, <2>2, <2>3, <2>4, <2>5, <2>6, WorkStep
<1>6. CASE SeekDone(p)
  <2>1. PICK m \in {"transfer", "unlock"} :
        /\ At(p, "seeking") /\ Goto(p, m) /\ job' = [job EXCEPT ![d] = None]
        /\ UNCHANGED <<call, page, buf>>
        /\ \/ m = "transfer" /\ arm' = [arm EXCEPT ![d] = job[d].place[1]]
           \/ m = "unlock" /\ arm' = arm
    BY <1>6 DEF SeekDone, data
  <2>2. pc[p] = "seeking" /\ pc'[p] = m /\ \A q \in Proc \ {p} : pc'[q] = pc[q]
    BY <1>1, <2>1, Goes
  <2>3. d \in Device /\ HasCall(p, d)
    BY <2>2, Prepared
  <2>4. d \in Guarded => job[d].place[1] = Position(d, b)[1]
    BY <1>1, <2>2 DEF Working
  <2>5. /\ \A c \in Device \ {d} : job'[c] = job[c] /\ arm'[c] = arm[c]
        /\ m = "transfer" /\ d \in Guarded => arm'[d] = Position(d, b)[1]
    BY <1>1, <2>1, <2>3, <2>4 DEF TypeOK
  <2>6. Working(p)'
    BY <1>1, <2>1, <2>2, <2>5 DEF Working, Shrinks
  <2> QED
    BY <2>1, <2>2, <2>3, <2>5, <2>6, WorkStep
<1>7. CASE TransferDone(p)
  <2>1. PICK m \in {"copyout", "unlock"} :
        /\ At(p, "moving") /\ Goto(p, m) /\ job' = [job EXCEPT ![d] = None]
        /\ UNCHANGED <<call, page, arm>>
        /\ buf' = buf \/ \E x : buf' = [buf EXCEPT ![d] = x]
    BY <1>7 DEF TransferDone, Moved, data
  <2>2. pc[p] = "moving" /\ pc'[p] = m /\ \A q \in Proc \ {p} : pc'[q] = pc[q]
    BY <1>1, <2>1, Goes
  <2>3. d \in Device /\ HasCall(p, d)
    BY <2>2, Prepared
  <2>4. \A c \in Device \ {d} : job'[c] = job[c] /\ buf'[c] = buf[c]
    BY <1>1, <2>1, <2>3 DEF TypeOK
  <2>5. Working(p)'
    BY <1>1, <2>1, <2>2 DEF Working
  <2> QED
    BY <2>1, <2>2, <2>3, <2>4, <2>5, WorkStep
<1>8. CASE CopyOut(p)
  <2>1. /\ At(p, "copyout") /\ Goto(p, "unlock") /\ UNCHANGED <<call, job, arm, buf>>
        /\ \A q \in Proc \ {p} : page'[q] = page[q]
    BY <1>1, <1>8 DEF CopyOut, devices, TypeOK
  <2> QED
    BY <1>1, <2>1, WorkElsewhere
<1>9. CASE Unlock(p)
  <2>1. /\ At(p, "unlock") /\ Goto(p, "user") /\ UNCHANGED <<page, job, arm, buf>>
        /\ \A q \in Proc \ {p} : call'[q] = call[q]
    BY <1>1, <1>9 DEF Unlock, data, devices, TypeOK
  <2> QED
    BY <1>1, <2>1, WorkElsewhere
<1>10. CASE Trap(p)
  <2>1. At(p, pc[p]) /\ Goto(p, "nukedisk") /\ UNCHANGED <<call, page, job, arm, buf>>
    BY <1>10 DEF Trap, At, data, devices
  <2> QED
    BY <1>1, <2>1, WorkElsewhere
<1> QED
  BY <1>2, <1>3, <1>4, <1>5, <1>6, <1>7, <1>8, <1>9, <1>10, CallStep

LEMMA NextWork ==
  ASSUME DeviceAssumption, Base, Work, [Next]_vars
  PROVE  Work'
<1>1. TypeOK /\ Shrinks
  BY NextBase DEF Base
<1>2. CASE UNCHANGED vars
  BY <1>1, <1>2 DEF vars, Work, Working, Shrinks
<1>3. ASSUME NEW p \in Proc, Pager(p) PROVE Work'
  <2>1. CASE Install(p)
    <3> PICK m : m = IF call[p] = NoCall THEN "user"
                     ELSE IF call[p].op = "put" THEN "copyin" ELSE "copyout"
      OBVIOUS
    <3>1. /\ At(p, "install") /\ Goto(p, m) /\ UNCHANGED <<call, page, job, arm, buf>>
      BY <2>1 DEF Install, devices
    <3> QED
      BY <1>1, <3>1, WorkElsewhere
  <2>2. CASE ~Install(p)
    <3>1. \E l, m : /\ At(p, l) /\ Goto(p, m) /\ m \in Faulting \cup {"nukedisk"}
                    /\ UNCHANGED <<call, page, job, arm, buf>>
      BY <1>3, <2>2 DEF Pager, PickFrame, WriteOut, ReadIn, Moves, P, Faulting, data, devices
    <3> QED
      BY <1>1, <3>1, WorkElsewhere DEF Faulting
  <2> QED
    BY <2>1, <2>2
<1>4. ASSUME NEW p \in Proc, get_nuked(p) PROVE Work'
  <2>1. PICK l, m : At(p, l) /\ Goto(p, m) /\ Further(l, m)
                    /\ UNCHANGED <<call, page, job, arm, buf>>
    BY <1>4, NukedStep
  <2> QED
    BY <1>1, <2>1, WorkElsewhere DEF Further
<1>5. ASSUME NEW p \in Proc, Exit(p) \/ Fault(p) PROVE Work'
  <2>1. \E l, m : /\ At(p, l) /\ Goto(p, m) /\ m \in {"nukedisk", "pick"}
                  /\ UNCHANGED <<call, page, job, arm, buf>>
    BY <1>5 DEF Exit, Fault, data, devices
  <2> QED
    BY <1>1, <2>1, WorkElsewhere
<1>6. ASSUME NEW p \in Proc, NEW r \in Calls, NEW v \in Val, Invoke(p, r, v) PROVE Work'
  <2>1. \E m \in {"lock", "nukedisk"} :
          /\ At(p, "user") /\ Goto(p, m) /\ UNCHANGED <<job, arm, buf>>
          /\ \A q \in Proc \ {p} : call'[q] = call[q] /\ page'[q] = page[q]
    BY <1>1, <1>6 DEF Invoke, devices, TypeOK
  <2> QED
    BY <1>1, <2>1, WorkElsewhere
<1>7. ASSUME NEW p \in Proc, Call(p) PROVE Work'
  BY <1>1, <1>7, CallWork
<1> QED
  BY <1>2, <1>3, <1>4, <1>5, <1>6, <1>7 DEF Next

\* disk_put, disk_get: a READ or WRITE finds the arm where its own SEEK has put it,
\* with other processes, the pager and ends in between, but on a device that is lost.
THEOREM AtSeek == DeviceAssumption => (Spec => []TransferAtSeek)
<1> SUFFICES ASSUME DeviceAssumption PROVE Spec => []TransferAtSeek
  OBVIOUS
<1>1. Init => Base /\ Work
  BY InitBase DEF Init, Work, Working
<1>2. Base /\ Work /\ [Next]_vars => (Base /\ Work)'
  BY NextBase, NextWork
<1>3. Base /\ Work => TransferAtSeek
  BY DEF Work, Working, TransferAtSeek
<1> QED
  BY <1>1, <1>2, <1>3, PTL DEF Spec

\* sysSupport.c, deviceSupportDMA.c: both hold together, whoever ends where, on the
\* devices that are not lost.
THEOREM DevicesSafe == DeviceAssumption => (Spec => []DeviceSafe)
<1> SUFFICES ASSUME DeviceAssumption PROVE Spec => []DeviceSafe
  OBVIOUS
<1>1. TypeOK /\ ExclusiveOnDeath /\ TransferAtSeek => DeviceSafe
  BY DEF DeviceSafe
<1> QED
  BY <1>1, TypesHold, ExclusiveOnDeathHolds, AtSeek, PTL

-----------------------------------------------------------------------------
(* The calls are atomic reads and writes of blocks                         *)

\* What a request asks for.
LEMMA AskedFacts ==
  ASSUME DeviceAssumption, TypeOK, NEW p \in Proc
  PROVE  /\ call[p] = NoCall \/ pc[p] \in Ended => AskedBy(p) = None /\ ResultOf(p) = None
         /\ call[p] # NoCall /\ pc[p] \notin Ended =>
              /\ AskedBy(p) \in Store!Requests /\ AskedBy(p) # None
              /\ AskedBy(p).op = call[p].op /\ AskedBy(p).dev = call[p].dev
              /\ AskedBy(p).blk = call[p].blk
              /\ call[p].op = "put" => AskedBy(p).data = page[p]
<1>1. call[p] = NoCall \/ pc[p] \in Ended => AskedBy(p) = None /\ ResultOf(p) = None
  BY DEF AskedBy, ResultOf
<1>2. ASSUME call[p] # NoCall, pc[p] \notin Ended, call[p].op = "get"
      PROVE  AskedBy(p) = call[p] /\ call[p] \in [op : {"get"}, dev : Device, blk : Block]
  <2>1. call[p] \in [op : Request, dev : Device, blk : Block]
    BY <1>2, CallTypes
  <2> QED
    BY <1>2, <2>1 DEF AskedBy
<1>3. ASSUME call[p] # NoCall, pc[p] \notin Ended, call[p].op # "get"
      PROVE  /\ AskedBy(p) \in [op : {"put"}, dev : Device, blk : Block, data : Val]
             /\ call[p].op = "put" /\ AskedBy(p).op = "put"
             /\ AskedBy(p).dev = call[p].dev /\ AskedBy(p).blk = call[p].blk
             /\ AskedBy(p).data = page[p]
  <2>1. call[p].dev \in Device /\ call[p].blk \in Block /\ call[p].op = "put"
    BY <1>3, CallTypes
  <2>2. page[p] \in Val
    BY DEF TypeOK
  <2>3. AskedBy(p) = [op |-> "put", dev |-> call[p].dev, blk |-> call[p].blk, data |-> page[p]]
    BY <1>3 DEF AskedBy
  <2> QED
    BY <2>1, <2>2, <2>3
<1>4. \A r : r \in [op : {"get"}, dev : Device, blk : Block]
                  \cup [op : {"put"}, dev : Device, blk : Block, data : Val] =>
               r \in Store!Requests /\ r # None
  BY DEF Store!Requests, DeviceAssumption
<1> QED
  BY <1>1, <1>2, <1>3, <1>4

\* A request without an answer.
LEMMA NoResult ==
  ASSUME DeviceAssumption, NEW p \in Proc, v0[p] = None,
         call[p].op = "put" \/ pc[p] \notin {"copyout"} \cup Faulting
  PROVE  ResultOf(p) = None
BY DEF DeviceAssumption, ResultOf

\* The others see nothing of a step of p.
Unseen(p) ==
  \A q \in Proc \ {p} : AskedBy(q)' = AskedBy(q) /\ ResultOf(q)' = ResultOf(q)

LEMMA UnseenStep ==
  ASSUME DeviceAssumption, Base, NEW p \in Proc,
         \A q \in Proc \ {p} :
           pc'[q] = pc[q] /\ call'[q] = call[q] /\ page'[q] = page[q] /\ v0'[q] = v0[q],
         \/ buf' = buf
         \/ \E d \in Device :
              d \in Guarded /\ HasCall(p, d) /\ \A c \in Device \ {d} : buf'[c] = buf[c]
  PROVE  Unseen(p)
<1> SUFFICES ASSUME NEW q \in Proc, q # p
             PROVE  AskedBy(q)' = AskedBy(q) /\ ResultOf(q)' = ResultOf(q)
  BY DEF Unseen
<1>1. AskedBy(q)' = AskedBy(q)
  BY DEF AskedBy
<1>2. CASE call[q] # NoCall /\ pc[q] \in {"copyout"} \cup Faulting
  <2>1. call[q].dev \in Device /\ HasCall(q, call[q].dev)
    BY <1>2, Prepared
  <2>2. buf'[call[q].dev] = buf[call[q].dev]
    BY <2>1, AloneThere
  <2>3. ResultOf(q)' = ResultOf(q)
    BY <2>2 DEF ResultOf
  <2> QED
    BY <1>1, <2>3
<1>3. CASE ~(call[q] # NoCall /\ pc[q] \in {"copyout"} \cup Faulting)
  <2>1. ResultOf(q)' = ResultOf(q)
    BY <1>3 DEF ResultOf
  <2> QED
    BY <1>1, <2>1
<1> QED
  BY <1>2, <1>3

LEMMA UnseenFacts ==
  ASSUME NEW p \in Proc, Unseen(p)
  PROVE  /\ request' = [request EXCEPT ![p] = AskedBy(p)']
         /\ result' = [result EXCEPT ![p] = ResultOf(p)']
         /\ request[p] = AskedBy(p) /\ result[p] = ResultOf(p)
         /\ AskedBy(p)' = AskedBy(p) => request' = request
         /\ ResultOf(p)' = ResultOf(p) => result' = result
BY DEF Unseen, request, result

LEMMA BlocksKept == ASSUME store' = store PROVE blocks' = blocks
BY DEF blocks

LEMMA StoreInit == ASSUME DeviceAssumption, Init PROVE Store!Init
<1>1. blocks \in [Exists -> Val]
  <2> SUFFICES ASSUME NEW x \in Exists PROVE store[<<x[1], Position(x[1], x[2])>>] \in Val
    BY DEF blocks
  <2>1. x[1] \in Device /\ Position(x[1], x[2]) \in Places(x[1])
    BY DEF Exists
  <2>2. <<x[1], Position(x[1], x[2])>> \in Place
    BY <2>1, PlaceOf
  <2> QED
    BY <2>2 DEF Init
<1>2. \A p \in Proc : AskedBy(p) = None /\ ResultOf(p) = None
  BY DEF Init, AskedBy, ResultOf
<1>3. EndedProc = {} /\ Lost = {}
  BY DEF Init, EndedProc, Ended, Lost
<1> QED
  BY <1>1, <1>2, <1>3 DEF Store!Init, request, result

\* Nobody ends.
Lasting == EndedProc' = EndedProc /\ Lost' = Lost

LEMMA LastingStep ==
  ASSUME NEW p \in Proc, \A q \in Proc \ {p} : pc'[q] = pc[q] /\ call'[q] = call[q],
         \/ pc[p] \notin Ended /\ pc'[p] \notin Ended
         \/ pc[p] \in Ended /\ pc'[p] \in Ended /\ call'[p] = call[p]
  PROVE  Lasting
<1>1. EndedProc' = EndedProc
  BY DEF EndedProc
<1>2. \A q \in EndedProc : Left(q)' = Left(q)
  BY DEF EndedProc, Left
<1> QED
  BY <1>1, <1>2 DEF Lasting, Lost

\* A step that neither asks nor answers.
LEMMA Stutter ==
  ASSUME NEW p \in Proc, Unseen(p), Lasting, store' = store,
         AskedBy(p)' = AskedBy(p), ResultOf(p)' = ResultOf(p)
  PROVE  StoreStep
BY UnseenFacts, BlocksKept DEF StoreStep, Lasting

\* An error.
LEMMA FailStep ==
  ASSUME NEW p \in Proc, Unseen(p), Lasting, store' = store,
         AskedBy(p) # None, ResultOf(p) = None,
         AskedBy(p)' = AskedBy(p), ResultOf(p)' = "error"
  PROVE  StoreStep
<1>1. Store!Fail(p)
  BY UnseenFacts, BlocksKept DEF Store!Fail, Lasting
<1> QED
  BY <1>1 DEF StoreStep, Store!Next

\* The end of a process, in the middle of its call or not.
LEMMA EndStep ==
  ASSUME DeviceAssumption, Base, NEW p \in Proc, pc[p] \notin Ended, pc'[p] \in Ended,
         call' = call, store' = store, buf' = buf,
         \A q \in Proc \ {p} : pc'[q] = pc[q] /\ page'[q] = page[q] /\ v0'[q] = v0[q]
  PROVE  StoreStep
<1>1. Unseen(p) /\ TypeOK
  BY UnseenStep DEF Base
<1>2. AskedBy(p)' = None /\ ResultOf(p)' = None
  BY DEF AskedBy, ResultOf
<1>3. p \notin EndedProc /\ EndedProc' = EndedProc \cup {p}
  BY DEF EndedProc
<1>4. \A q \in EndedProc : Left(q)' = Left(q)
  BY DEF Left
<1>5. Left(p)' = Own[p] \ (IF AskedBy(p) = None THEN {} ELSE {AskedBy(p).dev})
  <2>1. CASE call[p] = NoCall
    BY <1>1, <2>1, AskedFacts DEF Left
  <2>2. CASE call[p] # NoCall
    BY <1>1, <2>2, AskedFacts DEF Left
  <2> QED
    BY <2>1, <2>2
<1>6. Lost' = Lost \cup Left(p)'
  BY <1>3, <1>4 DEF Lost
<1>7. Store!End(p)
  BY <1>1, <1>2, <1>3, <1>5, <1>6, UnseenFacts, BlocksKept DEF Store!End
<1> QED
  BY <1>7 DEF StoreStep, Store!Next

\* What the blocks of the store are after a step.
LEMMA BlocksType == ASSUME TypeOK' PROVE blocks' \in [Exists -> Val]
<1> SUFFICES ASSUME NEW x \in Exists PROVE store'[<<x[1], Position(x[1], x[2])>>] \in Val
  BY DEF blocks
<1>1. x[1] \in Device /\ Position(x[1], x[2]) \in Places(x[1])
  BY DEF Exists
<1>2. <<x[1], Position(x[1], x[2])>> \in Place
  BY <1>1, PlaceOf
<1> QED
  BY <1>2 DEF TypeOK

\* A step of a call on a device that is lost.
LEMMA ClashStep ==
  ASSUME DeviceAssumption, TypeOK, TypeOK', NEW p \in Proc, NEW d \in Device,
         d \notin Guarded, call[p] # NoCall, call[p].dev = d,
         pc[p] \notin Ended, pc'[p] \notin Ended, call' = call, page' = page,
         \A q \in Proc \ {p} : pc'[q] = pc[q] /\ v0'[q] = v0[q],
         \A c \in Device \ {d} : buf'[c] = buf[c],
         \A c \in Device \ {d} : \A x \in Places(c) : store'[<<c, x>>] = store[<<c, x>>]
  PROVE  StoreStep
<1>1. Lasting
  BY LastingStep
<1>2. d \in Lost
  BY Names DEF Guarded
<1>3. ASSUME NEW x \in Exists, x[1] \notin Lost PROVE blocks'[x] = blocks[x]
  <2>1. x[1] \in Device \ {d} /\ Position(x[1], x[2]) \in Places(x[1])
    BY <1>2, <1>3 DEF Exists
  <2> QED
    BY <2>1 DEF blocks
<1>4. ASSUME NEW q \in Proc
      PROVE  \/ AskedBy(q)' = AskedBy(q) /\ ResultOf(q)' = ResultOf(q)
             \/ AskedBy(q) # None /\ AskedBy(q).dev = d /\ AskedBy(q)' = AskedBy(q)
  <2>1. AskedBy(q)' = AskedBy(q)
    <3>1. pc'[q] \in Ended <=> pc[q] \in Ended
      OBVIOUS
    <3> QED
      BY <3>1 DEF AskedBy
  <2>2. CASE call[q] # NoCall /\ pc[q] \notin Ended /\ call[q].dev = d
    BY <2>1, <2>2, AskedFacts
  <2>3. CASE call[q] = NoCall \/ pc[q] \in Ended
    <3>1. AskedBy(q)' = AskedBy(q) /\ ResultOf(q) = None /\ ResultOf(q)' = None
      BY <2>1, <2>3 DEF ResultOf
    <3> QED
      BY <3>1
  <2>4. CASE call[q] # NoCall /\ pc[q] \notin Ended /\ call[q].dev # d
    <3>1. q # p /\ call[q].dev \in Device \ {d}
      BY <2>4, CallTypes
    <3>2. ResultOf(q)' = ResultOf(q)
      BY <3>1 DEF ResultOf
    <3> QED
      BY <2>1, <3>2
  <2> QED
    BY <2>2, <2>3, <2>4
<1>5. blocks' \in [Exists -> Val]
  BY BlocksType
<1>6. Store!Clash
  BY <1>1, <1>2, <1>3, <1>4, <1>5 DEF Store!Clash, Lasting, request, result
<1> QED
  BY <1>6 DEF StoreStep, Store!Next

\* A step that writes a block, on the device and as the store has it.
Writes(d, b, v) == store' = [store EXCEPT ![<<d, Position(d, b)>>] = v]
Puts(d, b, v) == blocks' = [blocks EXCEPT ![<<d, b>>] = v]

\* A block that is written changes, and no other.
LEMMA PutBlocks ==
  ASSUME DeviceAssumption, TypeOK, NEW d \in Device, NEW b \in Block, NEW v,
         Position(d, b) \in Places(d), Writes(d, b, v)
  PROVE  /\ <<d, b>> \in Exists
         /\ Puts(d, b, v)
         /\ blocks[<<d, b>>] = store[<<d, Position(d, b)>>]
<1>1. <<d, b>> \in Exists
  BY DEF Exists
<1>2. ASSUME NEW y \in Exists
      PROVE  store'[<<y[1], Position(y[1], y[2])>>] =
               IF y = <<d, b>> THEN v ELSE store[<<y[1], Position(y[1], y[2])>>]
  <2>1. /\ y = <<y[1], y[2]>> /\ y[1] \in Device /\ y[2] \in Block
        /\ Position(y[1], y[2]) \in Places(y[1])
    BY DEF Exists
  <2>2. <<y[1], Position(y[1], y[2])>> \in Place
    BY <2>1, PlaceOf
  <2>3. y[2] \in Int /\ b \in Int
    BY <2>1, Constants
  <2>4. y[1] = d /\ Position(y[1], y[2]) = Position(d, b) => y[2] = b
    BY <2>3, PositionOnce
  <2>5. PICK z, c : z = <<y[1], Position(y[1], y[2])>> /\ c = <<d, Position(d, b)>>
    OBVIOUS
  <2>6. z = c <=> y = <<d, b>>
    BY <2>1, <2>4, <2>5
  <2>7. store' = [store EXCEPT ![c] = v] /\ z \in Place /\ store \in [Place -> Val]
    BY <2>2, <2>5 DEF TypeOK, Writes
  <2>8. store'[z] = IF z = c THEN v ELSE store[z]
    BY <2>7
  <2> QED
    BY <2>5, <2>6, <2>8
<1>3. blocks' = [y \in Exists |-> IF y = <<d, b>> THEN v ELSE blocks[y]]
  BY <1>2 DEF blocks
<1> QED
  BY <1>1, <1>3 DEF blocks, Puts

\* The place a transfer reads or writes: on a disk, where the arm is.
Under(d) == IF IsDisk(d) THEN [job[d].place EXCEPT ![1] = arm[d]] ELSE job[d].place

\* A transfer is about the block the call names.
LEMMA Moving ==
  ASSUME DeviceAssumption, Base, Work, NEW p \in Proc, pc[p] = "moving",
         NEW d \in Guarded, d = call[p].dev, NEW b, b = call[p].blk
  PROVE  /\ d \in Device /\ b \in Block
         /\ Position(d, b) \in Places(d) /\ job[d].op = call[p].op
         /\ Under(d) = Position(d, b)
         /\ call[p].op = "put" => buf[d] = page[p]
<1>1. TypeOK /\ InOrder(p) /\ Working(p)
  BY DEF Base, Asked, Work
<1>2. call[p] # NoCall /\ d \in Device /\ b \in Block /\ b \in Int
  BY <1>1, CallTypes DEF InOrder, InCall
<1>3. IF IsDisk(d) THEN b \in 0..Capacity ELSE b \in 0..MaxBlock-1
  BY <1>1, <1>2 DEF InOrder, Ended
<1>4. /\ job[d].place = Position(d, b) /\ job[d].op = call[p].op
      /\ call[p].op = "put" => buf[d] = page[p]
      /\ IsDisk(d) => arm[d] = Position(d, b)[1]
  BY <1>1 DEF Working
<1>5. arm[d] \in 0..MaxCyl-1 /\ MaxCyl \in Nat
  BY <1>1, <1>2, Constants DEF TypeOK
<1>6. ~IsDisk(d) \/ Position(d, b)[1] < MaxCyl
  BY <1>4, <1>5
<1>7. Position(d, b) \in Aims(d) /\ Position(d, b) \in Places(d)
  BY <1>2, <1>3, <1>6, PositionAims
<1>8. IsDisk(d) => [Position(d, b) EXCEPT ![1] = arm[d]] = Position(d, b)
  BY <1>2, <1>4, <1>5, <1>7, AimsPlace
<1>9. Under(d) = Position(d, b)
  BY <1>4, <1>8 DEF Under
<1> QED
  BY <1>2, <1>4, <1>7, <1>9

LEMMA InvokeStore ==
  ASSUME DeviceAssumption, Base, NEW p \in Proc, NEW r \in Calls, NEW v \in Val,
         Invoke(p, r, v)
  PROVE  StoreStep
<1>1. TypeOK /\ InOrder(p)
  BY DEF Base, Asked
<1>2. /\ At(p, "user") /\ buf' = buf /\ store' = store /\ v0' = v0
      /\ page' = [page EXCEPT ![p] = v]
      /\ \/ Goto(p, "nukedisk") /\ call' = call
         \/ Goto(p, "lock") /\ call' = [call EXCEPT ![p] = r]
  BY DEF Invoke, devices
<1> PICK m \in {"lock", "nukedisk"} :
      /\ Goto(p, m) /\ (m = "nukedisk" => call' = call)
      /\ m = "lock" => call' = [call EXCEPT ![p] = r]
  BY <1>2
<1>3. pc[p] = "user" /\ pc'[p] = m /\ \A q \in Proc \ {p} : pc'[q] = pc[q]
  BY <1>1, <1>2, Goes
<1>20. CASE m = "nukedisk"
  <2>1. \A q \in Proc \ {p} : page'[q] = page[q]
    BY <1>1, <1>2 DEF TypeOK
  <2>2. pc[p] \notin Ended /\ pc'[p] \in Ended
    BY <1>3, <1>20 DEF Ended
  <2> QED
    BY <1>2, <1>3, <1>20, <2>1, <2>2, EndStep
<1>21. SUFFICES ASSUME m = "lock" PROVE StoreStep
  BY <1>20
<1>4. /\ call'[p] = r /\ page'[p] = v /\ v0'[p] = None
      /\ \A q \in Proc \ {p} : call'[q] = call[q] /\ page'[q] = page[q] /\ v0'[q] = v0[q]
  BY <1>1, <1>2, <1>3, <1>21 DEF TypeOK, InOrder
<1>5. Unseen(p) /\ Lasting
  <2>1. pc[p] \notin Ended /\ pc'[p] \notin Ended
    BY <1>3, <1>21 DEF Ended
  <2> QED
    BY <1>2, <1>3, <1>4, <2>1, UnseenStep, LastingStep
<1>6. /\ r \in [op : Request, dev : Device, blk : Block] /\ r # NoCall
      /\ r.op \in {"put", "get"}
  BY <1>1, CallTypes, Constants DEF Calls
<1>7. AskedBy(p)' \in Store!Requests
  <2>1. CASE r.op = "get"
    <3>1. AskedBy(p)' = r /\ r \in [op : {"get"}, dev : Device, blk : Block]
      BY <1>3, <1>4, <1>6, <1>21, <2>1 DEF AskedBy, Ended
    <3> QED
      BY <3>1 DEF Store!Requests
  <2>2. CASE r.op = "put"
    <3>1. /\ AskedBy(p)' = [op |-> "put", dev |-> r.dev, blk |-> r.blk, data |-> v]
          /\ r.dev \in Device /\ r.blk \in Block
      BY <1>3, <1>4, <1>6, <1>21, <2>2 DEF AskedBy, Ended
    <3>2. AskedBy(p)' \in [op : {"put"}, dev : Device, blk : Block, data : Val]
      BY <3>1
    <3> QED
      BY <3>2 DEF Store!Requests
  <2> QED
    BY <1>6, <2>1, <2>2
<1>8. ResultOf(p)' = None /\ ResultOf(p) = None /\ AskedBy(p) = None
  <2>1. ResultOf(p)' = None
    BY <1>3, <1>4, <1>6, <1>21 DEF ResultOf, Faulting, DeviceAssumption
  <2>2. call[p] = NoCall
    BY <1>1, <1>3 DEF InOrder
  <2> QED
    BY <1>1, <2>1, <2>2, AskedFacts
<1>9. Store!Ask(p, AskedBy(p)')
  <2>1. p \notin EndedProc
    BY <1>3 DEF EndedProc, Ended
  <2> QED
    BY <1>2, <1>5, <1>8, <2>1, UnseenFacts, BlocksKept DEF Store!Ask, Lasting
<1> QED
  BY <1>7, <1>9 DEF StoreStep, Store!Next

\* Where a get has its block in the buffer, the faults of its copy included.
Fetched == {"copyout"} \cup Faulting

\* A step that leaves the contents and what is known of the call alone.
LEMMA CallStutter ==
  ASSUME DeviceAssumption, Base, NEW p \in Proc,
         NEW l, NEW m, At(p, l), Goto(p, m), UNCHANGED <<call, page, store, v0>>,
         l \in Ended <=> m \in Ended,
         \/ call[p] = NoCall \/ call[p].op = "put"
         \/ l \notin Fetched /\ m \notin Fetched
         \/ l \in Fetched /\ m \in Fetched /\ buf' = buf,
         \/ buf' = buf
         \/ \E d \in Device :
              d \in Guarded /\ HasCall(p, d) /\ \A c \in Device \ {d} : buf'[c] = buf[c]
  PROVE  StoreStep
<1>1. TypeOK
  BY DEF Base
<1>2. pc[p] = l /\ pc'[p] = m /\ \A q \in Proc \ {p} : pc'[q] = pc[q]
  BY <1>1, Goes
<1>3. Unseen(p) /\ Lasting
  BY <1>2, UnseenStep, LastingStep
<1>4. AskedBy(p)' = AskedBy(p)
  BY <1>2 DEF AskedBy
<1>5. /\ pc[p] = "copyout" \/ pc[p] \in Faulting <=> l \in Fetched
      /\ pc'[p] = "copyout" \/ pc'[p] \in Faulting <=> m \in Fetched
  BY <1>2 DEF Fetched
<1>6. ResultOf(p)' = ResultOf(p)
  BY <1>2, <1>5 DEF ResultOf
<1> QED
  BY <1>3, <1>4, <1>6, Stutter

\* The requests that SYS14 to SYS17 serve: at each, what it was and what comes of it.
LEMMA SeekDoneStore ==
  ASSUME DeviceAssumption, Base, NEW p \in Proc,
         call[p] # NoCall, SeekDone(p)
  PROVE  StoreStep
<1>1. TypeOK /\ InOrder(p)
  BY DEF Base, Asked
<1>2. CASE Goto(p, "transfer") /\ v0' = v0
  <2>1. At(p, "seeking") /\ UNCHANGED <<call, page, store, v0, buf>>
    BY <1>2 DEF SeekDone, data
  <2> QED
    BY <1>2, <2>1, CallStutter DEF Fetched, Faulting, Ended
<1>3. CASE Goto(p, "unlock") /\ v0' = [v0 EXCEPT ![p] = "-error"]
  <2>1. At(p, "seeking") /\ UNCHANGED <<call, page, store, buf>>
    BY DEF SeekDone, data
  <2>2. pc[p] = "seeking" /\ pc'[p] = "unlock" /\ \A q \in Proc \ {p} : pc'[q] = pc[q]
    BY <1>1, <1>3, <2>1, Goes
  <2>3. v0'[p] = "-error" /\ \A q \in Proc \ {p} : v0'[q] = v0[q]
    BY <1>1, <1>3 DEF TypeOK
  <2>4. Unseen(p) /\ Lasting
    BY <2>1, <2>2, <2>3, UnseenStep, LastingStep DEF Ended
  <2>5. v0[p] = None /\ ResultOf(p) = None
    BY <1>1, <2>2, NoResult DEF InOrder, Faulting
  <2>6. AskedBy(p) # None /\ AskedBy(p)' = AskedBy(p)
    BY <1>1, <2>1, <2>2, AskedFacts DEF AskedBy, Ended
  <2>7. ResultOf(p)' = "error"
    BY <2>1, <2>2, <2>3 DEF ResultOf, Ended
  <2> QED
    BY <2>1, <2>4, <2>5, <2>6, <2>7, FailStep
<1> QED
  BY <1>2, <1>3 DEF SeekDone

\* At the end of a transfer on a device that is lost, anything may come of it.
LEMMA TransferDoneLost ==
  ASSUME DeviceAssumption, TypeOK, TypeOK', NEW p \in Proc, NEW d \in Device,
         d = call[p].dev, d \notin Guarded, call[p] # NoCall, TransferDone(p)
  PROVE  StoreStep
<1>1. PICK m \in {"copyout", "unlock"} :
        /\ At(p, "moving") /\ Goto(p, m) /\ call' = call /\ page' = page
        /\ v0' = v0 \/ \E e : v0' = [v0 EXCEPT ![p] = e]
        /\ Moved(d) \/ (buf' = buf /\ store' = store)
  BY DEF TransferDone, Answered, data
<1>2. pc[p] = "moving" /\ pc'[p] = m /\ \A q \in Proc \ {p} : pc'[q] = pc[q]
  BY <1>1, Goes
<1>3. pc[p] \notin Ended /\ pc'[p] \notin Ended
  BY <1>2 DEF Ended
<1>4. \A q \in Proc \ {p} : v0'[q] = v0[q]
  BY <1>1 DEF TypeOK
<1>5. \/ buf' = buf /\ store' = store
      \/ \E x, v : store' = [store EXCEPT ![<<d, x>>] = v] /\ buf' = buf
      \/ \E v : buf' = [buf EXCEPT ![d] = v] /\ store' = store
  BY <1>1 DEF Moved
<1>6. \A c \in Device \ {d} : buf'[c] = buf[c]
  BY <1>5 DEF TypeOK
<1>7. ASSUME NEW c \in Device \ {d}, NEW x \in Places(c)
      PROVE  store'[<<c, x>>] = store[<<c, x>>]
  <2>1. <<c, x>> \in Place
    BY PlaceOf
  <2>2. ASSUME NEW y, NEW v, store' = [store EXCEPT ![<<d, y>>] = v]
        PROVE  store'[<<c, x>>] = store[<<c, x>>]
    <3>1. <<c, x>> # <<d, y>>
      OBVIOUS
    <3> QED
      BY <2>1, <2>2, <3>1 DEF TypeOK
  <2> QED
    BY <1>5, <2>2
<1> QED
  BY <1>1, <1>2, <1>3, <1>4, <1>6, <1>7, ClashStep

LEMMA TransferDoneStore ==
  ASSUME DeviceAssumption, Base, Work, NEW p \in Proc,
         call[p] # NoCall, call[p].dev \in Guarded, TransferDone(p)
  PROVE  StoreStep
<1> PICK d, b : d = call[p].dev /\ b = call[p].blk
  OBVIOUS
<1>1. TypeOK /\ InOrder(p)
  BY DEF Base, Asked
<1>2. At(p, "moving") /\ UNCHANGED <<call, page>>
  BY DEF TransferDone, data
<1>3. pc[p] = "moving" /\ pc[p] \notin Ended
  BY <1>2 DEF At, Ended
<1>4. /\ d \in Device /\ b \in Block /\ Position(d, b) \in Places(d)
      /\ job[d].op = call[p].op /\ d \in Guarded
      /\ call[p].op = "put" => buf[d] = page[p]
      /\ Under(d) = Position(d, b)
  BY <1>3, Moving
<1>5. v0[p] = None /\ ResultOf(p) = None
  BY <1>1, <1>3, NoResult DEF InOrder, Faulting
<1>6. /\ AskedBy(p) # None /\ AskedBy(p).op = call[p].op
      /\ AskedBy(p).dev = d /\ AskedBy(p).blk = b
      /\ call[p].op = "put" => AskedBy(p).data = page[p]
      /\ pc'[p] \notin Ended => AskedBy(p)' = AskedBy(p)
  BY <1>1, <1>2, <1>3, AskedFacts DEF AskedBy
<1>7. HasCall(p, d)
  BY <1>3, Prepared
<1>8. <<d, b>> \in Exists
  BY <1>4 DEF Exists
<1>9. ASSUME job[d].op = "put", store' = [store EXCEPT ![<<d, Position(d, b)>>] = buf[d]],
             v0' = [v0 EXCEPT ![p] = "ready"], Goto(p, "unlock"), buf' = buf
      PROVE  StoreStep
  <2>1. /\ pc'[p] = "unlock" /\ pc'[p] \notin Ended
        /\ \A q \in Proc \ {p} : pc'[q] = pc[q]
    BY <1>1, <1>2, <1>9, Goes DEF Ended
  <2>2. v0'[p] = "ready" /\ \A q \in Proc \ {p} : v0'[q] = v0[q]
    BY <1>1, <1>9 DEF TypeOK
  <2>3. Unseen(p) /\ Lasting
    BY <1>2, <1>3, <1>9, <2>1, <2>2, UnseenStep, LastingStep
  <2>4. ResultOf(p)' = "ready"
    <3>1. call'[p] # NoCall /\ call'[p].op = "put"
      BY <1>2, <1>4, <1>9
    <3> QED
      BY <2>1, <2>2, <3>1 DEF ResultOf
  <2> PICK v : v = buf[d]
    OBVIOUS
  <2>5. Writes(d, b, v)
    BY <1>9 DEF Writes
  <2>6. Puts(d, b, v) /\ v = page[p]
    BY <1>1, <1>4, <1>9, <2>5, PutBlocks
  <2>7. Store!Put(p)
    BY <1>4, <1>5, <1>6, <1>8, <1>9, <2>1, <2>3, <2>4, <2>6, UnseenFacts
       DEF Store!Put, Store!There, Puts, Lasting
  <2> QED
    BY <2>7 DEF StoreStep, Store!Next
<1>10. ASSUME job[d].op = "get", store' = store,
              buf' = [buf EXCEPT ![d] = store[<<d, Position(d, b)>>]],
              v0' = v0, Goto(p, "copyout")
       PROVE  StoreStep
  <2>1. /\ pc'[p] = "copyout" /\ pc'[p] \notin Ended
        /\ \A q \in Proc \ {p} : pc'[q] = pc[q]
    BY <1>1, <1>2, <1>10, Goes DEF Ended
  <2>2. /\ buf'[d] = store[<<d, Position(d, b)>>]
        /\ \A c \in Device \ {d} : buf'[c] = buf[c]
    BY <1>1, <1>4, <1>10 DEF TypeOK
  <2>3. Unseen(p) /\ Lasting
    BY <1>2, <1>3, <1>4, <1>7, <1>10, <2>1, <2>2, UnseenStep, LastingStep
  <2>4. blocks[<<d, b>>] = store[<<d, Position(d, b)>>]
    BY <1>8 DEF blocks
  <2>5. ResultOf(p)' = blocks[<<d, b>>]
    BY <1>2, <1>4, <1>5, <1>10, <2>1, <2>2, <2>4 DEF ResultOf, DeviceAssumption
  <2>6. Store!Get(p)
    BY <1>4, <1>5, <1>6, <1>8, <1>10, <2>1, <2>3, <2>5, UnseenFacts, BlocksKept
       DEF Store!Get, Store!There, Lasting
  <2> QED
    BY <2>6 DEF StoreStep, Store!Next
<1>11. ASSUME NEW e \in {"error", "-error"}, v0' = [v0 EXCEPT ![p] = e], Goto(p, "unlock"),
              buf' = buf, store' = store
       PROVE  StoreStep
  <2>1. /\ pc'[p] = "unlock" /\ pc'[p] \notin Ended
        /\ \A q \in Proc \ {p} : pc'[q] = pc[q]
    BY <1>1, <1>2, <1>11, Goes DEF Ended
  <2>2. v0'[p] = e /\ \A q \in Proc \ {p} : v0'[q] = v0[q]
    BY <1>1, <1>11 DEF TypeOK
  <2>3. Unseen(p) /\ Lasting
    BY <1>2, <1>3, <1>11, <2>1, <2>2, UnseenStep, LastingStep
  <2>4. ResultOf(p)' = "error"
    BY <1>2, <2>1, <2>2 DEF ResultOf
  <2> QED
    BY <1>5, <1>6, <1>11, <2>1, <2>3, <2>4, FailStep
<1> PICK x : x = <<d, Under(d)>>
  OBVIOUS
<1>12. x = <<d, Position(d, b)>>
  BY <1>4
<1>13. \/ /\ call[p].op = "put" /\ store' = [store EXCEPT ![x] = buf[d]]
          /\ v0' = [v0 EXCEPT ![p] = "ready"] /\ Goto(p, "unlock") /\ buf' = buf
       \/ /\ call[p].op = "get" /\ buf' = [buf EXCEPT ![d] = store[x]]
          /\ v0' = v0 /\ Goto(p, "copyout") /\ store' = store
       \/ /\ \E e \in {"error", "-error"} : v0' = [v0 EXCEPT ![p] = e]
          /\ Goto(p, "unlock") /\ buf' = buf /\ store' = store
  <2>1. x = <<d, IF IsDisk(d) THEN [job[d].place EXCEPT ![1] = arm[d]] ELSE job[d].place>>
    BY DEF Under
  <2>2. Moved(d) /\ call[p].op = "put" => store' = [store EXCEPT ![x] = buf[d]] /\ buf' = buf
    BY <1>4, <2>1 DEF Moved
  <2>3. Moved(d) /\ call[p].op = "get" => buf' = [buf EXCEPT ![d] = store[x]] /\ store' = store
    BY <1>4, <2>1 DEF Moved
  <2> QED
    BY <2>2, <2>3 DEF TransferDone, Answered
<1> QED
  BY <1>4, <1>9, <1>10, <1>11, <1>12, <1>13

\* The copy into the caller's page: what it was told it would get.
LEMMA CopyOutStore ==
  ASSUME DeviceAssumption, Base, NEW p \in Proc, call[p] # NoCall, CopyOut(p)
  PROVE  StoreStep
<1>1. TypeOK /\ InOrder(p)
  BY DEF Base, Asked
<1>2. /\ At(p, "copyout") /\ Goto(p, "unlock") /\ UNCHANGED <<call, store, buf>>
      /\ page' = [page EXCEPT ![p] = buf[call[p].dev]] /\ v0' = [v0 EXCEPT ![p] = "ready"]
  BY DEF CopyOut, Answered, devices
<1>3. /\ pc[p] = "copyout" /\ pc'[p] = "unlock"
      /\ \A q \in Proc \ {p} : pc'[q] = pc[q]
  BY <1>1, <1>2, Goes
<1>4. /\ page'[p] = buf[call[p].dev] /\ v0'[p] = "ready"
      /\ \A q \in Proc \ {p} : page'[q] = page[q] /\ v0'[q] = v0[q]
  BY <1>1, <1>2 DEF TypeOK
<1>5. pc[p] \notin Ended /\ pc'[p] \notin Ended
  BY <1>3 DEF Ended
<1>6. Unseen(p) /\ Lasting
  BY <1>2, <1>3, <1>4, <1>5, UnseenStep, LastingStep
<1>7. call[p].op = "get" /\ v0[p] = None
  BY <1>1, <1>3 DEF InOrder
<1>8. AskedBy(p)' = AskedBy(p)
  BY <1>2, <1>5, <1>7 DEF AskedBy
<1>9. ResultOf(p) = buf[call[p].dev] /\ ResultOf(p)' = buf[call[p].dev]
  BY <1>2, <1>3, <1>4, <1>5, <1>7 DEF ResultOf, DeviceAssumption
<1> QED
  BY <1>2, <1>6, <1>8, <1>9, Stutter

\* The return of the call.
LEMMA UnlockStore ==
  ASSUME DeviceAssumption, Base, NEW p \in Proc,
         call[p] # NoCall, Unlock(p)
  PROVE  StoreStep
<1>1. TypeOK /\ InOrder(p)
  BY DEF Base, Asked
<1>2. /\ At(p, "unlock") /\ Goto(p, "user") /\ UNCHANGED <<page, store, buf>>
      /\ call' = [call EXCEPT ![p] = NoCall] /\ v0' = [v0 EXCEPT ![p] = None]
  BY DEF Unlock, data, devices
<1>3. /\ pc[p] = "unlock" /\ pc'[p] = "user"
      /\ pc[p] \notin Ended /\ pc'[p] \notin Ended
      /\ \A q \in Proc \ {p} : pc'[q] = pc[q]
  BY <1>1, <1>2, Goes DEF Ended
<1>4. call'[p] = NoCall /\ \A q \in Proc \ {p} : call'[q] = call[q] /\ v0'[q] = v0[q]
  BY <1>1, <1>2 DEF TypeOK
<1>5. Unseen(p) /\ Lasting
  BY <1>2, <1>3, <1>4, UnseenStep, LastingStep
<1>6. v0[p] \in {"ready", "error", "-error"} /\ page[p] \in Val
  BY <1>1, <1>3 DEF InOrder, TypeOK
<1>7. ResultOf(p) # None
  BY <1>3, <1>6 DEF ResultOf, DeviceAssumption
<1>8. AskedBy(p)' = None /\ ResultOf(p)' = None
  BY <1>4 DEF AskedBy, ResultOf
<1>9. Store!Answer(p)
  BY <1>2, <1>5, <1>7, <1>8, UnseenFacts, BlocksKept DEF Store!Answer, Lasting
<1> QED
  BY <1>9 DEF StoreStep, Store!Next

LEMMA CallStore ==
  ASSUME DeviceAssumption, Base, Base', Work, NEW p \in Proc, Call(p)
  PROVE  StoreStep
<1>1. TypeOK /\ InOrder(p) /\ TypeOK'
  BY DEF Base, Asked
<1>2. CASE Trap(p)
  <2>1. /\ pc[p] \notin Ended /\ pc'[p] = "nukedisk" /\ \A q \in Proc \ {p} : pc'[q] = pc[q]
        /\ UNCHANGED <<call, page, store, buf, v0>>
    BY <1>1, <1>2 DEF Trap, At, Goto, Ended, TypeOK, data, devices
  <2> QED
    BY <2>1, EndStep DEF Ended
<1>3. SUFFICES ASSUME ~Trap(p) PROVE StoreStep
  BY <1>2
<1>4. call[p] # NoCall
  BY <1>3 DEF Call, disk_put, disk_get, flashOperation, IsCall
<1>5. CASE Lock(p) \/ Validate(p) \/ Seek(p) \/ Transfer(p)
  <2>1. call[p].op \in {"put", "get"} /\ FirstStep(call[p]) \in {"validate", "copyin", "seek"}
    BY <1>1, <1>4, CallTypes
  <2>2. PICK l, m : /\ At(p, l) /\ Goto(p, m) /\ UNCHANGED <<call, page, store, v0, buf>>
                    /\ l \in {"lock", "validate", "seek", "transfer"}
                    /\ m \in {"validate", "copyin", "seek", "nukedisk", "transfer",
                              "seeking", "moving"}
    BY <1>5, <2>1 DEF Lock, P, Validate, Seek, Transfer, data, devices
  <2>3. CASE m = "nukedisk"
    <3>1. pc[p] \notin Ended /\ pc'[p] \in Ended /\ \A q \in Proc \ {p} : pc'[q] = pc[q]
      BY <1>1, <2>2, <2>3, Goes DEF Ended
    <3> QED
      BY <2>2, <3>1, EndStep
  <2>4. CASE m # "nukedisk"
    BY <2>2, <2>4, CallStutter DEF Fetched, Faulting, Ended
  <2> QED
    BY <2>3, <2>4
<1>6. CASE CopyIn(p)
  <2> PICK d : d = call[p].dev
    OBVIOUS
  <2>1. PICK m \in {"seek", "transfer"} :
          /\ At(p, "copyin") /\ Goto(p, m) /\ UNCHANGED <<call, page, store, v0>>
          /\ buf' = [buf EXCEPT ![d] = page[p]]
    BY <1>6 DEF CopyIn, data
  <2>2. /\ pc[p] = "copyin" /\ pc'[p] = m /\ Runs(p)
        /\ \A q \in Proc \ {p} : pc'[q] = pc[q]
    BY <1>1, <2>1, Goes
  <2>3. d \in Device /\ d \in Locks
    BY <1>1, <1>4, CallTypes, Names
  <2>4. \A c \in Device \ {d} : buf'[c] = buf[c]
    BY <1>1, <2>1, <2>3 DEF TypeOK
  <2>5. CASE d \in Guarded
    <3>1. HasCall(p, d) /\ call[p].op = "put"
      BY <1>1, <1>4, <2>2, <2>3 DEF HasCall, InCall, Runs, InOrder
    <3> QED
      BY <2>1, <2>3, <2>4, <2>5, <3>1, CallStutter DEF Fetched, Faulting, Ended
  <2>6. CASE d \notin Guarded
    <3>1. pc[p] \notin Ended /\ pc'[p] \notin Ended
      BY <2>2 DEF Ended
    <3> QED
      BY <1>1, <1>4, <2>1, <2>2, <2>3, <2>4, <2>6, <3>1, ClashStep
  <2> QED
    BY <2>5, <2>6
<1>7. CASE TransferDone(p)
  <2>1. call[p].dev \in Device
    BY <1>1, <1>4, CallTypes
  <2> QED
    BY <1>1, <1>4, <1>7, <2>1, TransferDoneLost, TransferDoneStore
<1> QED
  BY <1>3, <1>4, <1>5, <1>6, <1>7, CallStep, SeekDoneStore, CopyOutStore, UnlockStore

LEMMA PagerStore ==
  ASSUME DeviceAssumption, Base, NEW p \in Proc, Pager(p)
  PROVE  StoreStep
<1>1. TypeOK
  BY DEF Base
<1>2. CASE Install(p)
  <2> PICK m : m = IF call[p] = NoCall THEN "user"
                   ELSE IF call[p].op = "put" THEN "copyin" ELSE "copyout"
    OBVIOUS
  <2>1. At(p, "install") /\ Goto(p, m) /\ UNCHANGED <<call, page, store, v0, buf>>
    BY <1>2 DEF Install, devices
  <2>2. call[p] = NoCall \/ call[p].op = "put" \/ m = "copyout"
    OBVIOUS
  <2> QED
    BY <2>1, <2>2, CallStutter DEF Fetched, Faulting, Ended
<1>3. CASE ~Install(p)
  <2>1. PICK l \in Faulting, m \in Faulting \cup {"nukedisk"} :
          At(p, l) /\ Goto(p, m) /\ UNCHANGED <<call, page, store, v0, buf>>
    BY <1>3 DEF Pager, PickFrame, WriteOut, ReadIn, Moves, P, Faulting, data, devices
  <2>2. CASE m \in Faulting
    BY <2>1, <2>2, CallStutter DEF Fetched, Faulting, Ended
  <2>3. CASE m = "nukedisk"
    <3>1. pc[p] \notin Ended /\ pc'[p] \in Ended /\ \A q \in Proc \ {p} : pc'[q] = pc[q]
      BY <1>1, <2>1, <2>3, Goes DEF Ended, Faulting
    <3> QED
      BY <2>1, <3>1, EndStep
  <2> QED
    BY <2>1, <2>2, <2>3
<1> QED
  BY <1>2, <1>3

\* Every step is one of the store, or none.
LEMMA NextStore ==
  ASSUME DeviceAssumption, Base, Work, [Next]_vars
  PROVE  StoreStep
<1>1. TypeOK /\ Base'
  BY NextBase DEF Base
<1>2. CASE UNCHANGED vars
  BY <1>2 DEF vars, StoreStep, blocks, request, result, AskedBy, ResultOf, EndedProc, Lost,
              Left
<1>3. ASSUME NEW p \in Proc, get_nuked(p) PROVE StoreStep
  <2>1. PICK l, m : /\ At(p, l) /\ Goto(p, m) /\ Further(l, m)
                    /\ UNCHANGED <<call, page, store, v0, buf>>
    BY <1>3, NukedStep
  <2> QED
    BY <2>1, CallStutter DEF Fetched, Faulting, Ended, Further
<1>4. ASSUME NEW p \in Proc, Exit(p) PROVE StoreStep
  <2>1. /\ pc[p] \notin Ended /\ pc'[p] \in Ended /\ \A q \in Proc \ {p} : pc'[q] = pc[q]
        /\ UNCHANGED <<call, page, store, v0, buf>>
    BY <1>1, <1>4, Goes DEF Exit, Ended, data, devices
  <2> QED
    BY <2>1, EndStep
<1>5. ASSUME NEW p \in Proc, Fault(p) PROVE StoreStep
  <2>1. PICK l \in {"copyin", "copyout", "user"} :
          At(p, l) /\ Goto(p, "pick") /\ UNCHANGED <<call, page, store, v0, buf>>
    BY <1>5 DEF Fault, data, devices
  <2>2. pc[p] = l /\ InOrder(p)
    BY <2>1 DEF At, Base, Asked
  <2>3. call[p] = NoCall \/ call[p].op = "put" \/ l = "copyout"
    BY <2>2 DEF InOrder
  <2> QED
    BY <2>1, <2>3, CallStutter DEF Fetched, Faulting, Ended
<1>6. ASSUME NEW p \in Proc, Call(p) PROVE StoreStep
  BY <1>1, <1>6, CallStore
<1> QED
  BY <1>2, <1>3, <1>4, <1>5, <1>6, PagerStore, InvokeStore DEF Next

\* deviceSupportDMA.c: the shared buffer, the two commands of a disk and the copies,
\* with their page faults, make one atomic read or write of one block, or an error
\* that changes nothing, and a process that ends in the middle has done all of it or
\* nothing, on the devices that are not lost.
THEOREM BlocksAtomic == DeviceAssumption => (Spec => ImplementsBlockStore)
<1> SUFFICES ASSUME DeviceAssumption PROVE Spec => ImplementsBlockStore
  OBVIOUS
<1>1. Init => Base /\ Work
  BY InitBase DEF Init, Work, Working
<1>2. Base /\ Work /\ [Next]_vars => (Base /\ Work)'
  BY NextBase, NextWork
<1>3. Init => Store!Init
  BY StoreInit
<1>4. Base /\ Work /\ [Next]_vars => [Store!Next]_(Store!storeVars)
  BY NextStore DEF StoreStep, Store!storeVars
<1> QED
  BY <1>1, <1>2, <1>3, <1>4, PTL DEF Spec, ImplementsBlockStore, Store!Spec
=============================================================================
