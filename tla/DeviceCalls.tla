---------------------------- MODULE DeviceCalls ----------------------------
(***************************************************************************)
(* SYS14 to SYS17 (deviceSupportDMA.c): user processes read and write      *)
(* blocks of disks and flash devices through one DMA buffer per device,    *)
(* under the mutex of the device (devSema4_support).  The calls touch the  *)
(* caller's page, so the locks of the pager (swap pool, flash mutexes) are *)
(* here too; Pager has its data.  get_nuked is what becomes of a process   *)
(* that ends, in the middle of a call or not: it releases the mutexes with *)
(* the number of the process, whoever has them, and no others.             *)
(***************************************************************************)
EXTENDS Semaphores, FiniteSets

CONSTANTS
  Proc,                       \* asids
  Device,                     \* the devices that are called: <<"disk", n>>, <<"flash", n>>
  Request,                    \* the operations: "put", "get"
  Block,                      \* the block numbers programs ask for
  MaxCyl, MaxHead, MaxSect,   \* geometry of the disks
  MaxBlock,                   \* blocks of a flash device
  Val,
  None,
  NumFrames,                  \* frames of the swap pool
  Failures,                   \* whether devices report errors
  Deaths                      \* whether processes end

\* What the constants must be; the modules of the runs assume it.
DeviceAssumption ==
  /\ Proc \subseteq Nat \ {0} /\ IsFiniteSet(Proc)
  /\ Device \subseteq {"disk", "flash"} \X Nat
  /\ Request \subseteq {"put", "get"} /\ Block \subseteq Int
  /\ {MaxCyl, MaxHead, MaxSect, MaxBlock, NumFrames} \subseteq Nat \ {0}
  /\ Failures \in BOOLEAN /\ Deaths \in BOOLEAN
  /\ None \notin Val \cup {"put", "get", "ready", "error", "-error"}
  /\ None \notin [op : {"get"}, dev : Device, blk : Block]
                \cup [op : {"put"}, dev : Device, blk : Block, data : Val]

VARIABLES
  pc,
  call,      \* what the process asked for
  sem,       \* the device mutexes and swapPool_sema4
  page,      \* the 4KB the call is about, in the caller's address space
  frames,    \* whose page is in memory, oldest first
  victim,    \* whose page the pager is writing out
  buf,       \* the DMA buffers
  arm,       \* the cylinder the disks are at
  job,       \* the command register of the devices
  store,     \* the contents of the devices, by position
  v0         \* the result of the call the process is in

vars == <<pc, call, sem, page, frames, victim, buf, arm, job, store, v0>>
data == <<page, frames, victim>>
devices == <<buf, arm, job, store>>

Flash(p) == <<"flash", p>>
SwapPool == <<"pool", 0>>
Locks == Device \cup {Flash(p) : p \in Proc} \cup {SwapPool}

Capacity == MaxCyl * MaxHead * MaxSect
IsDisk(d) == d[1] = "disk"

\* Mutant: the number of cylinders is taken for that of heads.
Position_Cylinders(d, b) ==
  IF IsDisk(d) THEN <<b \div (MaxCyl * MaxSect),
                      (b % (MaxHead * MaxSect)) \div MaxSect, b % MaxSect>>
  ELSE <<b>>

\* Where a block is: cylinder, head and sector on a disk.
Position(d, b) ==
  IF IsDisk(d) THEN <<b \div (MaxHead * MaxSect),
                      (b % (MaxHead * MaxSect)) \div MaxSect, b % MaxSect>>
  ELSE <<b>>

Places(d) ==
  IF IsDisk(d) THEN (0..MaxCyl-1) \X (0..MaxHead-1) \X (0..MaxSect-1)
  ELSE {<<b>> : b \in 0..MaxBlock-1}

Place == UNION {{d} \X Places(d) : d \in Device}

\* What a command may name: the block behind the last one passes the check of a
\* disk call.
Aims(d) ==
  IF IsDisk(d) THEN (0..MaxCyl) \X (0..MaxHead-1) \X (0..MaxSect-1) ELSE Places(d)

NoCall == [op |-> None, dev |-> None, blk |-> 0]

TypeOK ==
  /\ pc \in [Proc -> {"user", "lock", "validate", "copyin", "seek", "transfer",
                      "seeking", "moving", "copyout", "unlock", "pick", "outlock",
                      "out", "inlock", "in", "install", "nukedisk", "nukediskV",
                      "nukeflash", "nukeflashV", "dead"}]
  /\ call \in [Proc -> {NoCall} \cup [op : Request, dev : Device, blk : Block]]
  /\ sem \in Semaphores(Locks, Proc)
  /\ page \in [Proc -> Val]
  /\ frames \in Seq(Proc) /\ Len(frames) <= NumFrames
  /\ victim \in [Proc -> Proc \cup {None}]
  /\ buf \in [Device -> Val]
  /\ arm \in [Device -> 0..MaxCyl-1]
  /\ job \in [Device -> [place : UNION {Aims(d) : d \in Device}, op : Request] \cup {None}]
  /\ store \in [Place -> Val]
  /\ v0 \in [Proc -> {None, "ready", "error", "-error"}]

At(p, l) == pc[p] = l /\ ~Blocked(sem, p)
Goto(p, l) == pc' = [pc EXCEPT ![p] = l]
Resident(p) == p \in ToSet(frames)

Init ==
  /\ pc = [p \in Proc |-> "user"]
  /\ call = [p \in Proc |-> NoCall]
  /\ sem = [s \in Locks |-> Sema4(1)]
  /\ page \in {[p \in Proc |-> v] : v \in Val}
  /\ frames = <<>>
  /\ victim = [p \in Proc |-> None]
  /\ buf \in {[d \in Device |-> v] : v \in Val}
  /\ arm = [d \in Device |-> 0]
  /\ job = [d \in Device |-> None]
  /\ store \in {[x \in Place |-> v] : v \in Val}
  /\ v0 = [p \in Proc |-> None]

-----------------------------------------------------------------------------
(* The calls                                                               *)

\* The program fills its page and makes the call; v0 is free since the return of
\* the last one.  A disk call checks the sector number first, with > for the
\* capacity, and a flash call when it has the mutex.
Invoke(p, r, v) ==
  /\ At(p, "user")
  /\ r.op = "get" => v = page[p]
  /\ page' = [page EXCEPT ![p] = v]
  /\ IF IsDisk(r.dev) /\ r.blk \notin 0..Capacity
     THEN Goto(p, "nukedisk") /\ UNCHANGED call
     ELSE Goto(p, "lock") /\ call' = [call EXCEPT ![p] = r]
  /\ UNCHANGED <<sem, frames, victim, devices, v0>>

P(p, from, s, to) ==
  /\ At(p, from)
  /\ sem' = passeren(sem, s, p)
  /\ Goto(p, to)
  /\ UNCHANGED <<call, data, devices, v0>>

FirstStep(r) ==
  IF ~IsDisk(r.dev) THEN "validate" ELSE IF r.op = "put" THEN "copyin" ELSE "seek"

Lock(p) == P(p, "lock", call[p].dev, FirstStep(call[p]))

\* A negative block number is large: maxBlock is unsigned.
Validate(p) ==
  /\ At(p, "validate")
  /\ Goto(p, IF call[p].blk \notin 0..MaxBlock-1 THEN "nukedisk"
             ELSE IF call[p].op = "put" THEN "copyin" ELSE "transfer")
  /\ UNCHANGED <<call, sem, data, devices, v0>>

CopyIn(p) ==
  /\ At(p, "copyin") /\ Resident(p)
  /\ buf' = [buf EXCEPT ![call[p].dev] = page[p]]
  /\ Goto(p, IF IsDisk(call[p].dev) THEN "seek" ELSE "transfer")
  /\ UNCHANGED <<call, sem, data, arm, job, store, v0>>

\* SEEK and then SYS5.
Seek(p) ==
  /\ At(p, "seek")
  /\ job' = [job EXCEPT ![call[p].dev] =
                [place |-> Position(call[p].dev, call[p].blk), op |-> call[p].op]]
  /\ Goto(p, "seeking")
  /\ UNCHANGED <<call, sem, data, buf, arm, store, v0>>

\* Mutant: the transfer is started whatever the seek answers.
SeekDone_IgnoresError(p) ==
  LET d == call[p].dev IN
  /\ At(p, "seeking") /\ job[d] # None
  /\ job' = [job EXCEPT ![d] = None]
  /\ \/ arm' = [arm EXCEPT ![d] = job[d].place[1]]
     \/ Failures /\ UNCHANGED arm
  /\ Goto(p, "transfer")
  /\ UNCHANGED <<call, sem, data, buf, store, v0>>

\* The end of the seek; a cylinder that does not exist is an error.
SeekDone(p) ==
  LET d == call[p].dev IN
  /\ At(p, "seeking") /\ job[d] # None
  /\ job' = [job EXCEPT ![d] = None]
  /\ \/ /\ job[d].place[1] < MaxCyl
        /\ arm' = [arm EXCEPT ![d] = job[d].place[1]]
        /\ Goto(p, "transfer")
        /\ UNCHANGED v0
     \/ /\ Failures \/ job[d].place[1] >= MaxCyl
        /\ v0' = [v0 EXCEPT ![p] = "-error"]
        /\ Goto(p, "unlock")
        /\ UNCHANGED arm
  /\ UNCHANGED <<call, sem, data, buf, store>>

\* READ or WRITE and then SYS5.
Transfer(p) ==
  /\ At(p, "transfer")
  /\ job' = [job EXCEPT ![call[p].dev] =
                [place |-> Position(call[p].dev, call[p].blk), op |-> call[p].op]]
  /\ Goto(p, "moving")
  /\ UNCHANGED <<call, sem, data, buf, arm, store, v0>>

\* A disk gives -status when it is not READY, a flash device the status.
Answered(p, ok) ==
  v0' = [v0 EXCEPT ![p] = IF ok THEN "ready"
                          ELSE IF IsDisk(call[p].dev) THEN "-error" ELSE "error"]

\* The device moves the block between the buffer and where its arm is.
Moved(d) ==
  LET x == <<d, IF IsDisk(d) THEN [job[d].place EXCEPT ![1] = arm[d]] ELSE job[d].place>> IN
  IF job[d].op = "put" THEN store' = [store EXCEPT ![x] = buf[d]] /\ UNCHANGED buf
  ELSE buf' = [buf EXCEPT ![d] = store[x]] /\ UNCHANGED store

TransferDone(p) ==
  LET d == call[p].dev IN
  /\ At(p, "moving") /\ job[d] # None
  /\ job' = [job EXCEPT ![d] = None]
  /\ \/ Moved(d) /\ call[p].op = "put" /\ Answered(p, TRUE) /\ Goto(p, "unlock")
     \/ Moved(d) /\ call[p].op = "get" /\ UNCHANGED v0 /\ Goto(p, "copyout")
     \/ /\ Failures
        /\ Answered(p, FALSE) /\ Goto(p, "unlock")
        /\ UNCHANGED <<buf, store>>
  /\ UNCHANGED <<call, sem, data, arm>>

CopyOut(p) ==
  /\ At(p, "copyout") /\ Resident(p)
  /\ page' = [page EXCEPT ![p] = buf[call[p].dev]]
  /\ Answered(p, TRUE) /\ Goto(p, "unlock")
  /\ UNCHANGED <<call, sem, frames, victim, devices>>

\* An address that is not aligned traps in the copy: the process ends, with the
\* mutex of the device.
Trap(p) ==
  /\ At(p, "copyin") \/ At(p, "copyout")
  /\ Deaths
  /\ Goto(p, "nukedisk")
  /\ UNCHANGED <<call, sem, data, devices, v0>>

Unlock(p) ==
  /\ At(p, "unlock")
  /\ sem' = verhogen(sem, call[p].dev)
  /\ call' = [call EXCEPT ![p] = NoCall]
  /\ v0' = [v0 EXCEPT ![p] = None]
  /\ Goto(p, "user")
  /\ UNCHANGED <<data, devices>>

-----------------------------------------------------------------------------
(* The pager, as far as the calls meet it                                  *)

\* A touched page that is not in memory: from the call, or from the program.
Fault(p) ==
  /\ At(p, "copyin") \/ At(p, "copyout") \/ At(p, "user")
  /\ ~Resident(p)
  /\ sem' = passeren(sem, SwapPool, p)
  /\ Goto(p, "pick")
  /\ UNCHANGED <<call, data, devices, v0>>

Full == Len(frames) = NumFrames

\* swapPool_sema4 is held from here to Install.
PickFrame(p) ==
  /\ At(p, "pick")
  /\ IF Full THEN /\ frames' = Tail(frames)
                  /\ victim' = [victim EXCEPT ![p] = Head(frames)]
                  /\ Goto(p, "outlock")
             ELSE /\ Goto(p, "inlock")
                  /\ UNCHANGED <<frames, victim>>
  /\ UNCHANGED <<call, sem, page, devices, v0>>

\* flash_read_write gives the mutex back, and then a process whose transfer has
\* failed ends, with the swap pool.
Moves(p, l) == Goto(p, l) \/ (Failures /\ Goto(p, "nukedisk"))

WriteOut(p) ==
  \/ P(p, "outlock", Flash(victim[p]), "out")
  \/ /\ At(p, "out")
     /\ sem' = verhogen(sem, Flash(victim[p]))
     /\ victim' = [victim EXCEPT ![p] = None]
     /\ Moves(p, "inlock")
     /\ UNCHANGED <<call, page, frames, devices, v0>>

ReadIn(p) ==
  \/ P(p, "inlock", Flash(p), "in")
  \/ /\ At(p, "in")
     /\ sem' = verhogen(sem, Flash(p))
     /\ Moves(p, "install")
     /\ UNCHANGED <<call, data, devices, v0>>

Install(p) ==
  /\ At(p, "install")
  /\ frames' = Append(frames, p)
  /\ sem' = verhogen(sem, SwapPool)
  /\ Goto(p, IF call[p] = NoCall THEN "user"
             ELSE IF call[p].op = "put" THEN "copyin" ELSE "copyout")
  /\ UNCHANGED <<call, page, victim, devices, v0>>

-----------------------------------------------------------------------------
(* get_nuked                                                               *)

Exit(p) ==
  /\ At(p, "user") /\ Deaths
  /\ Goto(p, "nukedisk")
  /\ UNCHANGED <<call, sem, data, devices, v0>>

\* For each type of device: if the mutex of the device with the number of the
\* process reads 0, SYS4 on it.
Release(p, from, s, fromV, to) ==
  \/ /\ At(p, from)
     /\ Goto(p, IF s \in Locks /\ sem[s].val = 0 THEN fromV ELSE to)
     /\ UNCHANGED <<call, sem, data, devices, v0>>
  \/ /\ At(p, fromV)
     /\ sem' = verhogen(sem, s)
     /\ Goto(p, to)
     /\ UNCHANGED <<call, data, devices, v0>>

\* Mutant: the index is the asid, not the asid less one.
get_nuked_OffByOne(p) ==
  \/ Release(p, "nukedisk", <<"disk", p + 1>>, "nukediskV", "nukeflash")
  \/ Release(p, "nukeflash", Flash(p + 1), "nukeflashV", "dead")

get_nuked(p) ==
  \/ Release(p, "nukedisk", <<"disk", p>>, "nukediskV", "nukeflash")
  \/ Release(p, "nukeflash", Flash(p), "nukeflashV", "dead")

-----------------------------------------------------------------------------
IsCall(p, type, op) == call[p] # NoCall /\ call[p].dev[1] = type /\ call[p].op \in op

disk_put(p) ==
  /\ IsCall(p, "disk", {"put"})
  /\ Lock(p) \/ CopyIn(p) \/ Seek(p) \/ SeekDone(p) \/ Transfer(p)
       \/ TransferDone(p) \/ Unlock(p)

disk_get(p) ==
  /\ IsCall(p, "disk", {"get"})
  /\ Lock(p) \/ Seek(p) \/ SeekDone(p) \/ Transfer(p) \/ TransferDone(p)
       \/ CopyOut(p) \/ Unlock(p)

\* flash_put and flash_get.
flashOperation(p) ==
  /\ IsCall(p, "flash", {"put", "get"})
  /\ Lock(p) \/ Validate(p) \/ CopyIn(p) \/ Transfer(p) \/ TransferDone(p)
       \/ CopyOut(p) \/ Unlock(p)

Call(p) == disk_put(p) \/ disk_get(p) \/ flashOperation(p) \/ Trap(p)

Pager(p) == PickFrame(p) \/ WriteOut(p) \/ ReadIn(p) \/ Install(p)

Calls == [op : Request, dev : Device, blk : Block]

Next ==
  \E p \in Proc :
    \/ Call(p) \/ Fault(p) \/ Pager(p) \/ Exit(p) \/ get_nuked(p)
    \/ \E r \in Calls, v \in Val : Invoke(p, r, v)

Spec == Init /\ [][Next]_vars

\* Every process is scheduled and every device answers.  Strong fairness for
\* the copies: round robin lets a process run again before the others can have
\* a whole pool of faults served.
Fairness ==
  \A p \in Proc :
    /\ WF_vars(Call(p)) /\ WF_vars(Pager(p)) /\ WF_vars(get_nuked(p))
    /\ WF_vars(Fault(p) /\ pc[p] # "user")
    /\ SF_vars(CopyIn(p)) /\ SF_vars(CopyOut(p))

-----------------------------------------------------------------------------
(* Properties                                                              *)

\* Where a process has the mutex of the device it called.
InCall == {"validate", "copyin", "seek", "seeking", "transfer", "moving",
           "copyout", "unlock"}
Faulting == {"pick", "outlock", "out", "inlock", "in", "install"}
Ended == {"nukedisk", "nukediskV", "nukeflash", "nukeflashV", "dead"}

\* A process that ended in the middle of a call still has the mutex, for ever
\* unless it is one that get_nuked looks at.
Keeps(p, d) ==
  \/ pc[p] \in {"nukedisk", "nukediskV"}
  \/ pc[p] \in {"nukeflash", "nukeflashV"} /\ d # <<"disk", p>>
  \/ pc[p] = "dead" /\ d \notin {<<"disk", p>>, Flash(p)}

Uses(p, d) ==
  \/ /\ call[p] # NoCall /\ call[p].dev = d
     /\ (pc[p] \in InCall /\ ~Blocked(sem, p)) \/ pc[p] \in Faulting \/ Keeps(p, d)
  \/ /\ pc[p] \in {"out", "in"} /\ ~Blocked(sem, p)
     /\ d = Flash(IF pc[p] = "out" THEN victim[p] ELSE p)
  \/ pc[p] \in Faulting /\ ~Blocked(sem, p) /\ d = SwapPool

Alone(d) == \A p, q \in Proc : Uses(p, d) /\ Uses(q, d) => p = q

\* sysSupport.c:40, :57: get_nuked releases what the process "is currently
\* holding", so that one process at a time commands a device and fills its
\* buffer, the pager included.  Refuted: it does not look at who has it.
Exclusive == \A d \in Locks : Alone(d)

\* The devices of each process's number.
Own == [p \in Proc |-> {<<"disk", p>>, Flash(p)}]

\* The devices that processes that ended may have opened to a second user: those
\* of their number, but for the one they had themselves.
Left(p) == IF call[p] = NoCall THEN Own[p] ELSE Own[p] \ {call[p].dev}
EndedProc == {p \in Proc : pc[p] \in Ended}
Lost == UNION {Left(p) : p \in EndedProc}
Guarded == Locks \ Lost

\* As long as no process has ended that has a device's number and was not in a
\* call on it, one process at a time is in a call on it, and one that ended there
\* keeps the others out; the pager never has two.
ExclusiveOnDeath == \A d \in Guarded : Alone(d)

\* A READ or WRITE finds the arm where its own SEEK has put it.
TransferAtSeek ==
  \A p \in Proc :
    (pc[p] \in {"transfer", "moving"} /\ IsDisk(call[p].dev) /\ call[p].dev \in Guarded) =>
      arm[call[p].dev] = Position(call[p].dev, call[p].blk)[1]

\* What the calls and the ends of processes keep together: one process at a time
\* on each device, and its arm where that process wants it.
DeviceSafe == TypeOK /\ ExclusiveOnDeath /\ TransferAtSeek

\* deviceSupportDMA.c:282, of flashOperation: "Store status in v0 and release
\* flash device semaphore", if no process ends.  Refuted: a page fault of the
\* call may want the same mutex.
FlashReleased ==
  \A p \in Proc : pc[p] = "lock" ~> pc[p] = "user" \/ EndedProc # {}

\* The calls as an observer sees them.
AskedBy(p) ==
  IF call[p] = NoCall \/ pc[p] \in Ended THEN None
  ELSE IF call[p].op = "get" THEN call[p]
  ELSE [op |-> "put", dev |-> call[p].dev, blk |-> call[p].blk, data |-> page[p]]

ResultOf(p) ==
  IF call[p] = NoCall \/ pc[p] \in Ended THEN None
  ELSE IF v0[p] \in {"error", "-error"} THEN "error"
  ELSE IF call[p].op = "put" THEN v0[p]
  ELSE IF v0[p] = "ready" THEN page[p]
  ELSE IF pc[p] = "copyout" \/ pc[p] \in Faulting THEN buf[call[p].dev]
  ELSE None

Exists == {x \in Device \X Block : Position(x[1], x[2]) \in Places(x[1])}
blocks == [x \in Exists |-> store[<<x[1], Position(x[1], x[2])>>]]
request == [p \in Proc |-> AskedBy(p)]
result == [p \in Proc |-> ResultOf(p)]

Store == INSTANCE BlockStore WITH ended <- EndedProc, lost <- Lost

\* The two steps of a disk transfer, the shared buffer and the copies make one
\* atomic read or write of one block, on the devices that are not lost.
ImplementsBlockStore == Store!Spec

\* One step of BlockStore, or none.
StoreStep == Store!Next \/ UNCHANGED <<blocks, request, result, EndedProc, Lost>>
=============================================================================
