------------------------- MODULE SupportLevelProofs -------------------------
(***************************************************************************)
(* The support level never deadlocks on its mutexes, never has two in one  *)
(* that get_nuked did not take away, and never loses one but a disk, a     *)
(* flash device or the swap pool of a process that ended with it, for any  *)
(* number of user processes, any menu of calls and any disks and flash     *)
(* devices, as long as no program calls a flash device with the number of  *)
(* a process (Units: the pager then takes such a mutex inside the pool and *)
(* SYS16 outside it).  The argument is about handlers: what is left of one *)
(* is Good, which every step keeps.                                        *)
(***************************************************************************)
EXTENDS SupportLevel, QueueLemmas

\* The mutexes of the terminal and the printer with the number of p: only p
\* uses them.
Own(p) == {Printer(p), Recv(p), Transm(p)}
Owned == UNION {Own(p) : p \in UProc}
Reach(p) == Mutex \ UNION {Own(q) : q \in UProc \ {p}}

\* The mutexes with the number of p, which get_nuked looks at.
Numbered(p) == {Disk(p), Flash(p)} \cup Own(p)

\* Every mutex is of one of three levels: those a call takes, the one of the
\* pager, and the ones it takes.
High == {Flash(p) : p \in UProc}
Low == Mutex \ (High \cup {SwapPool})
Precedes(s, t) == (s \in Low /\ t \notin Low) \/ (s = SwapPool /\ t \in High)

\* The steps that p may have to make.
Moves(p) ==
  ({"SYS3", "SYS4"} \X Reach(p)) \cup ({"SYS5"} \X (Mutex \cup {<<"clock", 0>>}))
  \cup {End(p)}
  \cup (IF p \in UProc THEN ({"test", "release"} \X Numbered(p))
                            \cup {Page, Address, Number, Status, V(Master), <<"sleep", ADL>>} ELSE {})
  \cup (IF p = Test THEN {P(Master)} \cup {<<"SYS1", <<"process", q>>>> : q \in UProc} ELSE {})
  \cup (IF p = Daemon THEN {<<"wake", ADL>>} ELSE {})

\* After the step with number i the next thing done with s is to release it.
After(steps, i, s) ==
  \E j \in DOMAIN steps :
    /\ j > i
    /\ steps[j] \in {V(s), <<"sleep", s>>}
    /\ \A k \in i+1..j-1 : ~OnMutex(steps[k], s)

\* What may be done by a process that has s, or comes to have it by the step.
Compatible(x, s) ==
  /\ x[1] = "SYS3" /\ x[2] # s => Precedes(s, x[2])
  /\ x \in {Page, Address} => s \in Low
  /\ x[1] \in {"SYS4", "sleep", "test", "release"} => x[2] # s
  /\ x[1] # "SYS2"

\* Nothing is taken against the order of the levels, or with a page fault
\* to come, and nobody ends with a mutex in his hands.
Sound(steps) ==
  \A i \in DOMAIN steps, s \in Mutex : After(steps, i, s) => Compatible(steps[i], s)

\* s is looked at, or released unasked, after the step with number i.
Checks(steps, i, s) ==
  \E j \in DOMAIN steps : j > i /\ steps[j] \in {<<"test", s>>, <<"release", s>>}

\* Nothing is taken that is not released, and a process that may end in the
\* middle has no more than get_nuked looks at or it may leave locked.
Tidy(steps) ==
  \A i \in DOMAIN steps :
    /\ steps[i][1] = "SYS2" => i = Len(steps)
    /\ \A s \in Mutex : steps[i] = P(s) => After(steps, i, s)
    /\ \A s \in Mutex :
         steps[i][1] = "touch" /\ After(steps, i, s) => s \in Owned \cup Losable
    /\ \A s \in Owned : steps[i] = P(s) => ~Checks(steps, i, s)

\* After the V on the master semaphore a process does nothing but end.
Ends(p, steps) ==
  \A i \in DOMAIN steps :
    steps[i] = V(Master) => i+1 = Len(steps) /\ steps[i+1] = End(p)

\* What is left of a handler, and a handler at its start.
Good(p, steps) ==
  /\ steps \in Seq(Moves(p)) /\ Sound(steps) /\ Ends(p, steps)
  /\ Tidy(steps)
Begins(p, steps) == Good(p, steps) /\ \A s \in Mutex : ~Owns(steps, s)

\* The instantiator, the daemon and the user processes are different.
LEMMA Processes ==
  /\ Test \notin UProc /\ Daemon \notin UProc /\ Test # Daemon
  /\ Process = UProc \cup {Test, Daemon}
BY SupportAssumption DEF Process, UProc, Test, Daemon

\* No name is used twice.
LEMMA MutexTypes ==
  /\ Mutex \cap Signal = {} /\ ADL \in Low /\ SwapPool \in Mutex
  /\ SwapPool \notin High /\ High \subseteq Mutex /\ Low \subseteq Mutex
  /\ SwapPool \notin Owned /\ ADL \notin Owned /\ High \cap Owned = {}
  /\ \A p \in UProc : /\ Own(p) \subseteq Low /\ Own(p) \subseteq Owned
                      /\ Disk(p) \in Low \ Owned /\ Flash(p) \in High
                      /\ Numbered(p) \subseteq Mutex
  /\ \A p, q \in UProc : p # q => Own(p) \cap Own(q) = {}
  /\ \A d \in Disks : Disk(d) \in Low \ Owned
  /\ \A u \in Units : Flash(u) \in Mutex \ Owned
  /\ Units \cap UProc = {} => \A u \in Units : Flash(u) \in Low
  /\ \A p \in UProc : Numbered(p) \subseteq DevMutex
  /\ Losable \subseteq Mutex /\ ADL \notin Losable /\ SwapPool \in Losable /\ Owned \subseteq Mutex
  /\ (\A d \in Disks : Disk(d) \in Losable) /\ \A u \in Units : Flash(u) \in Losable
  /\ Master \in Signal /\ \A p \in UProc : Private(p) \in Signal /\ Private(p) # Master
<1> USE DEF Disk, Flash, Printer, Recv, Transm, SwapPool, ADL
<1>1. Mutex \cap Signal = {}
  BY DEF Mutex, DevMutex, Signal, Master, Private
<1>2. High \subseteq Mutex /\ SwapPool \in Mutex /\ ADL \in Mutex /\ SwapPool \notin High
  BY DEF Mutex, DevMutex, High
<1>3. ADL \in Low /\ Low \subseteq Mutex
  BY <1>2 DEF Low, High
<1>4. SwapPool \notin Owned /\ ADL \notin Owned /\ High \cap Owned = {}
  BY DEF Owned, Own, High
<1>5. ASSUME NEW p \in UProc
      PROVE  /\ Own(p) \subseteq Low /\ Own(p) \subseteq Owned
             /\ Disk(p) \in Low \ Owned /\ Flash(p) \in High
             /\ Numbered(p) \subseteq Mutex
             /\ Numbered(p) \subseteq DevMutex
  <2>1. Numbered(p) \subseteq DevMutex
    BY DEF Numbered, Own, DevMutex
  <2>2. Own(p) \subseteq Low /\ Disk(p) \in Low
    BY DEF Own, Low, High, Mutex, DevMutex
  <2>3. Own(p) \subseteq Owned /\ Disk(p) \notin Owned /\ Flash(p) \in High
    BY DEF Own, Owned, High
  <2> QED
    BY <2>1, <2>2, <2>3 DEF Mutex
<1>6. \A p, q \in UProc : p # q => Own(p) \cap Own(q) = {}
  BY DEF Own
<1>7. \A d \in Disks : Disk(d) \in Low \ Owned
  BY DEF Low, High, Mutex, DevMutex, Owned, Own
<1>8. \A u \in Units : Flash(u) \in Mutex \ Owned
  BY DEF Mutex, DevMutex, Owned, Own
<1>9. Units \cap UProc = {} => \A u \in Units : Flash(u) \in Low
  BY <1>8 DEF Low, High
<1>10. Master \in Signal /\ \A p \in UProc : Private(p) \in Signal /\ Private(p) # Master
  BY DEF Master, Private, Signal
<1>11. ADL \notin Losable /\ SwapPool \in Losable
       /\ (\A d \in Disks : Disk(d) \in Losable) /\ \A u \in Units : Flash(u) \in Losable
  BY DEF Losable
<1>12. Losable \subseteq Mutex /\ Owned \subseteq Mutex
  <2>1. Losable \subseteq Mutex
    BY <1>2, <1>3, <1>7, <1>8 DEF Losable
  <2>2. Owned \subseteq Mutex
    BY <1>3, <1>5 DEF Owned
  <2> QED
    BY <2>1, <2>2
<1> QED
  BY <1>1, <1>2, <1>3, <1>4, <1>5, <1>6, <1>7, <1>8, <1>9, <1>10, <1>11, <1>12

\* What each kind of step is about, and whose it can be.
LEMMA MoveTypes ==
  ASSUME NEW p \in Process, NEW x \in Moves(p)
  PROVE  /\ x = <<x[1], x[2]>> /\ Len(x) = 2
         /\ x[1] \in {"SYS1", "SYS2", "SYS3", "SYS4", "SYS5", "touch", "test", "release",
                      "sleep", "wake"}
         /\ x[1] = "SYS3" => x[2] \in Reach(p) \/ (p = Test /\ x[2] = Master)
         /\ x[1] = "SYS4" => x[2] \in Reach(p) \/ (p \in UProc /\ x[2] = Master)
         /\ x[1] \in {"test", "release"} => p \in UProc /\ x[2] \in Numbered(p)
         /\ x[1] = "SYS1" => p = Test /\ x[2][2] \in UProc
         /\ x[1] = "sleep" => p \in UProc /\ x[2] = ADL
         /\ x[1] \in {"SYS1", "SYS2", "touch"} => x[2] \notin Mutex
         /\ x[1] = "touch" => p \in UProc /\ x \in {Page, Address, Number, Status}
         /\ x[1] = "SYS2" => x = End(p)
<1> USE DEF P, V, Page, Address, Number, Status, End
<1>1. \A q : <<"process", q>> \notin Mutex
  BY DEF Mutex, DevMutex, Disk, Flash, Printer, Recv, Transm, SwapPool, ADL
<1>2. /\ <<"page", 0>> \notin Mutex /\ <<"address", 0>> \notin Mutex
      /\ <<"number", 0>> \notin Mutex /\ <<"status", 0>> \notin Mutex
  BY DEF Mutex, DevMutex, Disk, Flash, Printer, Recv, Transm, SwapPool, ADL
<1>3. CASE x \in ({"SYS3", "SYS4"} \X Reach(p)) \cup ({"SYS5"} \X (Mutex \cup {<<"clock", 0>>}))
  BY <1>3
<1>4. CASE x = End(p)
  BY <1>1, <1>4
<1>5. CASE p \in UProc /\ x \in {"test", "release"} \X Numbered(p)
  BY <1>5
<1>6. CASE p \in UProc /\ x \in {Page, Address, Number, Status, V(Master), <<"sleep", ADL>>}
  BY <1>2, <1>6
<1>7. CASE p = Test /\ x \in {P(Master)} \cup {<<"SYS1", <<"process", q>>>> : q \in UProc}
  BY <1>1, <1>7
<1>8. CASE x = <<"wake", ADL>>
  BY <1>8
<1> QED
  BY <1>3, <1>4, <1>5, <1>6, <1>7, <1>8 DEF Moves

\* One step is done.
LEMMA TailAfter ==
  ASSUME NEW M, NEW steps \in Seq(M), steps # <<>>
  PROVE  /\ Tail(steps) \in Seq(M) /\ Head(steps) \in M /\ Head(steps) = steps[1]
         /\ \A i \in Nat, s \in Mutex : After(Tail(steps), i, s) <=> After(steps, i+1, s)
         /\ \A s \in Mutex : Owns(Tail(steps), s) <=> After(steps, 1, s)
         /\ \A s \in Mutex : Owns(steps, s) <=> After(steps, 0, s)
<1>1. /\ Tail(steps) \in Seq(M) /\ Head(steps) \in M /\ Head(steps) = steps[1]
      /\ Len(Tail(steps)) = Len(steps) - 1
      /\ \A i \in 1..Len(Tail(steps)) : Tail(steps)[i] = steps[i+1]
      /\ Len(steps) \in Nat /\ Len(steps) > 0
      /\ DOMAIN steps = 1..Len(steps)
      /\ DOMAIN Tail(steps) = 1..Len(Tail(steps))
  BY HeadTailProperties, LenProperties, EmptySeq
<1>2. ASSUME NEW i \in Nat, NEW s \in Mutex
      PROVE  After(Tail(steps), i, s) <=> After(steps, i+1, s)
  <2>1. ASSUME After(Tail(steps), i, s) PROVE After(steps, i+1, s)
    <3>1. PICK j \in DOMAIN Tail(steps) :
            /\ j > i /\ Tail(steps)[j] \in {V(s), <<"sleep", s>>}
            /\ \A k \in i+1..j-1 : ~OnMutex(Tail(steps)[k], s)
      BY <2>1 DEF After
    <3>2. j+1 \in DOMAIN steps /\ j+1 > i+1 /\ steps[j+1] = Tail(steps)[j]
      BY <1>1, <3>1
    <3>3. \A k \in (i+1)+1..(j+1)-1 : ~OnMutex(steps[k], s)
      <4> SUFFICES ASSUME NEW k \in (i+1)+1..(j+1)-1 PROVE ~OnMutex(steps[k], s)
        OBVIOUS
      <4>1. k-1 \in i+1..j-1 /\ steps[k] = Tail(steps)[k-1]
        BY <1>1, <3>1
      <4> QED
        BY <3>1, <4>1
    <3> QED
      BY <3>1, <3>2, <3>3 DEF After
  <2>2. ASSUME After(steps, i+1, s) PROVE After(Tail(steps), i, s)
    <3>1. PICK j \in DOMAIN steps :
            /\ j > i+1 /\ steps[j] \in {V(s), <<"sleep", s>>}
            /\ \A k \in (i+1)+1..j-1 : ~OnMutex(steps[k], s)
      BY <2>2 DEF After
    <3>2. j-1 \in DOMAIN Tail(steps) /\ j-1 > i /\ steps[j] = Tail(steps)[j-1]
      BY <1>1, <3>1
    <3>3. \A k \in i+1..(j-1)-1 : ~OnMutex(Tail(steps)[k], s)
      <4> SUFFICES ASSUME NEW k \in i+1..(j-1)-1 PROVE ~OnMutex(Tail(steps)[k], s)
        OBVIOUS
      <4>1. k+1 \in (i+1)+1..j-1 /\ steps[k+1] = Tail(steps)[k]
        BY <1>1, <3>1
      <4> QED
        BY <3>1, <4>1
    <3> QED
      BY <3>1, <3>2, <3>3 DEF After
  <2> QED
    BY <2>1, <2>2
<1>3. \A t \in Seq(M) : \A s \in Mutex : Owns(t, s) <=> After(t, 0, s)
  <2> SUFFICES ASSUME NEW t \in Seq(M), NEW s \in Mutex
               PROVE  Owns(t, s) <=> After(t, 0, s)
    OBVIOUS
  <2>1. \A j \in DOMAIN t : j > 0 /\ j \in Nat
    BY LenProperties
  <2> QED
    BY <2>1 DEF Owns, After
<1>4. ASSUME NEW s \in Mutex PROVE Owns(Tail(steps), s) <=> After(steps, 1, s)
  <2>1. After(Tail(steps), 0, s) <=> After(steps, 0+1, s)
    BY <1>2
  <2>2. 0+1 = 1
    OBVIOUS
  <2> QED
    BY <1>1, <1>3, <2>1, <2>2
<1> QED
  BY <1>1, <1>2, <1>3, <1>4

\* A step less, and what is left has no other holdings than what the step left.
LEMMA TailSound ==
  ASSUME NEW M, NEW steps \in Seq(M), steps # <<>>, Sound(steps)
  PROVE  /\ Sound(Tail(steps))
         /\ \A s \in Mutex : Owns(Tail(steps), s) => Compatible(Head(steps), s)
         /\ \A s \in Mutex : Owns(Tail(steps), s) /\ ~OnMutex(Head(steps), s) => Owns(steps, s)
<1>1. /\ \A i \in Nat, s \in Mutex : After(Tail(steps), i, s) <=> After(steps, i+1, s)
      /\ \A s \in Mutex : Owns(Tail(steps), s) <=> After(steps, 1, s)
      /\ \A s \in Mutex : Owns(steps, s) <=> After(steps, 0, s)
      /\ Head(steps) = steps[1]
  BY TailAfter
<1>2. /\ Len(Tail(steps)) = Len(steps) - 1 /\ Len(steps) \in Nat /\ Len(steps) > 0
      /\ \A i \in 1..Len(Tail(steps)) : Tail(steps)[i] = steps[i+1]
      /\ DOMAIN steps = 1..Len(steps)
      /\ DOMAIN Tail(steps) = 1..Len(Tail(steps))
  BY HeadTailProperties, LenProperties, EmptySeq
<1>3. ASSUME NEW i \in DOMAIN Tail(steps), NEW s \in Mutex, After(Tail(steps), i, s)
      PROVE  Compatible(Tail(steps)[i], s)
  <2>1. i \in Nat /\ i+1 \in DOMAIN steps /\ Tail(steps)[i] = steps[i+1]
    BY <1>2
  <2> QED
    BY <1>1, <1>3, <2>1 DEF Sound
<1>4. 1 \in DOMAIN steps
  BY <1>2
<1>5. ASSUME NEW s \in Mutex, After(steps, 1, s), ~OnMutex(steps[1], s)
      PROVE  After(steps, 0, s)
  <2>1. PICK j \in DOMAIN steps :
          /\ j > 1 /\ steps[j] \in {V(s), <<"sleep", s>>}
          /\ \A k \in 1+1..j-1 : ~OnMutex(steps[k], s)
    BY <1>5 DEF After
  <2>2. j > 0 /\ \A k \in 0+1..j-1 : k = 1 \/ k \in 1+1..j-1
    BY <1>2, <2>1
  <2> QED
    BY <1>5, <2>1, <2>2 DEF After
<1> QED
  BY <1>1, <1>3, <1>4, <1>5 DEF Sound

\* What comes after a step of h is released in what is left of h, or in the rest.
LEMMA JoinAfter ==
  ASSUME NEW M, NEW h \in Seq(M), NEW rest \in Seq(M)
  PROVE  \A i \in 0..Len(h), s \in Mutex :
           After(h \o rest, i, s) => After(h, i, s) \/ Owns(rest, s)
<1> DEFINE steps == h \o rest
<1> DEFINE n == Len(h)
<1>1. /\ steps \in Seq(M) /\ Len(steps) = n + Len(rest)
      /\ \A i \in 1..n + Len(rest) : steps[i] = IF i <= n THEN h[i] ELSE rest[i - n]
      /\ n \in Nat /\ Len(rest) \in Nat
      /\ DOMAIN steps = 1..n + Len(rest) /\ DOMAIN h = 1..n /\ DOMAIN rest = 1..Len(rest)
  BY ConcatProperties, LenProperties
<1>2. /\ \A i \in 1..n : i \in DOMAIN steps /\ steps[i] = h[i]
      /\ \A i \in 1..Len(rest) : i+n \in DOMAIN steps /\ steps[i+n] = rest[i]
  BY <1>1
<1> HIDE DEF steps
<1>3. ASSUME NEW i \in 0..n, NEW s \in Mutex, After(steps, i, s)
      PROVE  After(h, i, s) \/ Owns(rest, s)
  <2>1. PICK j \in DOMAIN steps :
          /\ j > i /\ steps[j] \in {V(s), <<"sleep", s>>}
          /\ \A k \in i+1..j-1 : ~OnMutex(steps[k], s)
    BY <1>3 DEF After
  <2>2. CASE j <= n
    <3>1. j \in DOMAIN h /\ h[j] = steps[j]
      BY <1>1, <1>2, <2>2
    <3>2. \A k \in i+1..j-1 : k \in 1..n
      BY <1>1, <2>2
    <3> QED
      BY <1>2, <2>1, <3>1, <3>2 DEF After
  <2>3. CASE j > n
    <3>1. j-n \in DOMAIN rest /\ rest[j-n] = steps[j]
      BY <1>1, <2>3
    <3>2. \A k \in 1..(j-n)-1 : k+n \in i+1..j-1 /\ steps[k+n] = rest[k]
      BY <1>1, <1>2, <2>3
    <3> QED
      BY <2>1, <3>1, <3>2 DEF Owns
  <2> QED
    BY <1>1, <2>2, <2>3
<1> QED
  BY <1>3 DEF steps

\* A page fault in the middle of a call.
LEMMA JoinSound ==
  ASSUME NEW M, NEW h \in Seq(M), NEW rest \in Seq(M), Sound(h), Sound(rest),
         \A i \in DOMAIN h, s \in Mutex : Owns(rest, s) => Compatible(h[i], s),
         \A s \in Mutex : ~Owns(h, s)
  PROVE  /\ h \o rest \in Seq(M) /\ Sound(h \o rest)
         /\ \A s \in Mutex : Owns(h \o rest, s) => Owns(rest, s)
<1> DEFINE steps == h \o rest
<1> DEFINE n == Len(h)
<1>1. /\ steps \in Seq(M) /\ Len(steps) = n + Len(rest)
      /\ \A i \in 1..n + Len(rest) : steps[i] = IF i <= n THEN h[i] ELSE rest[i - n]
      /\ n \in Nat /\ Len(rest) \in Nat
      /\ DOMAIN steps = 1..n + Len(rest) /\ DOMAIN h = 1..n /\ DOMAIN rest = 1..Len(rest)
  BY ConcatProperties, LenProperties
<1>2. /\ \A i \in 1..n : i \in DOMAIN steps /\ steps[i] = h[i]
      /\ \A i \in 1..Len(rest) : i+n \in DOMAIN steps /\ steps[i+n] = rest[i]
  BY <1>1
<1> HIDE DEF steps
<1>3. \A i \in 0..n, s \in Mutex : After(steps, i, s) => After(h, i, s) \/ Owns(rest, s)
  BY JoinAfter DEF steps
<1>4. ASSUME NEW i \in DOMAIN rest, NEW s \in Mutex, After(steps, i+n, s)
      PROVE  After(rest, i, s)
  <2>1. PICK j \in DOMAIN steps :
          /\ j > i+n /\ steps[j] \in {V(s), <<"sleep", s>>}
          /\ \A k \in (i+n)+1..j-1 : ~OnMutex(steps[k], s)
    BY <1>4 DEF After
  <2>2. j-n \in DOMAIN rest /\ rest[j-n] = steps[j] /\ j-n > i
    BY <1>1, <2>1
  <2>3. \A k \in i+1..(j-n)-1 : k+n \in (i+n)+1..j-1 /\ steps[k+n] = rest[k]
    BY <1>1, <1>2, <2>2
  <2> QED
    BY <2>1, <2>2, <2>3 DEF After
<1>5. ASSUME NEW i \in DOMAIN steps, NEW s \in Mutex, After(steps, i, s)
      PROVE  Compatible(steps[i], s)
  <2>1. CASE i <= n
    <3>1. i \in 0..n /\ i \in DOMAIN h /\ steps[i] = h[i]
      BY <1>1, <1>2, <2>1
    <3> QED
      BY <1>3, <1>5, <3>1 DEF Sound
  <2>2. CASE i > n
    <3>1. i-n \in DOMAIN rest /\ steps[i] = rest[i-n] /\ (i-n)+n = i
      BY <1>1, <2>2
    <3> QED
      BY <1>4, <1>5, <3>1 DEF Sound
  <2> QED
    BY <1>1, <2>1, <2>2
<1>6. ASSUME NEW s \in Mutex, Owns(steps, s) PROVE Owns(rest, s)
  <2>1. After(steps, 0, s)
    <3>1. \A j \in DOMAIN steps : j > 0
      BY <1>1
    <3> QED
      BY <1>6, <3>1 DEF Owns, After
  <2>2. After(h, 0, s) => Owns(h, s)
    BY DEF Owns, After
  <2>3. 0 \in 0..n
    BY <1>1
  <2> QED
    BY <1>3, <2>1, <2>2, <2>3
<1> QED
  BY <1>1, <1>5, <1>6 DEF Sound, steps

\* A sequence that releases nothing.
LEMMA QuietSound ==
  ASSUME NEW M, NEW h \in Seq(M),
         \A i \in DOMAIN h : h[i][1] \in {"SYS4", "sleep"} => h[i][2] \notin Mutex
  PROVE  /\ \A s \in Mutex : ~Owns(h, s) /\ \A i : ~After(h, i, s)
         /\ Sound(h)
<1>1. ASSUME NEW j \in DOMAIN h, NEW s \in Mutex PROVE h[j] \notin {V(s), <<"sleep", s>>}
  BY DEF V
<1> QED
  BY <1>1 DEF Sound, Owns, After

\* A call: a mutex is taken, and released or slept on at the end.
LEMMA CallSound ==
  ASSUME NEW M, NEW h \in Seq(M), NEW m \in Mutex, NEW k \in DOMAIN h, h[k] = P(m),
         \A i \in DOMAIN h :
           /\ h[i][1] \in {"SYS4", "sleep"} => h[i][2] \notin Mutex \/ (h[i][2] = m /\ i = Len(h))
           /\ h[i][1] = "SYS3" => h[i][2] = m
           /\ h[i][1] = "touch" => m \in Low
           /\ h[i][1] \notin {"SYS2", "test", "release"}
  PROVE  /\ \A s \in Mutex : ~Owns(h, s)
         /\ \A s \in Mutex, i \in DOMAIN h : After(h, i, s) => s = m
         /\ Sound(h)
<1>1. Len(h) \in Nat /\ DOMAIN h = 1..Len(h)
  BY LenProperties
<1>2. ASSUME NEW j \in DOMAIN h, NEW s \in Mutex, h[j] \in {V(s), <<"sleep", s>>}
      PROVE  s = m /\ j = Len(h)
  BY <1>2 DEF V
<1>3. k < Len(h) \/ ~(h[Len(h)] \in {V(m), <<"sleep", m>>})
  BY <1>1 DEF V, P
<1>4. ASSUME NEW s \in Mutex, Owns(h, s) PROVE FALSE
  <2>1. PICK j \in DOMAIN h : /\ h[j] \in {V(s), <<"sleep", s>>}
                              /\ \A i \in 1..j-1 : ~OnMutex(h[i], s)
    BY <1>4 DEF Owns
  <2>2. s = m /\ j = Len(h)
    BY <1>2, <2>1
  <2>3. k \in 1..j-1
    BY <1>1, <1>3, <2>1, <2>2
  <2>4. OnMutex(h[k], m)
    BY DEF OnMutex, P
  <2> QED
    BY <2>1, <2>2, <2>3, <2>4
<1>5. ASSUME NEW s \in Mutex, NEW i \in DOMAIN h, After(h, i, s)
      PROVE  s = m /\ Compatible(h[i], s)
  <2>1. PICK j \in DOMAIN h : j > i /\ h[j] \in {V(s), <<"sleep", s>>}
    BY <1>5 DEF After
  <2>2. s = m /\ j = Len(h) /\ i # Len(h)
    BY <1>1, <1>2, <2>1
  <2>3. h[i][1] \in {"SYS4", "sleep"} => h[i][2] \notin Mutex
    BY <2>2
  <2>4. h[i] \in {Page, Address} => m \in Low
    BY DEF Page, Address
  <2> QED
    BY <2>2, <2>3, <2>4 DEF Compatible
<1> QED
  BY <1>4, <1>5 DEF Sound

\* The same for what is tidy.
LEMMA TailTidy ==
  ASSUME NEW M, NEW steps \in Seq(M), steps # <<>>
  PROVE  /\ Tidy(steps) => Tidy(Tail(steps))
         /\ \A s \in Mutex : Owns(steps, s) /\ ~OnMutex(Head(steps), s) => Owns(Tail(steps), s)
         /\ \A s : Checks(steps, 0, s) /\ Head(steps) \notin {<<"test", s>>, <<"release", s>>}
                     => Checks(Tail(steps), 0, s)
         /\ \A s : Checks(Tail(steps), 0, s) => Checks(steps, 0, s) /\ Checks(steps, 1, s)
         /\ Tidy(steps) =>
              /\ Head(steps)[1] = "SYS2" => Tail(steps) = <<>>
              /\ \A s \in Mutex : Head(steps) = P(s) => Owns(Tail(steps), s)
              /\ \A s \in Mutex : Head(steps)[1] = "touch" /\ Owns(Tail(steps), s) => s \in Owned \cup Losable
              /\ \A s \in Owned : Head(steps) = P(s) => ~Checks(steps, 0, s)
<1>1. /\ \A i \in Nat, s \in Mutex : After(Tail(steps), i, s) <=> After(steps, i+1, s)
      /\ \A s \in Mutex : Owns(Tail(steps), s) <=> After(steps, 1, s)
      /\ \A s \in Mutex : Owns(steps, s) <=> After(steps, 0, s)
      /\ Head(steps) = steps[1] /\ Tail(steps) \in Seq(M)
  BY TailAfter
<1>2. /\ Len(Tail(steps)) = Len(steps) - 1 /\ Len(steps) \in Nat /\ Len(steps) > 0
      /\ \A i \in 1..Len(Tail(steps)) : Tail(steps)[i] = steps[i+1]
      /\ DOMAIN steps = 1..Len(steps)
      /\ DOMAIN Tail(steps) = 1..Len(Tail(steps))
  BY HeadTailProperties, LenProperties, EmptySeq
<1>3. 1 \in DOMAIN steps
  BY <1>2
<1>4. ASSUME NEW i \in Nat, NEW s PROVE Checks(Tail(steps), i, s) <=> Checks(steps, i+1, s)
  <2>1. \A j \in DOMAIN Tail(steps) : j+1 \in DOMAIN steps /\ Tail(steps)[j] = steps[j+1]
                                      /\ (j > i => j+1 > i+1)
    BY <1>2
  <2>2. \A j \in DOMAIN steps : j > i+1 =>
          j-1 \in DOMAIN Tail(steps) /\ Tail(steps)[j-1] = steps[j] /\ j-1 > i
    BY <1>2
  <2> QED
    BY <2>1, <2>2 DEF Checks
<1>5. ASSUME NEW s PROVE Checks(Tail(steps), 0, s) <=> Checks(steps, 1, s)
  <2>1. Checks(Tail(steps), 0, s) <=> Checks(steps, 0+1, s)
    BY <1>4
  <2>2. 0+1 = 1
    OBVIOUS
  <2> QED
    BY <2>1, <2>2
<1>6. ASSUME NEW s
      PROVE  /\ Checks(steps, 1, s) => Checks(steps, 0, s)
             /\ Checks(steps, 0, s) /\ steps[1] \notin {<<"test", s>>, <<"release", s>>}
                  => Checks(steps, 1, s)
  <2>1. \A j \in DOMAIN steps : j > 0 /\ (j > 1 \/ j = 1)
    BY <1>2
  <2> QED
    BY <2>1 DEF Checks
<1>7. ASSUME NEW s \in Mutex, Owns(steps, s), ~OnMutex(steps[1], s) PROVE After(steps, 1, s)
  <2>1. PICK j \in DOMAIN steps :
          /\ steps[j] \in {V(s), <<"sleep", s>>}
          /\ \A k \in 1..j-1 : ~OnMutex(steps[k], s)
    BY <1>7 DEF Owns
  <2>2. j # 1
    BY <1>7, <2>1 DEF OnMutex, V
  <2>3. j > 1 /\ \A k \in 1+1..j-1 : k \in 1..j-1
    BY <1>2, <2>1, <2>2
  <2> QED
    BY <2>1, <2>3 DEF After
<1>8. ASSUME Tidy(steps) PROVE Tidy(Tail(steps))
  <2> SUFFICES ASSUME NEW i \in DOMAIN Tail(steps)
               PROVE  /\ Tail(steps)[i][1] = "SYS2" => i = Len(Tail(steps))
                      /\ \A s \in Mutex : Tail(steps)[i] = P(s) => After(Tail(steps), i, s)
                      /\ \A s \in Mutex : Tail(steps)[i][1] = "touch" /\ After(Tail(steps), i, s)
                                            => s \in Owned \cup Losable
                      /\ \A s \in Owned : Tail(steps)[i] = P(s) => ~Checks(Tail(steps), i, s)
    BY DEF Tidy
  <2>1. i \in Nat /\ i+1 \in DOMAIN steps /\ Tail(steps)[i] = steps[i+1]
        /\ (i+1 = Len(steps) => i = Len(Tail(steps)))
    BY <1>2
  <2> QED
    BY <1>1, <1>4, <1>8, <2>1 DEF Tidy
<1>9. ASSUME Tidy(steps)
      PROVE  /\ Head(steps)[1] = "SYS2" => Tail(steps) = <<>>
             /\ \A s \in Mutex : Head(steps) = P(s) => Owns(Tail(steps), s)
             /\ \A s \in Mutex : Head(steps)[1] = "touch" /\ Owns(Tail(steps), s) => s \in Owned \cup Losable
             /\ \A s \in Owned : Head(steps) = P(s) => ~Checks(steps, 0, s)
  <2>1. Len(Tail(steps)) = 0 => Tail(steps) = <<>>
    BY <1>1, EmptySeq
  <2>2. Head(steps)[1] = "SYS2" => Tail(steps) = <<>>
    BY <1>1, <1>2, <1>3, <1>9, <2>1 DEF Tidy
  <2>3. \A s \in Owned : steps[1] = P(s) => steps[1] \notin {<<"test", s>>, <<"release", s>>}
    BY DEF P
  <2> QED
    BY <1>1, <1>3, <1>6, <1>9, <2>2, <2>3 DEF Tidy
<1> QED
  BY <1>1, <1>5, <1>6, <1>7, <1>8, <1>9

\* Steps put before others: a page fault in the middle of a call.
LEMMA JoinTidy ==
  ASSUME NEW M, NEW h \in Seq(M), NEW rest \in Seq(M)
  PROVE  /\ \A s \in Mutex : Owns(rest, s) /\ (\A i \in DOMAIN h : ~OnMutex(h[i], s))
                               => Owns(h \o rest, s)
         /\ \A s : Checks(rest, 0, s) => Checks(h \o rest, 0, s)
         /\ /\ Tidy(rest)
            /\ \A i \in DOMAIN h :
                 /\ h[i][1] # "SYS2"
                 /\ \A s \in Mutex : h[i][1] = "touch" /\ (After(h, i, s) \/ Owns(rest, s))
                                       => s \in Owned \cup Losable
                 /\ \A s \in Owned : h[i] # P(s)
                 /\ \A s \in Mutex : h[i] = P(s) =>
                      After(h, i, s) \/ (Owns(rest, s) /\ i = Len(h))
           => Tidy(h \o rest)
<1> DEFINE steps == h \o rest
<1> DEFINE n == Len(h)
<1>1. /\ steps \in Seq(M) /\ Len(steps) = n + Len(rest)
      /\ \A i \in 1..n + Len(rest) : steps[i] = IF i <= n THEN h[i] ELSE rest[i - n]
      /\ n \in Nat /\ Len(rest) \in Nat
      /\ DOMAIN steps = 1..n + Len(rest) /\ DOMAIN h = 1..n /\ DOMAIN rest = 1..Len(rest)
  BY ConcatProperties, LenProperties
<1>2. /\ \A i \in 1..n : i \in DOMAIN steps /\ steps[i] = h[i]
      /\ \A i \in 1..Len(rest) : i+n \in DOMAIN steps /\ steps[i+n] = rest[i]
  BY <1>1
<1> HIDE DEF steps
<1>3. ASSUME NEW s \in Mutex, Owns(rest, s), \A i \in DOMAIN h : ~OnMutex(h[i], s)
      PROVE  Owns(steps, s)
  <2>1. PICK j \in DOMAIN rest :
          /\ rest[j] \in {V(s), <<"sleep", s>>}
          /\ \A k \in 1..j-1 : ~OnMutex(rest[k], s)
    BY <1>3 DEF Owns
  <2>2. j+n \in DOMAIN steps /\ steps[j+n] = rest[j]
    BY <1>1, <1>2
  <2>3. ASSUME NEW k \in 1..(j+n)-1 PROVE ~OnMutex(steps[k], s)
    <3>1. CASE k <= n
      BY <1>1, <1>2, <1>3, <3>1
    <3>2. CASE k > n
      <4>1. k-n \in 1..j-1 /\ k-n \in 1..Len(rest) /\ (k-n)+n = k
        BY <1>1, <3>2
      <4> QED
        BY <1>2, <2>1, <4>1
    <3> QED
      BY <1>1, <3>1, <3>2
  <2> QED
    BY <2>1, <2>2, <2>3 DEF Owns
<1>4. ASSUME NEW i \in DOMAIN rest, NEW s PROVE Checks(steps, i+n, s) => Checks(rest, i, s)
  <2>1. \A j \in DOMAIN steps : j > i+n => j-n \in DOMAIN rest /\ j-n > i /\ steps[j] = rest[j-n]
    BY <1>1
  <2> QED
    BY <2>1 DEF Checks
<1>5. ASSUME NEW s, Checks(rest, 0, s) PROVE Checks(steps, 0, s)
  <2>1. \A j \in DOMAIN rest : j+n \in DOMAIN steps /\ steps[j+n] = rest[j] /\ j+n > 0
    BY <1>1, <1>2
  <2> QED
    BY <1>5, <2>1 DEF Checks
<1>6. ASSUME NEW i \in DOMAIN h, NEW s \in Mutex, After(h, i, s) PROVE After(steps, i, s)
  <2>1. PICK j \in DOMAIN h :
          /\ j > i /\ h[j] \in {V(s), <<"sleep", s>>}
          /\ \A k \in i+1..j-1 : ~OnMutex(h[k], s)
    BY <1>6 DEF After
  <2>2. j \in DOMAIN steps /\ steps[j] = h[j] /\ \A k \in i+1..j-1 : steps[k] = h[k]
    BY <1>1, <1>2
  <2> QED
    BY <2>1, <2>2 DEF After
<1>7. ASSUME NEW i \in DOMAIN rest, NEW s \in Mutex
      PROVE  After(rest, i, s) <=> After(steps, i+n, s)
  <2>1. ASSUME After(steps, i+n, s) PROVE After(rest, i, s)
    <3>1. PICK j \in DOMAIN steps :
            /\ j > i+n /\ steps[j] \in {V(s), <<"sleep", s>>}
            /\ \A k \in (i+n)+1..j-1 : ~OnMutex(steps[k], s)
      BY <2>1 DEF After
    <3>2. j-n \in DOMAIN rest /\ rest[j-n] = steps[j] /\ j-n > i
      BY <1>1, <3>1
    <3>3. \A k \in i+1..(j-n)-1 : k+n \in (i+n)+1..j-1 /\ steps[k+n] = rest[k]
      BY <1>1, <1>2, <3>1
    <3> QED
      BY <3>1, <3>2, <3>3 DEF After
  <2>2. ASSUME After(rest, i, s) PROVE After(steps, i+n, s)
    <3>1. PICK j \in DOMAIN rest :
            /\ j > i /\ rest[j] \in {V(s), <<"sleep", s>>}
            /\ \A k \in i+1..j-1 : ~OnMutex(rest[k], s)
      BY <2>2 DEF After
    <3>2. j+n \in DOMAIN steps /\ rest[j] = steps[j+n] /\ j+n > i+n
      BY <1>1, <1>2, <3>1
    <3>3. \A k \in (i+n)+1..(j+n)-1 : k-n \in i+1..j-1 /\ steps[k] = rest[k-n]
      BY <1>1
    <3> QED
      BY <3>1, <3>2, <3>3 DEF After
  <2> QED
    BY <2>1, <2>2
<1>8. ASSUME NEW s \in Mutex, Owns(rest, s) PROVE After(steps, n, s)
  <2>1. PICK j \in DOMAIN rest :
          /\ rest[j] \in {V(s), <<"sleep", s>>}
          /\ \A k \in 1..j-1 : ~OnMutex(rest[k], s)
    BY <1>8 DEF Owns
  <2>2. j+n \in DOMAIN steps /\ rest[j] = steps[j+n] /\ j+n > n
    BY <1>1, <1>2
  <2>3. \A k \in n+1..(j+n)-1 : k-n \in 1..j-1 /\ steps[k] = rest[k-n]
    BY <1>1
  <2> QED
    BY <2>1, <2>2, <2>3 DEF After
<1>9. ASSUME Tidy(rest),
             \A i \in DOMAIN h :
                 /\ h[i][1] # "SYS2"
                 /\ \A s \in Mutex : h[i][1] = "touch" /\ (After(h, i, s) \/ Owns(rest, s))
                                       => s \in Owned \cup Losable
                 /\ \A s \in Owned : h[i] # P(s)
                 /\ \A s \in Mutex : h[i] = P(s) =>
                      After(h, i, s) \/ (Owns(rest, s) /\ i = Len(h))
      PROVE  Tidy(steps)
  <2> SUFFICES ASSUME NEW i \in DOMAIN steps
               PROVE  /\ steps[i][1] = "SYS2" => i = Len(steps)
                      /\ \A s \in Mutex : steps[i] = P(s) => After(steps, i, s)
                      /\ \A s \in Mutex : steps[i][1] = "touch" /\ After(steps, i, s)
                                            => s \in Owned \cup Losable
                      /\ \A s \in Owned : steps[i] = P(s) => ~Checks(steps, i, s)
    BY DEF Tidy
  <2>1. CASE i <= n
    <3>1. i \in DOMAIN h /\ steps[i] = h[i] /\ i \in 0..n
      BY <1>1, <2>1
    <3>2. \A s \in Mutex : After(steps, i, s) => After(h, i, s) \/ Owns(rest, s)
      BY <3>1, JoinAfter DEF steps
    <3> QED
      BY <1>6, <1>9, <1>8, <3>1, <3>2
  <2>2. CASE i > n
    <3>1. i-n \in DOMAIN rest /\ steps[i] = rest[i-n] /\ (i-n)+n = i
          /\ (i-n = Len(rest) => i = Len(steps))
      BY <1>1, <2>2
    <3>2. \A s \in Mutex : After(rest, i-n, s) <=> After(steps, i, s)
      BY <1>7, <3>1
    <3>3. \A s : Checks(steps, i, s) => Checks(rest, i-n, s)
      BY <1>4, <3>1
    <3> QED
      BY <1>9, <3>1, <3>2, <3>3 DEF Tidy
  <2> QED
    BY <1>1, <2>1, <2>2
<1>10. \A s \in Mutex : Owns(rest, s) /\ (\A i \in DOMAIN h : ~OnMutex(h[i], s)) => Owns(steps, s)
  BY <1>3
<1>11. \A s : Checks(rest, 0, s) => Checks(steps, 0, s)
  BY <1>5
<1> QED
  BY <1>9, <1>10, <1>11 DEF steps

\* Calls and ends are tidy.
LEMMA CallTidy ==
  ASSUME NEW M, NEW h \in Seq(M), NEW m \in Mutex, NEW k \in DOMAIN h, h[k] = P(m),
         k < Len(h), h[Len(h)] \in {V(m), <<"sleep", m>>},
         \A i \in DOMAIN h :
           /\ OnMutex(h[i], m) => i = k \/ i = Len(h)
           /\ h[i][1] = "SYS3" => h[i][2] = m
           /\ h[i][1] \notin {"SYS2", "test", "release"}
           /\ h[i][1] = "touch" => m \in Owned \cup Losable,
         \A s \in Mutex, i \in DOMAIN h : After(h, i, s) => s = m
  PROVE  Tidy(h)
<1>1. PICK n \in Nat : n = Len(h) /\ DOMAIN h = 1..n
  BY LenProperties
<1>2. After(h, k, m)
  <2>1. n \in DOMAIN h /\ k < n /\ k \in 1..n
    BY <1>1
  <2>2. ASSUME NEW i \in k+1..n-1 PROVE ~OnMutex(h[i], m)
    <3>1. i \in 1..n /\ i # k /\ i # n
      BY <2>1
    <3> QED
      BY <1>1, <3>1
  <2> QED
    BY <1>1, <2>1, <2>2 DEF After
<1>3. \A s : \A i \in DOMAIN h : h[i] = P(s) => s = m /\ i = k
  <2> SUFFICES ASSUME NEW i \in DOMAIN h, NEW s, h[i] = P(s) PROVE s = m /\ i = k
    OBVIOUS
  <2>1. s = m /\ OnMutex(h[i], m)
    BY DEF P, OnMutex
  <2>2. h[i] \notin {V(m), <<"sleep", m>>}
    BY DEF P, V
  <2> QED
    BY <2>1, <2>2
<1>4. \A i, s : ~Checks(h, i, s)
  BY DEF Checks
<1> QED
  BY <1>2, <1>3, <1>4 DEF Tidy

\* A process that has V'd the master semaphore has only its end left.
LEMMA TailEnds ==
  ASSUME NEW M, NEW steps \in Seq(M), steps # <<>>, NEW p, Ends(p, steps)
  PROVE  /\ Ends(p, Tail(steps))
         /\ Head(steps) = V(Master) => Tail(steps) # <<>> /\ Head(Tail(steps)) = End(p)
<1>1. PICK n \in Nat : n = Len(steps) /\ n > 0 /\ DOMAIN steps = 1..n /\ Head(steps) = steps[1]
  BY LenProperties, EmptySeq
<1>2. PICK t : t = Tail(steps)
  OBVIOUS
<1>3. /\ t \in Seq(M) /\ Len(t) = n - 1 /\ DOMAIN t = 1..n-1
      /\ \A i \in 1..n-1 : t[i] = steps[i+1]
  BY <1>1, <1>2, HeadTailProperties, LenProperties
<1>4. ASSUME NEW i \in 1..n-1, t[i] = V(Master) PROVE i+1 = Len(t) /\ t[i+1] = End(p)
  <2>1. i+1 \in DOMAIN steps /\ steps[i+1] = V(Master)
    BY <1>1, <1>3, <1>4
  <2>2. (i+1)+1 = n /\ steps[(i+1)+1] = End(p)
    BY <1>1, <2>1 DEF Ends
  <2>3. i+1 \in 1..n-1
    BY <1>1, <2>2
  <2> QED
    BY <1>1, <1>3, <2>2, <2>3
<1>5. ASSUME steps[1] = V(Master) PROVE t # <<>> /\ Head(t) = End(p)
  <2>1. PICK i \in DOMAIN steps : i = 1
    BY <1>1
  <2>2. i+1 = n /\ steps[i+1] = End(p)
    BY <1>1, <1>5, <2>1 DEF Ends
  <2>3. i \in 1..n-1 /\ Len(t) # 0
    <3>1. n = 2
      BY <2>1, <2>2
    <3>2. n-1 = 1
      BY <3>1
    <3>3. Len(t) = n-1
      BY <1>3
    <3> QED
      BY <2>1, <3>2, <3>3
  <2>4. t[i] = steps[i+1]
    BY <1>3, <2>3
  <2>5. t # <<>> /\ Head(t) = t[i]
    BY <1>3, <2>1, <2>3, EmptySeq
  <2> QED
    BY <2>2, <2>4, <2>5
<1> QED
  BY <1>1, <1>2, <1>3, <1>4, <1>5 DEF Ends

\* Steps put before others do not come between the two.
LEMMA JoinEnds ==
  ASSUME NEW M, NEW h \in Seq(M), NEW rest \in Seq(M), NEW p, Ends(p, rest),
         \A i \in DOMAIN h : h[i] # V(Master)
  PROVE  Ends(p, h \o rest)
<1>1. PICK n \in Nat, l \in Nat : n = Len(h) /\ l = Len(rest) /\ DOMAIN h = 1..n /\ DOMAIN rest = 1..l
  BY LenProperties
<1>2. PICK t : t = h \o rest
  OBVIOUS
<1>3. /\ t \in Seq(M) /\ Len(t) = n + l /\ DOMAIN t = 1..n+l
      /\ \A i \in 1..n+l : t[i] = IF i <= n THEN h[i] ELSE rest[i-n]
  BY <1>1, <1>2, ConcatProperties, LenProperties
<1>4. ASSUME NEW i \in 1..n+l, t[i] = V(Master) PROVE i+1 = n+l /\ t[i+1] = End(p)
  <2>1. i > n
    <3>1. i <= n => i \in DOMAIN h /\ t[i] = h[i]
      BY <1>1, <1>3
    <3> QED
      BY <1>4, <3>1
  <2>2. i-n \in DOMAIN rest /\ rest[i-n] = V(Master)
    BY <1>1, <1>3, <1>4, <2>1
  <2>3. (i-n)+1 = l /\ rest[(i-n)+1] = End(p)
    BY <1>1, <2>2 DEF Ends
  <2>4. i+1 \in 1..n+l /\ ~(i+1 <= n) /\ (i+1)-n = (i-n)+1
    BY <1>1, <2>1, <2>3
  <2> QED
    BY <1>1, <1>3, <2>3, <2>4
<1> QED
  BY <1>2, <1>3, <1>4 DEF Ends

-----------------------------------------------------------------------------
(* The handlers                                                            *)

\* What a call on m does between its P and its V.
Inside(x, m) ==
  \/ x[1] \in {"SYS5", "wake"}
  \/ x[1] = "touch" /\ m \in Owned \cup Losable

\* A call that takes one mutex of the low level and at its end releases it.
LEMMA CallBegins ==
  ASSUME NEW p \in Process, NEW h \in Seq(Moves(p)), NEW m \in Low, NEW k \in DOMAIN h,
         h[k] = P(m), k < Len(h), h[Len(h)] \in {V(m), <<"sleep", m>>},
         \A i \in DOMAIN h : i = k \/ i = Len(h) \/ Inside(h[i], m)
  PROVE  Begins(p, h)
<1>1. m \in Mutex
  BY DEF Low
<1>2. \A i \in DOMAIN h : h[i] \in Moves(p)
  BY ElementOfSeq, LenProperties
<1>3. h[k][1] = "SYS3" /\ h[k][2] = m
  BY DEF P
<1>4. h[Len(h)][1] \in {"SYS4", "sleep"} /\ h[Len(h)][2] = m
  BY DEF V
<1>5. ASSUME NEW i \in DOMAIN h, Inside(h[i], m)
      PROVE  ~OnMutex(h[i], m) /\ h[i][1] \in {"SYS5", "wake", "touch"}
             /\ (h[i][1] = "touch" => m \in Owned \cup Losable)
  <2>1. h[i][1] = "touch" => h[i][2] \notin Mutex
    BY <1>2, MoveTypes
  <2> QED
    BY <1>1, <1>5, <2>1 DEF Inside, OnMutex
<1>7. /\ \A s \in Mutex : ~Owns(h, s)
      /\ \A s \in Mutex, i \in DOMAIN h : After(h, i, s) => s = m
      /\ Sound(h)
  <2>1. \A i \in DOMAIN h :
           /\ h[i][1] \in {"SYS4", "sleep"} => h[i][2] \notin Mutex \/ (h[i][2] = m /\ i = Len(h))
           /\ h[i][1] = "SYS3" => h[i][2] = m
           /\ h[i][1] = "touch" => m \in Low
           /\ h[i][1] \notin {"SYS2", "test", "release"}
    BY <1>3, <1>4, <1>5
  <2> QED
    BY <1>1, <2>1, CallSound
<1>8. Tidy(h)
  <2>1. \A i \in DOMAIN h :
           /\ OnMutex(h[i], m) => i = k \/ i = Len(h)
           /\ h[i][1] = "SYS3" => h[i][2] = m
           /\ h[i][1] \notin {"SYS2", "test", "release"}
           /\ h[i][1] = "touch" => m \in Owned \cup Losable
    BY <1>3, <1>4, <1>5
  <2> QED
    BY <1>1, <1>7, <2>1, CallTidy
<1>9. Ends(p, h)
  <2>1. m # Master
    BY <1>1, MutexTypes
  <2>2. \A i \in DOMAIN h : h[i] # V(Master)
    BY <1>3, <1>4, <1>5, <2>1 DEF V
  <2> QED
    BY <2>2 DEF Ends
<1> QED
  BY <1>7, <1>8, <1>9 DEF Begins, Good

\* A call on a device with or without a character.
LEMMA BracketBegins ==
  ASSUME NEW p \in Process, NEW m \in Low, NEW a \in Seq(Moves(p)), NEW c \in Seq(Moves(p)),
         V(m) \in Moves(p), 1 \in DOMAIN a, a[1] = P(m),
         \A i \in DOMAIN a : i = 1 \/ Inside(a[i], m),
         \A i \in DOMAIN c : Inside(c[i], m)
  PROVE  Begins(p, a \o c \o <<V(m)>>)
<1>1. PICK h : h = a \o c \o <<V(m)>>
  OBVIOUS
<1>2. PICK n \in Nat, l \in Nat : n = Len(a) /\ l = Len(c) /\ DOMAIN a = 1..n /\ DOMAIN c = 1..l
  BY LenProperties
<1>3. PICK b \in Seq(Moves(p)) :
        /\ b = a \o c /\ Len(b) = n + l
        /\ \A i \in 1..n+l : b[i] = IF i <= n THEN a[i] ELSE c[i-n]
  <2>1. /\ a \o c \in Seq(Moves(p)) /\ Len(a \o c) = n + l
        /\ \A i \in 1..n+l : (a \o c)[i] = IF i <= n THEN a[i] ELSE c[i-n]
    BY <1>2, ConcatProperties
  <2> QED
    BY <2>1
<1>4. PICK z \in Seq(Moves(p)) : z = <<V(m)>> /\ Len(z) = 1 /\ z[1] = V(m)
  <2>1. <<V(m)>> \in Seq(Moves(p)) /\ Len(<<V(m)>>) = 1 /\ <<V(m)>>[1] = V(m)
    OBVIOUS
  <2> QED
    BY <2>1, Zenon
<1>5. /\ h \in Seq(Moves(p)) /\ Len(h) = n + l + 1
      /\ \A i \in 1..n+l+1 : h[i] = IF i <= n+l THEN b[i] ELSE z[i-(n+l)]
  <2>1. h = b \o z
    BY <1>1, <1>3, <1>4
  <2>2. /\ b \o z \in Seq(Moves(p)) /\ Len(b \o z) = Len(b) + Len(z)
        /\ \A i \in 1..Len(b)+Len(z) :
             (b \o z)[i] = IF i <= Len(b) THEN b[i] ELSE z[i-Len(b)]
    BY ConcatProperties
  <2>3. Len(b) + Len(z) = n + l + 1
    BY <1>3, <1>4
  <2> QED
    BY <1>3, <2>1, <2>2, <2>3, Zenon
<1>6. DOMAIN h = 1..n+l+1
  BY <1>5, LenProperties
<1>7. 1 \in DOMAIN h /\ 1 < Len(h) /\ h[1] = a[1]
  BY <1>2, <1>3, <1>5, <1>6
<1>8. h[Len(h)] = V(m)
  <2>1. /\ n+l+1 \in 1..n+l+1 /\ ~(n+l+1 <= n+l) /\ (n+l+1)-(n+l) = 1
    BY <1>2
  <2>2. h[n+l+1] = z[1]
    BY <1>5, <2>1
  <2> QED
    BY <1>4, <1>5, <2>2
<1>9. ASSUME NEW i \in DOMAIN h PROVE i = 1 \/ i = Len(h) \/ Inside(h[i], m)
  <2>1. CASE i <= n
    <3>1. i \in DOMAIN a /\ h[i] = a[i]
      BY <1>2, <1>3, <1>5, <1>6, <2>1
    <3> QED
      BY <3>1
  <2>2. CASE i > n /\ i <= n+l
    <3>1. i-n \in DOMAIN c /\ h[i] = c[i-n]
      BY <1>2, <1>3, <1>5, <1>6, <2>2
    <3> QED
      BY <3>1
  <2>3. CASE i > n+l
    <3>1. i = n + l + 1
      BY <1>6, <2>3
    <3> QED
      BY <1>5, <3>1
  <2> QED
    BY <1>2, <1>6, <2>1, <2>2, <2>3
<1> QED
  BY <1>1, <1>5, <1>7, <1>8, <1>9, CallBegins

\* get_nuked: it takes nothing, and it looks at every mutex of its own.
LEMMA NukedBegins ==
  ASSUME NEW p \in UProc
  PROVE  /\ Begins(p, get_nuked(p))
         /\ \A s \in Own(p) : Checks(get_nuked(p), 0, s)
<1> DEFINE h == get_nuked(p)
<1>1. p \in Process
  BY Processes
<1>2. h \in Seq(Moves(p)) /\ Len(h) = 7 /\ DOMAIN h = 1..7
  BY DEF get_nuked, Moves, Numbered, Own
<1>3. /\ h[1] = <<"test", Disk(p)>> /\ h[2] = <<"test", Flash(p)>>
      /\ h[3] = <<"test", Printer(p)>> /\ h[4] = <<"test", Recv(p)>>
      /\ h[5] = <<"test", Transm(p)>> /\ h[6] = V(Master) /\ h[7] = End(p)
  BY DEF get_nuked
<1> HIDE DEF h
<1>4. Master \notin Mutex
  BY MutexTypes
<1>5. \A i \in DOMAIN h : h[i][1] \in {"SYS4", "sleep"} => h[i][2] \notin Mutex
  BY <1>2, <1>3, <1>4 DEF V, End
<1>6. (\A s \in Mutex : ~Owns(h, s) /\ \A i : ~After(h, i, s)) /\ Sound(h)
  BY <1>2, <1>5, QuietSound
<1>7. \A i \in DOMAIN h : /\ h[i][1] = "SYS2" => i = 7
                          /\ h[i][1] \notin {"SYS3", "touch"}
  BY <1>2, <1>3 DEF V, End
<1>8. \A s : P(s)[1] = "SYS3"
  BY DEF P
<1>9. Tidy(h)
  BY <1>2, <1>7, <1>8 DEF Tidy
<1>10. ASSUME NEW s \in Own(p) PROVE Checks(h, 0, s)
  <2>1. \E j \in 1..7 : h[j] = <<"test", s>>
    BY <1>3 DEF Own
  <2>2. \A j \in 1..7 : j \in DOMAIN h /\ j > 0
    BY <1>2
  <2> QED
    BY <2>1, <2>2 DEF Checks
<1>11. Ends(p, h)
  <2>1. \A i \in 1..7 : h[i] = V(Master) => i = 6
    BY <1>3 DEF V, End
  <2> QED
    BY <1>2, <1>3, <2>1 DEF Ends
<1> QED
  BY <1>2, <1>6, <1>9, <1>10, <1>11 DEF Begins, Good, h

\* The steps of the pager.
Paging == ({"SYS3", "SYS4", "SYS5"} \X (High \cup {SwapPool})) \cup {Status}

\* The pager's steps take nothing of the low level.
LEMMA PagingMoves ==
  ASSUME NEW p \in UProc
  PROVE  /\ Paging \subseteq Moves(p)
         /\ \A x \in Paging : /\ x[1] \in {"SYS3", "SYS4", "SYS5", "touch"}
                              /\ x # V(Master) /\ \A s \in Owned : x # P(s)
                              /\ \A s \in Low : Compatible(x, s) /\ ~OnMutex(x, s)
<1>1. High \cup {SwapPool} \subseteq Reach(p)
  <2>1. \A q \in UProc : Own(q) \subseteq Owned
    BY MutexTypes
  <2> QED
    BY <2>1, MutexTypes DEF Reach
<1>2. Paging \subseteq Moves(p)
  BY <1>1, MutexTypes DEF Paging, Moves
<1>3. ASSUME NEW x \in {"SYS3", "SYS4", "SYS5"} \X (High \cup {SwapPool})
      PROVE  /\ x[1] \in {"SYS3", "SYS4", "SYS5"} /\ x \notin {Page, Address}
             /\ x[2] \in High \cup {SwapPool}
             /\ x # V(Master) /\ \A s \in Owned : x # P(s)
  BY MutexTypes DEF Page, Address, P, V
<1>4. ASSUME NEW x \in {"SYS3", "SYS4", "SYS5"} \X (High \cup {SwapPool}), NEW s \in Low
      PROVE  Compatible(x, s) /\ ~OnMutex(x, s)
  BY <1>3 DEF Compatible, OnMutex, Precedes, Low
<1>5. /\ Status[1] = "touch" /\ Status \notin {Page, Address} /\ Status # V(Master)
      /\ \A s : Status # P(s)
  BY DEF Status, Page, Address, P, V
<1>6. Status \in Moves(p) /\ p \in Process
  BY <1>2, Processes DEF Paging
<1>7. Status[2] \notin Mutex
  BY <1>5, <1>6, MoveTypes
<1>8. \A s \in Low : Compatible(Status, s) /\ ~OnMutex(Status, s)
  BY <1>5, <1>7 DEF Compatible, OnMutex, Low
<1> QED
  BY <1>2, <1>3, <1>4, <1>5, <1>8 DEF Paging

\* flash_read_write, of whatever page.
LEMMA FlashSound ==
  ASSUME NEW q \in UProc, NEW h, h = flash_read_write(q)
  PROVE  /\ h \in Seq(Paging) /\ Sound(h) /\ Tidy(h)
         /\ \A s \in Mutex : ~Owns(h, s)
         /\ \A i \in DOMAIN h : /\ ~OnMutex(h[i], SwapPool) /\ Compatible(h[i], SwapPool)
                                /\ \A s \in Mutex : h[i] = P(s) => After(h, i, s)
<1> DEFINE m == Flash(q)
<1>1. m \in High /\ m \in Mutex /\ m # SwapPool /\ SwapPool \in Mutex
  BY MutexTypes
<1> HIDE DEF m
<1>2. PICK z : z = Status
  OBVIOUS
<1>3. z \in Paging /\ z[1] = "touch" /\ z \notin {Page, Address} /\ \A s : z # P(s)
  BY <1>2 DEF Paging, Status, Page, Address, P
<1>4. z[2] \notin Mutex
  BY <1>3, PagingMoves, MoveTypes, Processes
<1>5. /\ h = <<<<"SYS3", m>>, <<"SYS5", m>>, <<"SYS4", m>>, z>>
      /\ P(m) = <<"SYS3", m>> /\ V(m) = <<"SYS4", m>>
  BY <1>2 DEF m, flash_read_write, P, V, IO
<1>6. h \in Seq(Paging) /\ DOMAIN h = 1..4
  BY <1>1, <1>3, <1>5 DEF Paging
<1>7. h[1] = P(m) /\ h[2] = <<"SYS5", m>> /\ h[3] = V(m) /\ h[4] = z
  BY <1>5
<1>8. ASSUME NEW s \in Mutex, NEW j \in 1..4, h[j] \in {V(s), <<"sleep", s>>}
      PROVE  s = m /\ j = 3
  BY <1>3, <1>7, <1>8 DEF P, V
<1>9. \A s \in Mutex, i \in DOMAIN h : After(h, i, s) => s = m /\ i < 3
  BY <1>6, <1>8 DEF After
<1>10. \A s \in Mutex : ~Owns(h, s)
  <2> SUFFICES ASSUME NEW s \in Mutex, Owns(h, s) PROVE FALSE
    OBVIOUS
  <2>1. PICK j \in DOMAIN h : /\ h[j] \in {V(s), <<"sleep", s>>}
                              /\ \A k \in 1..j-1 : ~OnMutex(h[k], s)
    BY DEF Owns
  <2>2. s = m /\ j = 3
    BY <1>6, <1>8, <2>1
  <2> QED
    BY <1>7, <2>1, <2>2 DEF OnMutex, P
<1>11. After(h, 1, m)
  <2>1. \A k \in 1+1..3-1 : k = 2
    OBVIOUS
  <2> QED
    BY <1>6, <1>7, <2>1 DEF After, OnMutex
<1>12. \A i \in DOMAIN h, s \in Mutex : h[i] = P(s) => i = 1 /\ s = m
  BY <1>3, <1>6, <1>7 DEF P, V
<1>13. Sound(h)
  <2>1. \A i \in 1..2 : Compatible(h[i], m)
    BY <1>7 DEF Compatible, P, Page, Address
  <2> QED
    BY <1>6, <1>9, <2>1 DEF Sound
<1>14. Tidy(h)
  <2>1. \A i \in 1..4 : h[i][1] # "SYS2" /\ (h[i][1] = "touch" => i = 4)
                        /\ \A s \in Mutex : h[i] \notin {<<"test", s>>, <<"release", s>>}
    BY <1>3, <1>7 DEF P, V
  <2>2. \A i, s : s \in Mutex => ~Checks(h, i, s)
    BY <1>6, <2>1 DEF Checks
  <2>3. Owned \subseteq Mutex
    BY MutexTypes
  <2> QED
    BY <1>6, <1>9, <1>11, <1>12, <2>1, <2>2, <2>3 DEF Tidy
<1>15. \A i \in DOMAIN h : ~OnMutex(h[i], SwapPool) /\ Compatible(h[i], SwapPool)
  BY <1>1, <1>3, <1>4, <1>6, <1>7 DEF OnMutex, Compatible, Precedes, P, V, Page, Address
<1> QED
  BY <1>6, <1>10, <1>11, <1>12, <1>13, <1>14, <1>15

\* A page fault takes the pool, a flash device after it, and releases both.
LEMMA FaultBegins ==
  ASSUME NEW p \in UProc, NEW h \in tlb_exception_handler(p)
  PROVE  Begins(p, h) /\ h \in Seq(Paging)
<1> DEFINE Rest(r) == /\ r \in Seq(Paging) /\ Sound(r) /\ Tidy(r) /\ Owns(r, SwapPool)
                      /\ \A s \in Mutex : Owns(r, s) => s = SwapPool
<1>1. PICK out \in {<<>>} \cup {flash_read_write(q) : q \in UProc} :
        h = <<P(SwapPool)>> \o out \o flash_read_write(p) \o <<V(SwapPool)>>
  BY DEF tlb_exception_handler
<1>2. PICK z : z = <<V(SwapPool)>>
  OBVIOUS
<1>3. PICK a : a = <<P(SwapPool)>>
  OBVIOUS
<1>4. PICK r : r = flash_read_write(p)
  OBVIOUS
<1>5. p \in Process /\ SwapPool \in Mutex \ (Owned \cup Low)
  BY Processes, MutexTypes DEF Low
<1>6. /\ z \in Seq(Paging) /\ DOMAIN z = 1..1 /\ Len(z) = 1 /\ z[1] = <<"SYS4", SwapPool>>
      /\ a \in Seq(Paging) /\ DOMAIN a = 1..1 /\ Len(a) = 1 /\ a[1] = <<"SYS3", SwapPool>>
  BY <1>2, <1>3 DEF Paging, P, V
<1>7. Rest(z)
  <2>1. Owns(z, SwapPool) /\ \A s \in Mutex : Owns(z, s) => s = SwapPool
    <3>1. 1 \in DOMAIN z /\ z[1] = V(SwapPool) /\ \A k \in 1..1-1 : FALSE
      BY <1>6 DEF V
    <3>2. Owns(z, SwapPool)
      BY <3>1 DEF Owns
    <3>3. \A s \in Mutex : Owns(z, s) => s = SwapPool
      BY <1>6 DEF Owns, V
    <3> QED
      BY <3>2, <3>3
  <2>2. \A s, i : i \in DOMAIN z => ~After(z, i, s)
    BY <1>6 DEF After
  <2>3. Sound(z)
    BY <2>2 DEF Sound
  <2>4. Tidy(z)
    BY <1>6 DEF Tidy, P
  <2> QED
    BY <1>6, <2>1, <2>3, <2>4
<1>8. ASSUME NEW q \in UProc, NEW t, Rest(t) PROVE Rest(flash_read_write(q) \o t)
  <2>1. PICK g : g = flash_read_write(q)
    OBVIOUS
  <2>2. /\ g \in Seq(Paging) /\ Sound(g) /\ Tidy(g)
        /\ \A s \in Mutex : ~Owns(g, s)
        /\ \A i \in DOMAIN g : /\ ~OnMutex(g[i], SwapPool) /\ Compatible(g[i], SwapPool)
                               /\ \A s \in Mutex : g[i] = P(s) => After(g, i, s)
    BY <2>1, FlashSound
  <2>3. \A i \in DOMAIN g :
          /\ g[i][1] # "SYS2" /\ \A s \in Owned : g[i] # P(s)
          /\ \A s \in Mutex : g[i][1] = "touch" /\ (After(g, i, s) \/ Owns(t, s))
                                => s \in Owned \cup Losable
    <3>1. \A i \in DOMAIN g : g[i] \in Paging
      BY <2>2, ElementOfSeq, LenProperties
    <3>2. \A i \in DOMAIN g : g[i][1] # "SYS2" /\ \A s \in Owned : g[i] # P(s)
      BY <1>5, <3>1, PagingMoves
    <3>3. \A s \in Mutex : Owns(t, s) => s \in Losable
      BY <1>8, MutexTypes
    <3> QED
      BY <2>2, <3>2, <3>3 DEF Tidy
  <2>4. \A i \in DOMAIN g, s \in Mutex : Owns(t, s) => Compatible(g[i], s)
    BY <1>8, <2>2
  <2>5. /\ g \o t \in Seq(Paging) /\ Sound(g \o t)
        /\ \A s \in Mutex : Owns(g \o t, s) => Owns(t, s)
    BY <1>8, <2>2, <2>4, JoinSound
  <2>6. Tidy(g \o t) /\ Owns(g \o t, SwapPool)
    BY <1>5, <1>8, <2>2, <2>3, JoinTidy
  <2> QED
    BY <1>8, <2>1, <2>5, <2>6
<1>9. PICK t : Rest(t) /\ h = a \o t
  <2>1. Rest(r \o z)
    BY <1>4, <1>7, <1>8
  <2>2. r \in Seq(Paging)
    BY <1>4, FlashSound
  <2>3. CASE out = <<>>
    <3>1. a \o out = a
      BY <1>6, <2>3, ConcatEmptySeq
    <3>2. (a \o r) \o z = a \o (r \o z)
      BY <1>6, <2>2, ConcatAssociative
    <3> QED
      BY <1>1, <1>2, <1>3, <1>4, <2>1, <3>1, <3>2
  <2>4. CASE out \in {flash_read_write(q) : q \in UProc}
    <3>1. Rest(out \o (r \o z)) /\ out \in Seq(Paging)
      BY <1>8, <2>1, <2>4, FlashSound
    <3>2. PICK b : b = a \o out
      OBVIOUS
    <3>3. PICK c : c = r \o z
      OBVIOUS
    <3>4. b \in Seq(Paging) /\ c \in Seq(Paging)
      BY <1>6, <2>1, <3>1, <3>2, <3>3, ConcatProperties
    <3>5. (b \o r) \o z = b \o c
      BY <1>6, <2>2, <3>3, <3>4, ConcatAssociative
    <3>6. b \o c = a \o (out \o c)
      <4>1. a \in Seq(Paging) /\ out \in Seq(Paging) /\ c \in Seq(Paging)
        BY <1>6, <3>1, <3>4
      <4>2. (a \o out) \o c = a \o (out \o c)
        <5>1. \A u \in Seq(Paging), v \in Seq(Paging), w \in Seq(Paging) :
                (u \o v) \o w = u \o (v \o w)
          BY ConcatAssociative
        <5> QED
          BY <4>1, <5>1, Zenon
      <4> QED
        BY <3>2, <4>2, Zenon
    <3>7. h = (b \o r) \o z
      BY <1>1, <1>2, <1>3, <1>4, <3>2
    <3> QED
      BY <3>1, <3>3, <3>5, <3>6, <3>7
  <2> QED
    BY <1>1, <2>3, <2>4
<1>10. /\ Sound(a) /\ \A s \in Mutex : ~Owns(a, s)
  BY <1>6, QuietSound
<1>11. \A i \in DOMAIN a, s \in Mutex : Owns(t, s) => Compatible(a[i], s)
  BY <1>6, <1>9 DEF Compatible, Page, Address
<1>12. /\ h \in Seq(Paging) /\ Sound(h) /\ \A s \in Mutex : Owns(h, s) => s = SwapPool
  BY <1>6, <1>9, <1>10, <1>11, JoinSound
<1>13. Tidy(h)
  <2>1. \A i \in DOMAIN a :
          /\ a[i][1] \notin {"SYS2", "touch"} /\ \A s \in Owned : a[i] # P(s)
          /\ \A s \in Mutex : a[i] = P(s) => Owns(t, s) /\ i = Len(a)
    BY <1>5, <1>6, <1>9 DEF P
  <2> QED
    BY <1>6, <1>9, <2>1, JoinTidy
<1>14. ~Owns(h, SwapPool)
  <2>1. h[1] = a[1] /\ DOMAIN h = 1..Len(h) /\ Len(h) \in Nat
    <3>1. \A i \in 1..Len(a) + Len(t) : (a \o t)[i] = IF i <= Len(a) THEN a[i] ELSE t[i-Len(a)]
      BY <1>6, <1>9, ConcatProperties
    <3>2. Len(t) \in Nat
      BY <1>9, LenProperties
    <3> QED
      BY <1>6, <1>9, <1>12, <3>1, <3>2, LenProperties
  <2>2. OnMutex(h[1], SwapPool) /\ h[1] \notin {V(SwapPool), <<"sleep", SwapPool>>}
    BY <1>6, <2>1 DEF OnMutex, V
  <2> QED
    BY <2>1, <2>2 DEF Owns
<1>15. h \in Seq(Moves(p))
  BY <1>5, <1>12, PagingMoves, SeqMonotonic
<1>16. Ends(p, h)
  <2>1. \A i \in DOMAIN h : h[i] \in Paging
    BY <1>12, ElementOfSeq, LenProperties
  <2> QED
    BY <1>5, <2>1, PagingMoves DEF Ends
<1> QED
  BY <1>12, <1>13, <1>14, <1>15, <1>16 DEF Begins, Good

\* The steps of a call on one device.
LEMMA DeviceMoves ==
  ASSUME NEW p \in UProc, NEW m \in Low, m \in Own(p) \/ m \notin Owned
  PROVE  /\ {P(m), V(m), IO(m), Page, Address, Number} \subseteq Moves(p)
         /\ Inside(IO(m), m)
         /\ m \in Owned \cup Losable => Inside(Page, m) /\ Inside(Address, m) /\ Inside(Number, m)
<1>1. m \in Mutex /\ \A q \in UProc : Own(q) \subseteq Owned
  BY MutexTypes
<1>2. m \in Reach(p)
  BY <1>1, MutexTypes DEF Reach
<1>3. {P(m), V(m), IO(m), Page, Address, Number} \subseteq Moves(p)
  BY <1>1, <1>2 DEF Moves, P, V, IO
<1> QED
  BY <1>3 DEF Inside, IO, Page, Address, Number

\* No character or one.
LEMMA NoneOrTwo ==
  ASSUME NEW S, NEW x \in S, NEW y \in S, NEW c, c = <<>> \/ c = <<x, y>>
  PROVE  c \in Seq(S) /\ \A i \in DOMAIN c : c[i] \in {x, y}
<1>1. CASE c = <<>>
  BY <1>1
<1>2. CASE c = <<x, y>>
  BY <1>2
<1> QED
  BY <1>1, <1>2

\* SYS11.
LEMMA PrinterBegins == ASSUME NEW p \in UProc, NEW h \in write_to_printer(p) PROVE Begins(p, h)
<1> DEFINE m == Printer(p)
<1>1. m \in Low /\ m \in Own(p) /\ m \in Owned /\ p \in Process
  BY MutexTypes, Processes DEF Own
<1> HIDE DEF m
<1>2. PICK c \in {<<>>, <<Address, IO(m)>>} : h = <<P(m)>> \o c \o <<V(m)>>
  BY DEF write_to_printer, m
<1>3. {P(m), V(m), IO(m), Address} \subseteq Moves(p) /\ Inside(IO(m), m) /\ Inside(Address, m)
  BY <1>1, DeviceMoves
<1>4. c \in Seq(Moves(p)) /\ \A i \in DOMAIN c : Inside(c[i], m)
  <2>1. PICK x, y : x = Address /\ y = IO(m)
    OBVIOUS
  <2>2. c = <<>> \/ c = <<x, y>>
    BY <1>2, <2>1
  <2>3. c \in Seq(Moves(p)) /\ \A i \in DOMAIN c : c[i] \in {x, y}
    BY <1>3, <2>1, <2>2, NoneOrTwo
  <2> QED
    BY <1>3, <2>1, <2>3
<1>5. PICK a : a = <<P(m)>>
  OBVIOUS
<1>6. /\ a \in Seq(Moves(p)) /\ 1 \in DOMAIN a /\ a[1] = P(m)
      /\ \A i \in DOMAIN a : i = 1 \/ Inside(a[i], m)
  BY <1>3, <1>5
<1>7. Begins(p, a \o c \o <<V(m)>>)
  BY <1>1, <1>3, <1>4, <1>6, BracketBegins
<1> QED
  BY <1>2, <1>5, <1>7

\* SYS12.
LEMMA WriteBegins == ASSUME NEW p \in UProc, NEW h \in write_to_terminal(p) PROVE Begins(p, h)
<1> DEFINE m == Transm(p)
<1>1. m \in Low /\ m \in Own(p) /\ m \in Owned /\ p \in Process
  BY MutexTypes, Processes DEF Own
<1> HIDE DEF m
<1>2. CASE h = get_nuked(p)
  BY <1>2, NukedBegins
<1>3. CASE \E c \in {<<>>, <<Page, IO(m)>>} : h = <<P(m)>> \o c \o <<V(m)>>
  <2>2. PICK c \in {<<>>, <<Page, IO(m)>>} : h = <<P(m)>> \o c \o <<V(m)>>
    BY <1>3
  <2>3. {P(m), V(m), IO(m), Page} \subseteq Moves(p) /\ Inside(IO(m), m) /\ Inside(Page, m)
    BY <1>1, DeviceMoves
  <2>4. c \in Seq(Moves(p)) /\ \A i \in DOMAIN c : Inside(c[i], m)
    <3>1. PICK x, y : x = Page /\ y = IO(m)
      OBVIOUS
    <3>2. c = <<>> \/ c = <<x, y>>
      BY <2>2, <3>1
    <3>3. c \in Seq(Moves(p)) /\ \A i \in DOMAIN c : c[i] \in {x, y}
      BY <2>3, <3>1, <3>2, NoneOrTwo
    <3> QED
      BY <2>3, <3>1, <3>3
  <2>5. PICK a : a = <<P(m)>>
    OBVIOUS
  <2>6. /\ a \in Seq(Moves(p)) /\ 1 \in DOMAIN a /\ a[1] = P(m)
        /\ \A i \in DOMAIN a : i = 1 \/ Inside(a[i], m)
    BY <2>3, <2>5
  <2>7. Begins(p, a \o c \o <<V(m)>>)
    BY <1>1, <2>3, <2>4, <2>6, BracketBegins
  <2> QED
    BY <2>2, <2>5, <2>7
<1> QED
  BY <1>2, <1>3 DEF write_to_terminal, m

\* SYS13.
LEMMA ReadBegins == ASSUME NEW p \in UProc, NEW h \in read_from_terminal(p) PROVE Begins(p, h)
<1> DEFINE m == Recv(p)
<1>1. m \in Low /\ m \in Own(p) /\ m \in Owned /\ p \in Process
  BY MutexTypes, Processes DEF Own
<1> HIDE DEF m
<1>2. CASE h = get_nuked(p)
  BY <1>2, NukedBegins
<1>3. CASE \E c \in {<<>>, <<Address, IO(m)>>} : h = <<P(m), IO(m)>> \o c \o <<V(m)>>
  <2>2. PICK c \in {<<>>, <<Address, IO(m)>>} : h = <<P(m), IO(m)>> \o c \o <<V(m)>>
    BY <1>3
  <2>3. {P(m), V(m), IO(m), Address} \subseteq Moves(p) /\ Inside(IO(m), m) /\ Inside(Address, m)
    BY <1>1, DeviceMoves
  <2>4. c \in Seq(Moves(p)) /\ \A i \in DOMAIN c : Inside(c[i], m)
    <3>1. PICK x, y : x = Address /\ y = IO(m)
      OBVIOUS
    <3>2. c = <<>> \/ c = <<x, y>>
      BY <2>2, <3>1
    <3>3. c \in Seq(Moves(p)) /\ \A i \in DOMAIN c : c[i] \in {x, y}
      BY <2>3, <3>1, <3>2, NoneOrTwo
    <3> QED
      BY <2>3, <3>1, <3>3
  <2>5. PICK a : a = <<P(m), IO(m)>>
    OBVIOUS
  <2>6. /\ a \in Seq(Moves(p)) /\ 1 \in DOMAIN a /\ a[1] = P(m)
        /\ \A i \in DOMAIN a : i = 1 \/ Inside(a[i], m)
    BY <2>3, <2>5
  <2>7. Begins(p, a \o c \o <<V(m)>>)
    BY <1>1, <2>3, <2>4, <2>6, BracketBegins
  <2> QED
    BY <2>2, <2>5, <2>7
<1> QED
  BY <1>2, <1>3 DEF read_from_terminal, m

\* The disk and the flash device: no more than five steps.
LEMMA BlockBegins ==
  ASSUME NEW p \in UProc, NEW m \in Low, m \in Losable, m \notin Owned, NEW h,
         h \in {<<P(m), Address, IO(m), V(m)>>, <<P(m), Address, IO(m), IO(m), V(m)>>,
                <<P(m), IO(m), V(m)>>, <<P(m), IO(m), IO(m), V(m)>>,
                <<P(m), IO(m), IO(m), Address, V(m)>>,
                <<P(m), Number, Address, IO(m), V(m)>>, <<P(m), Number, IO(m), V(m)>>,
                <<P(m), Number, IO(m), Address, V(m)>>}
  PROVE  Begins(p, h)
<1>1. /\ {P(m), V(m), IO(m), Address, Number} \subseteq Moves(p)
      /\ Inside(IO(m), m) /\ Inside(Address, m) /\ Inside(Number, m)
  BY DeviceMoves
<1>2. PICK x, y, w, u, v : x = P(m) /\ y = Address /\ w = Number /\ u = IO(m) /\ v = V(m)
  OBVIOUS
<1>3. h \in {<<x, y, u, v>>, <<x, y, u, u, v>>, <<x, u, v>>, <<x, u, u, v>>,
             <<x, u, u, y, v>>, <<x, w, y, u, v>>, <<x, w, u, v>>, <<x, w, u, y, v>>}
  BY <1>2
<1>4. {x, v, u, y, w} \subseteq Moves(p) /\ Inside(u, m) /\ Inside(y, m) /\ Inside(w, m)
  BY <1>1, <1>2
<1>5. /\ h \in Seq(Moves(p)) /\ 1 \in DOMAIN h /\ 1 < Len(h) /\ h[1] = x /\ h[Len(h)] = v
      /\ \A i \in DOMAIN h : i = 1 \/ i = Len(h) \/ Inside(h[i], m)
  <2>1. CASE h = <<x, y, u, v>>
    BY <1>4, <2>1
  <2>2. CASE h = <<x, y, u, u, v>>
    BY <1>4, <2>2
  <2>3. CASE h = <<x, u, v>>
    BY <1>4, <2>3
  <2>4. CASE h = <<x, u, u, v>>
    BY <1>4, <2>4
  <2>5. CASE h = <<x, u, u, y, v>>
    BY <1>4, <2>5
  <2>6. CASE h = <<x, w, y, u, v>>
    BY <1>4, <2>6
  <2>7. CASE h = <<x, w, u, v>>
    BY <1>4, <2>7
  <2>8. CASE h = <<x, w, u, y, v>>
    BY <1>4, <2>8
  <2> QED
    BY <1>3, <2>1, <2>2, <2>3, <2>4, <2>5, <2>6, <2>7, <2>8
<1>6. p \in Process
  BY Processes
<1> QED
  BY <1>2, <1>5, <1>6, CallBegins

\* SYS14 and SYS15.
LEMMA DiskBegins ==
  ASSUME NEW p \in UProc, NEW h \in disk_put(p) \cup disk_get(p) PROVE Begins(p, h)
<1> DEFINE A1(m) == <<P(m), Address, IO(m), V(m)>>
           A2(m) == <<P(m), Address, IO(m), IO(m), V(m)>>
           A3(m) == <<P(m), IO(m), V(m)>>
           A4(m) == <<P(m), IO(m), IO(m), V(m)>>
           A5(m) == <<P(m), IO(m), IO(m), Address, V(m)>>
<1>1. CASE h = get_nuked(p)
  BY <1>1, NukedBegins
<1>2. ASSUME NEW d \in Disks,
             h \in {A1(Disk(d)), A2(Disk(d)), A3(Disk(d)), A4(Disk(d)), A5(Disk(d))}
      PROVE  Begins(p, h)
  <2> PICK m : m = Disk(d)
    OBVIOUS
  <2>1. m \in Low /\ m \notin Owned /\ m \in Losable
    BY <1>2, MutexTypes
  <2> QED
    BY <1>2, <2>1, BlockBegins
<1> DEFINE Puts(d) == {A1(Disk(d)), A2(Disk(d))}
           Gets(d) == {A3(Disk(d)), A4(Disk(d)), A5(Disk(d))}
<1>3. /\ disk_put(p) = {get_nuked(p)} \cup UNION {Puts(d) : d \in Disks}
      /\ disk_get(p) = {get_nuked(p)} \cup UNION {Gets(d) : d \in Disks}
  BY DEF disk_put, disk_get
<1> HIDE DEF A1, A2, A3, A4, A5, Puts, Gets
<1>4. h = get_nuked(p) \/ \E d \in Disks : h \in Puts(d) \/ h \in Gets(d)
  BY <1>3
<1>5. ASSUME NEW d \in Disks, h \in Puts(d) \/ h \in Gets(d) PROVE Begins(p, h)
  BY <1>2, <1>5 DEF Puts, Gets
<1> QED
  BY <1>1, <1>4, <1>5

\* SYS16 and SYS17: here the flash device must be nobody's backing store.
LEMMA FlashBegins ==
  ASSUME Units \cap UProc = {}, NEW p \in UProc, NEW h \in flashOperation(p)
  PROVE  Begins(p, h)
<1> DEFINE A1(m) == <<P(m), Number, Address, IO(m), V(m)>>
           A2(m) == <<P(m), Number, IO(m), V(m)>>
           A3(m) == <<P(m), Number, IO(m), Address, V(m)>>
<1>1. CASE h = get_nuked(p)
  BY <1>1, NukedBegins
<1>2. ASSUME NEW u \in Units, h \in {A1(Flash(u)), A2(Flash(u)), A3(Flash(u))}
      PROVE  Begins(p, h)
  <2> PICK m : m = Flash(u)
    OBVIOUS
  <2>1. m \in Low /\ m \notin Owned /\ m \in Losable
    BY <1>2, MutexTypes
  <2> QED
    BY <1>2, <2>1, BlockBegins
<1> DEFINE Ways(u) == {A1(Flash(u)), A2(Flash(u)), A3(Flash(u))}
<1>3. flashOperation(p) = {get_nuked(p)} \cup UNION {Ways(u) : u \in Units}
  BY DEF flashOperation
<1> HIDE DEF A1, A2, A3, Ways
<1>4. h = get_nuked(p) \/ \E u \in Units : h \in Ways(u)
  BY <1>3
<1>5. ASSUME NEW u \in Units, h \in Ways(u) PROVE Begins(p, h)
  BY <1>2, <1>5 DEF Ways
<1> QED
  BY <1>1, <1>4, <1>5

\* SYS18: it releases the delay list by going to sleep.
LEMMA SleepBegins == ASSUME NEW p \in UProc, NEW h \in sys18Handler(p) PROVE Begins(p, h)
<1>1. CASE h = get_nuked(p)
  BY <1>1, NukedBegins
<1>2. CASE h = <<P(ADL), <<"sleep", ADL>>>>
  <2>1. P(ADL) \in Moves(p) /\ <<"sleep", ADL>> \in Moves(p) /\ ADL \in Low /\ p \in Process
    <3>1. ADL \in Low /\ ADL \notin Owned
      BY MutexTypes
    <3> QED
      BY <3>1, DeviceMoves, Processes DEF Moves
  <2>2. PICK x, y : x = P(ADL) /\ y = <<"sleep", ADL>>
    OBVIOUS
  <2>3. /\ h \in Seq(Moves(p)) /\ 1 \in DOMAIN h /\ 1 < Len(h) /\ h[1] = x /\ h[Len(h)] = y
        /\ \A i \in DOMAIN h : i = 1 \/ i = Len(h)
    BY <1>2, <2>1, <2>2
  <2> QED
    BY <2>1, <2>2, <2>3, CallBegins
<1> QED
  BY <1>1, <1>2 DEF sys18Handler

\* A round of the delay daemon.
LEMMA DaemonBegins == Begins(Daemon, delayDaemon)
<1>1. PICK x, y, u, v : /\ x = IO(<<"clock", 0>>) /\ y = P(ADL)
                        /\ u = <<"wake", ADL>> /\ v = V(ADL)
  OBVIOUS
<1>2. ADL \in Low /\ Daemon \in Process
  BY MutexTypes, Processes
<1>3. {x, y, u, v} \subseteq Moves(Daemon)
  <2>1. ADL \in Reach(Daemon)
    BY <1>2, MutexTypes DEF Reach
  <2> QED
    BY <1>1, <2>1 DEF Moves, IO, P, V
<1>4. Inside(x, ADL) /\ Inside(u, ADL)
  BY <1>1 DEF Inside, IO
<1>5. PICK h : h = delayDaemon
  OBVIOUS
<1>6. h = <<x, y, u, v>>
  BY <1>1, <1>5 DEF delayDaemon
<1>7. /\ h \in Seq(Moves(Daemon)) /\ 2 \in DOMAIN h /\ 2 < Len(h) /\ h[2] = y /\ h[Len(h)] = v
      /\ \A i \in DOMAIN h : i = 2 \/ i = Len(h) \/ Inside(h[i], ADL)
  BY <1>3, <1>4, <1>6
<1>8. h[2] = P(ADL) /\ h[Len(h)] \in {V(ADL), <<"sleep", ADL>>}
  BY <1>1, <1>7
<1>9. Begins(Daemon, h)
  BY <1>2, <1>7, <1>8, CallBegins
<1> QED
  BY <1>5, <1>9

\* The instantiator.
LEMMA TestBegins == Begins(Test, test)
<1> DEFINE n == 2 * MaxUProcs + 1
<1>1. n \in Nat /\ MaxUProcs \in Nat /\ n > 0
  BY SupportAssumption
<1>2. test = [i \in 1..n |->
                CASE i <= MaxUProcs -> <<"SYS1", <<"process", i>>>>
                  [] i \in MaxUProcs+1..2*MaxUProcs -> P(Master)
                  [] OTHER -> End(Test)]
  BY DEF test
<1>3. \A i \in 1..n : /\ test[i] \in {<<"SYS1", <<"process", i>>>>, P(Master), End(Test)}
                      /\ test[i] = <<"SYS1", <<"process", i>>>> => i \in UProc
                      /\ test[i] = End(Test) => i = n
  BY <1>1, <1>2 DEF P, End, UProc
<1>4. \A i \in 1..n : test[i] \in Moves(Test)
  BY <1>3 DEF Moves
<1>5. DOMAIN test = 1..n /\ test \in [1..n -> Moves(Test)]
  BY <1>2, <1>4
<1> HIDE DEF n
<1>6. test \in Seq(Moves(Test)) /\ Len(test) = n
  <2>1. test \in Seq(Moves(Test))
    BY <1>1, <1>5, SeqDef
  <2> QED
    BY <1>1, <1>5, <2>1, LenProperties
<1>7. \A i \in DOMAIN test : test[i][1] \in {"SYS1", "SYS2", "SYS3"}
                             /\ (test[i][1] = "SYS2" => i = n)
                             /\ (test[i][1] = "SYS3" => test[i][2] = Master)
  BY <1>3, <1>5 DEF P, End
<1>8. Sound(test) /\ \A s \in Mutex : ~Owns(test, s)
  BY <1>6, <1>7, QuietSound
<1>9. Tidy(test)
  <2>1. \A s \in Mutex : P(s)[1] = "SYS3" /\ P(s)[2] = s /\ s # Master
    BY MutexTypes DEF P
  <2>2. Owned \subseteq Mutex
    BY MutexTypes
  <2> QED
    BY <1>6, <1>7, <2>1, <2>2 DEF Tidy
<1>10. Ends(Test, test)
  BY <1>7 DEF Ends, V
<1> QED
  BY <1>6, <1>8, <1>9, <1>10 DEF Begins, Good

\* Whatever a program calls.
LEMMA HandlerBegins ==
  ASSUME Units \cap UProc = {}, NEW p \in UProc, NEW c \in Menu[p] \cup {"SYS9", "TLB"},
         NEW h \in Handlers[p][c]
  PROVE  Begins(p, h)
<1>1. c \in {"TLB", "SYS9", "SYS11", "SYS12", "SYS13", "SYS14", "SYS15", "SYS16", "SYS18"}
  BY SupportAssumption DEF UProc
<1>2. h \in tlb_exception_handler(p) \cup {get_nuked(p)} \cup write_to_printer(p)
            \cup write_to_terminal(p) \cup read_from_terminal(p) \cup disk_put(p)
            \cup disk_get(p) \cup flashOperation(p) \cup sys18Handler(p)
  BY <1>1 DEF Handlers
<1> QED
  BY <1>2, FaultBegins, NukedBegins, PrinterBegins, WriteBegins, ReadBegins, DiskBegins,
     FlashBegins, SleepBegins

-----------------------------------------------------------------------------
(* The steps                                                               *)

\* The types, and what is left of every handler.
Types ==
  /\ sem \in Semaphores(Mutex \cup Signal, Process)
  /\ calls \in [UProc -> 0..MaxCalls]
  /\ alive \subseteq Process /\ adl \subseteq UProc
  /\ DOMAIN todo = Process /\ \A p \in Process : Good(p, todo[p])
  /\ left \subseteq Owned \cup Losable /\ freed \subseteq DevMutex

\* What is left of a handler stays good.
LEMMA TailGood ==
  ASSUME NEW p, NEW steps, Good(p, steps), steps # <<>>
  PROVE  Good(p, Tail(steps))
BY TailAfter, TailSound, TailTidy, TailEnds DEF Good

\* SYS4 done unasked, at the end of a process that finds a 0.
Release(m) == <<<<"release", m>>>>
LooksAt(x, m) == x = <<"test", m>>

\* It stays good when get_nuked finds a 0 and goes to release the mutex.
LEMMA ReleaseGood ==
  ASSUME NEW p \in Process, NEW steps, Good(p, steps), steps # <<>>,
         NEW m, LooksAt(Head(steps), m), NEW t, t = Release(m) \o Tail(steps)
  PROVE  /\ Good(p, t) /\ Checks(t, 0, m)
         /\ \A s \in Mutex : Owns(t, s) => Owns(Tail(steps), s)
         /\ \A s \in Mutex : s # m /\ Owns(Tail(steps), s) => Owns(t, s)
         /\ \A s : Checks(Tail(steps), 0, s) => Checks(t, 0, s)
<1>1. /\ Tail(steps) \in Seq(Moves(p)) /\ Head(steps) \in Moves(p) /\ Sound(Tail(steps))
      /\ Ends(p, Tail(steps)) /\ Tidy(Tail(steps))
      /\ \A s \in Mutex : Owns(Tail(steps), s) => Compatible(Head(steps), s)
  BY TailAfter, TailSound, TailTidy, TailEnds DEF Good
<1>2. p \in UProc /\ m \in Numbered(p)
  BY <1>1, MoveTypes DEF LooksAt
<1>3. PICK a : a = Release(m)
  OBVIOUS
<1>4. <<"release", m>> \in Moves(p)
  BY <1>2 DEF Moves
<1>5. a \in Seq(Moves(p)) /\ DOMAIN a = 1..1 /\ Len(a) = 1 /\ a[1] = <<"release", m>>
  BY <1>3, <1>4 DEF Release
<1>6. Sound(a) /\ \A s \in Mutex : ~Owns(a, s)
  BY <1>5, QuietSound
<1>7. \A i \in DOMAIN a, s \in Mutex : Owns(Tail(steps), s) => Compatible(a[i], s)
  BY <1>1, <1>5 DEF Compatible, LooksAt, Page, Address
<1>8. t \in Seq(Moves(p)) /\ Sound(t) /\ \A s \in Mutex : Owns(t, s) => Owns(Tail(steps), s)
  BY <1>1, <1>3, <1>5, <1>6, <1>7, JoinSound
<1>9. \A i \in DOMAIN a : /\ a[i][1] \notin {"SYS2", "touch"}
                          /\ \A s : a[i] # P(s)
                          /\ \A s : s # m => ~OnMutex(a[i], s)
  BY <1>5 DEF P, OnMutex
<1>10. /\ Tidy(t)
       /\ \A s \in Mutex : s # m /\ Owns(Tail(steps), s) => Owns(t, s)
       /\ \A s : Checks(Tail(steps), 0, s) => Checks(t, 0, s)
  BY <1>1, <1>3, <1>5, <1>9, JoinTidy
<1>11. Checks(t, 0, m)
  <2>1. 1 \in DOMAIN t /\ t[1] = a[1]
    <3>1. /\ Len(t) = Len(a) + Len(Tail(steps))
          /\ \A i \in 1..Len(a) + Len(Tail(steps)) :
               t[i] = IF i <= Len(a) THEN a[i] ELSE Tail(steps)[i-Len(a)]
      BY <1>1, <1>3, <1>5, ConcatProperties
    <3>2. Len(Tail(steps)) \in Nat /\ DOMAIN t = 1..Len(t)
      BY <1>1, <1>8, LenProperties
    <3>3. 1 \in 1..Len(a) + Len(Tail(steps)) /\ 1 <= Len(a)
      BY <1>5, <3>2
    <3> QED
      BY <3>1, <3>2, <3>3
  <2>2. t[1] \in {<<"test", m>>, <<"release", m>>}
    BY <1>5, <2>1
  <2>3. 1 > 0
    OBVIOUS
  <2> QED
    BY <2>1, <2>2, <2>3 DEF Checks
<1>12. Ends(p, t)
  <2>1. \A i \in DOMAIN a : a[i] # V(Master)
    BY <1>5 DEF V
  <2> QED
    BY <1>1, <1>3, <1>5, <2>1, JoinEnds
<1> QED
  BY <1>8, <1>10, <1>11, <1>12 DEF Good

\* A page fault in the middle of a call.
LEMMA FaultGood ==
  ASSUME NEW p \in UProc, NEW steps, Good(p, steps), steps # <<>>,
         Head(steps) \in {Page, Address},
         NEW h \in tlb_exception_handler(p), NEW t, t = h \o Tail(steps)
  PROVE  /\ Good(p, t)
         /\ \A s \in Mutex : Owns(t, s) => Owns(Tail(steps), s)
         /\ \A s \in Mutex : Owns(Tail(steps), s) => Owns(t, s)
         /\ \A s : Checks(Tail(steps), 0, s) => Checks(t, 0, s)
<1>1. /\ Tail(steps) \in Seq(Moves(p)) /\ Sound(Tail(steps))
      /\ Ends(p, Tail(steps)) /\ Tidy(Tail(steps))
      /\ \A s \in Mutex : Owns(Tail(steps), s) => s \in Low
      /\ \A s \in Mutex : Owns(Tail(steps), s) => s \in Owned \cup Losable
  <2>1. Head(steps)[1] = "touch"
    BY DEF Page, Address
  <2> QED
    BY <2>1, TailAfter, TailSound, TailTidy, TailEnds DEF Good, Compatible
<1>2. /\ p \in Process /\ h \in Seq(Moves(p)) /\ Sound(h) /\ h \in Seq(Paging)
      /\ Tidy(h)
      /\ \A s \in Mutex : ~Owns(h, s)
  BY FaultBegins, Processes DEF Begins, Good
<1>3. \A i \in DOMAIN h : h[i] \in Paging
  BY <1>2, ElementOfSeq, LenProperties
<1>4. \A i \in DOMAIN h : /\ h[i][1] # "SYS2" /\ h[i] # V(Master)
                          /\ \A s \in Owned : h[i] # P(s)
                          /\ \A s \in Low : Compatible(h[i], s) /\ ~OnMutex(h[i], s)
  BY <1>2, <1>3, PagingMoves
<1>5. t \in Seq(Moves(p)) /\ Sound(t) /\ \A s \in Mutex : Owns(t, s) => Owns(Tail(steps), s)
  BY <1>1, <1>2, <1>4, JoinSound
<1>6. /\ \A s \in Mutex : Owns(Tail(steps), s) => Owns(t, s)
      /\ \A s : Checks(Tail(steps), 0, s) => Checks(t, 0, s)
  BY <1>1, <1>2, <1>4, JoinTidy
<1>7. Tidy(t)
  <2>1. \A i \in DOMAIN h, s \in Mutex :
          /\ h[i] = P(s) => After(h, i, s)
          /\ h[i][1] = "touch" /\ After(h, i, s) => s \in Owned \cup Losable
    BY <1>2 DEF Tidy
  <2> QED
    BY <1>1, <1>2, <1>4, <2>1, JoinTidy
<1>8. Ends(p, t)
  BY <1>1, <1>2, <1>4, JoinEnds
<1> QED
  BY <1>5, <1>6, <1>7, <1>8 DEF Good

\* What a step of p does, to the others, to who is alive, and to the mutexes:
\* it leaves them alone, does a P on one, or a V.
Others(p) == \A q \in Process \ {p} : todo'[q] = todo[q]
Lives(p) ==
  \/ alive' = {} \/ alive' = alive
  \/ /\ alive' = alive \ {p}
     /\ \A s \in Mutex : ~Owns(todo[p], s) /\ ~Owns(todo'[p], s)
     /\ \A s : ~Checks(todo[p], 0, s)
  \/ \E q \in UProc : alive' = alive \cup {q}
Quiet(p) ==
  /\ \A s \in Mutex : sem'[s] = sem[s]
  /\ left \subseteq left' /\ freed' = freed
  /\ \A s \in Mutex :
       /\ Owns(todo'[p], s) => Owns(todo[p], s)
       /\ Owns(todo[p], s) => \/ Owns(todo'[p], s)
                              \/ s \in left' /\ (s \in Owned => Checks(todo'[p], 0, s))
       /\ s \in left' \ left => Owns(todo[p], s) /\ ~Owns(todo'[p], s)
       /\ p \in UProc /\ s \in Own(p) /\ Checks(todo[p], 0, s)
            => Checks(todo'[p], 0, s) \/ sem[s].val # 0
Only(s) == \A t \in Mutex \ {s} : sem'[t] = sem[t]
Takes(p, s) ==
  /\ todo[p] # <<>> /\ Head(todo[p]) = P(s) /\ todo'[p] = Tail(todo[p]) /\ Only(s)
  /\ left' = left /\ freed' = freed
  /\ sem'[s].val = sem[s].val - 1
  /\ sem[s].val > 0 => sem'[s].queue = sem[s].queue
  /\ ~(sem[s].val > 0) => sem'[s].queue = Append(sem[s].queue, p)
Gives(p, s) ==
  /\ todo[p] # <<>> /\ todo'[p] = Tail(todo[p]) /\ Only(s)
  /\ \/ Head(todo[p]) \in {V(s), <<"sleep", s>>}
     \/ Head(todo[p]) = <<"release", s>> /\ p \in UProc /\ s \in Numbered(p)
        /\ (s \in left \/ s \in freed')
  /\ left' = left \ {s} /\ freed \subseteq freed'
  /\ sem'[s].val = sem[s].val + 1
  /\ sem[s].val < 0 /\ sem[s].queue # <<>> => sem'[s].queue = Tail(sem[s].queue)
  /\ sem[s].val >= 0 \/ sem[s].queue = <<>> => sem'[s].queue = sem[s].queue
Did(p) ==
  /\ p \in alive /\ (\A s \in Mutex : ~WaitsFor(p, s))
  /\ Others(p) /\ Lives(p)
  /\ Quiet(p) \/ \E s \in Mutex : Takes(p, s) \/ Gives(p, s)

\* Who has s is about to release it or busy with something else.
LEMMA HeadOwns ==
  ASSUME NEW M, NEW steps \in Seq(M), steps # <<>>, NEW s
  PROVE  /\ Owns(steps, s) /\ OnMutex(Head(steps), s) => Head(steps) \in {V(s), <<"sleep", s>>}
         /\ Head(steps) \in {V(s), <<"sleep", s>>} => Owns(steps, s)
<1>1. Head(steps) = steps[1] /\ 1 \in DOMAIN steps /\ \A j \in DOMAIN steps : j \in Nat /\ j > 0
  BY LenProperties, EmptySeq
<1>2. ASSUME Owns(steps, s), OnMutex(Head(steps), s)
      PROVE  Head(steps) \in {V(s), <<"sleep", s>>}
  <2>1. PICK j \in DOMAIN steps :
          /\ steps[j] \in {V(s), <<"sleep", s>>}
          /\ \A k \in 1..j-1 : ~OnMutex(steps[k], s)
    BY <1>2 DEF Owns
  <2>2. ~(1 \in 1..j-1)
    BY <1>1, <1>2, <2>1
  <2>3. j = 1
    BY <1>1, <2>2
  <2> QED
    BY <1>1, <2>1, <2>3
<1>3. ASSUME steps[1] \in {V(s), <<"sleep", s>>} PROVE Owns(steps, s)
  <2>1. \A k \in 1..1-1 : FALSE
    OBVIOUS
  <2> QED
    BY <1>1, <1>3, <2>1 DEF Owns
<1> QED
  BY <1>1, <1>2, <1>3

\* A step of p moves p on and nobody else.
LEMMA GotoFacts ==
  ASSUME Types, NEW p \in Process, Able(p), NEW t, Goto(p, t), Good(p, t)
  PROVE  /\ DOMAIN todo' = Process /\ \A q \in Process : Good(q, todo'[q])
         /\ todo'[p] = t /\ Others(p)
         /\ p \in alive /\ \A s \in Mutex : ~WaitsFor(p, s)
<1>1. DOMAIN sem = Mutex \cup Signal
  BY DEF Types, Semaphores
<1>2. p \in alive /\ \A s \in Mutex : ~WaitsFor(p, s)
  BY <1>1 DEF Able, Blocked, WaitsFor
<1>3. todo' = [todo EXCEPT ![p] = t] /\ DOMAIN todo = Process
  BY DEF Goto, Types
<1>4. /\ DOMAIN todo' = Process /\ todo'[p] = t
      /\ \A q \in Process \ {p} : todo'[q] = todo[q]
  BY <1>3
<1> QED
  BY <1>2, <1>4 DEF Others, Types

\* The step at the head is done.
LEMMA DoneFacts ==
  ASSUME Types, NEW p \in Process, NEW op, At(p, op), Done(p)
  PROVE  /\ DOMAIN todo' = Process /\ \A q \in Process : Good(q, todo'[q])
         /\ todo[p] # <<>> /\ todo'[p] = Tail(todo[p]) /\ Others(p)
         /\ p \in alive /\ \A s \in Mutex : ~WaitsFor(p, s)
         /\ Head(todo[p]) \in Moves(p) /\ Head(todo[p])[1] = op
         /\ Arg(p) = Head(todo[p])[2] /\ Head(todo[p]) = <<op, Arg(p)>>
<1>1. Good(p, todo[p]) /\ todo[p] # <<>> /\ Able(p) /\ Head(todo[p])[1] = op
  BY DEF Types, At
<1>2. Good(p, Tail(todo[p])) /\ Head(todo[p]) \in Moves(p)
  BY <1>1, TailGood, TailAfter DEF Good
<1>3. Head(todo[p]) = <<op, Arg(p)>>
  BY <1>1, <1>2, MoveTypes DEF Arg
<1> QED
  BY <1>1, <1>2, <1>3, GotoFacts DEF Done, Arg

\* A step on no mutex.
LEMMA QuietTail ==
  ASSUME Types, NEW p \in Process, todo[p] # <<>>, todo'[p] = Tail(todo[p]),
         \A s \in Mutex : sem'[s] = sem[s],
         \A s \in Mutex : OnMutex(Head(todo[p]), s) =>
           Head(todo[p]) = <<"test", s>> /\ sem[s].val # 0,
         Head(todo[p])[1] # "release", left' = left, freed' = freed
  PROVE  Quiet(p)
<1>1. Good(p, todo[p])
  BY DEF Types
<1>2. /\ \A s \in Mutex : Owns(Tail(todo[p]), s) /\ ~OnMutex(Head(todo[p]), s) => Owns(todo[p], s)
      /\ \A s \in Mutex : Owns(todo[p], s) /\ ~OnMutex(Head(todo[p]), s) => Owns(Tail(todo[p]), s)
      /\ \A s : Checks(todo[p], 0, s) /\ Head(todo[p]) \notin {<<"test", s>>, <<"release", s>>}
                     => Checks(Tail(todo[p]), 0, s)
      /\ Head(todo[p]) \in Moves(p)
      /\ \A s \in Mutex : Owns(Tail(todo[p]), s) => Compatible(Head(todo[p]), s)
  BY <1>1, TailAfter, TailSound, TailTidy DEF Good
<1>3. \A s \in Mutex : Head(todo[p]) = <<"test", s>> => ~Owns(Tail(todo[p]), s)
  BY <1>2 DEF Compatible
<1>4. \A s \in Mutex : Head(todo[p]) = <<"test", s>> => ~Owns(todo[p], s)
  <2>1. \A s : <<"test", s>> \notin {V(s), <<"sleep", s>>} /\ OnMutex(<<"test", s>>, s)
    BY DEF V, OnMutex
  <2> QED
    BY <1>1, <2>1, HeadOwns DEF Good
<1>5. \A s \in Mutex : Head(todo[p]) = <<"test", s>> => sem[s].val # 0
  <2>1. \A s : OnMutex(<<"test", s>>, s)
    BY DEF OnMutex
  <2> QED
    BY <2>1
<1>6. \A s : Head(todo[p]) # <<"release", s>>
  OBVIOUS
<1>7. \A s \in Mutex : Owns(todo'[p], s) => Owns(todo[p], s)
  BY <1>2, <1>3
<1>8. \A s \in Mutex : Owns(todo[p], s) => Owns(todo'[p], s)
  BY <1>2, <1>4
<1>9. \A s \in Mutex : Checks(todo[p], 0, s) => Checks(todo'[p], 0, s) \/ sem[s].val # 0
  BY <1>2, <1>5, <1>6
<1> QED
  BY <1>7, <1>8, <1>9 DEF Quiet

\* A process in its program.
LEMMA NothingLeft ==
  /\ \A s : ~Owns(<<>>, s) /\ ~Checks(<<>>, 0, s)
  /\ \A p : Good(p, <<>>)
<1>1. DOMAIN <<>> = {}
  OBVIOUS
<1>2. \A s : ~Owns(<<>>, s) /\ ~Checks(<<>>, 0, s)
  BY <1>1 DEF Owns, Checks
<1>3. Sound(<<>>) /\ Tidy(<<>>) /\ \A p : Ends(p, <<>>)
  BY <1>1 DEF Sound, Tidy, Ends
<1>4. \A p : <<>> \in Seq(Moves(p))
  OBVIOUS
<1> QED
  BY <1>2, <1>3, <1>4 DEF Good

\* From here on a lemma for each action: it keeps the types and does
\* to the mutexes what Did says.
LEMMA ExceptionStep ==
  ASSUME Types, Units \cap UProc = {}, NEW p \in Process, Exception(p)
  PROVE  Types' /\ Did(p)
<1>1. p \in UProc /\ Able(p) /\ todo[p] = <<>>
  BY DEF Exception
<1>2. PICK t : Goto(p, t) /\ Begins(p, t)
  <2>1. PICK c \in Menu[p] \cup {"SYS9", "TLB"} : \E steps \in Handlers[p][c] : Goto(p, steps)
    BY DEF Exception
  <2> QED
    BY <1>1, <2>1, HandlerBegins
<1>3. Good(p, t) /\ \A s \in Mutex : ~Owns(t, s)
  BY <1>2 DEF Begins
<1>4. /\ DOMAIN todo' = Process /\ \A q \in Process : Good(q, todo'[q])
      /\ todo'[p] = t /\ Others(p)
      /\ p \in alive /\ \A s \in Mutex : ~WaitsFor(p, s)
  BY <1>1, <1>2, <1>3, GotoFacts
<1>5. calls' \in [UProc -> 0..MaxCalls]
  <2>1. calls[p] \in 0..MaxCalls /\ MaxCalls \in Nat
    BY <1>1, SupportAssumption DEF Types
  <2>2. calls[p] > 0 => calls[p] - 1 \in 0..MaxCalls
    BY <2>1
  <2> QED
    BY <2>2 DEF Exception, Types
<1>6. sem' = sem /\ adl' = adl /\ alive' = alive /\ left' = left /\ freed' = freed
  BY DEF Exception
<1>7. Types'
  BY <1>4, <1>5, <1>6 DEF Types
<1>8. Quiet(p)
  BY <1>1, <1>3, <1>4, <1>6, NothingLeft DEF Quiet
<1> QED
  BY <1>4, <1>6, <1>7, <1>8 DEF Did, Lives

LEMMA SYS1Step ==
  ASSUME Types, NEW p \in Process, SYS1(p)
  PROVE  Types' /\ Did(p)
<1>1. At(p, "SYS1") /\ Done(p) /\ calls' = calls /\ sem' = sem /\ adl' = adl
      /\ left' = left /\ freed' = freed /\ alive' = alive \cup {Arg(p)[2]}
  BY DEF SYS1
<1>2. /\ DOMAIN todo' = Process /\ \A q \in Process : Good(q, todo'[q])
      /\ todo[p] # <<>> /\ todo'[p] = Tail(todo[p]) /\ Others(p)
      /\ p \in alive /\ \A s \in Mutex : ~WaitsFor(p, s)
      /\ Head(todo[p]) \in Moves(p) /\ Head(todo[p])[1] = "SYS1"
      /\ Arg(p) = Head(todo[p])[2] /\ Head(todo[p]) = <<"SYS1", Arg(p)>>
  BY <1>1, DoneFacts
<1>3. Arg(p) \notin Mutex /\ Arg(p)[2] \in UProc
  BY <1>2, MoveTypes
<1>4. Quiet(p)
  BY <1>1, <1>2, <1>3, QuietTail DEF OnMutex
<1>5. Types'
  BY <1>1, <1>2, <1>3, Processes DEF Types
<1> QED
  BY <1>1, <1>2, <1>3, <1>4, <1>5 DEF Did, Lives

LEMMA SYS2Step ==
  ASSUME Types, NEW p \in Process, SYS2(p)
  PROVE  Types' /\ Did(p)
<1>1. At(p, "SYS2") /\ Done(p) /\ calls' = calls /\ sem' = sem /\ adl' = adl
      /\ left' = left /\ freed' = freed
      /\ (alive' = {} \/ alive' = alive \ {p})
  BY DEF SYS2
<1>2. /\ DOMAIN todo' = Process /\ \A q \in Process : Good(q, todo'[q])
      /\ todo[p] # <<>> /\ todo'[p] = Tail(todo[p]) /\ Others(p)
      /\ p \in alive /\ \A s \in Mutex : ~WaitsFor(p, s)
      /\ Head(todo[p]) \in Moves(p) /\ Head(todo[p])[1] = "SYS2"
      /\ Arg(p) = Head(todo[p])[2] /\ Head(todo[p]) = <<"SYS2", Arg(p)>>
  BY <1>1, DoneFacts
<1>3. Arg(p) \notin Mutex
  BY <1>2, MoveTypes
<1>4. Quiet(p)
  BY <1>1, <1>2, <1>3, QuietTail DEF OnMutex
<1>5. Types'
  BY <1>1, <1>2 DEF Types
<1>6. todo[p] \in Seq(Moves(p)) /\ Sound(todo[p]) /\ Tidy(todo[p])
  BY DEF Types, Good
<1>7. \A s \in Mutex : ~Owns(todo[p], s) /\ ~Owns(todo'[p], s)
  <2>1. \A s \in Mutex : ~Compatible(Head(todo[p]), s) /\ ~OnMutex(Head(todo[p]), s)
    BY <1>2, <1>3 DEF Compatible, OnMutex
  <2> QED
    BY <1>2, <1>6, <2>1, TailSound, TailTidy
<1>8. \A s : ~Checks(todo[p], 0, s)
  <2>1. Tail(todo[p]) = <<>>
    BY <1>2, <1>6, TailTidy
  <2>2. \A s : Checks(todo[p], 0, s) => Checks(Tail(todo[p]), 0, s)
    BY <1>2, <1>6, TailTidy
  <2> QED
    BY <2>1, <2>2, NothingLeft
<1> QED
  BY <1>1, <1>2, <1>4, <1>5, <1>7, <1>8 DEF Did, Lives

LEMMA SYS3Step ==
  ASSUME Types, NEW p \in Process, SYS3(p)
  PROVE  Types' /\ Did(p)
<1>1. At(p, "SYS3") /\ Done(p) /\ calls' = calls /\ alive' = alive /\ adl' = adl
      /\ left' = left /\ freed' = freed
      /\ sem' = passeren(sem, Arg(p), p)
  BY DEF SYS3
<1>2. /\ DOMAIN todo' = Process /\ \A q \in Process : Good(q, todo'[q])
      /\ todo[p] # <<>> /\ todo'[p] = Tail(todo[p]) /\ Others(p)
      /\ p \in alive /\ \A s \in Mutex : ~WaitsFor(p, s)
      /\ Head(todo[p]) \in Moves(p) /\ Head(todo[p])[1] = "SYS3"
      /\ Arg(p) = Head(todo[p])[2] /\ Head(todo[p]) = <<"SYS3", Arg(p)>>
  BY <1>1, DoneFacts
<1>3. Arg(p) \in Mutex \/ Arg(p) = Master
  BY <1>2, MoveTypes DEF Reach
<1>4. Master \in Signal /\ Mutex \cap Signal = {}
  BY MutexTypes
<1>5. PICK a \in Mutex \cup Signal : a = Arg(p)
  BY <1>3, <1>4
<1>6. sem \in Semaphores(Mutex \cup Signal, Process)
  BY DEF Types
<1>7. /\ sem' \in Semaphores(Mutex \cup Signal, Process)
      /\ \A t \in (Mutex \cup Signal) \ {a} : sem'[t] = sem[t]
      /\ sem'[a].val = sem[a].val - 1
      /\ sem[a].val > 0 => sem'[a].queue = sem[a].queue
      /\ ~(sem[a].val > 0) => sem'[a].queue = Append(sem[a].queue, p)
  <2> PICK new : new = passeren(sem, a, p)
    OBVIOUS
  <2>1. /\ new \in Semaphores(Mutex \cup Signal, Process)
        /\ \A t \in (Mutex \cup Signal) \ {a} : new[t] = sem[t]
        /\ new[a].val = sem[a].val - 1
        /\ sem[a].val > 0 => new[a].queue = sem[a].queue
        /\ ~(sem[a].val > 0) => new[a].queue = Append(sem[a].queue, p)
    BY <1>6, TakeFacts
  <2> QED
    BY <1>1, <1>5, <2>1
<1>8. ASSUME a \in Mutex PROVE Takes(p, a)
  <2>1. Head(todo[p]) = P(a) /\ Only(a)
    BY <1>2, <1>5, <1>7 DEF P, Only
  <2> QED
    BY <1>1, <1>2, <1>7, <2>1 DEF Takes
<1>9. ASSUME a \notin Mutex PROVE Quiet(p)
  <2>1. \A s \in Mutex : sem'[s] = sem[s]
    BY <1>7, <1>9
  <2> QED
    BY <1>1, <1>2, <1>5, <1>9, <2>1, QuietTail DEF OnMutex
<1>10. Types'
  BY <1>1, <1>2, <1>7 DEF Types
<1> QED
  BY <1>1, <1>2, <1>8, <1>9, <1>10 DEF Did, Lives

LEMMA SYS4Step ==
  ASSUME Types, NEW p \in Process, SYS4(p)
  PROVE  Types' /\ Did(p)
<1>1. PICK op \in {"SYS4", "release"} :
        At(p, op) /\ Done(p) /\ calls' = calls /\ alive' = alive /\ adl' = adl
        /\ sem' = verhogen(sem, Arg(p)) /\ left' = left \ {Arg(p)}
        /\ freed' = IF op = "release" /\ Arg(p) \notin left THEN freed \cup {Arg(p)} ELSE freed
  <2>1. PICK op \in {"SYS4", "release"} : At(p, op)
    BY DEF SYS4
  <2>2. At(p, "release") <=> op = "release"
    BY <2>1 DEF At
  <2> QED
    BY <2>1, <2>2 DEF SYS4
<1>2. /\ DOMAIN todo' = Process /\ \A q \in Process : Good(q, todo'[q])
      /\ todo[p] # <<>> /\ todo'[p] = Tail(todo[p]) /\ Others(p)
      /\ p \in alive /\ \A s \in Mutex : ~WaitsFor(p, s)
      /\ Head(todo[p]) \in Moves(p) /\ Head(todo[p])[1] = op
      /\ Arg(p) = Head(todo[p])[2] /\ Head(todo[p]) = <<op, Arg(p)>>
  BY <1>1, DoneFacts
<1>3. /\ Arg(p) \in Mutex \/ (Arg(p) = Master /\ op = "SYS4")
      /\ op = "release" => p \in UProc /\ Arg(p) \in Numbered(p)
  BY <1>2, MoveTypes, MutexTypes DEF Reach
<1>4. Master \in Signal /\ Mutex \cap Signal = {}
  BY MutexTypes
<1>5. PICK a \in Mutex \cup Signal : a = Arg(p)
  BY <1>3, <1>4
<1>6. sem \in Semaphores(Mutex \cup Signal, Process)
  BY DEF Types
<1>7. /\ sem' \in Semaphores(Mutex \cup Signal, Process)
      /\ \A t \in (Mutex \cup Signal) \ {a} : sem'[t] = sem[t]
      /\ sem'[a].val = sem[a].val + 1
      /\ sem[a].val < 0 /\ sem[a].queue # <<>> => sem'[a].queue = Tail(sem[a].queue)
      /\ sem[a].val >= 0 \/ sem[a].queue = <<>> => sem'[a].queue = sem[a].queue
  <2> PICK new : new = verhogen(sem, a)
    OBVIOUS
  <2>1. /\ new \in Semaphores(Mutex \cup Signal, Process)
        /\ \A t \in (Mutex \cup Signal) \ {a} : new[t] = sem[t]
        /\ new[a].val = sem[a].val + 1
        /\ sem[a].val < 0 /\ sem[a].queue # <<>> => new[a].queue = Tail(sem[a].queue)
        /\ sem[a].val >= 0 \/ sem[a].queue = <<>> => new[a].queue = sem[a].queue
    BY <1>6, GiveFacts
  <2> QED
    BY <1>1, <1>5, <2>1
<1>8. ASSUME a \in Mutex PROVE Gives(p, a)
  <2>1. \/ Head(todo[p]) \in {V(a), <<"sleep", a>>}
        \/ Head(todo[p]) = <<"release", a>> /\ p \in UProc /\ a \in Numbered(p)
           /\ (a \in left \/ a \in freed')
    BY <1>1, <1>2, <1>3, <1>5 DEF V
  <2>2. Only(a)
    BY <1>7 DEF Only
  <2>3. left' = left \ {a} /\ freed \subseteq freed'
    BY <1>1, <1>5
  <2> QED
    BY <1>2, <1>7, <2>1, <2>2, <2>3 DEF Gives
<1>9. ASSUME a \notin Mutex PROVE Quiet(p)
  <2>1. \A s \in Mutex : sem'[s] = sem[s]
    BY <1>7, <1>9
  <2>2. op = "SYS4"
    BY <1>3, <1>5, <1>9, MutexTypes
  <2>3. left' = left /\ freed' = freed
    BY <1>1, <1>5, <1>9, <2>2, MutexTypes DEF Types
  <2> QED
    BY <1>2, <1>3, <1>5, <1>9, <2>1, <2>2, <2>3, QuietTail DEF OnMutex
<1>10. Types'
  <2>1. op = "release" => Arg(p) \in DevMutex
    BY <1>3, MutexTypes
  <2>2. left' \subseteq Owned \cup Losable /\ freed' \subseteq DevMutex
    BY <1>1, <2>1 DEF Types
  <2> QED
    BY <1>1, <1>2, <1>7, <2>2 DEF Types
<1> QED
  BY <1>1, <1>2, <1>8, <1>9, <1>10 DEF Did, Lives

LEMMA SYS5Step ==
  ASSUME Types, NEW p \in Process, SYS5(p)
  PROVE  Types' /\ Did(p)
<1>1. At(p, "SYS5") /\ Done(p) /\ calls' = calls /\ sem' = sem /\ adl' = adl /\ alive' = alive
      /\ left' = left /\ freed' = freed
  BY DEF SYS5
<1>2. /\ DOMAIN todo' = Process /\ \A q \in Process : Good(q, todo'[q])
      /\ todo[p] # <<>> /\ todo'[p] = Tail(todo[p]) /\ Others(p)
      /\ p \in alive /\ \A s \in Mutex : ~WaitsFor(p, s)
      /\ Head(todo[p]) \in Moves(p) /\ Head(todo[p])[1] = "SYS5"
      /\ Arg(p) = Head(todo[p])[2] /\ Head(todo[p]) = <<"SYS5", Arg(p)>>
  BY <1>1, DoneFacts
<1>3. Quiet(p)
  BY <1>1, <1>2, QuietTail DEF OnMutex
<1>4. Types'
  BY <1>1, <1>2 DEF Types
<1> QED
  BY <1>1, <1>2, <1>3, <1>4 DEF Did, Lives

\* The mutexes of p's terminal and printer are in the hands of p alone.
LEMMA OwnsOwn ==
  ASSUME NEW p \in Process, NEW steps \in Seq(Moves(p)), NEW s \in Owned, Owns(steps, s)
  PROVE  p \in UProc /\ s \in Own(p)
<1>1. PICK i \in DOMAIN steps : steps[i] \in {V(s), <<"sleep", s>>}
  BY DEF Owns
<1>2. steps[i] \in Moves(p)
  BY ElementOfSeq, LenProperties
<1>3. s # ADL /\ s # Master
  <2>1. s \in Mutex
    BY MutexTypes DEF Owned, Low
  <2> QED
    BY <2>1, MutexTypes
<1>4. s \in Reach(p)
  BY <1>1, <1>2, <1>3, MoveTypes DEF V
<1> QED
  BY <1>4 DEF Reach, Owned

LEMMA TouchStep ==
  ASSUME Types, NEW p \in Process, Touch(p)
  PROVE  Types' /\ Did(p)
<1>1. /\ At(p, "touch") /\ Done(p) /\ calls' = calls /\ sem' = sem /\ adl' = adl
      /\ alive' = alive /\ left' = left /\ freed' = freed
  BY DEF Touch
<1>2. /\ DOMAIN todo' = Process /\ \A q \in Process : Good(q, todo'[q])
      /\ todo[p] # <<>> /\ todo'[p] = Tail(todo[p]) /\ Others(p)
      /\ p \in alive /\ \A s \in Mutex : ~WaitsFor(p, s)
      /\ Head(todo[p]) \in Moves(p) /\ Head(todo[p])[1] = "touch"
  BY <1>1, DoneFacts
<1>3. Head(todo[p])[2] \notin Mutex
  BY <1>2, MoveTypes
<1>4. Quiet(p)
  BY <1>1, <1>2, <1>3, QuietTail DEF OnMutex
<1>5. Types'
  BY <1>1, <1>2 DEF Types
<1> QED
  BY <1>1, <1>2, <1>4, <1>5 DEF Did, Lives

\* What an access is about, and what is left behind it.
LEMMA TouchFacts ==
  ASSUME Types, NEW p \in Process, At(p, "touch")
  PROVE  /\ p \in UProc /\ Able(p) /\ Good(p, todo[p]) /\ todo[p] # <<>>
         /\ todo[p] \in Seq(Moves(p))
         /\ \A s \in Mutex : Owns(todo[p], s) <=> Owns(Tail(todo[p]), s)
         /\ \A s : Checks(todo[p], 0, s) => Checks(Tail(todo[p]), 0, s)
         /\ \A s \in Mutex : Owns(todo[p], s) => s \in Owned \cup Losable
<1>1. /\ Able(p) /\ Good(p, todo[p]) /\ todo[p] # <<>> /\ Head(todo[p])[1] = "touch"
      /\ todo[p] \in Seq(Moves(p)) /\ Sound(todo[p]) /\ Tidy(todo[p])
      /\ Head(todo[p]) \in Moves(p)
  BY HeadTailQ DEF At, Types, Good
<1>2. Head(todo[p])[2] \notin Mutex /\ p \in UProc
  BY <1>1, MoveTypes
<1>3. /\ \A s \in Mutex : ~OnMutex(Head(todo[p]), s)
      /\ \A s : Head(todo[p]) \notin {<<"test", s>>, <<"release", s>>}
  BY <1>1, <1>2 DEF OnMutex
<1>4. /\ \A s \in Mutex : Owns(todo[p], s) <=> Owns(Tail(todo[p]), s)
      /\ \A s : Checks(todo[p], 0, s) => Checks(Tail(todo[p]), 0, s)
      /\ \A s \in Mutex : Owns(Tail(todo[p]), s) => s \in Owned \cup Losable
  BY <1>1, <1>3, TailSound, TailTidy
<1> QED
  BY <1>1, <1>2, <1>4

LEMMA FaultStep ==
  ASSUME Types, NEW p \in Process, Fault(p)
  PROVE  Types' /\ Did(p)
<1>1. /\ At(p, "touch") /\ Head(todo[p]) \in {Page, Address}
      /\ calls' = calls /\ sem' = sem /\ adl' = adl /\ alive' = alive
      /\ left' = left /\ freed' = freed
  BY DEF Fault
<1>2. /\ p \in UProc /\ Able(p) /\ Good(p, todo[p]) /\ todo[p] # <<>>
      /\ \A s \in Mutex : Owns(todo[p], s) <=> Owns(Tail(todo[p]), s)
      /\ \A s : Checks(todo[p], 0, s) => Checks(Tail(todo[p]), 0, s)
  BY <1>1, TouchFacts
<1>3. PICK h \in tlb_exception_handler(p) : Goto(p, h \o Tail(todo[p]))
  BY <1>2 DEF Fault, Handlers
<1>4. PICK t : t = h \o Tail(todo[p])
  OBVIOUS
<1>5. /\ Good(p, t)
      /\ \A s \in Mutex : Owns(t, s) <=> Owns(Tail(todo[p]), s)
      /\ \A s : Checks(Tail(todo[p]), 0, s) => Checks(t, 0, s)
  BY <1>1, <1>2, <1>3, <1>4, FaultGood
<1>6. /\ DOMAIN todo' = Process /\ \A q \in Process : Good(q, todo'[q])
      /\ todo'[p] = t /\ Others(p)
      /\ p \in alive /\ \A s \in Mutex : ~WaitsFor(p, s)
  BY <1>2, <1>3, <1>4, <1>5, GotoFacts
<1>7. Quiet(p)
  BY <1>1, <1>2, <1>5, <1>6 DEF Quiet
<1>8. Types'
  BY <1>1, <1>6 DEF Types
<1> QED
  BY <1>1, <1>6, <1>7, <1>8 DEF Did, Lives

LEMMA TrapStep ==
  ASSUME Types, NEW p \in Process, Trap(p)
  PROVE  Types' /\ Did(p)
<1>1. /\ At(p, "touch") /\ Goto(p, get_nuked(p))
      /\ calls' = calls /\ sem' = sem /\ adl' = adl /\ alive' = alive /\ freed' = freed
      /\ left' = left \cup {s \in Mutex : Owns(todo[p], s)}
  BY DEF Trap, syslvl_prgmTrap_handler
<1>2. /\ p \in UProc /\ Able(p) /\ todo[p] \in Seq(Moves(p))
      /\ \A s \in Mutex : Owns(todo[p], s) => s \in Owned \cup Losable
  BY <1>1, TouchFacts
<1>3. PICK t : t = get_nuked(p)
  OBVIOUS
<1>4. /\ Good(p, t) /\ \A s \in Mutex : ~Owns(t, s)
      /\ \A s \in Own(p) : Checks(t, 0, s)
  BY <1>2, <1>3, NukedBegins DEF Begins
<1>5. /\ DOMAIN todo' = Process /\ \A q \in Process : Good(q, todo'[q])
      /\ todo'[p] = t /\ Others(p)
      /\ p \in alive /\ \A s \in Mutex : ~WaitsFor(p, s)
  BY <1>1, <1>2, <1>3, <1>4, GotoFacts
<1>6. ASSUME NEW s \in Owned, Owns(todo[p], s) PROVE s \in Own(p)
  BY <1>2, <1>6, OwnsOwn
<1>7. Quiet(p)
  BY <1>1, <1>2, <1>4, <1>5, <1>6 DEF Quiet
<1>8. Types'
  <2>1. left' \subseteq Owned \cup Losable
    BY <1>1, <1>2 DEF Types
  <2> QED
    BY <1>1, <1>5, <2>1 DEF Types
<1> QED
  BY <1>1, <1>5, <1>7, <1>8 DEF Did, Lives

LEMMA TestMutexStep ==
  ASSUME Types, NEW p \in Process, TestMutex(p)
  PROVE  Types' /\ Did(p)
<1>1. /\ At(p, "test") /\ calls' = calls /\ sem' = sem /\ adl' = adl /\ alive' = alive
      /\ left' = left /\ freed' = freed
      /\ \/ sem[Arg(p)].val = 0 /\ Goto(p, <<<<"release", Arg(p)>>>> \o Tail(todo[p]))
         \/ sem[Arg(p)].val # 0 /\ Done(p)
  BY DEF TestMutex
<1>2. /\ Able(p) /\ Good(p, todo[p]) /\ todo[p] # <<>> /\ Head(todo[p])[1] = "test"
      /\ todo[p] \in Seq(Moves(p)) /\ Sound(todo[p]) /\ Tidy(todo[p])
      /\ Head(todo[p]) \in Moves(p)
  BY <1>1, HeadTailQ DEF At, Types, Good
<1>3. PICK m : m = Arg(p) /\ Head(todo[p]) = <<"test", m>> /\ p \in UProc /\ m \in Numbered(p)
  BY <1>2, MoveTypes DEF Arg
<1>4. CASE sem[m].val # 0 /\ Done(p)
  <2>1. /\ DOMAIN todo' = Process /\ \A q \in Process : Good(q, todo'[q])
        /\ todo'[p] = Tail(todo[p]) /\ Others(p)
        /\ p \in alive /\ \A s \in Mutex : ~WaitsFor(p, s)
    BY <1>1, <1>4, DoneFacts
  <2>2. Quiet(p)
    <3>1. \A s \in Mutex : OnMutex(Head(todo[p]), s) =>
            Head(todo[p]) = <<"test", s>> /\ sem[s].val # 0
      BY <1>3, <1>4 DEF OnMutex
    <3> QED
      BY <1>1, <1>2, <2>1, <3>1, QuietTail
  <2>3. Types'
    BY <1>1, <2>1 DEF Types
  <2> QED
    BY <1>1, <2>1, <2>2, <2>3 DEF Did, Lives
<1>5. CASE Goto(p, Release(m) \o Tail(todo[p]))
  <2>1. PICK t : t = Release(m) \o Tail(todo[p])
    OBVIOUS
  <2>2. /\ Good(p, t) /\ Checks(t, 0, m)
        /\ \A s \in Mutex : Owns(t, s) => Owns(Tail(todo[p]), s)
        /\ \A s \in Mutex : s # m /\ Owns(Tail(todo[p]), s) => Owns(t, s)
        /\ \A s : Checks(Tail(todo[p]), 0, s) => Checks(t, 0, s)
    <3> PICK st : st = todo[p]
      OBVIOUS
    <3>1. /\ Good(p, st) /\ st # <<>> /\ LooksAt(Head(st), m) /\ p \in Process
          /\ t = Release(m) \o Tail(st)
      BY <1>2, <1>3, <2>1 DEF LooksAt
    <3>2. /\ Good(p, t) /\ Checks(t, 0, m)
          /\ \A s \in Mutex : Owns(t, s) => Owns(Tail(st), s)
          /\ \A s \in Mutex : s # m /\ Owns(Tail(st), s) => Owns(t, s)
          /\ \A s : Checks(Tail(st), 0, s) => Checks(t, 0, s)
      BY <3>1, ReleaseGood, Zenon
    <3> QED
      BY <3>2
  <2>3. /\ DOMAIN todo' = Process /\ \A q \in Process : Good(q, todo'[q])
        /\ todo'[p] = t /\ Others(p)
        /\ p \in alive /\ \A s \in Mutex : ~WaitsFor(p, s)
    BY <1>2, <1>5, <2>1, <2>2, GotoFacts
  <2>4. ASSUME NEW s \in Mutex, Owns(todo[p], s) PROVE s # m /\ Owns(t, s)
    <3>1. s # m
      <4>1. <<"test", s>> \notin {V(s), <<"sleep", s>>} /\ OnMutex(<<"test", s>>, s)
        BY DEF V, OnMutex
      <4> QED
        BY <1>2, <1>3, <2>4, <4>1, HeadOwns
    <3>2. ~OnMutex(Head(todo[p]), s)
      BY <1>3, <3>1 DEF OnMutex
    <3> QED
      BY <1>2, <2>2, <2>4, <3>1, <3>2, TailTidy
  <2>5. ASSUME NEW s \in Mutex, Owns(t, s) PROVE Owns(todo[p], s)
    <3>1. s # m => ~OnMutex(Head(todo[p]), s)
      BY <1>3 DEF OnMutex
    <3>2. Compatible(Head(todo[p]), s)
      BY <1>2, <2>2, <2>5, TailSound
    <3>3. s # m
      BY <1>3, <3>2 DEF Compatible
    <3> QED
      BY <1>2, <2>2, <2>5, <3>1, <3>3, TailSound
  <2>6. ASSUME NEW s, Checks(todo[p], 0, s) PROVE Checks(t, 0, s)
    <3>1. s # m => Head(todo[p]) \notin {<<"test", s>>, <<"release", s>>}
      BY <1>3
    <3> QED
      BY <1>2, <2>2, <2>6, <3>1, TailTidy
  <2>7. Quiet(p)
    BY <1>1, <1>3, <2>3, <2>4, <2>5, <2>6 DEF Quiet
  <2>8. Types'
    BY <1>1, <2>3 DEF Types
  <2> QED
    BY <1>1, <2>3, <2>7, <2>8 DEF Did, Lives
<1> QED
  BY <1>1, <1>3, <1>4, <1>5 DEF Release

LEMMA SleepStep ==
  ASSUME Types, NEW p \in Process, Sleep(p)
  PROVE  Types' /\ Did(p)
<1>1. At(p, "sleep") /\ Done(p) /\ calls' = calls /\ alive' = alive
      /\ left' = left /\ freed' = freed
      /\ adl' = adl \cup {p}
      /\ sem' = passeren(verhogen(sem, ADL), Private(p), p)
  BY DEF Sleep
<1>2. /\ DOMAIN todo' = Process /\ \A q \in Process : Good(q, todo'[q])
      /\ todo[p] # <<>> /\ todo'[p] = Tail(todo[p]) /\ Others(p)
      /\ p \in alive /\ \A s \in Mutex : ~WaitsFor(p, s)
      /\ Head(todo[p]) \in Moves(p) /\ Head(todo[p])[1] = "sleep"
      /\ Arg(p) = Head(todo[p])[2] /\ Head(todo[p]) = <<"sleep", Arg(p)>>
  BY <1>1, DoneFacts
<1>3. p \in UProc /\ Head(todo[p]) = <<"sleep", ADL>>
  BY <1>2, MoveTypes
<1>4. ADL \in Mutex /\ Private(p) \in Signal /\ Mutex \cap Signal = {}
  BY <1>3, MutexTypes
<1>5. PICK mid : mid = verhogen(sem, ADL)
  OBVIOUS
<1>6. /\ mid \in Semaphores(Mutex \cup Signal, Process)
      /\ \A t \in (Mutex \cup Signal) \ {ADL} : mid[t] = sem[t]
      /\ mid[ADL].val = sem[ADL].val + 1
      /\ sem[ADL].val < 0 /\ sem[ADL].queue # <<>> => mid[ADL].queue = Tail(sem[ADL].queue)
      /\ sem[ADL].val >= 0 \/ sem[ADL].queue = <<>> => mid[ADL].queue = sem[ADL].queue
  <2>1. sem \in Semaphores(Mutex \cup Signal, Process) /\ ADL \in Mutex \cup Signal
    BY <1>4 DEF Types
  <2> QED
    BY <1>5, <2>1, GiveFacts
<1>7. /\ sem' \in Semaphores(Mutex \cup Signal, Process)
      /\ \A t \in (Mutex \cup Signal) \ {Private(p)} : sem'[t] = mid[t]
  <2>1. PICK new : new = passeren(mid, Private(p), p)
    OBVIOUS
  <2>2. Private(p) \in Mutex \cup Signal
    BY <1>4
  <2>3. /\ new \in Semaphores(Mutex \cup Signal, Process)
        /\ \A t \in (Mutex \cup Signal) \ {Private(p)} : new[t] = mid[t]
    BY <1>6, <2>1, <2>2, TakeFacts
  <2> QED
    BY <1>1, <1>5, <2>1, <2>3
<1>8. /\ \A t \in Mutex \ {ADL} : sem'[t] = sem[t]
      /\ sem'[ADL] = mid[ADL]
  BY <1>4, <1>6, <1>7
<1>9. Gives(p, ADL)
  <2>1. left' = left \ {ADL}
    BY <1>1, MutexTypes DEF Types
  <2> QED
    BY <1>1, <1>2, <1>3, <1>6, <1>8, <2>1 DEF Gives, Only
<1>10. Types'
  BY <1>1, <1>2, <1>3, <1>7 DEF Types
<1> QED
  BY <1>1, <1>2, <1>4, <1>9, <1>10 DEF Did, Lives

\* The daemon's scan: it wakes who is due, or is done.
LEMMA WakeStep ==
  ASSUME Types, NEW q \in UProc, Wake(q)
  PROVE  Types' /\ Did(Daemon)
<1>1. At(Daemon, "wake") /\ adl' = adl \ {q} /\ sem' = verhogen(sem, Private(q))
      /\ todo' = todo /\ calls' = calls /\ alive' = alive /\ left' = left /\ freed' = freed
  BY DEF Wake
<1>2. Private(q) \in Signal /\ Mutex \cap Signal = {} /\ Daemon \in Process
  BY MutexTypes, Processes
<1>3. /\ sem' \in Semaphores(Mutex \cup Signal, Process)
      /\ \A t \in (Mutex \cup Signal) \ {Private(q)} : sem'[t] = sem[t]
  <2>1. PICK new : new = verhogen(sem, Private(q))
    OBVIOUS
  <2>2. Private(q) \in Mutex \cup Signal /\ sem \in Semaphores(Mutex \cup Signal, Process)
    BY <1>2 DEF Types
  <2>3. /\ new \in Semaphores(Mutex \cup Signal, Process)
        /\ \A t \in (Mutex \cup Signal) \ {Private(q)} : new[t] = sem[t]
    BY <2>1, <2>2, GiveFacts
  <2> QED
    BY <1>1, <2>1, <2>3
<1>4. \A s \in Mutex : sem'[s] = sem[s]
  BY <1>2, <1>3
<1>5. Daemon \in alive /\ \A s \in Mutex : ~WaitsFor(Daemon, s)
  <2>1. DOMAIN sem = Mutex \cup Signal
    BY DEF Types, Semaphores
  <2> QED
    BY <1>1, <2>1 DEF At, Able, Blocked, WaitsFor
<1>6. Types'
  BY <1>1, <1>3 DEF Types
<1>7. Quiet(Daemon)
  BY <1>1, <1>4 DEF Quiet
<1> QED
  BY <1>1, <1>5, <1>6, <1>7 DEF Did, Lives, Others

LEMMA WokenStep ==
  ASSUME Types, Woken
  PROVE  Types' /\ Did(Daemon)
<1>1. At(Daemon, "wake") /\ Done(Daemon) /\ calls' = calls /\ sem' = sem /\ adl' = adl
      /\ alive' = alive /\ Daemon \in Process /\ left' = left /\ freed' = freed
  BY Processes DEF Woken
<1>2. /\ DOMAIN todo' = Process /\ \A q \in Process : Good(q, todo'[q])
      /\ todo[Daemon] # <<>> /\ todo'[Daemon] = Tail(todo[Daemon]) /\ Others(Daemon)
      /\ Daemon \in alive /\ \A s \in Mutex : ~WaitsFor(Daemon, s)
      /\ Head(todo[Daemon])[1] = "wake"
  BY <1>1, DoneFacts
<1>3. Quiet(Daemon)
  BY <1>1, <1>2, QuietTail DEF OnMutex
<1>4. Types'
  BY <1>1, <1>2 DEF Types
<1> QED
  BY <1>1, <1>2, <1>3, <1>4 DEF Did, Lives

LEMMA AgainStep ==
  ASSUME Types, Again
  PROVE  Types' /\ Did(Daemon)
<1>1. Able(Daemon) /\ todo[Daemon] = <<>> /\ calls' = calls /\ sem' = sem /\ adl' = adl
      /\ alive' = alive /\ Daemon \in Process /\ left' = left /\ freed' = freed
  BY Processes DEF Again
<1>2. PICK t : t = delayDaemon /\ Goto(Daemon, t) /\ Good(Daemon, t)
               /\ \A s \in Mutex : ~Owns(t, s)
  BY DaemonBegins DEF Again, Begins
<1>3. /\ DOMAIN todo' = Process /\ \A q \in Process : Good(q, todo'[q])
      /\ todo'[Daemon] = t /\ Others(Daemon)
      /\ Daemon \in alive /\ \A s \in Mutex : ~WaitsFor(Daemon, s)
  BY <1>1, <1>2, GotoFacts
<1>4. Quiet(Daemon)
  BY <1>1, <1>2, <1>3, NothingLeft DEF Quiet
<1>5. Types'
  BY <1>1, <1>3 DEF Types
<1> QED
  BY <1>1, <1>3, <1>4, <1>5 DEF Did, Lives

\* Every step of the system is one of these.
LEMMA NextDid ==
  ASSUME Types, Units \cap UProc = {}, Next
  PROVE  Types' /\ ((\E p \in Process : Did(p)) \/ UNCHANGED vars)
<1>1. ASSUME NEW p \in Process, Step(p) PROVE Types' /\ Did(p)
  BY <1>1, ExceptionStep, SYS1Step, SYS2Step, SYS3Step, SYS4Step, SYS5Step, TouchStep,
     FaultStep, TrapStep, TestMutexStep, SleepStep DEF Step
<1>2. ASSUME NEW q \in UProc, Wake(q) PROVE Types' /\ Did(Daemon)
  BY <1>2, WakeStep
<1>3. CASE Halted
  BY <1>3 DEF Halted, vars, Types
<1>4. Daemon \in Process
  BY Processes
<1> QED
  BY <1>1, <1>2, <1>3, <1>4, WokenStep, AgainStep DEF Next

\* At the beginning everybody's steps are good and no mutex is taken.
LEMMA InitTypes ==
  ASSUME Init
  PROVE  /\ Types
         /\ \A p \in Process, s \in Mutex : ~Owns(todo[p], s) /\ ~WaitsFor(p, s)
         /\ \A s \in Mutex : sem[s].val = 1 /\ sem[s].queue = <<>>
         /\ left = {} /\ freed = {}
<1>1. \A p \in Process : todo[p] = IF p = Test THEN test
                                   ELSE IF p = Daemon THEN delayDaemon ELSE <<>>
  BY DEF Init
<1>2. DOMAIN todo = Process
  BY DEF Init
<1>3. \A p \in Process : Good(p, todo[p]) /\ \A s \in Mutex : ~Owns(todo[p], s)
  BY <1>1, TestBegins, DaemonBegins, NothingLeft DEF Begins
<1>4. /\ sem \in Semaphores(Mutex \cup Signal, Process)
      /\ \A s \in Mutex : sem[s].val = 1 /\ sem[s].queue = <<>>
  <2>1. \A s \in Mutex \cup Signal : sem[s] = Sema4(IF s \in Mutex THEN 1 ELSE 0)
    BY DEF Init
  <2>2. DOMAIN sem = Mutex \cup Signal /\ sem = [s \in Mutex \cup Signal |-> sem[s]]
    BY DEF Init
  <2>3. \A n \in Int : Sema4(n) \in [val : Int, queue : Seq(Process)]
    BY DEF Sema4
  <2>4. \A s \in Mutex \cup Signal : \E n \in Int : sem[s] = Sema4(n) /\ (s \in Mutex => n = 1)
    BY <2>1
  <2>5. \A s \in Mutex \cup Signal : sem[s] \in [val : Int, queue : Seq(Process)]
    BY <2>3, <2>4, Zenon
  <2>6. sem \in Semaphores(Mutex \cup Signal, Process)
    <3>1. PICK D, R : D = Mutex \cup Signal /\ R = [val : Int, queue : Seq(Process)]
      OBVIOUS
    <3>2. sem \in [D -> R]
      BY <2>2, <2>5, <3>1
    <3> QED
      BY <3>1, <3>2 DEF Semaphores
  <2>7. \A s \in Mutex : sem[s].val = 1 /\ sem[s].queue = <<>>
    <3>1. Sema4(1).val = 1 /\ Sema4(1).queue = <<>>
      BY DEF Sema4
    <3>2. \A s \in Mutex : sem[s] = Sema4(1)
      BY <2>1
    <3> QED
      BY <3>1, <3>2, Zenon
  <2> QED
    BY <2>6, <2>7
<1>5. calls \in [UProc -> 0..MaxCalls] /\ alive \subseteq Process /\ adl \subseteq UProc
  BY Processes, SupportAssumption DEF Init
<1>6. \A p \in Process, s \in Mutex : ~WaitsFor(p, s)
  BY <1>4, EmptyQ DEF WaitsFor
<1>7. left = {} /\ freed = {}
  BY DEF Init
<1> QED
  BY <1>2, <1>3, <1>4, <1>5, <1>6, <1>7 DEF Types

-----------------------------------------------------------------------------
(* Who waits                                                               *)

\* Who waits after a step waited before it or has just done a P.
LEMMA WaitsStep ==
  ASSUME Types, NEW p \in Process, Did(p), NEW r \in Process, NEW t \in Mutex, WaitsFor(r, t)'
  PROVE  \/ WaitsFor(r, t) /\ r # p
         \/ r = p /\ Takes(p, t)
<1>1. sem[t].queue \in Seq(Process) /\ \A s \in Mutex : ~WaitsFor(p, s)
  BY DEF Types, Semaphores, Did
<1>2. ASSUME NEW s \in Mutex, Takes(p, s) PROVE WaitsFor(r, t) \/ (r = p /\ t = s)
  <2>1. CASE t = s
    <3>1. ToSet(Append(sem[t].queue, p)) = ToSet(sem[t].queue) \cup {p}
      BY <1>1, AppendQ
    <3>2. sem'[t].queue \in {sem[t].queue, Append(sem[t].queue, p)}
      BY <1>2, <2>1 DEF Takes
    <3> QED
      BY <2>1, <3>1, <3>2 DEF WaitsFor
  <2>2. CASE t # s
    BY <1>2, <2>2 DEF Takes, Only, WaitsFor
  <2> QED
    BY <2>1, <2>2
<1>3. ASSUME NEW s \in Mutex, Gives(p, s) PROVE WaitsFor(r, t)
  <2>1. CASE t = s
    <3>1. CASE sem[s].val < 0 /\ sem[s].queue # <<>>
      BY <1>1, <1>3, <2>1, <3>1, HeadTailQ DEF Gives, WaitsFor
    <3>2. CASE ~(sem[s].val < 0) \/ sem[s].queue = <<>>
      <4>1. sem[s].val \in Int
        BY <2>1 DEF Types, Semaphores
      <4>2. sem'[s].queue = sem[s].queue
        BY <1>3, <3>2, <4>1 DEF Gives
      <4> QED
        BY <2>1, <4>2 DEF WaitsFor
    <3> QED
      BY <3>1, <3>2
  <2>2. CASE t # s
    BY <1>3, <2>2 DEF Gives, Only, WaitsFor
  <2> QED
    BY <2>1, <2>2
<1>4. CASE Quiet(p)
  BY <1>1, <1>4 DEF Quiet, WaitsFor
<1> QED
  BY <1>1, <1>2, <1>3, <1>4 DEF Did

\* Whoever waits has only mutexes of a lower level than the one it waits for.
Waits ==
  \A p \in Process, t, s \in Mutex :
    WaitsFor(p, t) /\ Owns(todo[p], s) /\ s # t => Precedes(s, t)

\* No step breaks the order of the levels.
LEMMA WaitsKept ==
  ASSUME Types, Waits, NEW p \in Process, Did(p)
  PROVE  Waits'
<1> SUFFICES ASSUME NEW r \in Process, NEW t \in Mutex, NEW s \in Mutex,
                    WaitsFor(r, t)', Owns(todo[r], s)', s # t
             PROVE  Precedes(s, t)
  BY DEF Waits
<1>1. CASE WaitsFor(r, t) /\ r # p
  BY <1>1 DEF Waits, Did, Others
<1>2. CASE r = p /\ Takes(p, t)
  <2>1. /\ todo[p] \in Seq(Moves(p)) /\ Sound(todo[p]) /\ todo[p] # <<>>
        /\ Head(todo[p]) = P(t) /\ todo'[p] = Tail(todo[p])
    BY <1>2 DEF Types, Good, Takes
  <2>2. Compatible(Head(todo[p]), s)
    BY <1>2, <2>1, TailSound
  <2> QED
    BY <2>1, <2>2 DEF Compatible, P
<1> QED
  BY <1>1, <1>2, WaitsStep

\* By the order of the levels there is no circle.
LEMMA NobodyTrapped ==
  ASSUME Types, Waits
  PROVE  NoCircularWait
<1> DEFINE waits == {w \in alive \X alive :
                       \E s \in Mutex : WaitsFor(w[1], s) /\ Holds(w[2], s)}
<1>1. \A p, q : <<p, q>> \in waits => \E s \in Mutex : WaitsFor(p, s) /\ Holds(q, s)
  OBVIOUS
<1>0. NoCircularWait <=>
        \A X \in (SUBSET alive) \ {{}} : \E p \in X : \A q \in X : <<p, q>> \notin waits
  BY DEF NoCircularWait
<1> HIDE DEF waits
<1> SUFFICES ASSUME NEW X \in (SUBSET alive) \ {{}},
                    \A p \in X : \E q \in X : <<p, q>> \in waits
             PROVE  FALSE
  BY <1>0
<1>2. \A p \in X : \E q \in X, s \in Mutex : WaitsFor(p, s) /\ Holds(q, s)
  BY <1>1
<1>3. X \subseteq Process
  BY DEF Types
<1>4. ASSUME NEW p \in X, NEW s \in Mutex, Holds(p, s)
      PROVE  \E q \in X, t \in Mutex : Precedes(s, t) /\ Holds(q, t)
  <2>1. PICK q \in X, t \in Mutex : WaitsFor(p, t) /\ Holds(q, t)
    BY <1>2
  <2>2. s # t /\ Owns(todo[p], s)
    BY <1>4, <2>1 DEF Holds
  <2>3. Precedes(s, t)
    BY <1>3, <2>1, <2>2 DEF Waits
  <2> QED
    BY <2>1, <2>3
<1>5. PICK p0 \in X, s0 \in Mutex : Holds(p0, s0)
  <2>1. X # {}
    OBVIOUS
  <2>2. PICK x \in X : TRUE
    BY <2>1
  <2>3. \E q \in X, s \in Mutex : WaitsFor(x, s) /\ Holds(q, s)
    BY <1>2
  <2> QED
    BY <2>3
<1>6. PICK p1 \in X, s1 \in Mutex : Precedes(s0, s1) /\ Holds(p1, s1)
  BY <1>4, <1>5
<1>7. PICK p2 \in X, s2 \in Mutex : Precedes(s1, s2) /\ Holds(p2, s2)
  BY <1>4, <1>6
<1>8. PICK p3 \in X, s3 \in Mutex : Precedes(s2, s3) /\ Holds(p3, s3)
  BY <1>4, <1>7
<1>9. SwapPool \notin Low /\ SwapPool \notin High /\ Low \cap High = {}
  BY MutexTypes DEF Low
<1> QED
  BY <1>6, <1>7, <1>8, <1>9 DEF Precedes

\* If the flash devices that SYS16 and SYS17 name are not those of the pager,
\* no processes wait for each other, whatever calls and page faults in the
\* middle of calls come together: a call takes its mutex, the pager then the
\* swap pool, and then a flash device.
THEOREM NoDeadlock == Units \cap UProc = {} => (Spec => []NoCircularWait)
<1> SUFFICES ASSUME Units \cap UProc = {} PROVE Spec => []NoCircularWait
  OBVIOUS
<1>1. Init => Types /\ Waits
  BY InitTypes DEF Waits
<1>2. Types /\ Waits /\ [Next]_vars => (Types /\ Waits)'
  <2>1. ASSUME Types, Waits, Next PROVE (Types /\ Waits)'
    <3>1. CASE UNCHANGED vars
      BY <2>1, <3>1 DEF vars, Types, Waits, WaitsFor
    <3>2. CASE \E p \in Process : Did(p)
      BY <2>1, <3>2, NextDid, WaitsKept
    <3> QED
      BY <2>1, <3>1, <3>2, NextDid
  <2>2. ASSUME Types, Waits, UNCHANGED vars PROVE (Types /\ Waits)'
    BY <2>2 DEF vars, Types, Waits, WaitsFor
  <2> QED
    BY <2>1, <2>2
<1>3. Types /\ Waits => NoCircularWait
  BY NobodyTrapped
<1> QED
  BY <1>1, <1>2, <1>3, PTL DEF Spec

-----------------------------------------------------------------------------
(* Who holds                                                               *)

\* Who is not alive has nothing to release: it has ended, or not yet begun.
DeadOwnNothing ==
  alive # {} => \A q \in Process \ alive, s \in Mutex : ~Owns(todo[q], s)

\* What nobody has reads 1 at the most, what somebody has one process has, and
\* what was left nobody has: until get_nuked takes a mutex from who has it.
OneHolder ==
  \A s \in Mutex \ freed :
    /\ sem[s].val <= 1
    /\ sem[s].val = 1 \/ s \in left => \A q \in Process : ~Holds(q, s)
    /\ s \in left => sem[s].val <= 0
    /\ \A q, r \in Process : Holds(q, s) /\ Holds(r, s) => q = r

\* A process that ends has released what it had.
LEMMA DeadStep ==
  ASSUME Types, DeadOwnNothing, NEW p \in Process, Did(p)
  PROVE  DeadOwnNothing'
<1> SUFFICES ASSUME alive' # {}, NEW q \in Process \ alive', NEW s \in Mutex
             PROVE  ~Owns(todo'[q], s)
  BY DEF DeadOwnNothing, Owns, OnMutex
<1>1. p \in alive
  BY DEF Did
<1>2. CASE q = p
  BY <1>1, <1>2 DEF Did, Lives
<1>3. CASE q # p
  BY <1>1, <1>3 DEF Did, Lives, Others, DeadOwnNothing
<1> QED
  BY <1>2, <1>3

\* Who holds s after a step held it before, or takes it, or is handed it.
LEMMA HoldsStep ==
  ASSUME Types, DeadOwnNothing, NEW p \in Process, Did(p),
         NEW s \in Mutex, NEW r \in Process, Holds(r, s)'
  PROVE  /\ \/ Holds(r, s)
            \/ r = p /\ Takes(p, s) /\ sem[s].val > 0
            \/ r # p /\ WaitsFor(r, s) /\ Gives(p, s) /\ sem[s].val < 0 /\ sem[s].queue # <<>>
                     /\ r = Head(sem[s].queue)
         /\ Gives(p, s) => r # p
<1>1. s \in Mutex
  OBVIOUS
<1>2. r \in alive' /\ ~WaitsFor(r, s)' /\ Owns(todo'[r], s)
  BY DEF Holds, Owns, OnMutex
<1>3. p \in alive /\ ~WaitsFor(p, s)
  BY <1>1 DEF Did
<1>4. todo[p] \in Seq(Moves(p)) /\ Sound(todo[p])
  BY DEF Types, Good
<1>5. ASSUME r = p, Quiet(p) PROVE Holds(r, s)
  BY <1>1, <1>2, <1>3, <1>5 DEF Quiet, Holds
<1>6. ASSUME NEW t \in Mutex, t # s, r = p, Takes(p, t) \/ Gives(p, t) PROVE Holds(r, s)
  <2>1. todo[p] # <<>> /\ todo'[p] = Tail(todo[p]) /\ ~OnMutex(Head(todo[p]), s)
    BY <1>6 DEF Takes, Gives, P, V, OnMutex
  <2> QED
    BY <1>1, <1>2, <1>3, <1>4, <1>6, <2>1, TailSound DEF Holds
<1>7. ASSUME Gives(p, s) PROVE r # p
  <2>1. /\ todo[p] # <<>> /\ todo'[p] = Tail(todo[p])
        /\ Head(todo[p])[1] \in {"SYS4", "sleep", "release"} /\ Head(todo[p])[2] = s
    BY <1>1, <1>7 DEF Gives, V
  <2>2. ~Compatible(Head(todo[p]), s)
    BY <2>1 DEF Compatible
  <2> QED
    BY <1>1, <1>2, <1>4, <2>1, <2>2, TailSound
<1>8. ASSUME r = p, Takes(p, s) PROVE sem[s].val > 0
  <2>1. SUFFICES ASSUME ~(sem[s].val > 0) PROVE WaitsFor(p, s)'
    BY <1>2, <1>8
  <2>2. sem[s].queue \in Seq(Process) /\ sem'[s].queue = Append(sem[s].queue, p)
    BY <1>1, <1>8, <2>1 DEF Types, Semaphores, Takes
  <2>3. p \in ToSet(Append(sem[s].queue, p))
    BY <2>2, AppendQ
  <2> QED
    BY <2>2, <2>3 DEF WaitsFor
<1>9. ASSUME r # p PROVE r \in alive /\ Owns(todo[r], s)
  <2>1. Owns(todo[r], s)
    BY <1>2, <1>9 DEF Did, Others
  <2>2. alive # {}
    BY <1>3
  <2> QED
    BY <1>1, <2>1, <2>2 DEF DeadOwnNothing
<1>10. ASSUME r # p, WaitsFor(r, s)
       PROVE  /\ Gives(p, s) /\ sem[s].val < 0 /\ sem[s].queue # <<>>
              /\ r = Head(sem[s].queue)
  <2>1. sem[s].queue \in Seq(Process) /\ sem[s].val \in Int
    BY <1>1 DEF Types, Semaphores
  <2>2. sem'[s].queue # sem[s].queue
    BY <1>2, <1>10 DEF WaitsFor
  <2>3. ~Takes(p, s)
    <3>1. r \in ToSet(Append(sem[s].queue, p))
      BY <1>10, <2>1, AppendQ DEF WaitsFor
    <3> QED
      BY <1>2, <2>2, <3>1 DEF Takes, WaitsFor
  <2>4. ~Quiet(p) /\ \A t \in Mutex : t # s => ~Takes(p, t) /\ ~Gives(p, t)
    BY <1>1, <2>2 DEF Quiet, Takes, Gives, Only
  <2>5. Gives(p, s)
    BY <2>3, <2>4 DEF Did
  <2>6. sem[s].val < 0 /\ sem[s].queue # <<>> /\ sem'[s].queue = Tail(sem[s].queue)
    BY <2>1, <2>2, <2>5 DEF Gives
  <2>7. ToSet(sem[s].queue) \subseteq {Head(sem[s].queue)} \cup ToSet(Tail(sem[s].queue))
    BY <2>1, <2>6, HeadTailQ
  <2> QED
    BY <1>2, <1>10, <2>5, <2>6, <2>7 DEF WaitsFor
<1>11. CASE r = p
  BY <1>1, <1>5, <1>6, <1>7, <1>8, <1>11 DEF Did
<1>12. CASE r # p
  BY <1>9, <1>10, <1>12 DEF Holds
<1> QED
  BY <1>7, <1>11, <1>12

\* A mutex is passed on, or taken when nobody has it.
LEMMA OneHolderStep ==
  ASSUME Types, DeadOwnNothing, OneHolder, NEW p \in Process, Did(p)
  PROVE  OneHolder'
<1> SUFFICES ASSUME NEW s \in Mutex, s \notin freed'
             PROVE  /\ sem'[s].val <= 1
                    /\ sem'[s].val = 1 \/ s \in left' => \A q \in Process : ~Holds(q, s)'
                    /\ s \in left' => sem'[s].val <= 0
                    /\ \A q, r \in Process : Holds(q, s)' /\ Holds(r, s)' => q = r
  BY DEF OneHolder
<1>1. s \in Mutex \ freed /\ sem[s].val \in Int
  BY DEF Types, Semaphores, Did, Quiet, Takes, Gives
<1>2. /\ sem[s].val <= 1
      /\ sem[s].val = 1 \/ s \in left => \A q \in Process : ~Holds(q, s)
      /\ s \in left => sem[s].val <= 0
      /\ \A q, r \in Process : Holds(q, s) /\ Holds(r, s) => q = r
  BY <1>1 DEF OneHolder
<1>3. \A r \in Process : Holds(r, s)' =>
        /\ \/ Holds(r, s)
           \/ r = p /\ Takes(p, s) /\ sem[s].val > 0
           \/ r # p /\ WaitsFor(r, s) /\ Gives(p, s) /\ sem[s].val < 0 /\ sem[s].queue # <<>>
                    /\ r = Head(sem[s].queue)
        /\ Gives(p, s) => r # p
  BY HoldsStep
<1>4. CASE Takes(p, s)
  <2>1. ~Gives(p, s) /\ sem'[s].val = sem[s].val - 1 /\ left' = left
    BY <1>1, <1>4 DEF Takes, Gives
  <2> QED
    BY <1>1, <1>2, <1>3, <2>1
<1>5. CASE Gives(p, s)
  <2>1. sem'[s].val = sem[s].val + 1 /\ ~Takes(p, s) /\ s \notin left'
    BY <1>1, <1>5 DEF Takes, Gives
  <2>2. Holds(p, s) \/ s \in left
    <3>1. CASE Head(todo[p]) \in {V(s), <<"sleep", s>>}
      <4>1. todo[p] \in Seq(Moves(p)) /\ todo[p] # <<>>
        BY <1>5 DEF Types, Good, Gives
      <4> QED
        BY <1>1, <3>1, <4>1, HeadOwns DEF Did, Holds
    <3>2. CASE ~(Head(todo[p]) \in {V(s), <<"sleep", s>>})
      BY <1>5, <3>2 DEF Gives
    <3> QED
      BY <3>1, <3>2
  <2>3. sem[s].val <= 0
    BY <1>1, <1>2, <2>2
  <2>4. \A r \in Process : Holds(r, s)' => ~Holds(r, s)
    BY <1>2, <1>3, <1>5, <2>2
  <2> QED
    BY <1>1, <1>3, <2>1, <2>3, <2>4
<1>6. CASE ~Takes(p, s) /\ ~Gives(p, s)
  <2>1. sem'[s] = sem[s]
    BY <1>1, <1>6 DEF Did, Quiet, Takes, Gives, Only
  <2>2. \A r \in Process : Holds(r, s)' => Holds(r, s)
    BY <1>3, <1>6
  <2>3. ASSUME s \in left', s \notin left
        PROVE  Holds(p, s) /\ ~Holds(p, s)'
    <3>1. Quiet(p)
      BY <2>3 DEF Did, Takes, Gives
    <3>2. Owns(todo[p], s) /\ ~Owns(todo'[p], s)
      BY <1>1, <2>3, <3>1 DEF Quiet
    <3> QED
      BY <1>1, <3>2 DEF Did, Holds, Owns, OnMutex
  <2> QED
    BY <1>1, <1>2, <2>1, <2>2, <2>3
<1> QED
  BY <1>4, <1>5, <1>6

\* One process at a time is in the pager, on the delay list and in a call on a
\* device, unless get_nuked V's the mutex of one.
THEOREM ExclusiveHolds == Units \cap UProc = {} => (Spec => []Exclusive)
<1> SUFFICES ASSUME Units \cap UProc = {} PROVE Spec => []Exclusive
  OBVIOUS
<1> DEFINE Inv == Types /\ DeadOwnNothing /\ OneHolder
<1>1. Init => Inv
  BY InitTypes DEF DeadOwnNothing, OneHolder, Holds
<1>2. Inv /\ [Next]_vars => Inv'
  <2>1. ASSUME Inv, Next PROVE Inv'
    <3>1. CASE UNCHANGED vars
      BY <2>1, <3>1 DEF vars, Types, DeadOwnNothing, OneHolder, Holds, WaitsFor
    <3>2. CASE \E p \in Process : Did(p)
      BY <2>1, <3>2, NextDid, DeadStep, OneHolderStep
    <3> QED
      BY <2>1, <3>1, <3>2, NextDid
  <2>2. ASSUME Inv, UNCHANGED vars PROVE Inv'
    BY <2>2 DEF vars, Types, DeadOwnNothing, OneHolder, Holds, WaitsFor
  <2> QED
    BY <2>1, <2>2
<1>3. Inv => Exclusive
  BY DEF Exclusive, OneHolder
<1> QED
  BY <1>1, <1>2, <1>3, PTL DEF Spec

-----------------------------------------------------------------------------
(* What is taken has somebody who releases it                              *)

\* The queue of a mutex that is not one process's own is as long as its integer
\* says, and if it is taken somebody has it or has left it.
Handed(s) ==
  /\ sem[s].val >= 0 => sem[s].queue = <<>>
  /\ sem[s].val < 0 => Len(sem[s].queue) = -sem[s].val
  /\ IsInjective(sem[s].queue)
  /\ \A q \in Process : WaitsFor(q, s) => q \in alive /\ Owns(todo[q], s)
  /\ sem[s].val <= 0 => s \in left \/ \E q \in Process : Holds(q, s)

\* A process never waits for its own mutex, and if it dies in a call that has
\* it, it comes to look at it.
Settled(p, s) ==
  /\ sem[s].val >= 0 /\ sem[s].queue = <<>>
  /\ sem[s].val = 0 => p \in alive /\ (Owns(todo[p], s) \/ Checks(todo[p], 0, s))

\* Every mutex that is taken is on its way back.
Taken ==
  alive # {} => /\ \A s \in Mutex \ Owned : Handed(s)
                /\ \A p \in UProc : \A s \in Own(p) : Settled(p, s)

\* A mutex is passed on, or free when nobody waits for it.
LEMMA HandedStep ==
  ASSUME Types, Types', NEW p \in Process, Did(p), alive' # {},
         NEW s \in Mutex \ Owned, Handed(s)
  PROVE  Handed(s)'
<1>1. /\ todo[p] \in Seq(Moves(p)) /\ Sound(todo[p]) /\ Tidy(todo[p])
      /\ sem[s].val \in Int /\ sem[s].queue \in Seq(Process)
      /\ p \in alive /\ ~WaitsFor(p, s)
  BY DEF Types, Good, Semaphores, Did
<1>2. \A q \in Process \ {p} : /\ q \in alive => q \in alive'
                               /\ todo'[q] = todo[q]
  BY DEF Did, Lives, Others
<1>3. ASSUME Owns(todo[p], s) \/ Owns(todo'[p], s) PROVE p \in alive'
  BY <1>1, <1>3 DEF Did, Lives
<1>4. ASSUME NEW q \in Process, q # p, Holds(q, s), ~WaitsFor(q, s)'
      PROVE  Holds(q, s)'
  BY <1>2, <1>4 DEF Holds
<1>5. CASE Takes(p, s)
  <2>1. /\ todo[p] # <<>> /\ Head(todo[p]) = P(s) /\ todo'[p] = Tail(todo[p])
        /\ sem'[s].val = sem[s].val - 1
        /\ sem[s].val > 0 => sem'[s].queue = sem[s].queue
        /\ ~(sem[s].val > 0) => sem'[s].queue = Append(sem[s].queue, p)
    BY <1>5 DEF Takes
  <2>2. Owns(todo'[p], s) /\ p \in alive'
    BY <1>1, <1>3, <2>1, TailTidy
  <2>3. ~Owns(todo[p], s)
    BY <1>1, <2>1, HeadOwns DEF P, V, OnMutex
  <2>4. CASE sem[s].val > 0
    <3>1. sem'[s].queue = <<>>
      BY <1>1, <2>1, <2>4 DEF Handed
    <3>2. Holds(p, s)' /\ \A q : ~WaitsFor(q, s)'
      BY <2>2, <3>1, EmptyQ DEF Holds, WaitsFor
    <3>3. IsInjective(sem'[s].queue)
      BY <3>1, EmptyQ
    <3> QED
      BY <1>1, <2>1, <2>4, <3>1, <3>2, <3>3 DEF Handed
  <2>5. CASE ~(sem[s].val > 0)
    <3>1. PICK a : a = Append(sem[s].queue, p)
      OBVIOUS
    <3>2. /\ sem'[s].queue = a /\ Len(a) = Len(sem[s].queue) + 1
          /\ ToSet(a) = ToSet(sem[s].queue) \cup {p}
          /\ IsInjective(sem[s].queue) /\ p \notin ToSet(sem[s].queue) => IsInjective(a)
      BY <1>1, <2>1, <2>5, <3>1, AppendQ
    <3>3. IsInjective(sem'[s].queue)
      BY <1>1, <3>2 DEF Handed, WaitsFor
    <3>4. \A q \in Process : WaitsFor(q, s)' <=> WaitsFor(q, s) \/ q = p
      BY <3>2 DEF WaitsFor
    <3>5. Len(a) = -sem'[s].val /\ sem'[s].val < 0
      <4>1. sem[s].val = 0 => Len(sem[s].queue) = 0
        BY EmptyQ DEF Handed
      <4> QED
        BY <1>1, <2>1, <2>5, <3>2, <4>1 DEF Handed
    <3>6. \A q \in Process : WaitsFor(q, s)' => q \in alive' /\ Owns(todo'[q], s)
      BY <1>2, <2>2, <3>4 DEF Handed
    <3>7. s \in left' \/ \E q \in Process : Holds(q, s)'
      <4>1. CASE s \in left
        BY <1>5, <4>1 DEF Takes
      <4>2. CASE s \notin left
        <5>1. PICK q \in Process : Holds(q, s)
          BY <1>1, <2>5, <4>2 DEF Handed
        <5>2. q # p /\ ~WaitsFor(q, s)'
          BY <2>3, <3>4, <5>1 DEF Holds
        <5> QED
          BY <1>4, <5>1, <5>2
      <4> QED
        BY <4>1, <4>2
    <3> QED
      BY <1>1, <2>1, <3>2, <3>3, <3>5, <3>6, <3>7 DEF Handed
  <2> QED
    BY <2>4, <2>5
<1>6. CASE Gives(p, s)
  <2>1. /\ sem'[s].val = sem[s].val + 1
        /\ sem[s].val < 0 /\ sem[s].queue # <<>> => sem'[s].queue = Tail(sem[s].queue)
        /\ sem[s].val >= 0 \/ sem[s].queue = <<>> => sem'[s].queue = sem[s].queue
    BY <1>6 DEF Gives
  <2>2. CASE sem[s].val < 0
    <3>1. sem[s].queue # <<>> /\ Len(sem[s].queue) = -sem[s].val
      BY <1>1, <2>2, EmptyQ DEF Handed
    <3>2. PICK h, t : h = Head(sem[s].queue) /\ t = Tail(sem[s].queue)
      OBVIOUS
    <3>3. /\ h \in Process /\ h \in ToSet(sem[s].queue) /\ t \in Seq(Process)
          /\ Len(t) = Len(sem[s].queue) - 1
          /\ ToSet(sem[s].queue) = {h} \cup ToSet(t)
          /\ IsInjective(sem[s].queue) => IsInjective(t) /\ h \notin ToSet(t)
          /\ sem'[s].queue = t
      BY <1>1, <2>1, <2>2, <3>1, <3>2, HeadTailQ
    <3>4. IsInjective(t) /\ h \notin ToSet(t)
      BY <3>3 DEF Handed
    <3>5. \A q \in Process : WaitsFor(q, s)' => WaitsFor(q, s) /\ q # h
      BY <3>3, <3>4 DEF WaitsFor
    <3>6. \A q \in Process : WaitsFor(q, s)' => q \in alive' /\ Owns(todo'[q], s)
      BY <1>1, <1>2, <3>5 DEF Handed
    <3>7. Holds(h, s)'
      <4>1. WaitsFor(h, s) /\ h # p
        BY <1>1, <3>3 DEF WaitsFor
      <4>2. h \in alive /\ Owns(todo[h], s)
        BY <3>3, <4>1 DEF Handed
      <4> QED
        BY <1>2, <3>3, <3>5, <4>1, <4>2 DEF Holds
    <3>8. /\ sem'[s].val >= 0 => t = <<>>
          /\ sem'[s].val < 0 => Len(t) = -sem'[s].val
      <4>1. Len(t) = 0 => t = <<>>
        BY <3>3, EmptyQ
      <4> QED
        BY <1>1, <2>1, <2>2, <3>1, <3>3, <4>1
    <3> QED
      BY <3>3, <3>4, <3>6, <3>7, <3>8 DEF Handed
  <2>3. CASE ~(sem[s].val < 0)
    <3>1. sem'[s].queue = <<>> /\ sem'[s].val > 0
      BY <1>1, <2>1, <2>3 DEF Handed
    <3>2. IsInjective(sem'[s].queue) /\ \A q : ~WaitsFor(q, s)'
      BY <3>1, EmptyQ DEF WaitsFor
    <3> QED
      BY <1>1, <2>1, <2>3, <3>1, <3>2 DEF Handed
  <2> QED
    BY <2>2, <2>3
<1>7. CASE ~Takes(p, s) /\ ~Gives(p, s)
  <2>1. sem'[s] = sem[s]
    BY <1>7 DEF Did, Quiet, Takes, Gives, Only
  <2>2. Owns(todo[p], s) => p \in alive' /\ (Owns(todo'[p], s) \/ s \in left')
    <3>1. CASE Quiet(p)
      BY <1>3, <3>1 DEF Quiet
    <3>2. ASSUME NEW t \in Mutex, t # s, Takes(p, t) \/ Gives(p, t)
          PROVE  Owns(todo[p], s) => p \in alive' /\ Owns(todo'[p], s)
      <4>1. todo[p] # <<>> /\ todo'[p] = Tail(todo[p]) /\ ~OnMutex(Head(todo[p]), s)
        BY <3>2 DEF Takes, Gives, P, V, OnMutex
      <4> QED
        BY <1>1, <1>3, <4>1, TailTidy
    <3> QED
      BY <1>7, <3>1, <3>2 DEF Did
  <2>3. \A q \in Process : WaitsFor(q, s)' <=> WaitsFor(q, s)
    BY <2>1 DEF WaitsFor
  <2>4. \A q \in Process : Owns(todo[q], s) /\ q \in alive =>
          q \in alive' /\ (Owns(todo'[q], s) \/ (q = p /\ s \in left'))
    BY <1>2, <2>2
  <2>5. \A q \in Process : Holds(q, s) => Holds(q, s)' \/ s \in left'
    BY <2>3, <2>4 DEF Holds
  <2>6. s \in left => s \in left'
    BY <1>7 DEF Did, Quiet, Takes, Gives
  <2>7. \A q \in Process : WaitsFor(q, s)' => q \in alive' /\ Owns(todo'[q], s)
    <3>1. \A q \in Process : WaitsFor(q, s)' => q # p /\ q \in alive /\ Owns(todo[q], s)
      BY <1>1, <2>3 DEF Handed
    <3> QED
      BY <2>4, <3>1
  <2>8. sem'[s].val <= 0 => s \in left' \/ \E q \in Process : Holds(q, s)'
    BY <2>1, <2>5, <2>6 DEF Handed
  <2> QED
    BY <2>1, <2>7, <2>8 DEF Handed
<1> QED
  BY <1>5, <1>6, <1>7

\* What p leaves taken when it dies in a call, p releases on its way out.
LEMMA SettledStep ==
  ASSUME Types, NEW p \in Process, Did(p), alive' # {},
         NEW q \in UProc, NEW s \in Own(q), Settled(q, s)
  PROVE  Settled(q, s)'
<1>1. /\ todo[p] \in Seq(Moves(p)) /\ Sound(todo[p]) /\ Tidy(todo[p])
      /\ p \in alive
  BY DEF Types, Good, Did
<1>2. s \in Owned /\ s \in Mutex /\ s # ADL /\ \A u \in UProc : s \in Own(u) => u = q
  BY MutexTypes DEF Low
<1>3. sem[s].val \in Int
  BY <1>2 DEF Types, Semaphores
<1>4. ASSUME Takes(p, s) \/ Gives(p, s) PROVE p = q
  <2>1. todo[p] # <<>> /\ Head(todo[p]) \in Moves(p)
    BY <1>1, <1>4, TailAfter DEF Takes, Gives
  <2>2. CASE Head(todo[p]) \in {P(s), V(s)}
    <3>1. s \in Reach(p) \/ s = Master
      BY <2>1, <2>2, MoveTypes DEF P, V
    <3>2. s # Master
      BY <1>2, MutexTypes
    <3> QED
      BY <3>1, <3>2 DEF Reach
  <2>3. CASE Head(todo[p]) = <<"sleep", s>>
    <3>1. s = ADL
      BY <2>1, <2>3, MoveTypes
    <3> QED
      BY <1>2, <3>1
  <2>4. CASE p \in UProc /\ s \in Numbered(p)
    <3>1. s \notin {Disk(p), Flash(p)}
      BY <1>2, <2>4, MutexTypes
    <3> QED
      BY <1>2, <2>4, <3>1 DEF Numbered
  <2> QED
    BY <1>4, <2>2, <2>3, <2>4 DEF Takes, Gives
<1>5. CASE p # q
  <2>1. sem'[s] = sem[s]
    BY <1>2, <1>4, <1>5 DEF Did, Quiet, Takes, Gives, Only
  <2>2. todo'[q] = todo[q] /\ (q \in alive => q \in alive')
    BY <1>5, Processes DEF Did, Lives, Others
  <2> QED
    BY <2>1, <2>2 DEF Settled
<1>6. CASE p = q /\ Takes(p, s)
  <2>1. /\ todo[p] # <<>> /\ Head(todo[p]) = P(s) /\ todo'[p] = Tail(todo[p])
        /\ sem'[s].val = sem[s].val - 1
        /\ sem[s].val > 0 => sem'[s].queue = sem[s].queue
    BY <1>6 DEF Takes
  <2>2. Owns(todo'[p], s) /\ ~Checks(todo[p], 0, s)
    BY <1>1, <1>2, <2>1, TailTidy
  <2>3. ~Owns(todo[p], s)
    BY <1>1, <2>1, HeadOwns DEF P, V, OnMutex
  <2>4. sem[s].val > 0
    BY <1>3, <1>6, <2>2, <2>3 DEF Settled
  <2>5. p \in alive'
    BY <1>1, <1>2, <2>2 DEF Did, Lives
  <2> QED
    BY <1>3, <1>6, <2>1, <2>2, <2>4, <2>5 DEF Settled
<1>7. CASE p = q /\ Gives(p, s)
  <2>1. sem'[s].val = sem[s].val + 1 /\ sem'[s].queue = sem[s].queue
    BY <1>7 DEF Gives, Settled
  <2> QED
    BY <1>3, <2>1 DEF Settled
<1>8. CASE p = q /\ ~Takes(p, s) /\ ~Gives(p, s)
  <2>1. sem'[s] = sem[s]
    BY <1>2, <1>8 DEF Did, Quiet, Takes, Gives, Only
  <2> SUFFICES ASSUME sem[s].val = 0
               PROVE  p \in alive' /\ (Owns(todo'[p], s) \/ Checks(todo'[p], 0, s))
    BY <1>8, <2>1 DEF Settled
  <2>2. Owns(todo[p], s) \/ Checks(todo[p], 0, s)
    BY <1>8 DEF Settled
  <2>3. p \in alive'
    BY <1>1, <1>2, <2>2 DEF Did, Lives
  <2>4. CASE Quiet(p)
    <3>1. s \in Own(p) /\ s \in Mutex /\ s \in Owned /\ p \in UProc
      BY <1>2, <1>8
    <3>2. sem[s].val = 0
      OBVIOUS
    <3>3. Owns(todo[p], s) => Owns(todo'[p], s) \/ Checks(todo'[p], 0, s)
      BY <2>4, <3>1 DEF Quiet
    <3>4. Checks(todo[p], 0, s) => Checks(todo'[p], 0, s)
      BY <2>4, <3>1, <3>2 DEF Quiet
    <3> QED
      BY <2>2, <2>3, <3>3, <3>4
  <2>5. ASSUME NEW t \in Mutex, t # s, Takes(p, t) \/ Gives(p, t)
        PROVE  Owns(todo'[p], s) \/ Checks(todo'[p], 0, s)
    <3>1. /\ todo[p] # <<>> /\ todo'[p] = Tail(todo[p]) /\ ~OnMutex(Head(todo[p]), s)
          /\ Head(todo[p]) \notin {<<"test", s>>, <<"release", s>>}
      BY <2>5 DEF Takes, Gives, P, V, OnMutex
    <3> QED
      BY <1>1, <1>2, <2>2, <3>1, TailTidy
  <2> QED
    BY <1>8, <2>3, <2>4, <2>5 DEF Did
<1> QED
  BY <1>5, <1>6, <1>7, <1>8

\* Both together.
LEMMA TakenStep ==
  ASSUME Types, Types', Taken, NEW p \in Process, Did(p)
  PROVE  Taken'
<1> SUFFICES ASSUME alive' # {}
             PROVE  /\ \A s \in Mutex \ Owned : Handed(s)'
                    /\ \A q \in UProc : \A s \in Own(q) : Settled(q, s)'
  BY DEF Taken
<1>1. alive # {}
  BY DEF Did
<1> QED
  BY <1>1, HandedStep, SettledStep DEF Taken

\* A mutex that is taken has somebody who comes to it.
LEMMA TakenEnough ==
  ASSUME Types, Taken
  PROVE  NeverLeftTaken
<1> SUFFICES ASSUME alive # {}, NEW s \in Mutex, sem[s].val <= 0
             PROVE  \/ s \in left \cap Losable
                    \/ \E p \in alive : \/ Holds(p, s)
                                        \/ \E i \in DOMAIN todo[p] :
                                             todo[p][i] \in {<<"test", s>>, <<"release", s>>}
  BY DEF NeverLeftTaken
<1>1. CASE s \notin Owned
  <2>1. left \subseteq Owned \cup Losable
    BY DEF Types
  <2> QED
    BY <1>1, <2>1 DEF Taken, Handed, Holds
<1>2. CASE s \in Owned
  <2>1. PICK p \in UProc : s \in Own(p)
    BY <1>2 DEF Owned
  <2>2. Settled(p, s) /\ sem[s].val \in Int
    BY <2>1 DEF Taken, Types, Semaphores
  <2>3. p \in alive /\ (Owns(todo[p], s) \/ Checks(todo[p], 0, s))
    BY <2>2 DEF Settled
  <2>4. ~WaitsFor(p, s)
    BY <2>2, EmptyQ DEF Settled, WaitsFor
  <2> QED
    BY <2>3, <2>4 DEF Holds, Checks
<1> QED
  BY <1>1, <1>2

\* Whatever traps and whatever fails: a mutex that is taken has a holder that is
\* alive, or a process that is ending and has still to come to it, or it is a
\* block device or the swap pool and a process ended in the middle with it.
THEOREM TakenIsReleased == Units \cap UProc = {} => (Spec => []NeverLeftTaken)
<1> SUFFICES ASSUME Units \cap UProc = {} PROVE Spec => []NeverLeftTaken
  OBVIOUS
<1>1. Init => Types /\ Taken
  <2> SUFFICES ASSUME Init PROVE Types /\ Taken
    OBVIOUS
  <2>1. /\ Types /\ \A p \in Process, s \in Mutex : ~Owns(todo[p], s) /\ ~WaitsFor(p, s)
        /\ \A s \in Mutex : sem[s].val = 1 /\ sem[s].queue = <<>>
    BY InitTypes
  <2>2. \A p \in UProc : Own(p) \subseteq Mutex
    BY MutexTypes
  <2>3. \A s \in Mutex : IsInjective(sem[s].queue)
    BY <2>1, EmptyQ
  <2>4. \A s \in Mutex : Handed(s)
    BY <2>1, <2>3 DEF Handed
  <2>5. \A p \in UProc : \A s \in Own(p) : Settled(p, s)
    BY <2>1, <2>2 DEF Settled
  <2> QED
    BY <2>1, <2>4, <2>5 DEF Taken
<1>2. Types /\ Taken /\ [Next]_vars => (Types /\ Taken)'
  <2>1. ASSUME Types, Taken, Next PROVE (Types /\ Taken)'
    <3>1. CASE UNCHANGED vars
      BY <2>1, <3>1 DEF vars, Types, Taken, Handed, Settled, Holds, WaitsFor
    <3>2. CASE \E p \in Process : Did(p)
      BY <2>1, <3>2, NextDid, TakenStep
    <3> QED
      BY <2>1, <3>1, <3>2, NextDid
  <2>2. ASSUME Types, Taken, UNCHANGED vars PROVE (Types /\ Taken)'
    BY <2>2 DEF vars, Types, Taken, Handed, Settled, Holds, WaitsFor
  <2> QED
    BY <2>1, <2>2
<1>3. Types /\ Taken => NeverLeftTaken
  BY TakenEnough
<1> QED
  BY <1>1, <1>2, <1>3, PTL DEF Spec

-----------------------------------------------------------------------------
(* The semaphores that are not mutexes                                     *)

\* A P and a V of p on such a semaphore.
TakesFrom(p, s) ==
  /\ \A t \in Signal \ {s} : sem'[t] = sem[t]
  /\ sem'[s].val = sem[s].val - 1
  /\ sem[s].val > 0 => sem'[s].queue = sem[s].queue
  /\ ~(sem[s].val > 0) => sem'[s].queue = Append(sem[s].queue, p)
GivesTo(s) ==
  /\ \A t \in Signal \ {s} : sem'[t] = sem[t]
  /\ sem'[s].val = sem[s].val + 1
  /\ sem[s].val < 0 /\ sem[s].queue # <<>> => sem'[s].queue = Tail(sem[s].queue)
  /\ sem[s].val >= 0 \/ sem[s].queue = <<>> => sem'[s].queue = sem[s].queue

\* What a step of p does with them, with the list of sleepers and with who is
\* alive.
Signals(p) ==
  \/ adl' = adl /\ \A s \in Signal : sem'[s] = sem[s]
  \/ adl' = adl /\ p = Test /\ TakesFrom(p, Master)
  \/ /\ adl' = adl /\ p \in UProc /\ GivesTo(Master)
     /\ todo[p] # <<>> /\ Head(todo[p]) = V(Master) /\ todo'[p] = Tail(todo[p])
  \/ p \in UProc /\ adl' = adl \cup {p} /\ TakesFrom(p, Private(p))
  \/ \E q \in adl : adl' = adl \ {q} /\ GivesTo(Private(q))
Births(p) ==
  \A q \in alive' \ alive :
    p = Test /\ todo[p] # <<>> /\ Head(todo[p]) = <<"SYS1", <<"process", q>>>>
\* A step of p, as far as they are concerned.
Turn(p) ==
  /\ p \in alive /\ \A s \in Signal : p \notin ToSet(sem[s].queue)
  /\ Others(p) /\ Births(p) /\ Signals(p)
  /\ p = Test => todo[p] # <<>> /\ todo'[p] = Tail(todo[p])
  /\ todo[p] # <<>> /\ Head(todo[p]) = End(p) => p \notin alive'

\* A step of p that goes to the steps t.
LEMMA TurnFacts ==
  ASSUME Types, NEW p \in Process, Able(p), NEW t, Goto(p, t)
  PROVE  /\ p \in alive /\ \A s \in Signal : p \notin ToSet(sem[s].queue)
         /\ Others(p) /\ todo'[p] = t
<1>1. DOMAIN sem = Mutex \cup Signal
  BY DEF Types, Semaphores
<1>2. p \in alive /\ \A s \in Signal : p \notin ToSet(sem[s].queue)
  BY <1>1 DEF Able, Blocked
<1>3. todo' = [todo EXCEPT ![p] = t] /\ DOMAIN todo = Process
  BY DEF Goto, Types
<1>4. todo'[p] = t /\ \A q \in Process \ {p} : todo'[q] = todo[q]
  BY <1>3
<1> QED
  BY <1>2, <1>4 DEF Others

\* A step that does what stands at the head of todo[p].
LEMMA TurnDone ==
  ASSUME Types, NEW p \in Process, NEW op, At(p, op), Done(p)
  PROVE  /\ p \in alive /\ \A s \in Signal : p \notin ToSet(sem[s].queue)
         /\ Others(p) /\ todo[p] # <<>> /\ todo'[p] = Tail(todo[p])
         /\ Head(todo[p]) = <<op, Arg(p)>> /\ Head(todo[p]) \in Moves(p)
         /\ op # "SYS2" => Head(todo[p]) # End(p)
<1>1. Able(p) /\ todo[p] # <<>>
  BY DEF At
<1>2. Head(todo[p]) = <<op, Arg(p)>> /\ Head(todo[p]) \in Moves(p)
  BY DoneFacts
<1>3. op # "SYS2" => <<op, Arg(p)>> # End(p)
  BY DEF End
<1> QED
  BY <1>1, <1>2, <1>3, TurnFacts DEF Done

\* Only the instantiator creates.
LEMMA BirthMove ==
  ASSUME NEW p \in Process, NEW x \in Moves(p), x[1] = "SYS1"
  PROVE  p = Test /\ \E q \in UProc : x = <<"SYS1", <<"process", q>>>>
BY DEF Moves, P, V, Page, Address, Number, Status, End

\* Every step of a process is a turn of it.
LEMMA TurnStep ==
  ASSUME Types, NEW p \in Process, Step(p)
  PROVE  Turn(p)
<1> DEFINE Same == \A s \in Signal : sem'[s] = sem[s]
<1>1. Test \notin UProc
  BY Processes
<1>2. CASE Exception(p)
  <2>1. p \in UProc /\ Able(p) /\ todo[p] = <<>> /\ sem' = sem /\ adl' = adl /\ alive' = alive
    BY <1>2 DEF Exception
  <2>2. PICK t : Goto(p, t)
    BY <1>2 DEF Exception
  <2> QED
    BY <1>1, <2>1, <2>2, TurnFacts DEF Turn, Births, Signals
<1>3. CASE SYS1(p)
  <2>1. At(p, "SYS1") /\ Done(p) /\ sem' = sem /\ adl' = adl
        /\ alive' = alive \cup {Arg(p)[2]}
    BY <1>3 DEF SYS1
  <2>2. /\ p \in alive /\ \A s \in Signal : p \notin ToSet(sem[s].queue)
        /\ Others(p) /\ todo[p] # <<>> /\ todo'[p] = Tail(todo[p])
        /\ Head(todo[p]) = <<"SYS1", Arg(p)>> /\ Head(todo[p]) \in Moves(p)
        /\ Head(todo[p]) # End(p)
    BY <2>1, TurnDone
  <2>3. PICK q \in UProc : p = Test /\ Head(todo[p]) = <<"SYS1", <<"process", q>>>>
    BY <2>2, BirthMove
  <2>4. Arg(p)[2] = q
    BY <2>2, <2>3
  <2>5. Births(p)
    BY <2>1, <2>2, <2>3, <2>4 DEF Births
  <2> QED
    BY <2>1, <2>2, <2>5 DEF Turn, Signals
<1>4. CASE SYS2(p)
  <2>1. At(p, "SYS2") /\ Done(p) /\ sem' = sem /\ adl' = adl
        /\ (alive' = {} \/ alive' = alive \ {p})
    BY <1>4 DEF SYS2
  <2>2. /\ p \in alive /\ \A s \in Signal : p \notin ToSet(sem[s].queue)
        /\ Others(p) /\ todo[p] # <<>> /\ todo'[p] = Tail(todo[p])
    BY <2>1, TurnDone
  <2> QED
    BY <2>1, <2>2 DEF Turn, Births, Signals
<1>5. CASE SYS3(p)
  <2>1. At(p, "SYS3") /\ Done(p) /\ sem' = passeren(sem, Arg(p), p) /\ adl' = adl
        /\ alive' = alive
    BY <1>5 DEF SYS3
  <2>2. /\ p \in alive /\ \A s \in Signal : p \notin ToSet(sem[s].queue)
        /\ Others(p) /\ todo[p] # <<>> /\ todo'[p] = Tail(todo[p])
        /\ Head(todo[p]) = <<"SYS3", Arg(p)>> /\ Head(todo[p]) \in Moves(p)
        /\ Head(todo[p]) # End(p)
    BY <2>1, TurnDone
  <2>3. PICK a, new : a = Arg(p) /\ new = passeren(sem, a, p)
    OBVIOUS
  <2>4. a \in Mutex \/ (p = Test /\ a = Master)
    BY <2>2, <2>3, MoveTypes DEF Reach
  <2>5. a \in Mutex \cup Signal /\ sem \in Semaphores(Mutex \cup Signal, Process)
    BY <2>4, MutexTypes DEF Types
  <2>6. /\ \A t \in (Mutex \cup Signal) \ {a} : new[t] = sem[t]
        /\ new[a].val = sem[a].val - 1
        /\ sem[a].val > 0 => new[a].queue = sem[a].queue
        /\ ~(sem[a].val > 0) => new[a].queue = Append(sem[a].queue, p)
    BY <2>3, <2>5, TakeFacts
  <2>7. new = sem'
    BY <2>1, <2>3
  <2>8. Signals(p)
    <3>1. CASE a \in Mutex
      BY <2>1, <2>6, <2>7, <3>1, MutexTypes DEF Signals
    <3>2. CASE p = Test /\ a = Master
      <4>1. TakesFrom(p, Master)
        BY <2>6, <2>7, <3>2 DEF TakesFrom
      <4> QED
        BY <2>1, <3>2, <4>1 DEF Signals
    <3> QED
      BY <2>4, <3>1, <3>2
  <2> QED
    BY <2>1, <2>2, <2>8 DEF Turn, Births
<1>6. CASE SYS4(p)
  <2>1. PICK op \in {"SYS4", "release"} :
          At(p, op) /\ Done(p) /\ sem' = verhogen(sem, Arg(p)) /\ adl' = adl
          /\ alive' = alive
    BY <1>6 DEF SYS4
  <2>2. /\ p \in alive /\ \A s \in Signal : p \notin ToSet(sem[s].queue)
        /\ Others(p) /\ todo[p] # <<>> /\ todo'[p] = Tail(todo[p])
        /\ Head(todo[p]) = <<op, Arg(p)>> /\ Head(todo[p]) \in Moves(p)
        /\ Head(todo[p]) # End(p)
    BY <2>1, TurnDone
  <2>3. PICK a, new : a = Arg(p) /\ new = verhogen(sem, a)
    OBVIOUS
  <2>4. a \in Mutex \/ (p \in UProc /\ a = Master /\ op = "SYS4")
    BY <2>2, <2>3, MoveTypes, MutexTypes DEF Reach
  <2>5. a \in Mutex \cup Signal /\ sem \in Semaphores(Mutex \cup Signal, Process)
    BY <2>4, MutexTypes DEF Types
  <2>6. /\ \A t \in (Mutex \cup Signal) \ {a} : new[t] = sem[t]
        /\ new[a].val = sem[a].val + 1
        /\ sem[a].val < 0 /\ sem[a].queue # <<>> => new[a].queue = Tail(sem[a].queue)
        /\ sem[a].val >= 0 \/ sem[a].queue = <<>> => new[a].queue = sem[a].queue
    BY <2>3, <2>5, GiveFacts
  <2>7. new = sem'
    BY <2>1, <2>3
  <2>8. Signals(p)
    <3>1. CASE a \in Mutex
      BY <2>1, <2>6, <2>7, <3>1, MutexTypes DEF Signals
    <3>2. CASE p \in UProc /\ a = Master /\ op = "SYS4"
      <4>1. GivesTo(Master)
        BY <2>6, <2>7, <3>2 DEF GivesTo
      <4>2. Head(todo[p]) = V(Master)
        BY <2>2, <2>3, <3>2 DEF V
      <4> QED
        BY <2>1, <2>2, <3>2, <4>1, <4>2 DEF Signals
    <3> QED
      BY <2>4, <3>1, <3>2
  <2> QED
    BY <2>1, <2>2, <2>8 DEF Turn, Births
<1>7. CASE SYS5(p)
  <2>1. At(p, "SYS5") /\ Done(p) /\ sem' = sem /\ adl' = adl /\ alive' = alive
    BY <1>7 DEF SYS5
  <2>2. /\ p \in alive /\ \A s \in Signal : p \notin ToSet(sem[s].queue)
        /\ Others(p) /\ todo[p] # <<>> /\ todo'[p] = Tail(todo[p])
        /\ Head(todo[p]) # End(p)
    BY <2>1, TurnDone
  <2> QED
    BY <2>1, <2>2 DEF Turn, Births, Signals
<1>8. ASSUME Touch(p) \/ Fault(p) \/ Trap(p) \/ TestMutex(p) PROVE Turn(p)
  <2>1. /\ Able(p) /\ todo[p] # <<>> /\ Head(todo[p])[1] \in {"touch", "test"}
        /\ sem' = sem /\ adl' = adl /\ alive' = alive /\ \E t : Goto(p, t)
    BY <1>8 DEF Touch, Fault, Trap, TestMutex, At, Done
  <2>2. Head(todo[p]) \in Moves(p)
    BY <2>1, HeadTailQ DEF Types, Good
  <2>3. p \in UProc /\ Head(todo[p]) # End(p)
    BY <2>1, <2>2, MoveTypes DEF End
  <2> QED
    BY <1>1, <2>1, <2>3, TurnFacts DEF Turn, Births, Signals
<1>9. CASE Sleep(p)
  <2>1. At(p, "sleep") /\ Done(p) /\ adl' = adl \cup {p} /\ alive' = alive
        /\ sem' = passeren(verhogen(sem, ADL), Private(p), p)
    BY <1>9 DEF Sleep
  <2>2. /\ p \in alive /\ \A s \in Signal : p \notin ToSet(sem[s].queue)
        /\ Others(p) /\ todo[p] # <<>> /\ todo'[p] = Tail(todo[p])
        /\ Head(todo[p]) = <<"sleep", Arg(p)>> /\ Head(todo[p]) \in Moves(p)
        /\ Head(todo[p]) # End(p)
    BY <2>1, TurnDone
  <2>3. PICK mid, new : mid = verhogen(sem, ADL) /\ new = passeren(mid, Private(p), p)
    OBVIOUS
  <2>4. p \in UProc /\ ADL \in Mutex /\ Private(p) \in Signal /\ Mutex \cap Signal = {}
    BY <2>2, MoveTypes, MutexTypes
  <2>5. sem \in Semaphores(Mutex \cup Signal, Process) /\ ADL \in Mutex \cup Signal
    BY <2>4 DEF Types
  <2>6. /\ mid \in Semaphores(Mutex \cup Signal, Process)
        /\ \A t \in (Mutex \cup Signal) \ {ADL} : mid[t] = sem[t]
    BY <2>3, <2>5, GiveFacts
  <2>7. /\ \A t \in (Mutex \cup Signal) \ {Private(p)} : new[t] = mid[t]
        /\ new[Private(p)].val = mid[Private(p)].val - 1
        /\ mid[Private(p)].val > 0 => new[Private(p)].queue = mid[Private(p)].queue
        /\ ~(mid[Private(p)].val > 0) =>
             new[Private(p)].queue = Append(mid[Private(p)].queue, p)
    BY <2>3, <2>4, <2>6, TakeFacts
  <2>8. new = sem' /\ mid[Private(p)] = sem[Private(p)]
    BY <2>1, <2>3, <2>4, <2>6
  <2>9. \A t \in Signal \ {Private(p)} : sem'[t] = sem[t]
    BY <2>4, <2>6, <2>7, <2>8
  <2>10. TakesFrom(p, Private(p))
    BY <2>7, <2>8, <2>9 DEF TakesFrom
  <2>11. p # Test
    BY <1>1, <2>4
  <2> QED
    BY <2>1, <2>2, <2>4, <2>10, <2>11 DEF Turn, Births, Signals
<1> QED
  BY <1>2, <1>3, <1>4, <1>5, <1>6, <1>7, <1>8, <1>9 DEF Step

\* And so is every step of the daemon in its scan.
LEMMA DaemonTurn ==
  ASSUME Types, (\E q \in UProc : Wake(q)) \/ Woken \/ Again
  PROVE  Turn(Daemon)
<1>1. Daemon \in Process /\ Daemon # Test
  BY Processes
<1>2. Able(Daemon) /\ (todo[Daemon] = <<>> \/ Head(todo[Daemon])[1] = "wake")
      /\ alive' = alive
  BY DEF Wake, Woken, Again, At
<1>3. Head(todo[Daemon])[1] = "wake" => Head(todo[Daemon]) # End(Daemon)
  BY DEF End
<1>4. Others(Daemon)
  BY <1>1, <1>2, TurnFacts DEF Wake, Woken, Again, Others, Done
<1>5. Daemon \in alive /\ \A s \in Signal : Daemon \notin ToSet(sem[s].queue)
  BY <1>2 DEF Types, Semaphores, Able, Blocked
<1>6. Signals(Daemon)
  <2>1. ASSUME NEW q \in UProc, Wake(q) PROVE Signals(Daemon)
    <3>1. q \in adl /\ adl' = adl \ {q} /\ sem' = verhogen(sem, Private(q))
      BY <2>1 DEF Wake
    <3>2. Private(q) \in Signal /\ sem \in Semaphores(Mutex \cup Signal, Process)
      BY MutexTypes DEF Types
    <3>3. PICK s, new : s = Private(q) /\ new = verhogen(sem, s)
      OBVIOUS
    <3>4. /\ \A t \in (Mutex \cup Signal) \ {s} : new[t] = sem[t]
          /\ new[s].val = sem[s].val + 1
          /\ sem[s].val < 0 /\ sem[s].queue # <<>> => new[s].queue = Tail(sem[s].queue)
          /\ sem[s].val >= 0 \/ sem[s].queue = <<>> => new[s].queue = sem[s].queue
      BY <3>2, <3>3, GiveFacts
    <3>5. GivesTo(Private(q))
      BY <3>1, <3>3, <3>4 DEF GivesTo
    <3> QED
      BY <3>1, <3>5 DEF Signals
  <2>2. ASSUME Woken \/ Again PROVE Signals(Daemon)
    BY <2>2 DEF Woken, Again, Signals
  <2> QED
    BY <2>1, <2>2
<1> QED
  BY <1>1, <1>2, <1>3, <1>4, <1>5, <1>6 DEF Turn, Births

\* How far the instantiator has come, and who has ended or is about to.
Launched == 2*MaxUProcs+1 - Len(todo[Test])
Gone ==
  {q \in UProc : /\ q <= Launched
                 /\ q \notin alive \/ (todo[q] # <<>> /\ Head(todo[q]) = End(q))}

\* The instantiator launches every process once and waits for it once, and
\* every process V's the master semaphore once, at its end.
Counts ==
  /\ Len(todo[Test]) \in 0..2*MaxUProcs+1
  /\ \A i \in 1..Len(todo[Test]) : todo[Test][i] = test[i + Launched]
  /\ \A q \in UProc : q > Launched => q \notin alive
  /\ sem[Master].val <= Cardinality(Gone)

\* Only the instantiator waits for the master semaphore, and only p for its
\* private one: that is where it is while it is on the delay list.
Alone(s, p) == Len(sem[s].queue) = 1 /\ p \in ToSet(sem[s].queue)
Queues ==
  /\ sem[Master].val >= 0 => sem[Master].queue = <<>>
  /\ sem[Master].val < 0 => sem[Master].val = -1 /\ Alone(Master, Test)
  /\ \A p \in UProc :
       /\ p \in adl => sem[Private(p)].val = -1 /\ Alone(Private(p), p)
       /\ p \notin adl => sem[Private(p)].val = 0 /\ sem[Private(p)].queue = <<>>

\* A P by the one process that waits for s at all.
LEMMA TakesAlone ==
  ASSUME Types, NEW s \in Signal, NEW p \in Process, TakesFrom(p, s), p \notin ToSet(sem[s].queue),
         sem[s].val >= 0 => sem[s].queue = <<>>,
         sem[s].val < 0 => sem[s].val = -1 /\ Alone(s, p)
  PROVE  /\ sem[s].val >= 0 /\ sem'[s].val = sem[s].val - 1
         /\ sem'[s].val >= 0 => sem'[s].queue = <<>>
         /\ sem'[s].val < 0 => sem'[s].val = -1 /\ Alone(s, p)'
<1>1. sem[s].val \in Int /\ sem[s].queue \in Seq(Process)
  BY DEF Types, Semaphores
<1>2. sem[s].val >= 0
  BY <1>1 DEF Alone
<1>3. sem'[s].val = sem[s].val - 1
  BY DEF TakesFrom
<1>4. CASE sem[s].val = 0
  <2>1. PICK e : e = sem[s].queue
    OBVIOUS
  <2>2. e = <<>> /\ e \in Seq(Process) /\ Len(e) = 0
    BY <1>1, <1>4, <2>1, EmptyQ
  <2>7. e \in Seq(Process)
    BY <2>2
  <2>8. Len(Append(e, p)) = Len(e) + 1 /\ ToSet(Append(e, p)) = ToSet(e) \cup {p}
    BY <2>7, AppendQ
  <2>3. PICK a : a = Append(e, p)
    OBVIOUS
  <2>5. Len(a) = Len(e) + 1 /\ ToSet(a) = ToSet(e) \cup {p}
    BY <2>3, <2>8
  <2>6. Len(a) = 1 /\ p \in ToSet(a)
    BY <2>2, <2>5
  <2>4. sem'[s].queue = a
    BY <1>1, <1>4, <2>1, <2>3 DEF TakesFrom
  <2> QED
    BY <1>2, <1>3, <1>4, <2>4, <2>6 DEF Alone
<1>5. CASE sem[s].val > 0
  BY <1>1, <1>2, <1>3, <1>5 DEF TakesFrom
<1> QED
  BY <1>1, <1>2, <1>4, <1>5

\* A V on it: then nobody waits.
LEMMA GivesAlone ==
  ASSUME Types, NEW s \in Signal, NEW p, GivesTo(s),
         sem[s].val >= 0 => sem[s].queue = <<>>,
         sem[s].val < 0 => sem[s].val = -1 /\ Alone(s, p)
  PROVE  sem'[s].val = sem[s].val + 1 /\ sem'[s].val >= 0 /\ sem'[s].queue = <<>>
<1>1. sem[s].val \in Int /\ sem[s].queue \in Seq(Process)
  BY DEF Types, Semaphores
<1>2. sem'[s].val = sem[s].val + 1
  BY DEF GivesTo
<1>3. CASE sem[s].val < 0
  <2>1. sem[s].val = -1 /\ Len(sem[s].queue) = 1 /\ sem[s].queue # <<>>
    BY <1>1, <1>3, EmptyQ DEF Alone
  <2>2. PICK t : t = Tail(sem[s].queue)
    OBVIOUS
  <2>3. t \in Seq(Process) /\ Len(t) = Len(sem[s].queue) - 1
    BY <1>1, <2>1, <2>2, HeadTailQ
  <2>4. Len(t) = 0
    BY <2>1, <2>3
  <2>5. t = <<>>
    BY <2>3, <2>4, EmptyQ
  <2>6. sem'[s].queue = t
    BY <1>3, <2>1, <2>2 DEF GivesTo
  <2> QED
    BY <1>2, <2>1, <2>5, <2>6
<1>4. CASE ~(sem[s].val < 0)
  BY <1>1, <1>2, <1>4 DEF GivesTo
<1> QED
  BY <1>3, <1>4

\* A turn keeps the queues of the signals, and V's the master semaphore at
\* the end of a process only.
LEMMA QueuesStep ==
  ASSUME Types, Queues, NEW p \in Process, Turn(p)
  PROVE  /\ Queues'
         /\ \/ sem'[Master].val <= sem[Master].val
            \/ /\ p \in UProc /\ sem'[Master].val = sem[Master].val + 1
               /\ todo[p] # <<>> /\ Head(todo[p]) = V(Master) /\ todo'[p] = Tail(todo[p])
<1>1. /\ Master \in Signal /\ \A q \in UProc : Private(q) \in Signal /\ Private(q) # Master
      /\ \A q, r \in UProc : q # r => Private(q) # Private(r)
  BY MutexTypes DEF Private
<1>2. sem[Master].val \in Int /\ Test \in Process /\ UProc \subseteq Process /\ adl \subseteq UProc
  BY <1>1, Processes DEF Types, Semaphores
<1>3. ASSUME adl' = adl, \A s \in Signal : sem'[s] = sem[s]
      PROVE  Queues' /\ sem'[Master].val <= sem[Master].val
  BY <1>1, <1>2, <1>3 DEF Queues, Alone
<1>4. ASSUME adl' = adl, p = Test, TakesFrom(p, Master)
      PROVE  Queues' /\ sem'[Master].val <= sem[Master].val
  <2>1. /\ sem'[Master].val = sem[Master].val - 1
        /\ sem'[Master].val >= 0 => sem'[Master].queue = <<>>
        /\ sem'[Master].val < 0 => sem'[Master].val = -1 /\ Alone(Master, p)'
    BY <1>1, <1>4, TakesAlone DEF Queues, Turn
  <2>2. \A q \in UProc : sem'[Private(q)] = sem[Private(q)]
    BY <1>1, <1>4 DEF TakesFrom
  <2> QED
    BY <1>2, <1>4, <2>1, <2>2 DEF Queues, Alone
<1>5. ASSUME adl' = adl, GivesTo(Master)
      PROVE  Queues' /\ sem'[Master].val = sem[Master].val + 1
  <2>1. /\ sem'[Master].val = sem[Master].val + 1
        /\ sem'[Master].val >= 0 /\ sem'[Master].queue = <<>>
    BY <1>1, <1>5, GivesAlone DEF Queues
  <2>2. \A q \in UProc : sem'[Private(q)] = sem[Private(q)]
    BY <1>1, <1>5 DEF GivesTo
  <2> QED
    BY <1>2, <1>5, <2>1, <2>2 DEF Queues, Alone
<1>6. ASSUME p \in UProc, adl' = adl \cup {p}, TakesFrom(p, Private(p))
      PROVE  Queues' /\ sem'[Master].val <= sem[Master].val
  <2>1. PICK s : s = Private(p) /\ s \in Signal
    BY <1>1, <1>6
  <2>2. /\ sem[s].val >= 0 => sem[s].queue = <<>>
        /\ sem[s].val < 0 => sem[s].val = -1 /\ Alone(s, p)
        /\ p \notin ToSet(sem[s].queue)
    BY <1>6, <2>1 DEF Queues, Turn
  <2>3. /\ sem[s].val >= 0 /\ sem'[s].val = sem[s].val - 1
        /\ sem'[s].val < 0 => sem'[s].val = -1 /\ Alone(s, p)'
    BY <1>6, <2>1, <2>2, TakesAlone
  <2>4. sem[s].val = 0
    BY <1>6, <2>1, <2>3 DEF Queues
  <2>5. sem'[Private(p)].val = -1 /\ Alone(Private(p), p)'
    BY <2>1, <2>3, <2>4
  <2>6. sem'[Master] = sem[Master] /\ \A q \in UProc \ {p} : sem'[Private(q)] = sem[Private(q)]
    BY <1>1, <1>6 DEF TakesFrom
  <2> QED
    BY <1>2, <1>6, <2>5, <2>6 DEF Queues, Alone
<1>7. ASSUME NEW q \in adl, adl' = adl \ {q}, GivesTo(Private(q))
      PROVE  Queues' /\ sem'[Master].val <= sem[Master].val
  <2>1. PICK s : s = Private(q) /\ s \in Signal
    BY <1>1, <1>2, <1>7
  <2>2. sem[s].val = -1 /\ Alone(s, q)
    BY <1>2, <2>1 DEF Queues
  <2>3. /\ sem[s].val >= 0 => sem[s].queue = <<>>
        /\ sem[s].val < 0 => sem[s].val = -1 /\ Alone(s, q)
    BY <2>2
  <2>4. sem'[s].val = sem[s].val + 1 /\ sem'[s].queue = <<>>
    BY <1>7, <2>1, <2>3, GivesAlone
  <2>5. sem'[Private(q)].val = 0 /\ sem'[Private(q)].queue = <<>>
    BY <2>1, <2>2, <2>4
  <2>6. sem'[Master] = sem[Master] /\ \A r \in UProc \ {q} : sem'[Private(r)] = sem[Private(r)]
    BY <1>1, <1>2, <1>7 DEF GivesTo
  <2> QED
    BY <1>2, <1>7, <2>5, <2>6 DEF Queues, Alone
<1> QED
  BY <1>3, <1>4, <1>5, <1>6, <1>7 DEF Turn, Signals

\* There are as many ended processes as processes at the most.
LEMMA Gones ==
  ASSUME NEW G \in SUBSET UProc
  PROVE  IsFiniteSet(G) /\ Cardinality(G) \in 0..MaxUProcs
<1>1. MaxUProcs \in Nat /\ 1 \in Int /\ MaxUProcs \in Int
  BY SupportAssumption
<1>2. IsFiniteSet(UProc) /\ Cardinality(UProc) = MaxUProcs
  BY <1>1, FS_Interval DEF UProc
<1>3. IsFiniteSet(G) /\ Cardinality(G) <= Cardinality(UProc)
  BY <1>2, FS_Subset
<1>4. Cardinality(G) \in Nat
  BY <1>3, FS_CardinalityType
<1> QED
  BY <1>1, <1>2, <1>3, <1>4

\* A turn keeps the counts: the instantiator comes a step further, a process
\* that V's the master semaphore is gone from then on.
LEMMA CountsStep ==
  ASSUME Types, Types', Counts, Queues, NEW p \in Process, Turn(p)
  PROVE  Counts'
<1> PICK n \in Nat : n = 2*MaxUProcs+1
  BY SupportAssumption
<1>1. /\ Test \notin UProc /\ Test \in Process /\ UProc = 1..MaxUProcs /\ MaxUProcs \in Nat
  BY Processes, SupportAssumption DEF UProc
<1>2. PICK l \in 0..n : l = Len(todo[Test])
  BY DEF Counts
<1>31. n - l \in 0..n
  BY <1>2
<1>32. Launched = n - l
  BY <1>1, <1>2 DEF Launched
<1>3. PICK k \in 0..n : k = n - l /\ Launched = k
  BY <1>31, <1>32
<1>4. /\ \A i \in 1..l : todo[Test][i] = test[i + k]
      /\ \A q \in UProc : q > k => q \notin alive
      /\ sem[Master].val <= Cardinality(Gone)
      /\ \A q \in UProc : q \in Gone <=>
           q <= k /\ (q \notin alive \/ (todo[q] # <<>> /\ Head(todo[q]) = End(q)))
  BY <1>2, <1>3 DEF Counts, Gone
<1>5. \A q \in Process : todo[q] \in Seq(Moves(q))
  BY DEF Types, Good
<1>6. p \in alive /\ \A q \in Process \ {p} : todo'[q] = todo[q]
  BY DEF Turn, Others
\* The instantiator comes a step further when it is its turn.
<1>7. PICK m \in 0..n : /\ m = Len(todo'[Test]) /\ m = (IF p = Test THEN l-1 ELSE l)
                        /\ \A i \in 1..m : todo'[Test][i] = test[i + (n-m)]
  <2>1. CASE p # Test
    <3>1. todo'[Test] = todo[Test]
      BY <1>1, <1>6, <2>1
    <3>2. Len(todo'[Test]) = l /\ \A i \in 1..l : todo'[Test][i] = test[i + (n-l)]
      BY <1>2, <1>3, <1>4, <3>1
    <3> QED
      BY <2>1, <3>2
  <2>2. CASE p = Test
    <3>1. todo[Test] # <<>> /\ todo'[Test] = Tail(todo[Test])
      BY <2>2 DEF Turn
    <3>2. PICK t : t = Tail(todo[Test])
      OBVIOUS
    <3>3. Len(t) = l-1 /\ \A i \in 1..Len(t) : t[i] = todo[Test][i+1]
      BY <1>1, <1>2, <1>5, <3>1, <3>2, HeadTailProperties
    <3>4. l > 0
      BY <1>1, <1>2, <1>5, <3>1, EmptySeq
    <3>5. ASSUME NEW i \in 1..l-1 PROVE t[i] = test[i + (n-(l-1))]
      <4>1. i+1 \in 1..l /\ (i+1)+k = i + (n-(l-1))
        BY <1>3
      <4>2. t[i] = todo[Test][i+1]
        BY <3>3
      <4> QED
        BY <1>4, <4>1, <4>2
    <3>6. l-1 \in 0..n
      BY <1>2, <3>4
    <3> QED
      BY <2>2, <3>1, <3>2, <3>3, <3>5, <3>6
  <2> QED
    BY <2>1, <2>2
<1>81. n - m \in 0..n /\ m <= l /\ k <= n - m
  BY <1>3, <1>7
<1>82. Launched' = n - m
  BY <1>1, <1>7 DEF Launched
<1>8. PICK j \in 0..n : j = n - m /\ Launched' = j /\ k <= j
  BY <1>81, <1>82
<1>9. ASSUME NEW q \in alive' \ alive PROVE q = k+1 /\ j = k+1
  <2>1. p = Test /\ todo[Test] # <<>> /\ Head(todo[Test]) = <<"SYS1", <<"process", q>>>>
    BY DEF Turn, Births
  <2>2. l > 0
    BY <1>1, <1>2, <1>5, <2>1, EmptySeq
  <2>3. j = k+1
    BY <1>3, <1>7, <1>8, <2>1
  <2>4. Head(todo[Test]) = test[1+k]
    <3>1. Head(todo[Test]) = todo[Test][1]
      OBVIOUS
    <3>2. PICK i \in 1..l : i = 1
      BY <2>2
    <3> QED
      BY <1>4, <3>1, <3>2
  <2>5. 1+k \in 1..n
    BY <1>3, <2>2
  <2>6. test[1+k] = IF 1+k <= MaxUProcs THEN <<"SYS1", <<"process", 1+k>>>>
                    ELSE IF 1+k \in MaxUProcs+1..2*MaxUProcs THEN P(Master) ELSE End(Test)
    <3>1. PICK i \in 1..n : i = 1+k
      BY <2>5
    <3>2. test[i] = CASE i <= MaxUProcs -> <<"SYS1", <<"process", i>>>>
                      [] i \in MaxUProcs+1..2*MaxUProcs -> P(Master)
                      [] OTHER -> End(Test)
      BY DEF test
    <3> QED
      BY <1>1, <3>1, <3>2
  <2>7. <<"SYS1", <<"process", q>>>> \notin {P(Master), End(Test)}
    BY DEF P, End
  <2>8. <<"SYS1", <<"process", q>>>> = <<"SYS1", <<"process", 1+k>>>>
    BY <2>1, <2>4, <2>6, <2>7
  <2> QED
    BY <1>3, <2>3, <2>8
<1>10. \A q \in UProc : q > j => q \notin alive'
  <2> SUFFICES ASSUME NEW q \in UProc, q > j, q \in alive' PROVE FALSE
    OBVIOUS
  <2>1. q \in Int /\ q > k
    BY <1>1, <1>3, <1>8
  <2>2. q \in alive' \ alive
    BY <1>4, <2>1
  <2> QED
    BY <1>8, <1>9, <2>1, <2>2
<1>11. \A q \in UProc : q \in Gone' <=>
         q <= j /\ (q \notin alive' \/ (todo'[q] # <<>> /\ Head(todo'[q]) = End(q)))
  BY <1>8 DEF Gone
<1>12. Gone \subseteq Gone'
  <2> SUFFICES ASSUME NEW q \in Gone PROVE q \in Gone'
    OBVIOUS
  <2>1. q \in UProc /\ q \in Process
    BY Processes DEF Gone
  <2>2. q <= k /\ (q \notin alive \/ (todo[q] # <<>> /\ Head(todo[q]) = End(q)))
    BY <1>4, <2>1
  <2>3. q <= j
    BY <1>1, <1>3, <1>8, <2>1, <2>2
  <2>4. CASE q \notin alive
    <3>1. q # k+1
      BY <1>1, <1>3, <2>1, <2>2
    <3> QED
      BY <1>9, <1>11, <2>1, <2>3, <2>4, <3>1
  <2>5. CASE q # p /\ todo[q] # <<>> /\ Head(todo[q]) = End(q)
    BY <1>6, <1>11, <2>1, <2>3, <2>5
  <2>6. CASE q = p /\ todo[q] # <<>> /\ Head(todo[q]) = End(q)
    BY <1>11, <2>1, <2>3, <2>6 DEF Turn
  <2> QED
    BY <2>2, <2>4, <2>5, <2>6
<1>13. /\ IsFiniteSet(Gone) /\ Cardinality(Gone) \in 0..MaxUProcs
       /\ IsFiniteSet(Gone') /\ Cardinality(Gone') \in 0..MaxUProcs
  <2>1. Gone \in SUBSET UProc /\ Gone' \in SUBSET UProc
    BY DEF Gone
  <2> QED
    BY <2>1, Gones
<1>14. Cardinality(Gone) <= Cardinality(Gone')
  BY <1>12, <1>13, FS_Subset
<1>15. sem'[Master].val <= Cardinality(Gone')
  <2>1. sem[Master].val \in Int /\ sem'[Master].val \in Int
    BY MutexTypes DEF Types, Semaphores
  <2>2. CASE sem'[Master].val <= sem[Master].val
    BY <1>1, <1>4, <1>13, <1>14, <2>1, <2>2
  <2>3. CASE /\ p \in UProc /\ sem'[Master].val = sem[Master].val + 1
             /\ todo[p] # <<>> /\ Head(todo[p]) = V(Master) /\ todo'[p] = Tail(todo[p])
    <3>1. p \notin Gone
      <4>1. V(Master) # End(p)
        BY DEF V, End
      <4> QED
        BY <1>4, <1>6, <2>3, <4>1
    <3>2. p \in Gone'
      <4>1. p <= k
        BY <1>1, <1>3, <1>4, <1>6, <2>3
      <4>2. p <= j
        BY <1>1, <1>3, <1>8, <2>3, <4>1
      <4>3. Ends(p, todo[p])
        BY DEF Types, Good
      <4>4. todo'[p] # <<>> /\ Head(todo'[p]) = End(p)
        BY <1>5, <2>3, <4>3, TailEnds
      <4> QED
        BY <1>11, <2>3, <4>2, <4>4
    <3>3. /\ IsFiniteSet(Gone \cup {p}) /\ Cardinality(Gone \cup {p}) = Cardinality(Gone) + 1
      BY <1>13, <3>1, FS_AddElement
    <3>4. Gone \cup {p} \in SUBSET Gone'
      BY <1>12, <3>2
    <3>5. Cardinality(Gone \cup {p}) <= Cardinality(Gone')
      BY <1>13, <3>4, FS_Subset
    <3> QED
      BY <1>1, <1>4, <1>13, <2>1, <2>3, <3>3, <3>5
  <2> QED
    BY <2>2, <2>3, QueuesStep
<1> QED
  BY <1>7, <1>8, <1>10, <1>15 DEF Counts

\* Every step of the system is somebody's turn, or the machine has halted.
LEMMA NextTurn ==
  ASSUME Types, Next
  PROVE  (\E p \in Process : Turn(p)) \/ UNCHANGED vars
<1>1. Daemon \in Process
  BY Processes
<1>2. ASSUME NEW p \in Process, Step(p) PROVE Turn(p)
  BY <1>2, TurnStep
<1>3. ASSUME (\E q \in UProc : Wake(q)) \/ Woken \/ Again PROVE Turn(Daemon)
  BY <1>3, DaemonTurn
<1> QED
  BY <1>1, <1>2, <1>3 DEF Next, Halted

\* Nobody is launched, nobody sleeps, nobody has ended.
LEMMA SignalsBegin ==
  ASSUME Init
  PROVE  Counts /\ Queues
<1>1. /\ Test \notin UProc /\ Test \in Process /\ Daemon \notin UProc
      /\ UProc \subseteq Process /\ MaxUProcs \in Nat
  BY Processes, SupportAssumption
<1> PICK n \in Nat : n = 2*MaxUProcs+1
  BY <1>1
<1>2. todo[Test] = test
  BY <1>1 DEF Init
<1>3. Len(test) = n /\ test \in Seq(Moves(Test))
  <2>1. test \in Seq(Moves(Test))
    BY TestBegins DEF Begins, Good
  <2>2. DOMAIN test = 1..n
    BY DEF test
  <2>3. DOMAIN test = 1..Len(test) /\ Len(test) \in Nat
    BY <2>1, LenProperties
  <2> QED
    BY <2>1, <2>2, <2>3
<1>4. Len(todo[Test]) = n /\ Launched = 0
  BY <1>1, <1>2, <1>3 DEF Launched
<1>5. \A s \in Signal : sem[s].val = 0 /\ sem[s].queue = <<>>
  <2>1. \A s \in Signal : sem[s] = Sema4(0)
    BY MutexTypes DEF Init
  <2>2. Sema4(0).val = 0 /\ Sema4(0).queue = <<>>
    BY DEF Sema4
  <2> QED
    BY <2>1, <2>2, Zenon
<1>6. Queues
  BY <1>1, <1>5, MutexTypes DEF Queues, Init
<1>7. \A q \in UProc : q \notin alive
  BY <1>1 DEF Init
<1>8. \A i \in 1..n : todo[Test][i] = test[i + 0]
  BY <1>2
<1>9. sem[Master].val <= Cardinality(Gone)
  <2>1. Gone \in SUBSET UProc
    BY DEF Gone
  <2>2. Cardinality(Gone) \in 0..MaxUProcs
    BY <2>1, Gones
  <2> QED
    BY <1>1, <1>5, <2>2, MutexTypes
<1> QED
  BY <1>1, <1>4, <1>6, <1>7, <1>8, <1>9 DEF Counts

\* The counts and the queues give the two signals their types.
LEMMA TypesEnough ==
  ASSUME Types, Counts, Queues
  PROVE  TypeOK
<1>1. sem[Master].val \in Int /\ MaxUProcs \in Nat
  BY MutexTypes, SupportAssumption DEF Types, Semaphores
<1>2. sem[Master].val <= MaxUProcs
  <2>1. Gone \in SUBSET UProc
    BY DEF Gone
  <2>2. Cardinality(Gone) \in 0..MaxUProcs
    BY <2>1, Gones
  <2> QED
    BY <1>1, <2>2 DEF Counts
<1>3. sem[Master].val \in -1..MaxUProcs
  BY <1>1, <1>2 DEF Queues
<1>4. \A p \in UProc : sem[Private(p)].val \in -1..0
  BY DEF Queues
<1>5. ASSUME NEW p \in Process PROVE \A i \in DOMAIN todo[p] : Len(todo[p][i]) = 2
  <2>1. PICK st : st = todo[p]
    OBVIOUS
  <2>2. st \in Seq(Moves(p))
    BY <2>1 DEF Types, Good
  <2>3. \A i \in DOMAIN st : st[i] \in Moves(p)
    BY <2>2, ElementOfSeq, LenProperties
  <2>4. \A x \in Moves(p) : Len(x) = 2
    BY MoveTypes
  <2> QED
    BY <2>1, <2>3, <2>4, Zenon
<1>6. left \subseteq Mutex /\ freed \subseteq DevMutex
  BY MutexTypes DEF Types
<1> QED
  BY <1>3, <1>4, <1>5, <1>6 DEF TypeOK, Types

\* Everything has its type: in particular the master semaphore is V'd by every
\* process once at the most, nobody but the instantiator waits for it, and a
\* private semaphore is 0 or, while its process is on the delay list, -1.
THEOREM TypesHold == Units \cap UProc = {} => (Spec => []TypeOK)
<1> SUFFICES ASSUME Units \cap UProc = {} PROVE Spec => []TypeOK
  OBVIOUS
<1> DEFINE Inv == Types /\ Counts /\ Queues
<1>1. Init => Inv
  BY InitTypes, SignalsBegin
<1>2. Inv /\ [Next]_vars => Inv'
  <2>1. ASSUME Inv, UNCHANGED vars PROVE Inv'
    BY <2>1 DEF vars, Types, Counts, Queues, Alone, Launched, Gone
  <2>2. ASSUME Inv, Next PROVE Inv'
    <3>1. Types'
      BY <2>2, NextDid
    <3>2. ASSUME NEW p \in Process, Turn(p) PROVE Inv'
      BY <2>2, <3>1, <3>2, CountsStep, QueuesStep
    <3> QED
      BY <2>1, <2>2, <3>2, NextTurn
  <2> QED
    BY <2>1, <2>2
<1>3. Inv => TypeOK
  BY TypesEnough
<1> QED
  BY <1>1, <1>2, <1>3, PTL DEF Spec

\* A mutex is never had by two, and never by none while it is taken, but for
\* those that get_nuked forgets or takes away: whatever the programs do.
THEOREM HeldByOneHolds == Units \cap UProc = {} => (Spec => []HeldByOne)
BY TypesHold, ExclusiveHolds, TakenIsReleased, PTL DEF HeldByOne
=============================================================================
