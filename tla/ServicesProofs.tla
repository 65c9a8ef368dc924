---------------------------- MODULE ServicesProofs ----------------------------
(***************************************************************************)
(* The delay daemon keeps one alarm per process, wakes nobody early, and   *)
(* its list is what it relies on, for any number of sleepers and any       *)
(* delays.  The instantiator waits for every user process, for any number  *)
(* of them, and never finds the pool empty, though the pool's index        *)
(* is read and written in different steps by processes that do not exclude *)
(* each other.  For the flash calls the theorems of DeviceCallsProofs are  *)
(* cited.                                                                  *)
(***************************************************************************)
EXTENDS MCServices, QueueLemmas

\* The types of the code, and a descriptor for every process (MAXUPROCS of each).
SleepersAssumption ==
  /\ DelayAssumption /\ Width = 32
  /\ IsFiniteSet(Proc) /\ Cardinality(Proc) <= NumDesc

\* The clock is positive as an int for as long as the system is looked at.
Wrap == 2^31
NoWrap == 0 <= Start /\ Start + Horizon < Wrap

-----------------------------------------------------------------------------
(* The inductive invariant                                                 *)

\* Who is past the P on the list, be it that it still waits there.
PastLock(p, l) ==
  l \in IF p = Daemon THEN {"scan", "wake", "drop"} ELSE {"insert", "sleep"}
Users == {p \in Proc \cup {Daemon} : PastLock(p, pc[p])}
Queue == ToSet(sem[Adl].queue)

Places ==
  /\ \A p \in Proc : pc[p] \in {"user", "lock", "insert", "sleep", "asleep", "dead"}
  /\ pc[Daemon] \in {"clock", "tick", "scan", "wake", "drop"}

\* One user at a time has the list, and nobody waits for a list that is free.
ListLock ==
  /\ \/ sem[Adl].val = 1 /\ sem[Adl].queue = <<>>
     \/ sem[Adl].val + Len(sem[Adl].queue) = 0
  /\ sem[Adl].val = 1 => Users = {}
  /\ \A p, q \in Users \ Queue : p = q
  /\ \A p \in Queue : pc[p] = IF p = Daemon THEN "scan" ELSE "insert"

\* Only its process waits at a private semaphore.
Private ==
  \A p \in Proc :
    \/ sem[p].val = 0 /\ sem[p].queue = <<>>
    \/ sem[p].val = -1 /\ sem[p].queue = <<p>> /\ pc[p] = "asleep"

\* p has a descriptor that the daemon has not dealt with.
Asleep(p) == pc[p] = "sleep" \/ sem[p].val = -1

\* Exactly those processes are in the list, each once; between V and removal the
\* daemon has one more at the head.
Listed ==
  /\ \A i, j \in DOMAIN adl : i # j => adl[i].proc # adl[j].proc
  /\ \A p \in Proc : Asleep(p) => \E i \in DOMAIN adl : adl[i].proc = p
  /\ \A i \in DOMAIN adl : Asleep(adl[i].proc) \/ (pc[Daemon] = "drop" /\ i = 1)
  /\ pc[Daemon] = "drop" => adl # <<>> /\ ~Asleep(adl[1].proc)

Sorted == \A i, j \in DOMAIN adl : i < j => adl[i].wake <= adl[j].wake

Descriptors == free + Len(adl) = NumDesc

IInv == TypeOK /\ Places /\ ListLock /\ Private /\ Listed /\ Sorted /\ Descriptors

-----------------------------------------------------------------------------
(* The constants and the clock                                             *)

LEMMA Constants ==
  ASSUME SleepersAssumption
  PROVE  /\ Daemon \notin Proc /\ Adl \notin Proc
         /\ NumDesc \in Nat /\ Horizon \in Nat /\ Start \in Int
         /\ Second \in Nat \ {0} /\ Seconds \subseteq Int
         /\ \A x \in Int : Int32(x) \in Int
         /\ \A x \in Nat : x < Wrap => Int32(x) = x
<1>1. 2^(Width-1) = Wrap /\ 2^Width = 2 * Wrap /\ Wrap \in Nat \ {0}
  BY SMT DEF SleepersAssumption, Wrap
<1>2. \A x \in Int : Int32(x) = ((x + Wrap) % (2 * Wrap)) - Wrap
  BY <1>1 DEF Int32
<1>3. \A x \in Int : Int32(x) \in Int
  BY <1>1, <1>2
<1>4. ASSUME NEW x \in Nat, x < Wrap PROVE Int32(x) = x
  <2>1. x + Wrap \in Nat /\ 2 * Wrap \in Nat \ {0} /\ x + Wrap < 2 * Wrap
    BY <1>1, <1>4
  <2>2. \A a \in Nat, b \in Nat \ {0} : a < b => a % b = a
    OBVIOUS
  <2>3. (x + Wrap) % (2 * Wrap) = x + Wrap
    BY <2>1, <2>2
  <2>4. Int32(x) = (x + Wrap) - Wrap
    BY <1>2, <2>3
  <2> QED
    BY <1>1, <2>4
<1> QED
  BY <1>3, <1>4 DEF SleepersAssumption, DelayAssumption

\* The place in the list: behind all descriptors that are not later.
LEMMA FindPosition ==
  ASSUME adl \in Seq([wake : Int, due : Int, proc : Proc]), NEW w \in Int
  PROVE  /\ find_insert_position(w) \in 0..Len(adl)
         /\ \A j \in 1..find_insert_position(w) : adl[j].wake <= w
         /\ find_insert_position(w) < Len(adl)
              => ~(adl[find_insert_position(w) + 1].wake <= w)
<1> DEFINE D == {i \in DOMAIN adl : \A j \in 1..i : adl[j].wake <= w}
<1> DEFINE k == Cardinality(D)
<1>1. Len(adl) \in Nat /\ DOMAIN adl = 1..Len(adl)
  BY LenProperties
<1>2. IsFiniteSet(1..Len(adl)) /\ Cardinality(1..Len(adl)) = Len(adl)
  <2>1. PICK n \in Nat : n = Len(adl)
    BY <1>1
  <2>2. IsFiniteSet(1..n) /\ Cardinality(1..n) = IF 1 > n THEN 0 ELSE n - 1 + 1
    BY FS_Interval
  <2>3. Cardinality(1..n) = n
    BY <2>2
  <2> QED
    BY <2>1, <2>2, <2>3
<1>3. D \in SUBSET (1..Len(adl))
  BY <1>1
<1>4. IsFiniteSet(D) /\ k \in Nat /\ k <= Len(adl)
  BY <1>2, <1>3, FS_Subset, FS_CardinalityType
<1>5. \A i \in D : i <= k
  <2> SUFFICES ASSUME NEW i \in D PROVE i <= k
    OBVIOUS
  <2>1. i \in Nat /\ i >= 1
    BY <1>3
  <2>2. (1..i) \in SUBSET D
    <3> SUFFICES ASSUME NEW j \in 1..i PROVE j \in D
      OBVIOUS
    <3>1. j \in DOMAIN adl
      BY <1>1, <1>3, <2>1
    <3>2. \A l \in 1..j : l \in 1..i
      BY <2>1
    <3> QED
      BY <3>1, <3>2
  <2>3. Cardinality(1..i) = i
    BY <2>1, FS_Interval
  <2>4. Cardinality(1..i) <= Cardinality(D)
    BY <1>4, <2>2, FS_Subset
  <2> QED
    BY <2>3, <2>4
<1>6. D = 1..k
  <2> HIDE DEF k
  <2>1. D \in SUBSET (1..k)
    BY <1>3, <1>4, <1>5
  <2>2. IsFiniteSet(1..k) /\ Cardinality(1..k) = k
    BY <1>4, FS_Interval
  <2> QED
    BY <2>1, <2>2, FS_Subset DEF k
<1>7. k = find_insert_position(w)
  BY DEF find_insert_position
<1> HIDE DEF k
<1>8. ASSUME NEW j \in 1..k PROVE adl[j].wake <= w
  <2>1. j \in D
    BY <1>6
  <2>2. j \in 1..j
    BY <1>4
  <2> QED
    BY <2>1, <2>2
<1>9. ASSUME k < Len(adl), adl[k + 1].wake <= w PROVE FALSE
  <2>1. k + 1 \in DOMAIN adl
    BY <1>1, <1>4, <1>9
  <2>2. \A j \in 1..(k + 1) : adl[j].wake <= w
    BY <1>4, <1>8, <1>9
  <2>3. k + 1 \in D
    BY <2>1, <2>2
  <2> QED
    BY <1>4, <1>5, <2>3
<1> QED
  BY <1>4, <1>7, <1>8, <1>9

\* InsertAt of the community modules: what is before the place stays, the rest
\* moves up.
LEMMA InsertFacts ==
  ASSUME NEW T, NEW s \in Seq(T), NEW e \in T, NEW k \in 0..Len(s),
         NEW i, i = k + 1, NEW new, new = InsertAt(s, i, e)
  PROVE  /\ new \in Seq(T) /\ Len(new) = Len(s) + 1
         /\ \A j \in 1..k : new[j] = s[j]
         /\ new[k + 1] = e
         /\ \A j \in (k + 2)..(Len(s) + 1) : new[j] = s[j - 1]
<1>1. Len(s) \in Nat /\ k \in Nat /\ k <= Len(s)
  BY LenProperties
<1> DEFINE a == SubSeq(s, 1, k)
<1> DEFINE b == SubSeq(s, k + 1, Len(s))
<1>2. new = a \o <<e>> \o b
  <2>1. new = SubSeq(s, 1, (k + 1) - 1) \o <<e>> \o SubSeq(s, k + 1, Len(s))
    BY DEF InsertAt
  <2>2. (k + 1) - 1 = k
    BY <1>1
  <2> QED
    BY <2>1, <2>2
<1>3. a \in Seq(T) /\ Len(a) = k /\ \A j \in 1..k : a[j] = s[j]
  BY <1>1, SubSeqProperties
<1>4. b \in Seq(T) /\ Len(b) = Len(s) - k /\ \A j \in 1..(Len(s) - k) : b[j] = s[k + j]
  BY <1>1, SubSeqProperties
<1> HIDE DEF a, b
<1>5. <<e>> \in Seq(T) /\ Len(<<e>>) = 1 /\ <<e>>[1] = e
  OBVIOUS
<1> DEFINE c == a \o <<e>>
<1>6. /\ c \in Seq(T) /\ Len(c) = k + 1
      /\ \A j \in 1..k : c[j] = a[j]
      /\ c[k + 1] = e
  BY <1>1, <1>3, <1>5, ConcatProperties
<1>7. new = c \o b
  BY <1>2
<1> HIDE DEF c
<1>8. /\ new \in Seq(T) /\ Len(new) = Len(c) + Len(b)
      /\ \A j \in 1..(Len(c) + Len(b)) :
           new[j] = IF j <= Len(c) THEN c[j] ELSE b[j - Len(c)]
  <2>1. b \in Seq(T) /\ c \in Seq(T)
    BY <1>4, <1>6
  <2> QED
    BY <1>7, <2>1, ConcatProperties
<1>9. Len(c) = k + 1 /\ Len(b) = Len(s) - k /\ Len(c) + Len(b) = Len(s) + 1
  BY <1>1, <1>4, <1>6
<1>10. ASSUME NEW j \in (k + 2)..(Len(s) + 1) PROVE new[j] = s[j - 1]
  <2>1. j \in 1..(Len(c) + Len(b)) /\ ~(j <= Len(c)) /\ j - Len(c) = j - (k + 1)
    BY <1>1, <1>9
  <2>2. new[j] = b[j - (k + 1)]
    BY <1>8, <2>1
  <2>3. j - (k + 1) \in 1..(Len(s) - k) /\ k + (j - (k + 1)) = j - 1
    BY <1>1
  <2> QED
    BY <1>4, <2>2, <2>3
<1>11. ASSUME NEW j \in 1..(k + 1) PROVE new[j] = c[j]
  BY <1>1, <1>8, <1>9
<1>12. new[k + 1] = e /\ \A j \in 1..k : new[j] = s[j]
  BY <1>1, <1>3, <1>6, <1>11
<1> QED
  BY <1>8, <1>9, <1>10, <1>12

-----------------------------------------------------------------------------
(* The mutex of the list                                                   *)

\* At a step of p alone.
Moves(p, l) == p \in Proc \cup {Daemon} /\ pc' = [pc EXCEPT ![p] = l]

LEMMA MovesOne ==
  ASSUME TypeOK, NEW p, NEW l, Moves(p, l)
  PROVE  /\ pc'[p] = l
         /\ \A q \in (Proc \cup {Daemon}) \ {p} : pc'[q] = pc[q]
         /\ Users' = IF PastLock(p, l) THEN Users \cup {p} ELSE Users \ {p}
<1>1. pc'[p] = l /\ \A q \in (Proc \cup {Daemon}) \ {p} : pc'[q] = pc[q]
  BY DEF TypeOK, Moves
<1>2. p \in Proc \cup {Daemon}
  BY DEF Moves
<1>3. \A q \in Proc \cup {Daemon} :
        q \in Users' <=> IF q = p THEN PastLock(p, l) ELSE q \in Users
  BY <1>1 DEF Users
<1>4. Users \subseteq Proc \cup {Daemon} /\ Users' \subseteq Proc \cup {Daemon}
  BY DEF Users
<1> QED
  BY <1>1, <1>2, <1>3, <1>4

LEMMA QueueTypes ==
  ASSUME TypeOK
  PROVE  /\ sem[Adl].val \in Int /\ sem[Adl].queue \in Seq(Proc \cup {Daemon})
         /\ Len(sem[Adl].queue) \in Nat
         /\ Queue \subseteq Proc \cup {Daemon}
         /\ sem[Adl].queue = <<>> <=> Len(sem[Adl].queue) = 0
         /\ sem[Adl].queue = <<>> <=> Queue = {}
<1>1. sem[Adl].val \in Int /\ sem[Adl].queue \in Seq(Proc \cup {Daemon})
  BY DEF TypeOK, Semaphores
<1>2. Len(sem[Adl].queue) \in Nat /\ sem[Adl].queue \in [1..Len(sem[Adl].queue) -> Proc \cup {Daemon}]
  BY <1>1, LenProperties
<1>3. Queue \subseteq Proc \cup {Daemon}
  BY <1>2 DEF Queue, ToSet
<1> QED
  BY <1>1, <1>2, <1>3, EmptyQ DEF Queue

\* Who is not blocked is not in the queue of the list.
LEMMA NotQueued ==
  ASSUME TypeOK, NEW p, ~Blocked(sem, p)
  PROVE  p \notin Queue
<1>1. Adl \in DOMAIN sem
  BY DEF TypeOK, Semaphores
<1> QED
  BY <1>1 DEF Blocked, Queue

\* A step that leaves the mutex alone.
LEMMA LockKept ==
  ASSUME TypeOK, ListLock, NEW p, NEW l, Moves(p, l), p \notin Queue,
         sem'[Adl] = sem[Adl], p \in Users <=> PastLock(p, l)
  PROVE  ListLock'
<1>1. Users' = Users /\ Queue' = Queue
  BY MovesOne DEF Queue
<1>2. \A q \in Queue : pc'[q] = pc[q]
  BY MovesOne, QueueTypes
<1> QED
  BY <1>1, <1>2 DEF ListLock

\* P on the list.
LEMMA LockTaken ==
  ASSUME TypeOK, ListLock, NEW p, NEW l, Moves(p, l), p \notin Users,
         l = IF p = Daemon THEN "scan" ELSE "insert",
         sem' = passeren(sem, Adl, p)
  PROVE  ListLock' /\ sem' \in Semaphores({Adl} \cup Proc, Proc \cup {Daemon})
         /\ \A s \in Proc : s # Adl => sem'[s] = sem[s]
<1> DEFINE S == {Adl} \cup Proc
<1> DEFINE T == Proc \cup {Daemon}
<1>1. sem \in Semaphores(S, T) /\ Adl \in S /\ p \in T
  BY DEF TypeOK, Moves
<1> HIDE DEF S, T
<1>2. PICK sm, new : sm = sem /\ new = sem'
  OBVIOUS
<1>3. sm \in Semaphores(S, T) /\ new = passeren(sm, Adl, p)
  BY <1>1, <1>2
<1>4. /\ new \in Semaphores(S, T)
      /\ \A t \in S \ {Adl} : new[t] = sm[t]
      /\ new[Adl].val = sm[Adl].val - 1
      /\ sm[Adl].val > 0 => new[Adl].queue = sm[Adl].queue
      /\ ~(sm[Adl].val > 0) => new[Adl].queue = Append(sm[Adl].queue, p)
  BY <1>1, <1>3, TakeFacts
<1>5. PastLock(p, l)
  BY DEF PastLock
<1>6. Users' = Users \cup {p} /\ pc'[p] = l /\ \A q \in T \ {p} : pc'[q] = pc[q]
  BY <1>5, MovesOne DEF T
<1>7. sem[Adl].val \in Int /\ Len(sem[Adl].queue) \in Nat /\ Queue \subseteq T
  BY QueueTypes DEF T
<1>8. ASSUME sem[Adl].val > 0 PROVE ListLock'
  <2>1. sem[Adl].val = 1 /\ sem[Adl].queue = <<>> /\ Users = {} /\ Queue = {}
    BY <1>7, <1>8, QueueTypes DEF ListLock
  <2>2. sem'[Adl].val = 0 /\ sem'[Adl].queue = <<>>
    BY <1>2, <1>4, <2>1
  <2>3. Queue' = {} /\ Users' = {p} /\ Len(sem'[Adl].queue) = 0
    BY <1>6, <2>1, <2>2 DEF Queue
  <2>4. \A x, y \in Users' \ Queue' : x = y
    BY <2>3
  <2>5. sem'[Adl].val + Len(sem'[Adl].queue) = 0 /\ sem'[Adl].val # 1
    BY <2>2, <2>3
  <2>6. \A q \in Queue' : pc'[q] = IF q = Daemon THEN "scan" ELSE "insert"
    BY <2>3
  <2> QED
    BY <2>4, <2>5, <2>6 DEF ListLock
<1>9. ASSUME ~(sem[Adl].val > 0) PROVE ListLock'
  <2>1. sem[Adl].val + Len(sem[Adl].queue) = 0
    BY <1>9 DEF ListLock
  <2>2. sem'[Adl].val = sem[Adl].val - 1 /\ sem'[Adl].queue = Append(sem[Adl].queue, p)
    BY <1>2, <1>4, <1>9
  <2>3. Len(sem'[Adl].queue) = Len(sem[Adl].queue) + 1 /\ Queue' = Queue \cup {p}
    BY <1>1, <2>2, QueueTypes, AppendQ DEF Queue, T
  <2>4. sem'[Adl].val + Len(sem'[Adl].queue) = 0 /\ sem'[Adl].val # 1
    <3>1. PICK v \in Int, n \in Nat : v = sem[Adl].val /\ n = Len(sem[Adl].queue)
      BY <1>7
    <3>2. v + n = 0 /\ ~(v > 0)
      BY <1>9, <2>1, <3>1
    <3>3. sem'[Adl].val = v - 1 /\ Len(sem'[Adl].queue) = n + 1
      BY <2>2, <2>3, <3>1
    <3>4. (v - 1) + (n + 1) = 0 /\ v - 1 # 1
      BY <3>2
    <3> QED
      BY <3>3, <3>4
  <2>5. \A x, y \in Users' \ Queue' : x = y
    BY <1>6, <2>3 DEF ListLock
  <2>6. \A q \in Queue' : pc'[q] = IF q = Daemon THEN "scan" ELSE "insert"
    BY <1>6, <1>7, <2>3 DEF ListLock
  <2> QED
    BY <2>4, <2>5, <2>6 DEF ListLock
<1> QED
  BY <1>2, <1>4, <1>8, <1>9 DEF S, T

\* V on the list by the one who has it: its state of the mutex is handed over.
LEMMA LockGiven ==
  ASSUME TypeOK, ListLock, NEW p, NEW l, Moves(p, l), p \in Users \ Queue,
         ~PastLock(p, l), NEW new, new = verhogen(sem, Adl), sem'[Adl] = new[Adl]
  PROVE  ListLock' /\ new \in Semaphores({Adl} \cup Proc, Proc \cup {Daemon})
         /\ \A s \in Proc : s # Adl => new[s] = sem[s]
<1> DEFINE S == {Adl} \cup Proc
<1> DEFINE T == Proc \cup {Daemon}
<1>1. sem \in Semaphores(S, T) /\ Adl \in S
  BY DEF TypeOK
<1> HIDE DEF S, T
<1>2. PICK sm : sm = sem
  OBVIOUS
<1>3. sm \in Semaphores(S, T) /\ new = verhogen(sm, Adl)
  BY <1>1, <1>2
<1>4. /\ new \in Semaphores(S, T)
      /\ \A t \in S \ {Adl} : new[t] = sm[t]
      /\ new[Adl].val = sm[Adl].val + 1
      /\ sm[Adl].val < 0 /\ sm[Adl].queue # <<>> => new[Adl].queue = Tail(sm[Adl].queue)
      /\ sm[Adl].val >= 0 \/ sm[Adl].queue = <<>> => new[Adl].queue = sm[Adl].queue
  BY <1>1, <1>3, GiveFacts
<1>5. Users' = Users \ {p} /\ \A q \in T \ {p} : pc'[q] = pc[q]
  BY MovesOne DEF T
<1>6. /\ sem[Adl].val \in Int /\ Len(sem[Adl].queue) \in Nat /\ Queue \subseteq T
      /\ sem[Adl].queue \in Seq(T)
  BY QueueTypes DEF T
<1>7. sem[Adl].val + Len(sem[Adl].queue) = 0
  BY DEF ListLock
<1>8. ASSUME sem[Adl].queue = <<>> PROVE ListLock'
  <2>1. Len(sem[Adl].queue) = 0 /\ Queue = {}
    BY <1>8, QueueTypes
  <2>10. sem[Adl].val = 0
    BY <1>6, <1>7, <2>1
  <2>2. sem'[Adl].val = 1 /\ sem'[Adl].queue = <<>>
    BY <1>2, <1>4, <1>8, <2>10
  <2>3. Queue' = {} /\ Users' = {}
    BY <1>5, <1>8, <2>1, <2>2 DEF Queue, ListLock
  <2>4. \A x, y \in Users' \ Queue' : x = y
    BY <2>3
  <2>5. \A q \in Queue' : pc'[q] = IF q = Daemon THEN "scan" ELSE "insert"
    BY <2>3
  <2> QED
    BY <2>2, <2>3, <2>4, <2>5 DEF ListLock
<1>9. ASSUME sem[Adl].queue # <<>> PROVE ListLock'
  <2>1. sem[Adl].val < 0
    BY <1>6, <1>7, <1>9, QueueTypes
  <2>2. sem'[Adl].val = sem[Adl].val + 1 /\ sem'[Adl].queue = Tail(sem[Adl].queue)
    BY <1>2, <1>4, <1>9, <2>1
  <2> DEFINE h == Head(sem[Adl].queue)
  <2>3. /\ Len(sem'[Adl].queue) = Len(sem[Adl].queue) - 1
        /\ Queue = {h} \cup Queue'
    BY <1>6, <1>9, <2>2, HeadTailQ DEF Queue
  <2> HIDE DEF h
  <2>4. sem'[Adl].val + Len(sem'[Adl].queue) = 0 /\ sem'[Adl].val # 1
    BY <1>6, <1>7, <2>1, <2>2, <2>3
  <2>5. \A x \in Users \ Queue : x = p
    BY DEF ListLock
  <2>6. \A x \in Users' \ Queue' : x = h
    BY <1>5, <2>3, <2>5
  <2>7. \A q \in Queue' : pc'[q] = IF q = Daemon THEN "scan" ELSE "insert"
    BY <1>5, <1>6, <2>3 DEF ListLock
  <2>8. \A x, y \in Users' \ Queue' : x = y
    BY <2>6
  <2> QED
    BY <2>4, <2>7, <2>8 DEF ListLock
<1> QED
  BY <1>2, <1>4, <1>8, <1>9 DEF S, T

-----------------------------------------------------------------------------
(* The steps                                                               *)

ProcPlaces == {"user", "lock", "insert", "sleep", "asleep", "dead"}
DaemonPlaces == {"clock", "tick", "scan", "wake", "drop"}

\* Who is not blocked does not wait at its own semaphore.
LEMMA OwnSemaphore ==
  ASSUME TypeOK, Private, NEW p \in Proc
  PROVE  /\ sem[p].val \in {0, -1}
         /\ ~Blocked(sem, p) => sem[p].val = 0 /\ sem[p].queue = <<>>
         /\ pc[p] # "asleep" => sem[p].val = 0 /\ sem[p].queue = <<>>
         /\ sem[p].val = -1 => sem[p].queue = <<p>> /\ pc[p] = "asleep" /\ Blocked(sem, p)
<1>1. p \in DOMAIN sem
  BY DEF TypeOK, Semaphores
<1>2. p \in ToSet(<<p>>)
  BY DEF ToSet
<1>3. sem[p].queue = <<p>> => Blocked(sem, p)
  BY <1>1, <1>2 DEF Blocked
<1> QED
  BY <1>3 DEF Private

\* A process that is on the list, or on its way to sleep, keeps the daemon off it.
LEMMA OneUser ==
  ASSUME SleepersAssumption, TypeOK, ListLock, NEW p \in Proc
  PROVE  /\ p \in Users \ Queue => pc[Daemon] \notin {"wake", "drop"}
         /\ pc[Daemon] \in {"wake", "drop"} => pc[p] # "sleep" /\ Daemon \in Users \ Queue
         /\ pc[p] = "sleep" => p \in Users \ Queue
<1>1. Daemon \notin Proc
  BY Constants
<1>2. pc[Daemon] \in {"wake", "drop"} => Daemon \in Users \ Queue
  BY DEF Users, PastLock, ListLock
<1>3. pc[p] = "sleep" => p \in Users \ Queue
  BY <1>1 DEF Users, PastLock, ListLock
<1> QED
  BY <1>1, <1>2, <1>3 DEF ListLock

\* A step of p that leaves the semaphores and the list alone.
LEMMA QuietStep ==
  ASSUME SleepersAssumption, IInv, NEW p, NEW l, Moves(p, l), ~Blocked(sem, p),
         p \in Users <=> PastLock(p, l), UNCHANGED <<adl, free, sem>>,
         p \in Proc => l \in ProcPlaces /\ pc[p] # "sleep" /\ l # "sleep",
         p = Daemon => l \in DaemonPlaces /\ pc[p] # "drop" /\ l # "drop"
  PROVE  /\ pc' \in [Proc \cup {Daemon} -> ProcPlaces \cup DaemonPlaces]
         /\ Places' /\ ListLock' /\ Private' /\ Listed' /\ Sorted' /\ Descriptors'
<1>1. TypeOK /\ Places /\ ListLock /\ Private /\ Listed /\ Sorted /\ Descriptors
  BY DEF IInv
<1>2. Daemon \notin Proc
  BY Constants
<1>3. /\ pc'[p] = l /\ p \in Proc \cup {Daemon}
      /\ \A q \in (Proc \cup {Daemon}) \ {p} : pc'[q] = pc[q]
  BY <1>1, MovesOne DEF Moves
<1>4. /\ \A q \in Proc : pc'[q] \in ProcPlaces
      /\ pc'[Daemon] \in DaemonPlaces
  BY <1>1, <1>2, <1>3 DEF Places, ProcPlaces, DaemonPlaces
<1>5. pc' \in [Proc \cup {Daemon} -> ProcPlaces \cup DaemonPlaces]
  <2>1. DOMAIN pc' = Proc \cup {Daemon} /\ pc' = [q \in Proc \cup {Daemon} |-> pc'[q]]
    BY <1>1 DEF TypeOK, Moves
  <2> QED
    BY <1>4, <2>1
<1>6. Places'
  BY <1>4 DEF Places, ProcPlaces, DaemonPlaces
<1>7. ListLock'
  BY <1>1, NotQueued, LockKept
<1>8. \A q \in Proc : q = p => sem[q].val = 0 /\ sem[q].queue = <<>>
  BY <1>1, OwnSemaphore
<1>9. Private'
  BY <1>1, <1>3, <1>8 DEF Private
<1>10. \A q \in Proc : Asleep(q)' <=> Asleep(q)
  BY <1>3 DEF Asleep
<1>11. pc'[Daemon] = "drop" <=> pc[Daemon] = "drop"
  BY <1>3
<1>12. Len(adl) \in Nat /\ DOMAIN adl = 1..Len(adl) /\ \A i \in DOMAIN adl : adl[i].proc \in Proc
  <2>1. adl \in Seq([wake : Int, due : Int, proc : Proc])
    BY <1>1 DEF TypeOK
  <2>2. /\ Len(adl) \in Nat /\ DOMAIN adl = 1..Len(adl)
        /\ adl \in [1..Len(adl) -> [wake : Int, due : Int, proc : Proc]]
    BY <2>1, LenProperties
  <2> QED
    BY <2>2
<1>13. Listed'
  <2>1. pc'[Daemon] = "drop" => adl' # <<>> /\ ~Asleep(adl[1].proc)'
    <3> SUFFICES ASSUME pc'[Daemon] = "drop" PROVE adl # <<>> /\ ~Asleep(adl[1].proc)'
      OBVIOUS
    <3>1. adl # <<>> /\ ~Asleep(adl[1].proc)
      BY <1>1, <1>11 DEF Listed
    <3>2. adl[1].proc \in Proc
      BY <1>1, <1>12, <3>1, EmptyQ DEF TypeOK
    <3> QED
      BY <1>10, <3>1, <3>2
  <2>2. \A q \in Proc : Asleep(q)' => \E i \in DOMAIN adl : adl[i].proc = q
    BY <1>1, <1>10 DEF Listed
  <2>3. \A i \in DOMAIN adl : Asleep(adl[i].proc)' \/ (pc'[Daemon] = "drop" /\ i = 1)
    BY <1>1, <1>10, <1>11, <1>12 DEF Listed
  <2> QED
    BY <1>1, <2>1, <2>2, <2>3 DEF Listed
<1>14. Sorted' /\ Descriptors'
  BY <1>1 DEF Sorted, Descriptors
<1> QED
  BY <1>5, <1>6, <1>7, <1>9, <1>13, <1>14

LEMMA TypesOf ==
  ASSUME TypeOK
  PROVE  /\ adl \in Seq([wake : Int, due : Int, proc : Proc])
         /\ Len(adl) \in Nat /\ DOMAIN adl = 1..Len(adl)
         /\ adl = <<>> <=> Len(adl) = 0
         /\ \A i \in DOMAIN adl :
              adl[i] \in [wake : Int, due : Int, proc : Proc] /\ adl[i].proc \in Proc
                /\ adl[i].wake \in Int /\ adl[i].due \in Int
<1>1. adl \in Seq([wake : Int, due : Int, proc : Proc])
  BY DEF TypeOK
<1>2. /\ Len(adl) \in Nat /\ DOMAIN adl = 1..Len(adl)
      /\ adl \in [1..Len(adl) -> [wake : Int, due : Int, proc : Proc]]
  BY <1>1, LenProperties
<1>3. adl = <<>> <=> Len(adl) = 0
  BY <1>1, EmptyQ
<1> QED
  BY <1>1, <1>2, <1>3

LEMMA InitIInv == ASSUME SleepersAssumption, Init PROVE IInv
<1>1. Daemon \notin Proc /\ Adl \notin Proc /\ NumDesc \in Nat /\ Horizon \in Nat
  BY Constants
<1>2. adl = <<>> /\ adl \in Seq([wake : Int, due : Int, proc : Proc]) /\ Len(adl) = 0
      /\ DOMAIN adl = {}
  BY EmptyQ DEF Init
<1>3. /\ sem[Adl].val = 1 /\ sem[Adl].queue = <<>>
      /\ \A p \in Proc : sem[p].val = 0 /\ sem[p].queue = <<>>
  BY <1>1 DEF Init, Sema4
<1>4. sem \in Semaphores({Adl} \cup Proc, Proc \cup {Daemon})
  <2>1. <<>> \in Seq(Proc \cup {Daemon})
    BY EmptyQ
  <2>2. \A n \in {0, 1} : Sema4(n) \in [val : Int, queue : Seq(Proc \cup {Daemon})]
    BY <2>1 DEF Sema4
  <2> QED
    BY <2>2 DEF Init, Semaphores
<1>5. pc[Daemon] = "clock" /\ \A p \in Proc : pc[p] = "user"
  BY <1>1 DEF Init
<1>6. TypeOK
  <2>1. pc \in [Proc \cup {Daemon} -> {"user", "clock"}]
    BY DEF Init
  <2>2. secs \in [Proc -> Seconds \cup {0}]
    BY DEF Init
  <2> QED
    BY <1>1, <1>2, <1>4, <2>1, <2>2 DEF Init, TypeOK, initFreeList
<1>7. Queue = {} /\ Users = {}
  BY <1>1, <1>3, <1>5, EmptyQ DEF Queue, Users, PastLock
<1>8. ListLock /\ Places /\ Private /\ Sorted
  BY <1>2, <1>3, <1>5, <1>7 DEF ListLock, Places, Private, Sorted
<1>9. Listed /\ Descriptors
  BY <1>1, <1>2, <1>3, <1>5 DEF Listed, Descriptors, Asleep, Init, initFreeList
<1> QED
  BY <1>6, <1>8, <1>9 DEF IInv

\* The types of the variables a quiet step of p leaves alone, and of pc.
LEMMA QuietIInv ==
  ASSUME SleepersAssumption, IInv, NEW p, NEW l, Moves(p, l), ~Blocked(sem, p),
         p \in Users <=> PastLock(p, l), UNCHANGED <<adl, free, sem>>,
         p \in Proc => l \in ProcPlaces /\ pc[p] # "sleep" /\ l # "sleep",
         p = Daemon => l \in DaemonPlaces /\ pc[p] # "drop" /\ l # "drop",
         ticks' \in 0..Horizon, secs' \in [Proc -> Seconds \cup {0}], now' \in Int
  PROVE  IInv'
<1>1. /\ pc' \in [Proc \cup {Daemon} -> ProcPlaces \cup DaemonPlaces]
      /\ Places' /\ ListLock' /\ Private' /\ Listed' /\ Sorted' /\ Descriptors'
  BY QuietStep
<1>2. TypeOK'
  BY <1>1 DEF IInv, TypeOK, ProcPlaces, DaemonPlaces
<1> QED
  BY <1>1, <1>2 DEF IInv

\* P on the list, by a process in SYS18 or by the daemon.
LEMMA PStep ==
  ASSUME SleepersAssumption, IInv, NEW p \in Proc \cup {Daemon},
         P(p, IF p = Daemon THEN "tick" ELSE "lock", Adl,
              IF p = Daemon THEN "scan" ELSE "insert")
  PROVE  IInv'
<1> DEFINE l == IF p = Daemon THEN "scan" ELSE "insert"
<1>1. TypeOK /\ Places /\ ListLock /\ Private /\ Listed /\ Sorted /\ Descriptors
  BY DEF IInv
<1>2. Daemon \notin Proc /\ Adl \notin Proc
  BY Constants
<1>3. /\ Moves(p, l) /\ ~Blocked(sem, p) /\ sem' = passeren(sem, Adl, p)
      /\ UNCHANGED <<ticks, secs, adl, free, now>>
      /\ pc[p] = IF p = Daemon THEN "tick" ELSE "lock"
  BY DEF P, At, Goto, Moves
<1>4. p \notin Users
  BY <1>3 DEF Users, PastLock
<1> HIDE DEF l
<1>5. l = IF p = Daemon THEN "scan" ELSE "insert"
  BY DEF l
<1>6. /\ ListLock' /\ sem' \in Semaphores({Adl} \cup Proc, Proc \cup {Daemon})
      /\ \A s \in Proc : s # Adl => sem'[s] = sem[s]
  BY <1>1, <1>3, <1>4, <1>5, LockTaken
<1>7. pc'[p] = l /\ \A q \in (Proc \cup {Daemon}) \ {p} : pc'[q] = pc[q]
  BY <1>1, <1>3, MovesOne
<1>8. \A q \in Proc : sem'[q] = sem[q]
  BY <1>2, <1>6
<1>9. Places'
  BY <1>1, <1>2, <1>5, <1>7 DEF Places
<1>10. TypeOK'
  <2>1. pc' \in [Proc \cup {Daemon} -> ProcPlaces \cup DaemonPlaces]
    <3>1. DOMAIN pc' = Proc \cup {Daemon} /\ pc' = [q \in Proc \cup {Daemon} |-> pc'[q]]
      BY <1>1, <1>3 DEF TypeOK, Moves
    <3>2. \A q \in Proc \cup {Daemon} : pc'[q] \in ProcPlaces \cup DaemonPlaces
      BY <1>9 DEF Places, ProcPlaces, DaemonPlaces
    <3> QED
      BY <3>1, <3>2
  <2> QED
    BY <1>1, <1>3, <1>6, <2>1 DEF TypeOK, ProcPlaces, DaemonPlaces
<1>11. Private'
  <2>1. pc[p] # "asleep"
    BY <1>3
  <2> QED
    BY <1>1, <1>7, <1>8, <2>1 DEF Private
<1>12. \A q \in Proc : Asleep(q)' <=> Asleep(q)
  BY <1>2, <1>3, <1>5, <1>7, <1>8 DEF Asleep
<1>13. pc'[Daemon] = "drop" <=> pc[Daemon] = "drop"
  BY <1>2, <1>3, <1>5, <1>7
<1>14. Listed'
  <2>1. \A i \in DOMAIN adl : adl[i].proc \in Proc
    BY <1>1, TypesOf
  <2>2. adl # <<>> => 1 \in DOMAIN adl
    BY <1>1, TypesOf
  <2>3. \A q \in Proc : Asleep(q)' => \E i \in DOMAIN adl : adl[i].proc = q
    BY <1>1, <1>12 DEF Listed
  <2>4. \A i \in DOMAIN adl : Asleep(adl[i].proc)' \/ (pc'[Daemon] = "drop" /\ i = 1)
    BY <1>1, <1>3, <1>12, <1>13, <2>1 DEF Listed
  <2>5. pc'[Daemon] = "drop" => adl # <<>> /\ ~Asleep(adl[1].proc)'
    BY <1>1, <1>3, <1>12, <1>13, <2>1, <2>2 DEF Listed
  <2> QED
    BY <1>1, <1>3, <2>3, <2>4, <2>5 DEF Listed
<1>15. Sorted' /\ Descriptors'
  BY <1>1, <1>3 DEF Sorted, Descriptors
<1> QED
  BY <1>6, <1>9, <1>10, <1>11, <1>14, <1>15 DEF IInv

\* insertADL: its caller was in no descriptor, and the list stays sorted.
LEMMA InsertStep ==
  ASSUME SleepersAssumption, IInv, NEW p \in Proc, insertADL(p)
  PROVE  /\ IInv'
         /\ p \in Users \ Queue
         /\ pc'[p] = "sleep" /\ \A q \in (Proc \cup {Daemon}) \ {p} : pc'[q] = pc[q]
         /\ \A i \in DOMAIN adl : adl[i].proc # p
         /\ \E k \in 0..Len(adl) :
              /\ Len(adl') = Len(adl) + 1
              /\ \A j \in 1..k : adl'[j] = adl[j]
              /\ adl'[k + 1] = [wake |-> wakeTime(p), due |-> ticks + secs[p] * Second,
                                proc |-> p]
              /\ \A j \in (k + 2)..(Len(adl) + 1) : adl'[j] = adl[j - 1]
<1>1. TypeOK /\ Places /\ ListLock /\ Private /\ Listed /\ Sorted /\ Descriptors
  BY DEF IInv
<1>2. Daemon \notin Proc /\ Adl \notin Proc /\ Second \in Nat /\ NumDesc \in Nat
      /\ Seconds \subseteq Int /\ Start \in Int /\ Horizon \in Nat
  BY Constants
<1>3. /\ Moves(p, "sleep") /\ ~Blocked(sem, p) /\ pc[p] = "insert"
      /\ UNCHANGED <<ticks, secs, sem, now>>
      /\ free > 0 /\ free' = free - 1
  BY DEF insertADL, alloc_descriptor, At, Goto, Moves
<1> DEFINE w == wakeTime(p)
<1> DEFINE d == ticks + secs[p] * Second
<1> DEFINE e == [wake |-> w, due |-> d, proc |-> p]
<1> DEFINE T == [wake : Int, due : Int, proc : Proc]
<1>4. w \in Int /\ d \in Int
  <2>0. secs[p] \in Seconds \cup {0} /\ ticks \in 0..Horizon
    BY <1>1 DEF TypeOK
  <2>1. secs[p] \in Int /\ ticks \in Int
    <3>1. \A x \in Seconds : x \in Int
      BY <1>2
    <3> QED
      BY <2>0, <3>1
  <2>2. secs[p] * Second \in Int
    BY <1>2, <2>1
  <2>3. STCK \in Int
    BY <1>2, <2>1, Constants DEF STCK
  <2>4. Int32(secs[p] * Second) \in Int
    BY <2>2, Constants
  <2>5. Int32(STCK + Int32(secs[p] * Second)) \in Int
    BY <2>3, <2>4, Constants
  <2> QED
    BY <2>1, <2>2, <2>5 DEF wakeTime
<1>5. e \in T /\ e.wake = w /\ e.proc = p
  BY <1>4
<1> HIDE DEF w, d
<1>6. PICK k : k = find_insert_position(w)
  OBVIOUS
<1>7. adl' = InsertAt(adl, k + 1, e)
  BY <1>6 DEF insertADL, w, d
<1>8. adl \in Seq(T) /\ Len(adl) \in Nat /\ DOMAIN adl = 1..Len(adl)
  BY <1>1, TypesOf
<1>9. /\ k \in 0..Len(adl)
      /\ \A j \in 1..k : adl[j].wake <= w
      /\ k < Len(adl) => ~(adl[k + 1].wake <= w)
  BY <1>4, <1>6, <1>8, FindPosition
<1> HIDE DEF e, T
<1>10. PICK new : new = adl'
  OBVIOUS
<1>11. /\ new \in Seq(T) /\ Len(new) = Len(adl) + 1
       /\ \A j \in 1..k : new[j] = adl[j]
       /\ new[k + 1] = e
       /\ \A j \in (k + 2)..(Len(adl) + 1) : new[j] = adl[j - 1]
  <2>1. PICK s, x, U : s = adl /\ x = e /\ U = T
    OBVIOUS
  <2>2. s \in Seq(U) /\ x \in U /\ k \in 0..Len(s)
    BY <1>5, <1>7, <1>8, <1>9, <1>10, <2>1
  <2>3. PICK i : i = k + 1 /\ new = InsertAt(s, i, x)
    BY <1>7, <1>10, <2>1
  <2>5. new \in Seq(U) /\ Len(new) = Len(s) + 1
    BY <2>2, <2>3, InsertFacts
  <2>6. \A j \in 1..k : new[j] = s[j]
    BY <2>2, <2>3, InsertFacts
  <2>7. new[k + 1] = x
    BY <2>2, <2>3, InsertFacts
  <2>8. \A j \in (k + 2)..(Len(s) + 1) : new[j] = s[j - 1]
    BY <2>2, <2>3, InsertFacts
  <2> QED
    BY <2>1, <2>5, <2>6, <2>7, <2>8
<1>12. k \in Nat /\ k <= Len(adl)
  BY <1>8, <1>9
<1>13. DOMAIN new = 1..(Len(adl) + 1)
  BY <1>11, LenProperties
<1>14. /\ pc'[p] = "sleep"
       /\ \A q \in (Proc \cup {Daemon}) \ {p} : pc'[q] = pc[q]
  BY <1>1, <1>3, MovesOne
<1>15. p \in Users \ Queue
  BY <1>1, <1>2, <1>3, NotQueued DEF Users, PastLock
<1>16. pc[Daemon] # "drop" /\ pc'[Daemon] # "drop"
  BY <1>1, <1>2, <1>14, <1>15, OneUser
<1>17. sem[p].val = 0 /\ ~Asleep(p)
  BY <1>1, <1>3, OwnSemaphore DEF Asleep
<1>18. \A i \in DOMAIN adl : adl[i].proc # p
  BY <1>1, <1>16, <1>17 DEF Listed
<1>19. ASSUME NEW j \in DOMAIN new
       PROVE  \/ j = k + 1 /\ new[j] = e
              \/ j <= k /\ j \in DOMAIN adl /\ new[j] = adl[j]
              \/ j > k + 1 /\ j - 1 \in DOMAIN adl /\ new[j] = adl[j - 1]
  BY <1>8, <1>11, <1>12, <1>13
<1>20. ASSUME NEW i \in DOMAIN new, NEW j \in DOMAIN new, i < j
       PROVE  new[i].wake <= new[j].wake /\ new[i].proc # new[j].proc
  <2>1. \A a \in DOMAIN adl : a \in Int /\ adl[a].wake \in Int
    BY <1>1, <1>8, TypesOf
  <2>2. CASE j = k + 1
    <3>1. i <= k /\ i \in 1..k /\ i \in DOMAIN adl /\ new[i] = adl[i] /\ new[j] = e
      BY <1>12, <1>13, <1>19, <1>20, <2>2
    <3> QED
      BY <1>5, <1>9, <1>18, <3>1
  <2>3. CASE i = k + 1
    <3>1. j - 1 \in DOMAIN adl /\ new[j] = adl[j - 1] /\ new[i] = e /\ j - 1 >= k + 1
      BY <1>12, <1>13, <1>19, <1>20, <2>3
    <3>2. k < Len(adl) /\ k + 1 \in DOMAIN adl
      BY <1>8, <1>12, <3>1
    <3>3. adl[k + 1].wake <= adl[j - 1].wake
      <4>1. CASE j - 1 = k + 1
        BY <2>1, <3>2, <4>1
      <4>2. CASE k + 1 < j - 1
        BY <1>1, <3>1, <3>2, <4>2 DEF Sorted
      <4> QED
        BY <1>12, <1>13, <3>1, <4>1, <4>2
    <3>4. w <= adl[j - 1].wake
      BY <1>4, <1>9, <2>1, <3>1, <3>2, <3>3
    <3> QED
      BY <1>5, <1>18, <3>1, <3>4
  <2>4. CASE i # k + 1 /\ j # k + 1
    <3>1. \E a \in DOMAIN adl, b \in DOMAIN adl :
            a < b /\ new[i] = adl[a] /\ new[j] = adl[b]
      BY <1>12, <1>13, <1>19, <1>20, <2>4
    <3> QED
      BY <1>1, <2>1, <3>1 DEF Sorted, Listed
  <2> QED
    BY <2>2, <2>3, <2>4
<1>21. Sorted'
  BY <1>10, <1>20 DEF Sorted
<1>22. \A q \in Proc : Asleep(q)' <=> (q = p \/ Asleep(q))
  BY <1>3, <1>14 DEF Asleep
<1>23. Listed'
  <2>1. ASSUME NEW i \in DOMAIN new, NEW j \in DOMAIN new, i # j
        PROVE  new[i].proc # new[j].proc
    <3>1. i < j \/ j < i
      BY <1>13, <2>1
    <3> QED
      BY <1>20, <3>1
  <2>2. ASSUME NEW q \in Proc, Asleep(q)' PROVE \E i \in DOMAIN new : new[i].proc = q
    <3>1. CASE q = p
      <4>1. k + 1 \in DOMAIN new
        BY <1>12, <1>13, <1>8
      <4> QED
        BY <1>5, <1>11, <3>1, <4>1
    <3>2. CASE q # p
      <4>1. PICK i \in DOMAIN adl : adl[i].proc = q
        BY <1>1, <1>22, <2>2, <3>2 DEF Listed
      <4>2. i \in 1..k \/ i + 1 \in (k + 2)..(Len(adl) + 1)
        BY <1>8, <1>12
      <4>3. CASE i \in 1..k
        BY <1>8, <1>11, <1>13, <4>1, <4>3
      <4>4. CASE i + 1 \in (k + 2)..(Len(adl) + 1)
        <5>1. (i + 1) - 1 = i /\ i + 1 \in DOMAIN new
          BY <1>8, <1>12, <1>13, <4>4
        <5>2. new[i + 1] = adl[(i + 1) - 1]
          BY <1>11, <4>4
        <5> QED
          BY <4>1, <5>1, <5>2
      <4> QED
        BY <4>2, <4>3, <4>4
    <3> QED
      BY <3>1, <3>2
  <2>3. \A i \in DOMAIN adl : Asleep(adl[i].proc) /\ adl[i].proc \in Proc
    BY <1>1, <1>16, TypesOf DEF Listed
  <2>4. ASSUME NEW i \in DOMAIN new
        PROVE  new[i].proc = p \/ (new[i].proc \in Proc /\ Asleep(new[i].proc))
    BY <1>5, <1>19, <2>3
  <2>5. \A q \in Proc : q = p \/ Asleep(q) => Asleep(q)'
    BY <1>22
  <2>6. \A i \in DOMAIN new : pc'[new[i].proc] = "sleep" \/ sem'[new[i].proc].val = -1
    BY <2>4, <2>5 DEF Asleep
  <2>7. \A i \in DOMAIN adl' : Asleep(adl[i].proc)'
    BY <1>10, <2>6 DEF Asleep
  <2> QED
    BY <1>10, <1>16, <2>1, <2>2, <2>7 DEF Listed
<1>24. Places'
  BY <1>1, <1>2, <1>14 DEF Places
<1>25. free' \in 0..NumDesc /\ Descriptors'
  <2>1. free \in 0..NumDesc
    BY <1>1 DEF TypeOK
  <2> QED
    BY <1>1, <1>2, <1>3, <1>8, <1>10, <1>11, <2>1 DEF Descriptors
<1>26. TypeOK'
  <2>1. pc' \in [Proc \cup {Daemon} -> ProcPlaces \cup DaemonPlaces]
    <3>1. DOMAIN pc' = Proc \cup {Daemon} /\ pc' = [q \in Proc \cup {Daemon} |-> pc'[q]]
      BY <1>1, <1>3 DEF TypeOK, Moves
    <3>2. \A q \in Proc \cup {Daemon} : pc'[q] \in ProcPlaces \cup DaemonPlaces
      BY <1>24 DEF Places, ProcPlaces, DaemonPlaces
    <3> QED
      BY <3>1, <3>2
  <2>2. adl' \in Seq([wake : Int, due : Int, proc : Proc])
    BY <1>10, <1>11 DEF T
  <2> QED
    BY <1>1, <1>3, <1>25, <2>1, <2>2 DEF TypeOK, ProcPlaces, DaemonPlaces
<1>27. ListLock'
  <2>1. p \in Users <=> PastLock(p, "sleep")
    BY <1>2, <1>15 DEF PastLock
  <2>2. sem'[Adl] = sem[Adl]
    BY <1>3
  <2> QED
    BY <1>1, <1>3, <1>15, <2>1, <2>2, LockKept
<1>28. Private'
  BY <1>1, <1>3, <1>14, <1>17, OwnSemaphore DEF Private
<1>29. IInv'
  BY <1>21, <1>23, <1>24, <1>25, <1>26, <1>27, <1>28 DEF IInv
<1> QED
  BY <1>9, <1>10, <1>11, <1>14, <1>15, <1>18, <1>29 DEF e, w, d

\* A step keeps the type of pc if it keeps the places.
LEMMA PcType ==
  ASSUME TypeOK, NEW p, NEW l, Moves(p, l), Places'
  PROVE  pc' \in [Proc \cup {Daemon} -> {"user", "lock", "insert", "sleep", "asleep",
                                          "dead", "clock", "tick", "scan", "wake",
                                          "drop", "unlock"}]
<1>1. DOMAIN pc' = Proc \cup {Daemon} /\ pc' = [q \in Proc \cup {Daemon} |-> pc'[q]]
  BY DEF TypeOK, Moves
<1>2. \A q \in Proc \cup {Daemon} : pc'[q] \in ProcPlaces \cup DaemonPlaces
  BY DEF Places, ProcPlaces, DaemonPlaces
<1> QED
  BY <1>1, <1>2 DEF ProcPlaces, DaemonPlaces

\* Whoever comes to insertADL finds a descriptor: the others have at most one each.
LEMMA DescriptorLeft ==
  ASSUME SleepersAssumption, IInv, NEW p \in Proc, pc[p] = "insert", ~Blocked(sem, p)
  PROVE  free > 0
<1>1. TypeOK /\ ListLock /\ Private /\ Listed /\ Descriptors
  BY DEF IInv
<1>2. Daemon \notin Proc /\ NumDesc \in Nat
  BY Constants
<1>3. p \in Users \ Queue
  BY <1>1, <1>2, NotQueued DEF Users, PastLock
<1>4. pc[Daemon] # "drop" /\ ~Asleep(p)
  BY <1>1, <1>3, OneUser, OwnSemaphore DEF Asleep
<1>5. \A i \in DOMAIN adl : adl[i].proc # p
  BY <1>1, <1>4 DEF Listed
<1> DEFINE Others == Proc \ {p}
<1>6. /\ IsFiniteSet(Others)
      /\ Cardinality(Others) = Cardinality(Proc) - 1
      /\ Cardinality(Others) \in Nat
  <2>1. IsFiniteSet(Proc)
    BY DEF SleepersAssumption
  <2> QED
    BY <2>1, FS_RemoveElement, FS_CardinalityType
<1>7. PICK n \in Nat : n = Len(adl) /\ DOMAIN adl = 1..n
  BY <1>1, TypesOf
<1> DEFINE f == [i \in 1..n |-> adl[i].proc]
<1>8. f \in Injection(1..n, Others)
  <2>1. \A i \in 1..n : adl[i].proc \in Others
    BY <1>1, <1>5, <1>7, TypesOf
  <2>2. f \in [1..n -> Others]
    BY <2>1
  <2>3. \A i, j \in 1..n : i # j => f[i] # f[j]
    BY <1>1, <1>7 DEF Listed
  <2> QED
    BY <2>2, <2>3 DEF Injection, IsInjective
<1>9. Cardinality(1..n) <= Cardinality(Others)
  BY <1>6, <1>8, FS_Injection
<1>10. Cardinality(1..n) = n
  <2>1. Cardinality(1..n) = IF 1 > n THEN 0 ELSE n - 1 + 1
    BY FS_Interval
  <2> QED
    BY <2>1
<1>11. Cardinality(Proc) <= NumDesc /\ Cardinality(Proc) \in Nat
  BY FS_CardinalityType DEF SleepersAssumption
<1>12. free + n = NumDesc /\ free \in 0..NumDesc
  BY <1>1, <1>7 DEF Descriptors, TypeOK
<1> HIDE DEF Others
<1> QED
  BY <1>2, <1>6, <1>9, <1>10, <1>11, <1>12

\* V on the list and P on the own semaphore: asleep, and still in the list.
LEMMA FallAsleepStep ==
  ASSUME SleepersAssumption, IInv, NEW p \in Proc, FallAsleep(p)
  PROVE  /\ IInv'
         /\ pc[Daemon] # "drop"
         /\ \A q \in (Proc \cup {Daemon}) \ {p} : pc'[q] = pc[q]
<1>1. TypeOK /\ Places /\ ListLock /\ Private /\ Listed /\ Sorted /\ Descriptors
  BY DEF IInv
<1>2. Daemon \notin Proc /\ Adl \notin Proc
  BY Constants
<1>3. /\ Moves(p, "asleep") /\ ~Blocked(sem, p) /\ pc[p] = "sleep"
      /\ UNCHANGED <<ticks, secs, adl, free, now>>
  BY DEF FallAsleep, At, Goto, Moves
<1> DEFINE S == {Adl} \cup Proc
<1> DEFINE T == Proc \cup {Daemon}
<1>4. PICK new, later : /\ new = verhogen(sem, Adl) /\ later = sem'
                        /\ later = passeren(new, p, p)
  BY DEF FallAsleep
<1>5. p \in Users \ Queue /\ pc[Daemon] # "drop"
  BY <1>1, <1>3, OneUser
<1>6. sem \in Semaphores(S, T)
  BY <1>1 DEF TypeOK
<1>7. PICK sm : sm = sem
  OBVIOUS
<1>8. new \in Semaphores(S, T) /\ new[p] = sm[p]
  <2>1. sm \in Semaphores(S, T) /\ new = verhogen(sm, Adl) /\ p \in S \ {Adl} /\ Adl \in S
    BY <1>2, <1>4, <1>6, <1>7
  <2> HIDE DEF S, T
  <2> QED
    BY <2>1, GiveFacts
<1>9. p \in S /\ p \in T
  OBVIOUS
<1> HIDE DEF S, T
<1>10. /\ later \in Semaphores(S, T)
       /\ \A t \in S \ {p} : later[t] = new[t]
       /\ later[p].val = new[p].val - 1
       /\ ~(new[p].val > 0) => later[p].queue = Append(new[p].queue, p)
  BY <1>4, <1>8, <1>9, TakeFacts
<1>11. sem[p].val = 0 /\ sem[p].queue = <<>>
  BY <1>1, <1>3, OwnSemaphore
<1>12. sem'[p].val = -1 /\ sem'[p].queue = <<p>>
  <2>1. Append(<<>>, p) = <<p>>
    OBVIOUS
  <2> QED
    BY <1>4, <1>7, <1>8, <1>10, <1>11, <2>1
<1>13. sem'[Adl] = new[Adl]
  BY <1>2, <1>4, <1>10 DEF S
<1>14. ~PastLock(p, "asleep")
  BY <1>2 DEF PastLock
<1>15. ListLock' /\ \A s \in Proc : s # Adl => new[s] = sem[s]
  BY <1>1, <1>3, <1>4, <1>5, <1>13, <1>14, LockGiven
<1>16. \A q \in Proc \ {p} : sem'[q] = sem[q]
  BY <1>2, <1>4, <1>10, <1>15 DEF S
<1>17. pc'[p] = "asleep" /\ \A q \in (Proc \cup {Daemon}) \ {p} : pc'[q] = pc[q]
  BY <1>1, <1>3, MovesOne
<1>18. Places'
  BY <1>1, <1>2, <1>17 DEF Places
<1>19. TypeOK'
  <2>1. sem' \in Semaphores({Adl} \cup Proc, Proc \cup {Daemon})
    BY <1>4, <1>10 DEF S, T
  <2> QED
    BY <1>1, <1>3, <1>18, <2>1, PcType DEF TypeOK
<1>20. Private'
  BY <1>1, <1>12, <1>16, <1>17 DEF Private
<1>21. \A q \in Proc : Asleep(q)' <=> Asleep(q)
  BY <1>3, <1>12, <1>16, <1>17 DEF Asleep
<1>22. pc'[Daemon] = pc[Daemon]
  BY <1>2, <1>17
<1>23. Listed'
  <2>1. \A i \in DOMAIN adl : adl[i].proc \in Proc
    BY <1>1, TypesOf
  <2>2. \A q \in Proc : Asleep(q)' => \E i \in DOMAIN adl : adl[i].proc = q
    BY <1>1, <1>21 DEF Listed
  <2>3. \A i \in DOMAIN adl : Asleep(adl[i].proc)'
    BY <1>1, <1>3, <1>5, <1>21, <2>1 DEF Listed
  <2> QED
    BY <1>1, <1>3, <1>5, <1>22, <2>2, <2>3 DEF Listed
<1>24. Sorted' /\ Descriptors'
  BY <1>1, <1>3 DEF Sorted, Descriptors
<1>25. IInv'
  BY <1>15, <1>18, <1>19, <1>20, <1>23, <1>24 DEF IInv
<1> QED
  BY <1>5, <1>17, <1>25

\* The V of the daemon for the first descriptor: its process really waits.
LEMMA WakeStep ==
  ASSUME SleepersAssumption, IInv, At(Daemon, "wake"), FirstDue,
         sem' = verhogen(sem, Head(adl).proc), Goto(Daemon, "drop"),
         UNCHANGED <<ticks, secs, adl, free, now>>
  PROVE  /\ IInv'
         /\ adl # <<>> /\ 1 \in DOMAIN adl /\ Head(adl) = adl[1]
         /\ \A q \in Proc : pc'[q] = pc[q]
<1>1. TypeOK /\ Places /\ ListLock /\ Private /\ Listed /\ Sorted /\ Descriptors
  BY DEF IInv
<1>2. Daemon \notin Proc /\ Adl \notin Proc
  BY Constants
<1>3. Moves(Daemon, "drop") /\ ~Blocked(sem, Daemon) /\ pc[Daemon] = "wake" /\ adl # <<>>
  BY DEF At, Goto, Moves, FirstDue
<1>4. /\ adl \in Seq([wake : Int, due : Int, proc : Proc]) /\ 1 \in DOMAIN adl
      /\ \A i \in DOMAIN adl : adl[i].proc \in Proc
  BY <1>1, <1>3, TypesOf
<1>5. Head(adl) = adl[1]
  BY <1>3, <1>4, HeadTailProperties
<1>6. PICK h \in Proc : h = adl[1].proc
  BY <1>4
<1>7. sem[h].val = -1 /\ sem[h].queue = <<h>> /\ pc[h] = "asleep"
  <2>1. Asleep(h)
    BY <1>1, <1>3, <1>4, <1>6 DEF Listed
  <2>2. pc[h] # "sleep"
    BY <1>1, <1>3, OneUser
  <2> QED
    BY <1>1, <2>1, <2>2, OwnSemaphore DEF Asleep
<1> DEFINE S == {Adl} \cup Proc
<1> DEFINE T == Proc \cup {Daemon}
<1>8. PICK sm, new : sm = sem /\ new = sem' /\ new = verhogen(sm, h)
  BY <1>5, <1>6
<1>9. sm \in Semaphores(S, T) /\ h \in S
  BY <1>1, <1>8 DEF TypeOK
<1> HIDE DEF S, T
<1>10. /\ new \in Semaphores(S, T)
       /\ \A t \in S \ {h} : new[t] = sm[t]
       /\ new[h].val = sm[h].val + 1
       /\ sm[h].val < 0 /\ sm[h].queue # <<>> => new[h].queue = Tail(sm[h].queue)
  BY <1>8, <1>9, GiveFacts
<1>11. sem'[h].val = 0 /\ sem'[h].queue = <<>>
  <2>1. Tail(<<h>>) = <<>> /\ <<h>> # <<>>
    OBVIOUS
  <2>2. sm[h].val = -1 /\ sm[h].queue = <<h>>
    BY <1>7, <1>8
  <2>3. new[h].val = 0
    BY <1>10, <2>2
  <2>4. new[h].queue = Tail(<<h>>)
    BY <1>10, <2>1, <2>2
  <2> QED
    BY <1>8, <2>1, <2>3, <2>4
<1>12. sem'[Adl] = sem[Adl] /\ \A q \in Proc \ {h} : sem'[q] = sem[q]
  BY <1>2, <1>8, <1>10 DEF S
<1>13. pc'[Daemon] = "drop" /\ \A q \in Proc : pc'[q] = pc[q]
  BY <1>1, <1>2, <1>3, MovesOne
<1>14. Places'
  BY <1>1, <1>13 DEF Places
<1>15. TypeOK'
  <2>1. sem' \in Semaphores({Adl} \cup Proc, Proc \cup {Daemon})
    BY <1>8, <1>10 DEF S, T
  <2> QED
    BY <1>1, <1>3, <1>14, <2>1, PcType DEF TypeOK
<1>16. ListLock'
  <2>1. Daemon \in Users \ Queue /\ PastLock(Daemon, "drop")
    BY <1>1, <1>3, NotQueued DEF Users, PastLock
  <2> QED
    BY <1>1, <1>3, <1>12, <2>1, LockKept
<1>17. Private'
  BY <1>1, <1>11, <1>12, <1>13 DEF Private
<1>18. ~Asleep(h)' /\ \A q \in Proc \ {h} : Asleep(q)' <=> Asleep(q)
  BY <1>7, <1>11, <1>12, <1>13 DEF Asleep
<1>19. Listed'
  <2>1. \A q \in Proc : Asleep(q)' => \E i \in DOMAIN adl : adl[i].proc = q
    BY <1>1, <1>18 DEF Listed
  <2>2. ASSUME NEW i \in DOMAIN adl, i # 1 PROVE Asleep(adl[i].proc)'
    <3>1. PICK q \in Proc : q = adl[i].proc
      BY <1>4
    <3>2. q # h /\ Asleep(q)
      BY <1>1, <1>3, <1>4, <1>6, <2>2, <3>1 DEF Listed
    <3>3. Asleep(q)'
      BY <1>18, <3>2
    <3> QED
      BY <3>1, <3>3
  <2>3. adl' # <<>> /\ ~Asleep(adl[1].proc)'
    BY <1>3, <1>6, <1>18
  <2> QED
    BY <1>1, <1>13, <2>1, <2>2, <2>3 DEF Listed
<1>20. Sorted' /\ Descriptors'
  BY <1>1 DEF Sorted, Descriptors
<1>21. IInv'
  BY <1>14, <1>15, <1>16, <1>17, <1>19, <1>20 DEF IInv
<1> QED
  BY <1>3, <1>4, <1>5, <1>13, <1>21

\* The daemon releases the list.
LEMMA ReleaseStep ==
  ASSUME SleepersAssumption, IInv, At(Daemon, "wake"),
         sem' = verhogen(sem, Adl), Goto(Daemon, "clock"),
         UNCHANGED <<ticks, secs, adl, free, now>>
  PROVE  IInv' /\ \A q \in Proc : pc'[q] = pc[q]
<1>1. TypeOK /\ Places /\ ListLock /\ Private /\ Listed /\ Sorted /\ Descriptors
  BY DEF IInv
<1>2. Daemon \notin Proc /\ Adl \notin Proc
  BY Constants
<1>3. Moves(Daemon, "clock") /\ ~Blocked(sem, Daemon) /\ pc[Daemon] = "wake"
  BY DEF At, Goto, Moves
<1>4. Daemon \in Users \ Queue /\ ~PastLock(Daemon, "clock")
  BY <1>1, <1>3, NotQueued DEF Users, PastLock
<1>5. /\ ListLock' /\ sem' \in Semaphores({Adl} \cup Proc, Proc \cup {Daemon})
      /\ \A s \in Proc : s # Adl => sem'[s] = sem[s]
  BY <1>1, <1>3, <1>4, LockGiven
<1>6. pc'[Daemon] = "clock" /\ \A q \in Proc : pc'[q] = pc[q]
  BY <1>1, <1>2, <1>3, MovesOne
<1>7. \A q \in Proc : sem'[q] = sem[q]
  BY <1>2, <1>5
<1>8. Places'
  BY <1>1, <1>6 DEF Places
<1>9. TypeOK'
  BY <1>1, <1>3, <1>5, <1>8, PcType DEF TypeOK
<1>10. Private'
  BY <1>1, <1>6, <1>7 DEF Private
<1>11. \A q \in Proc : Asleep(q)' <=> Asleep(q)
  BY <1>6, <1>7 DEF Asleep
<1>12. Listed'
  <2>1. \A i \in DOMAIN adl : adl[i].proc \in Proc
    BY <1>1, TypesOf
  <2>2. \A q \in Proc : Asleep(q)' => \E i \in DOMAIN adl : adl[i].proc = q
    BY <1>1, <1>11 DEF Listed
  <2>3. \A i \in DOMAIN adl : Asleep(adl[i].proc)'
    BY <1>1, <1>3, <1>11, <2>1 DEF Listed
  <2> QED
    BY <1>1, <1>6, <2>2, <2>3 DEF Listed
<1>13. Sorted' /\ Descriptors'
  BY <1>1 DEF Sorted, Descriptors
<1> QED
  BY <1>5, <1>6, <1>8, <1>9, <1>10, <1>12, <1>13 DEF IInv

\* removeADL: the head, whose process is awake.
LEMMA DropStep ==
  ASSUME SleepersAssumption, IInv, DropFirst
  PROVE  /\ IInv'
         /\ pc[Daemon] = "drop" /\ 1 \in DOMAIN adl
         /\ \A q \in Proc : pc'[q] = pc[q]
         /\ pc'[Daemon] = "wake" /\ Len(adl') = Len(adl) - 1
         /\ DOMAIN adl' = 1..(Len(adl) - 1)
         /\ \A i \in DOMAIN adl' : i + 1 \in DOMAIN adl /\ adl'[i] = adl[i + 1]
<1>1. TypeOK /\ Places /\ ListLock /\ Private /\ Listed /\ Sorted /\ Descriptors
  BY DEF IInv
<1>2. Daemon \notin Proc /\ Adl \notin Proc /\ NumDesc \in Nat
  BY Constants
<1>3. /\ Moves(Daemon, "wake") /\ ~Blocked(sem, Daemon) /\ pc[Daemon] = "drop"
      /\ adl' = Tail(adl) /\ free' = free + 1 /\ UNCHANGED <<ticks, secs, sem, now>>
  BY DEF DropFirst, At, Goto, Moves, free_descriptor
<1> DEFINE T == [wake : Int, due : Int, proc : Proc]
<1>4. adl \in Seq(T) /\ adl # <<>> /\ Len(adl) \in Nat /\ DOMAIN adl = 1..Len(adl)
      /\ \A i \in DOMAIN adl : adl[i].proc \in Proc
  BY <1>1, <1>3, TypesOf DEF Listed
<1> HIDE DEF T
<1>5. Len(adl) # 0
  BY <1>1, <1>4, TypesOf
<1>6. PICK new : new = adl'
  OBVIOUS
<1>7. new \in Seq(T) /\ Len(new) = Len(adl) - 1
  BY <1>3, <1>4, <1>6, HeadTailProperties
<1>8. \A i \in 1..(Len(adl) - 1) : new[i] = adl[i + 1]
  BY <1>3, <1>4, <1>6, HeadTailProperties
<1>9. DOMAIN new = 1..(Len(adl) - 1)
  BY <1>7, LenProperties
<1>10. \A i \in DOMAIN new : /\ i + 1 \in DOMAIN adl /\ new[i] = adl[i + 1]
                             /\ i \in Int /\ i + 1 # 1
  BY <1>4, <1>8, <1>9
<1>11. pc'[Daemon] = "wake" /\ \A q \in Proc : pc'[q] = pc[q]
  BY <1>1, <1>2, <1>3, MovesOne
<1>12. Places'
  BY <1>1, <1>11 DEF Places
<1>13. free' \in 0..NumDesc /\ Descriptors'
  <2>1. free \in 0..NumDesc /\ free + Len(adl) = NumDesc
    BY <1>1 DEF TypeOK, Descriptors
  <2>2. free' = free + 1 /\ Len(adl') = Len(adl) - 1
    BY <1>3, <1>6, <1>7
  <2>3. free' \in 0..NumDesc /\ free' + Len(adl') = NumDesc
    BY <1>2, <1>4, <1>5, <2>1, <2>2
  <2> QED
    BY <2>3 DEF Descriptors
<1>14. TypeOK'
  <2>1. adl' \in Seq([wake : Int, due : Int, proc : Proc])
    BY <1>6, <1>7 DEF T
  <2> QED
    BY <1>1, <1>3, <1>12, <1>13, <2>1, PcType DEF TypeOK
<1>15. ListLock'
  <2>1. Daemon \in Users \ Queue /\ PastLock(Daemon, "wake") /\ sem'[Adl] = sem[Adl]
    BY <1>1, <1>3, NotQueued DEF Users, PastLock
  <2> QED
    BY <1>1, <1>3, <2>1, LockKept
<1>16. Private'
  BY <1>1, <1>3, <1>11 DEF Private
<1>17. \A q \in Proc : Asleep(q)' <=> Asleep(q)
  BY <1>3, <1>11 DEF Asleep
<1>18. Sorted'
  <2>1. ASSUME NEW i \in DOMAIN new, NEW j \in DOMAIN new, i < j
        PROVE  new[i].wake <= new[j].wake
    <3>1. i + 1 < j + 1
      BY <1>10, <2>1
    <3> QED
      BY <1>1, <1>10, <3>1 DEF Sorted
  <2> QED
    BY <1>6, <2>1 DEF Sorted
<1>19. Listed'
  <2>1. ASSUME NEW i \in DOMAIN new, NEW j \in DOMAIN new, i # j
        PROVE  new[i].proc # new[j].proc
    <3>1. i + 1 # j + 1
      BY <1>10, <2>1
    <3> QED
      BY <1>1, <1>10, <3>1 DEF Listed
  <2>2. ASSUME NEW q \in Proc, Asleep(q)' PROVE \E i \in DOMAIN new : new[i].proc = q
    <3>1. Asleep(q)
      BY <1>17, <2>2
    <3>2. PICK i \in DOMAIN adl : adl[i].proc = q
      BY <1>1, <3>1 DEF Listed
    <3>3. i # 1
      BY <1>1, <1>3, <3>1, <3>2 DEF Listed
    <3>4. i - 1 \in DOMAIN new /\ (i - 1) + 1 = i
      BY <1>4, <1>9, <3>3
    <3>5. new[i - 1] = adl[(i - 1) + 1]
      BY <1>10, <3>4
    <3> QED
      BY <3>2, <3>4, <3>5
  <2>3. \A i \in DOMAIN new : Asleep(new[i].proc) /\ new[i].proc \in Proc
    BY <1>1, <1>4, <1>10 DEF Listed
  <2>4. \A i \in DOMAIN new : pc'[new[i].proc] = "sleep" \/ sem'[new[i].proc].val = -1
    BY <1>3, <1>11, <2>3 DEF Asleep
  <2>5. \A i \in DOMAIN adl' : Asleep(adl[i].proc)'
    BY <1>6, <2>4 DEF Asleep
  <2> QED
    BY <1>6, <1>11, <2>1, <2>2, <2>5 DEF Listed
<1>20. IInv'
  BY <1>12, <1>13, <1>14, <1>15, <1>16, <1>18, <1>19 DEF IInv
<1>21. 1 \in DOMAIN adl
  BY <1>4, <1>5
<1> QED
  BY <1>3, <1>6, <1>7, <1>9, <1>10, <1>11, <1>20, <1>21

\* A process or the daemon where it cannot be waiting.
LEMMA FreeToGo ==
  ASSUME SleepersAssumption, IInv, pc[Daemon] = "clock"
  PROVE  ~Blocked(sem, Daemon)
<1>1. TypeOK /\ ListLock /\ Private /\ Daemon \notin Proc
  BY Constants DEF IInv
<1>2. Daemon \notin ToSet(sem[Adl].queue)
  BY <1>1 DEF ListLock, Queue
<1>3. \A s \in Proc : Daemon \notin ToSet(sem[s].queue)
  <2>1. \A s \in Proc : Daemon \notin ToSet(<<s>>)
    BY <1>1 DEF ToSet
  <2>2. Daemon \notin ToSet(<<>>)
    BY EmptyQ
  <2> QED
    BY <1>1, <2>1, <2>2 DEF Private
<1>4. DOMAIN sem = {Adl} \cup Proc
  BY <1>1 DEF TypeOK, Semaphores
<1> QED
  BY <1>2, <1>3, <1>4 DEF Blocked

LEMMA SYS18Step ==
  ASSUME SleepersAssumption, IInv, NEW p \in Proc, NEW n \in Seconds, SYS18(p, n)
  PROVE  IInv'
<1> DEFINE l == IF n > 0 THEN "lock" ELSE IF n = 0 THEN "user" ELSE "dead"
<1>1. TypeOK /\ Daemon \notin Proc
  BY Constants DEF IInv
<1>2. /\ Moves(p, l) /\ ~Blocked(sem, p) /\ pc[p] = "user"
      /\ UNCHANGED <<ticks, adl, free, sem, now>>
      /\ secs' = [secs EXCEPT ![p] = IF n > 0 THEN n ELSE 0]
  BY DEF SYS18, At, Goto, Moves
<1>3. l \in {"lock", "user", "dead"}
  OBVIOUS
<1> HIDE DEF l
<1>4. ~PastLock(p, l) /\ p \notin Users /\ l \in ProcPlaces /\ l # "sleep"
  BY <1>1, <1>2, <1>3 DEF PastLock, Users, ProcPlaces
<1>5. secs' \in [Proc -> Seconds \cup {0}]
  BY <1>1, <1>2 DEF TypeOK
<1>6. ticks' \in 0..Horizon /\ now' \in Int
  BY <1>1, <1>2 DEF TypeOK
<1> QED
  BY <1>1, <1>2, <1>4, <1>5, <1>6, QuietIInv

LEMMA AwakeStep ==
  ASSUME SleepersAssumption, IInv, NEW p \in Proc, Awake(p)
  PROVE  IInv'
<1>1. TypeOK /\ Daemon \notin Proc
  BY Constants DEF IInv
<1>2. /\ Moves(p, "user") /\ ~Blocked(sem, p) /\ pc[p] = "asleep"
      /\ UNCHANGED <<ticks, adl, free, sem, now>>
      /\ secs' = [secs EXCEPT ![p] = 0]
  BY DEF Awake, At, Goto, Moves
<1>3. ~PastLock(p, "user") /\ p \notin Users /\ "user" \in ProcPlaces
  BY <1>1, <1>2 DEF PastLock, Users, ProcPlaces
<1>4. secs' \in [Proc -> Seconds \cup {0}]
  BY <1>1, <1>2 DEF TypeOK
<1>5. ticks' \in 0..Horizon /\ now' \in Int
  BY <1>1, <1>2 DEF TypeOK
<1> QED
  BY <1>1, <1>2, <1>3, <1>4, <1>5, QuietIInv

LEMMA ExitStep ==
  ASSUME SleepersAssumption, IInv, NEW p \in Proc, Exit(p)
  PROVE  IInv'
<1>1. TypeOK /\ Daemon \notin Proc
  BY Constants DEF IInv
<1>2. /\ Moves(p, "dead") /\ ~Blocked(sem, p) /\ pc[p] = "user"
      /\ UNCHANGED <<ticks, secs, adl, free, sem, now>>
  BY DEF Exit, At, Goto, Moves
<1>3. ~PastLock(p, "dead") /\ p \notin Users /\ "dead" \in ProcPlaces
  BY <1>1, <1>2 DEF PastLock, Users, ProcPlaces
<1>4. ticks' \in 0..Horizon /\ now' \in Int /\ secs' \in [Proc -> Seconds \cup {0}]
  BY <1>1, <1>2 DEF TypeOK
<1> QED
  BY <1>1, <1>2, <1>3, <1>4, QuietIInv

LEMMA ReadClockStep ==
  ASSUME SleepersAssumption, IInv, ReadClock
  PROVE  IInv'
<1>1. TypeOK /\ Daemon \notin Proc /\ Horizon \in Nat /\ Start \in Int
  BY Constants DEF IInv
<1>2. /\ Moves(Daemon, "wake") /\ ~Blocked(sem, Daemon) /\ pc[Daemon] = "scan"
      /\ UNCHANGED <<ticks, secs, adl, free, sem>> /\ now' = STCK
  BY DEF ReadClock, At, Goto, Moves
<1>3. PastLock(Daemon, "wake") /\ Daemon \in Users /\ "wake" \in DaemonPlaces
  BY <1>2 DEF PastLock, Users, DaemonPlaces
<1>4. ticks' \in 0..Horizon /\ secs' \in [Proc -> Seconds \cup {0}]
  BY <1>1, <1>2 DEF TypeOK
<1>5. now' \in Int
  <2>1. Start + ticks \in Int
    BY <1>1 DEF TypeOK
  <2> QED
    BY <1>2, <2>1, Constants DEF STCK
<1> QED
  BY <1>1, <1>2, <1>3, <1>4, <1>5, QuietIInv

LEMMA TickStep ==
  ASSUME SleepersAssumption, IInv, Tick
  PROVE  IInv' /\ \A q \in Proc : pc'[q] = pc[q]
<1>1. TypeOK /\ Daemon \notin Proc /\ Horizon \in Nat
  BY Constants DEF IInv
<1>2. /\ ticks' \in {ticks, ticks + 1} /\ (ticks' = ticks + 1 => ticks < Horizon)
      /\ UNCHANGED <<secs, adl, free, sem, now>>
      /\ pc' = [pc EXCEPT ![Daemon] = IF @ = "clock" THEN "tick" ELSE @]
  BY DEF Tick
<1>3. ticks' \in 0..Horizon
  BY <1>1, <1>2 DEF TypeOK
<1>4. secs' \in [Proc -> Seconds \cup {0}] /\ now' \in Int
  BY <1>1, <1>2 DEF TypeOK
<1>5. CASE pc[Daemon] = "clock"
  <2>1. Moves(Daemon, "tick")
    BY <1>1, <1>2, <1>5 DEF Moves, TypeOK
  <2>2. ~PastLock(Daemon, "tick") /\ Daemon \notin Users /\ "tick" \in DaemonPlaces
    BY <1>5 DEF PastLock, Users, DaemonPlaces
  <2>3. \A q \in Proc : pc'[q] = pc[q]
    BY <1>1, <2>1, MovesOne
  <2> QED
    BY <1>1, <1>2, <1>3, <1>4, <1>5, <2>1, <2>2, <2>3, QuietIInv, FreeToGo
<1>6. CASE pc[Daemon] # "clock"
  <2>1. pc' = pc
    BY <1>1, <1>2, <1>6 DEF TypeOK
  <2>2. Users' = Users /\ Queue' = Queue
    BY <1>2, <2>1 DEF Users, Queue
  <2>3. TypeOK'
    BY <1>1, <1>2, <1>3, <2>1 DEF TypeOK
  <2>4. Places' /\ ListLock' /\ Private' /\ Sorted' /\ Descriptors'
    BY <1>2, <2>1, <2>2 DEF IInv, Places, ListLock, Private, Sorted, Descriptors
  <2>5. Listed'
    BY <1>2, <2>1 DEF IInv, Listed, Asleep
  <2> QED
    BY <2>1, <2>3, <2>4, <2>5 DEF IInv
<1> QED
  BY <1>5, <1>6

LEMMA StutterStep ==
  ASSUME IInv, UNCHANGED vars
  PROVE  IInv'
<1>1. Users' = Users /\ Queue' = Queue
  BY DEF vars, Users, Queue
<1>2. TypeOK'
  BY DEF IInv, TypeOK, vars
<1>3. Places' /\ ListLock' /\ Private' /\ Sorted' /\ Descriptors' /\ Listed'
  BY <1>1 DEF IInv, Places, ListLock, Private, Sorted, Descriptors, Listed, Asleep, vars
<1> QED
  BY <1>2, <1>3 DEF IInv

\* What a step can be, once the list always has a descriptor.
Kinds ==
  \/ Tick \/ ReadClock \/ DropFirst
  \/ P(Daemon, "tick", Adl, "scan")
  \/ /\ At(Daemon, "wake") /\ FirstDue
     /\ sem' = verhogen(sem, Head(adl).proc) /\ Goto(Daemon, "drop")
     /\ UNCHANGED <<ticks, secs, adl, free, now>>
  \/ /\ At(Daemon, "wake")
     /\ sem' = verhogen(sem, Adl) /\ Goto(Daemon, "clock")
     /\ UNCHANGED <<ticks, secs, adl, free, now>>
  \/ \E p \in Proc :
       \/ P(p, "lock", Adl, "insert") \/ insertADL(p) \/ FallAsleep(p)
       \/ Awake(p) \/ Exit(p) \/ \E n \in Seconds : SYS18(p, n)

LEMMA NextKinds ==
  ASSUME SleepersAssumption, IInv, Next
  PROVE  Kinds
<1>1. ASSUME NEW p \in Proc, NoDescriptor(p) PROVE FALSE
  <2>1. pc[p] = "insert" /\ ~Blocked(sem, p) /\ free = 0
    BY <1>1 DEF NoDescriptor, At
  <2> QED
    BY <2>1, DescriptorLeft
<1>2. CASE Tick \/ ReadClock \/ DropFirst \/ P(Daemon, "tick", Adl, "scan")
  BY <1>2 DEF Kinds
<1>3. CASE WakeFirst
  BY <1>3 DEF WakeFirst, Kinds
<1>4. CASE \E p \in Proc : sys18Handler(p) \/ Exit(p) \/ \E n \in Seconds : SYS18(p, n)
  BY <1>1, <1>4 DEF sys18Handler, Kinds
<1> QED
  BY <1>2, <1>3, <1>4 DEF Next, delayDaemon

LEMMA IInvStep ==
  ASSUME SleepersAssumption, IInv, [Next]_vars
  PROVE  IInv'
<1>1. CASE UNCHANGED vars
  BY <1>1, StutterStep
<1>2. CASE Next
  <2>1. Daemon \notin Proc
    BY Constants
  <2>2. Kinds
    BY <1>2, NextKinds
  <2>3. ASSUME NEW p \in Proc, P(p, "lock", Adl, "insert") PROVE IInv'
    <3>1. P(p, IF p = Daemon THEN "tick" ELSE "lock", Adl,
               IF p = Daemon THEN "scan" ELSE "insert")
      BY <2>1, <2>3
    <3> QED
      BY <3>1, PStep
  <2>4. ASSUME P(Daemon, "tick", Adl, "scan") PROVE IInv'
    BY <2>4, PStep
  <2> QED
    BY <2>2, <2>3, <2>4, TickStep, ReadClockStep, DropStep, WakeStep, ReleaseStep,
       InsertStep, FallAsleepStep, AwakeStep, ExitStep, SYS18Step DEF Kinds
<1> QED
  BY <1>1, <1>2

\* The inductive invariant of the delay list, for any number of sleepers and any
\* delays: who has it, who sleeps, who is in it and how many descriptors are left.
THEOREM DelayInvariant == SleepersAssumption => (Spec => []IInv)
<1> SUFFICES ASSUME SleepersAssumption PROVE Spec => []IInv
  OBVIOUS
<1>1. Init => IInv
  BY InitIInv
<1>2. IInv /\ [Next]_vars => IInv'
  BY IInvStep
<1> QED
  BY <1>1, <1>2, PTL DEF Spec

\* delayDaemon.c: the list is sorted, nobody is in it twice, every sleeper is in
\* it, and insertADL always finds a descriptor, so that the branch that would end
\* a process with the list locked is dead.
THEOREM ListCorrect ==
  SleepersAssumption => (Spec => [](TypeOK /\ AdlSorted /\ SleeperListed /\ DescriptorsSuffice))
<1> SUFFICES ASSUME SleepersAssumption
             PROVE  Spec => [](TypeOK /\ AdlSorted /\ SleeperListed /\ DescriptorsSuffice)
  OBVIOUS
<1>1. ASSUME IInv PROVE TypeOK /\ AdlSorted /\ SleeperListed /\ DescriptorsSuffice
  <2>1. TypeOK /\ Places /\ ListLock /\ Private /\ Listed /\ Sorted
    BY <1>1 DEF IInv
  <2>2. DOMAIN adl = 1..Len(adl) /\ \A i \in DOMAIN adl : adl[i].proc \in Proc
    BY <2>1, TypesOf
  <2>3. AdlSorted
    BY <2>1, <2>2 DEF AdlSorted, Sorted, Listed
  <2>4. DescriptorsSuffice
    BY <1>1, DescriptorLeft DEF DescriptorsSuffice
  <2>5. adl # <<>> => Head(adl) = adl[1]
    BY <2>1, TypesOf, HeadTailProperties
  <2>6. \A p \in Proc : Asleep(p) => pc[p] = "sleep" \/ (pc[p] = "asleep" /\ Blocked(sem, p))
    BY <2>1, OwnSemaphore DEF Asleep
  <2>7. \A p \in Proc : pc[p] = "asleep" /\ Blocked(sem, p) => Asleep(p)
    <3> SUFFICES ASSUME NEW p \in Proc, pc[p] = "asleep", Blocked(sem, p) PROVE Asleep(p)
      OBVIOUS
    <3>1. PICK s \in {Adl} \cup Proc : p \in ToSet(sem[s].queue)
      BY <2>1 DEF TypeOK, Semaphores, Blocked
    <3>2. s # Adl
      BY <2>1, <3>1, Constants DEF ListLock, Queue
    <3>3. sem[s].queue # <<>>
      BY <3>1, EmptyQ
    <3>4. sem[s].queue = <<s>> /\ sem[s].val = -1
      BY <2>1, <3>1, <3>2, <3>3 DEF Private
    <3>5. p = s
      BY <3>1, <3>4 DEF ToSet
    <3> QED
      BY <3>4, <3>5 DEF Asleep
  <2>8. ASSUME NEW p \in Proc, NEW i \in DOMAIN adl, adl[i].proc = p
        PROVE  Asleep(p) \/ (pc[Daemon] = "drop" /\ Head(adl).proc = p)
    BY <2>1, <2>5, <2>8 DEF Listed
  <2>9. SleeperListed
    BY <2>1, <2>6, <2>7, <2>8 DEF SleeperListed, Listed
  <2> QED
    BY <2>1, <2>3, <2>4, <2>9
<1> QED
  BY <1>1, DelayInvariant, PTL

-----------------------------------------------------------------------------
(* The times in the list                                                   *)

\* Whoever is on the way to insertADL will have a descriptor that is due in time.
InTime ==
  \A p \in Proc : pc[p] \in {"lock", "insert"} =>
    secs[p] > 0 /\ ticks + secs[p] * Second <= Horizon

\* The wake-up time in a descriptor is the time it is due, on the clock.
Stamped ==
  \A i \in DOMAIN adl : adl[i].due \in 1..Horizon /\ adl[i].wake = Start + adl[i].due

\* The daemon never believes it is later than it is, and drops what is due.
Behind == now <= Start + ticks
Ripe == pc[Daemon] = "drop" => adl[1].due <= ticks

Times == InTime /\ Stamped /\ Behind /\ Ripe

\* Without a wrap the clock shows the time, and a sum of times is a time.
LEMMA ClockShows ==
  ASSUME SleepersAssumption, NoWrap, TypeOK
  PROVE  /\ STCK = Start + ticks
         /\ \A p \in Proc : secs[p] > 0 /\ ticks + secs[p] * Second <= Horizon
              => /\ wakeTime(p) = Start + (ticks + secs[p] * Second)
                 /\ ticks + secs[p] * Second \in 1..Horizon
<1>1. /\ Start \in Nat /\ Horizon \in Nat /\ ticks \in Nat /\ ticks <= Horizon
      /\ Start + Horizon < Wrap /\ Second \in Nat \ {0}
      /\ \A x \in Nat : x < Wrap => Int32(x) = x
      /\ Wrap \in Int
  BY Constants, SMT DEF TypeOK, NoWrap, Wrap
<1>2. STCK = Start + ticks
  BY <1>1 DEF STCK
<1>3. ASSUME NEW p \in Proc, secs[p] > 0, ticks + secs[p] * Second <= Horizon
      PROVE  /\ wakeTime(p) = Start + (ticks + secs[p] * Second)
             /\ ticks + secs[p] * Second \in 1..Horizon
  <2>1. secs[p] \in Int
    BY Constants DEF TypeOK
  <2>2. PICK d \in Int : d = secs[p] * Second
    BY <1>1, <2>1
  <2>3. d > 0
    BY <1>1, <1>3, <2>1, <2>2
  <2>4. d \in Nat /\ d < Wrap /\ STCK + d \in Nat /\ STCK + d < Wrap
    BY <1>1, <1>2, <1>3, <2>2, <2>3
  <2>5. wakeTime(p) = STCK + d
    BY <1>1, <2>2, <2>4 DEF wakeTime
  <2> QED
    BY <1>1, <1>2, <1>3, <2>2, <2>3, <2>5
<1> QED
  BY <1>2, <1>3

\* A step that leaves the list, its descriptors and the arguments alone.
LEMMA TimesKept ==
  ASSUME TypeOK, Times, UNCHANGED <<ticks, secs, adl, now>>,
         \A q \in Proc : pc'[q] \in {"lock", "insert"} => pc[q] \in {"lock", "insert"},
         pc'[Daemon] = "drop" => pc[Daemon] = "drop"
  PROVE  Times'
<1>1. InTime'
  <2> SUFFICES ASSUME NEW q \in Proc, pc'[q] \in {"lock", "insert"}
               PROVE  secs'[q] > 0 /\ ticks' + secs'[q] * Second <= Horizon
    BY DEF InTime
  <2>1. secs[q] > 0 /\ ticks + secs[q] * Second <= Horizon
    BY DEF Times, InTime
  <2> QED
    BY <2>1
<1>2. Stamped'
  BY DEF Times, Stamped
<1>3. Behind' /\ Ripe'
  BY DEF Times, Behind, Ripe
<1> QED
  BY <1>1, <1>2, <1>3 DEF Times

\* Where the processes are after a step of p.
LEMMA OnlyMoves ==
  ASSUME TypeOK, NEW p \in Proc \cup {Daemon}, NEW l, Goto(p, l)
  PROVE  pc'[p] = l /\ \A q \in (Proc \cup {Daemon}) \ {p} : pc'[q] = pc[q]
<1>1. DOMAIN pc = Proc \cup {Daemon}
  BY DEF TypeOK
<1> QED
  BY <1>1 DEF Goto

LEMMA TimesInit ==
  ASSUME SleepersAssumption, NoWrap, Init
  PROVE  Times
<1>1. Daemon \notin Proc /\ Start \in Int
  BY Constants
<1>2. InTime /\ Ripe
  BY <1>1 DEF Init, InTime, Ripe
<1>3. DOMAIN adl = {} /\ Behind
  BY <1>1 DEF Init, Behind, NoWrap
<1> QED
  BY <1>2, <1>3 DEF Times, Stamped

LEMMA TimesSYS18 ==
  ASSUME SleepersAssumption, IInv, Times, NEW p \in Proc, NEW n \in Seconds, SYS18(p, n)
  PROVE  Times'
<1>1. TypeOK /\ Daemon \notin Proc /\ n \in Int
  BY Constants DEF IInv
<1>2. /\ Goto(p, IF n > 0 THEN "lock" ELSE IF n = 0 THEN "user" ELSE "dead")
      /\ UNCHANGED <<ticks, adl, now>>
      /\ n > 0 => ticks + n * Second <= Horizon
      /\ secs' = [secs EXCEPT ![p] = IF n > 0 THEN n ELSE 0]
  BY DEF SYS18
<1>3. /\ pc'[p] = IF n > 0 THEN "lock" ELSE IF n = 0 THEN "user" ELSE "dead"
      /\ \A q \in (Proc \cup {Daemon}) \ {p} : pc'[q] = pc[q]
  BY <1>1, <1>2, OnlyMoves
<1>4. /\ secs'[p] = IF n > 0 THEN n ELSE 0
      /\ \A q \in Proc \ {p} : secs'[q] = secs[q]
  BY <1>1, <1>2 DEF TypeOK
<1>5. InTime'
  <2> SUFFICES ASSUME NEW q \in Proc, pc'[q] \in {"lock", "insert"}
               PROVE  secs'[q] > 0 /\ ticks' + secs'[q] * Second <= Horizon
    BY DEF InTime
  <2>1. ASSUME q = p PROVE secs'[q] > 0 /\ ticks' + secs'[q] * Second <= Horizon
    <3>1. n > 0
      BY <1>3, <2>1
    <3>2. secs'[q] = n /\ UNCHANGED ticks
      BY <1>2, <1>4, <2>1, <3>1
    <3> QED
      BY <1>2, <3>1, <3>2
  <2>2. ASSUME q # p PROVE secs'[q] > 0 /\ ticks' + secs'[q] * Second <= Horizon
    <3>1. secs[q] > 0 /\ ticks + secs[q] * Second <= Horizon
      BY <1>3, <2>2 DEF Times, InTime
    <3>2. secs'[q] = secs[q] /\ UNCHANGED ticks
      BY <1>2, <1>4, <2>2
    <3> QED
      BY <3>1, <3>2
  <2> QED
    BY <2>1, <2>2
<1>6. pc'[Daemon] = pc[Daemon]
  BY <1>1, <1>2, OnlyMoves
<1>7. Stamped' /\ Behind' /\ Ripe'
  BY <1>2, <1>6 DEF Times, Stamped, Behind, Ripe
<1> QED
  BY <1>5, <1>7 DEF Times

LEMMA TimesAwake ==
  ASSUME SleepersAssumption, IInv, Times, NEW p \in Proc, Awake(p)
  PROVE  Times'
<1>1. TypeOK /\ Daemon \notin Proc
  BY Constants DEF IInv
<1>2. /\ pc'[p] = "user"
      /\ \A q \in (Proc \cup {Daemon}) \ {p} : pc'[q] = pc[q]
  BY <1>1, OnlyMoves DEF Awake
<1>3. UNCHANGED <<ticks, adl, now>> /\ \A q \in Proc \ {p} : secs'[q] = secs[q]
  BY <1>1 DEF Awake, TypeOK
<1>4. InTime'
  <2> SUFFICES ASSUME NEW q \in Proc, pc'[q] \in {"lock", "insert"}
               PROVE  secs'[q] > 0 /\ ticks' + secs'[q] * Second <= Horizon
    BY DEF InTime
  <2>1. q # p /\ pc[q] \in {"lock", "insert"}
    BY <1>2
  <2>2. secs[q] > 0 /\ ticks + secs[q] * Second <= Horizon
    BY <2>1 DEF Times, InTime
  <2> QED
    BY <1>3, <2>1, <2>2
<1>5. pc'[Daemon] = pc[Daemon]
  BY <1>1, <1>2
<1>6. Stamped' /\ Behind' /\ Ripe'
  BY <1>3, <1>5 DEF Times, Stamped, Behind, Ripe
<1> QED
  BY <1>4, <1>6 DEF Times

\* The clock waits for those on their way to insertADL.
LEMMA TimesTick ==
  ASSUME SleepersAssumption, NoWrap, IInv, Times, Tick
  PROVE  Times'
<1>1. /\ TypeOK /\ Daemon \notin Proc /\ Start \in Int /\ Second \in Nat
      /\ Horizon \in Nat /\ \A p \in Proc : secs[p] \in Int
  <2>1. TypeOK /\ Seconds \subseteq Int
    BY Constants DEF IInv
  <2>2. \A x \in Seconds \cup {0} : x \in Int
    BY <2>1
  <2>3. \A p \in Proc : secs[p] \in Int
    BY <2>1, <2>2 DEF TypeOK
  <2> QED
    BY <2>1, <2>3, Constants
<1>2. ticks \in Nat /\ now \in Int /\ \A i \in DOMAIN adl : adl[i].due \in Int
  BY <1>1, TypesOf DEF TypeOK
<1>3. /\ UNCHANGED <<secs, adl, now>> /\ \A q \in Proc : pc'[q] = pc[q]
      /\ pc'[Daemon] = "drop" => pc[Daemon] = "drop"
      /\ ticks' \in {ticks, ticks + 1}
  BY <1>1, TickStep DEF Tick, TypeOK
<1>4. \A p \in Proc : pc[p] \in {"lock", "insert"} /\ ticks' = ticks + 1
        => ticks + secs[p] * Second < Horizon
  <2>1. ticks + 1 # ticks
    BY <1>2
  <2> QED
    BY <2>1 DEF Tick
<1>5. InTime'
  <2> SUFFICES ASSUME NEW q \in Proc, pc'[q] \in {"lock", "insert"}
               PROVE  secs'[q] > 0 /\ ticks' + secs'[q] * Second <= Horizon
    BY DEF InTime
  <2>1. pc[q] \in {"lock", "insert"}
    BY <1>3
  <2>2. secs[q] > 0 /\ ticks + secs[q] * Second <= Horizon
    BY <2>1 DEF Times, InTime
  <2>3. PICK d \in Int : d = secs[q] * Second
    BY <1>1
  <2>4. secs'[q] * Second = d /\ secs'[q] > 0
    BY <1>3, <2>2, <2>3
  <2>5. ticks' + d <= Horizon
    BY <1>1, <1>2, <1>3, <1>4, <2>1, <2>2, <2>3
  <2> QED
    BY <2>4, <2>5
<1>6. Behind'
  BY <1>1, <1>2, <1>3 DEF Times, Behind
<1>7. Ripe'
  <2> SUFFICES ASSUME pc'[Daemon] = "drop" PROVE adl'[1].due <= ticks'
    BY DEF Ripe
  <2>1. adl[1].due <= ticks /\ 1 \in DOMAIN adl
    BY <1>1, <1>3, TypesOf DEF Times, Ripe, IInv, Listed
  <2> QED
    BY <1>2, <1>3, <2>1
<1>8. Stamped'
  BY <1>3 DEF Times, Stamped
<1> QED
  BY <1>5, <1>6, <1>7, <1>8 DEF Times

LEMMA TimesReadClock ==
  ASSUME SleepersAssumption, NoWrap, IInv, Times, ReadClock
  PROVE  Times'
<1>1. TypeOK /\ Daemon \notin Proc /\ Start \in Int
  BY Constants DEF IInv
<1>2. /\ pc'[Daemon] = "wake"
      /\ \A q \in (Proc \cup {Daemon}) \ {Daemon} : pc'[q] = pc[q]
  BY <1>1, OnlyMoves DEF ReadClock
<1>3. UNCHANGED <<ticks, secs, adl>>
  BY DEF ReadClock
<1>4. InTime'
  <2> SUFFICES ASSUME NEW q \in Proc, pc'[q] \in {"lock", "insert"}
               PROVE  secs'[q] > 0 /\ ticks' + secs'[q] * Second <= Horizon
    BY DEF InTime
  <2>1. pc'[q] = pc[q]
    BY <1>1, <1>2
  <2>2. secs[q] > 0 /\ ticks + secs[q] * Second <= Horizon
    BY <2>1 DEF Times, InTime
  <2> QED
    BY <1>3, <2>2
<1>5. now' = Start + ticks
  BY <1>1, ClockShows DEF ReadClock
<1>6. Behind'
  <2>1. now' \in Int /\ now' <= Start + ticks'
    BY <1>1, <1>3, <1>5 DEF TypeOK
  <2> QED
    BY <2>1 DEF Behind
<1>7. Stamped' /\ Ripe'
  BY <1>2, <1>3 DEF Times, Stamped, Ripe
<1> QED
  BY <1>4, <1>6, <1>7 DEF Times

LEMMA TimesInsert ==
  ASSUME SleepersAssumption, NoWrap, IInv, Times, NEW p \in Proc, insertADL(p)
  PROVE  Times'
<1>1. TypeOK /\ ListLock /\ Daemon \notin Proc
  BY Constants DEF IInv
<1>2. /\ pc'[p] = "sleep" /\ p \in Users \ Queue
      /\ \A q \in (Proc \cup {Daemon}) \ {p} : pc'[q] = pc[q]
  BY InsertStep
<1>3. UNCHANGED <<ticks, secs, now>> /\ pc[p] = "insert"
  BY DEF insertADL, At
<1>4. pc'[Daemon] # "drop"
  <2>1. pc[Daemon] \notin {"wake", "drop"}
    BY <1>1, <1>2, OneUser
  <2> QED
    BY <1>1, <1>2, <2>1
<1>5. InTime'
  <2> SUFFICES ASSUME NEW q \in Proc, pc'[q] \in {"lock", "insert"}
               PROVE  secs'[q] > 0 /\ ticks' + secs'[q] * Second <= Horizon
    BY DEF InTime
  <2>1. pc'[q] = pc[q]
    BY <1>2
  <2>2. secs[q] > 0 /\ ticks + secs[q] * Second <= Horizon
    BY <2>1 DEF Times, InTime
  <2> QED
    BY <1>3, <2>2
<1>6. Stamped'
  <2>1. PICK k \in 0..Len(adl) :
          /\ Len(adl') = Len(adl) + 1
          /\ \A j \in 1..k : adl'[j] = adl[j]
          /\ adl'[k + 1] = [wake |-> wakeTime(p), due |-> ticks + secs[p] * Second,
                            proc |-> p]
          /\ \A j \in (k + 2)..(Len(adl) + 1) : adl'[j] = adl[j - 1]
    BY InsertStep
  <2>2. /\ wakeTime(p) = Start + (ticks + secs[p] * Second)
        /\ ticks + secs[p] * Second \in 1..Horizon
    BY <1>1, <1>3, ClockShows DEF Times, InTime
  <2>3. DOMAIN adl = 1..Len(adl) /\ Len(adl) \in Nat
    BY <1>1, TypesOf
  <2>4. DOMAIN adl' = 1..(Len(adl) + 1)
    <3>1. TypeOK'
      BY InsertStep DEF IInv
    <3>2. adl' \in Seq([wake : Int, due : Int, proc : Proc])
      BY <3>1 DEF TypeOK
    <3> QED
      BY <2>1, <3>2, LenProperties
  <2> SUFFICES ASSUME NEW i \in DOMAIN adl'
               PROVE  adl'[i].due \in 1..Horizon /\ adl'[i].wake = Start + adl'[i].due
    BY DEF Stamped
  <2>5. i \in 1..k \/ i = k + 1 \/ i \in (k + 2)..(Len(adl) + 1)
    BY <2>3, <2>4
  <2>6. ASSUME i \in 1..k
        PROVE  adl'[i].due \in 1..Horizon /\ adl'[i].wake = Start + adl'[i].due
    <3>1. i \in DOMAIN adl /\ adl'[i] = adl[i]
      BY <2>1, <2>3, <2>6
    <3> QED
      BY <3>1 DEF Times, Stamped
  <2>7. ASSUME i \in (k + 2)..(Len(adl) + 1)
        PROVE  adl'[i].due \in 1..Horizon /\ adl'[i].wake = Start + adl'[i].due
    <3>1. i - 1 \in DOMAIN adl /\ adl'[i] = adl[i - 1]
      BY <2>1, <2>3, <2>7
    <3> QED
      BY <3>1 DEF Times, Stamped
  <2>8. ASSUME i = k + 1
        PROVE  adl'[i].due \in 1..Horizon /\ adl'[i].wake = Start + adl'[i].due
    BY <2>1, <2>2, <2>8
  <2> QED
    BY <2>5, <2>6, <2>7, <2>8
<1>7. Behind' /\ Ripe'
  BY <1>3, <1>4 DEF Times, Behind, Ripe
<1> QED
  BY <1>5, <1>6, <1>7 DEF Times

\* The daemon wakes what its own clock, which is late, says is due.
LEMMA TimesWake ==
  ASSUME SleepersAssumption, NoWrap, IInv, Times, At(Daemon, "wake"), FirstDue,
         sem' = verhogen(sem, Head(adl).proc), Goto(Daemon, "drop"),
         UNCHANGED <<ticks, secs, adl, free, now>>
  PROVE  Times' /\ adl[1].due <= ticks
<1>1. TypeOK /\ Start \in Int
  BY Constants DEF IInv
<1>2. 1 \in DOMAIN adl /\ Head(adl) = adl[1] /\ \A q \in Proc : pc'[q] = pc[q]
  BY WakeStep
<1>3. adl[1].due \in Int /\ ticks \in Int /\ now \in Int
  BY <1>1, <1>2, TypesOf DEF TypeOK
<1>4. adl[1].due <= ticks
  <2>1. Start + adl[1].due <= now /\ now <= Start + ticks
    BY <1>2 DEF FirstDue, Times, Stamped, Behind
  <2> QED
    BY <1>1, <1>3, <2>1
<1>5. InTime'
  BY <1>2 DEF Times, InTime
<1>6. Stamped' /\ Behind' /\ Ripe'
  BY <1>4 DEF Times, Stamped, Behind, Ripe
<1> QED
  BY <1>4, <1>5, <1>6 DEF Times

LEMMA TimesDrop ==
  ASSUME SleepersAssumption, IInv, Times, DropFirst
  PROVE  Times'
<1>1. /\ pc'[Daemon] = "wake" /\ \A q \in Proc : pc'[q] = pc[q]
      /\ \A i \in DOMAIN adl' : i + 1 \in DOMAIN adl /\ adl'[i] = adl[i + 1]
  BY DropStep
<1>2. UNCHANGED <<ticks, secs, now>>
  BY DEF DropFirst
<1>3. InTime' /\ Behind' /\ Ripe'
  BY <1>1, <1>2 DEF Times, InTime, Behind, Ripe
<1>4. Stamped'
  BY <1>1 DEF Times, Stamped
<1> QED
  BY <1>3, <1>4 DEF Times

\* A step of one process, or of the daemon to another place than "drop".
LEMMA TimesMove ==
  ASSUME SleepersAssumption, IInv, Times, NEW p \in Proc \cup {Daemon}, NEW l, Goto(p, l),
         UNCHANGED <<ticks, secs, adl, now>>, l # "drop",
         l \in {"lock", "insert"} => pc[p] \in {"lock", "insert"}
  PROVE  Times'
<1>1. TypeOK
  BY DEF IInv
<1>2. pc'[p] = l /\ \A q \in (Proc \cup {Daemon}) \ {p} : pc'[q] = pc[q]
  BY <1>1, OnlyMoves
<1>3. \A q \in Proc : pc'[q] \in {"lock", "insert"} => pc[q] \in {"lock", "insert"}
  BY <1>2
<1>4. pc'[Daemon] = "drop" => pc[Daemon] = "drop"
  BY <1>2
<1> QED
  BY <1>1, <1>3, <1>4, TimesKept

LEMMA TimesStep ==
  ASSUME SleepersAssumption, NoWrap, IInv, Times, [Next]_vars
  PROVE  Times'
<1>1. ASSUME UNCHANGED vars PROVE Times'
  BY <1>1, TimesKept DEF vars, IInv
<1>2. ASSUME Next PROVE Times'
  <2>1. Kinds
    BY <1>2, NextKinds
  <2>2. ASSUME NEW p \in Proc, P(p, "lock", Adl, "insert") PROVE Times'
    BY <2>2, TimesMove DEF P, At
  <2>3. ASSUME P(Daemon, "tick", Adl, "scan") PROVE Times'
    BY <2>3, TimesMove DEF P
  <2>4. ASSUME Goto(Daemon, "clock"), UNCHANGED <<ticks, secs, adl, free, now>> PROVE Times'
    BY <2>4, TimesMove
  <2>5. ASSUME NEW p \in Proc, FallAsleep(p) PROVE Times'
    BY <2>5, TimesMove DEF FallAsleep
  <2>6. ASSUME NEW p \in Proc, Exit(p) PROVE Times'
    BY <2>6, TimesMove DEF Exit
  <2> QED
    BY <2>1, <2>2, <2>3, <2>4, <2>5, <2>6, TimesTick, TimesReadClock, TimesDrop,
       TimesWake, TimesInsert, TimesAwake, TimesSYS18 DEF Kinds
<1> QED
  BY <1>1, <1>2

\* Entry by entry: who is not blocked any more was due.
LEMMA WokenWasDue ==
  ASSUME SleepersAssumption, IInv, Times
  PROVE  NotEarly
<1>1. TypeOK /\ Private /\ Listed
  BY DEF IInv
<1> SUFFICES ASSUME NEW i \in DOMAIN adl, pc[adl[i].proc] = "asleep",
                    ~Blocked(sem, adl[i].proc)
             PROVE  ticks >= adl[i].due
  BY DEF NotEarly
<1>2. adl[i].proc \in Proc
  BY <1>1, TypesOf
<1>3. sem[adl[i].proc].val = 0
  BY <1>1, <1>2, OwnSemaphore
<1>4. ~Asleep(adl[i].proc)
  BY <1>3 DEF Asleep
<1>5. pc[Daemon] = "drop" /\ i = 1
  BY <1>1, <1>4 DEF Listed
<1>6. ticks \in Int /\ adl[i].due \in Int
  BY <1>1, TypesOf DEF TypeOK
<1> QED
  BY <1>5, <1>6 DEF Times, Ripe

\* delayDaemon.c: the daemon wakes nobody before its time, as long as the clock
\* does not wrap, and the times in the list are those that were asked for.
THEOREM NobodyEarly ==
  SleepersAssumption /\ NoWrap => (Spec => [](Times /\ NotEarly))
<1> SUFFICES ASSUME SleepersAssumption, NoWrap PROVE Spec => [](Times /\ NotEarly)
  OBVIOUS
<1>1. Init => Times
  BY TimesInit
<1>2. IInv /\ Times /\ [Next]_vars => Times'
  BY TimesStep
<1>3. IInv /\ Times => NotEarly
  BY WokenWasDue
<1> QED
  BY <1>1, <1>2, <1>3, DelayInvariant, PTL DEF Spec

\* delayDaemon.c: all of what the run checks of the list at once.
THEOREM SleepersKnown == SleepersAssumption /\ NoWrap => (Spec => []SleepersListed)
<1> SUFFICES ASSUME SleepersAssumption, NoWrap PROVE Spec => []SleepersListed
  OBVIOUS
<1>1. /\ TypeOK /\ AdlSorted /\ SleeperListed /\ DescriptorsSuffice
      /\ Times /\ NotEarly
      => SleepersListed
  BY DEF SleepersListed
<1> QED
  BY <1>1, ListCorrect, NobodyEarly, PTL

-----------------------------------------------------------------------------
(* One alarm per process                                                   *)

\* The deadline of each process, from its place in the list.
DueFacts ==
  \A p \in Proc :
    /\ \A i \in DOMAIN adl : adl[i].proc = p =>
         Due(p) = IF pc[Daemon] = "drop" /\ i = 1 THEN 0 ELSE adl[i].due
    /\ (\A i \in DOMAIN adl : adl[i].proc # p) => Due(p) = 0

LEMMA Deadlines == Listed => DueFacts
<1> SUFFICES ASSUME Listed PROVE DueFacts
  OBVIOUS
<1> SUFFICES ASSUME NEW p \in Proc
             PROVE  /\ \A i \in DOMAIN adl : adl[i].proc = p =>
                         Due(p) = IF pc[Daemon] = "drop" /\ i = 1 THEN 0 ELSE adl[i].due
                    /\ (\A i \in DOMAIN adl : adl[i].proc # p) => Due(p) = 0
  BY DEF DueFacts
<1> DEFINE Mine == {i \in DOMAIN adl : adl[i].proc = p}
<1>1. Due(p) = IF Mine = {} \/ (pc[Daemon] = "drop" /\ 1 \in Mine) THEN 0
               ELSE adl[CHOOSE i \in Mine : TRUE].due
  BY DEF Due
<1>2. ASSUME NEW i \in DOMAIN adl, adl[i].proc = p
      PROVE  Due(p) = IF pc[Daemon] = "drop" /\ i = 1 THEN 0 ELSE adl[i].due
  <2>1. Mine = {i}
    BY <1>2 DEF Listed
  <2>2. (CHOOSE j \in Mine : TRUE) = i
    BY <2>1
  <2> QED
    BY <1>1, <2>1, <2>2
<1>3. ASSUME \A i \in DOMAIN adl : adl[i].proc # p PROVE Due(p) = 0
  <2>1. Mine = {}
    BY <1>3
  <2> QED
    BY <1>1, <2>1
<1> QED
  BY <1>2, <1>3

LEMMA DeadlinesNext == Listed' => DueFacts'
BY Deadlines, PTL

\* A step that leaves the list alone and neither wakes nor drops anybody.
LEMMA AlarmKept ==
  ASSUME UNCHANGED <<ticks, adl>>, pc'[Daemon] = "drop" <=> pc[Daemon] = "drop"
  PROVE  AlarmStep
<1>1. \A p \in Proc : Due(p)' = Due(p)
  BY DEF Due
<1>2. deadline' = deadline
  BY <1>1 DEF deadline
<1> QED
  BY <1>2 DEF AlarmStep

LEMMA AlarmTick ==
  ASSUME SleepersAssumption, IInv, Tick
  PROVE  AlarmStep
<1>1. UNCHANGED adl /\ (pc'[Daemon] = "drop" <=> pc[Daemon] = "drop")
  BY DEF Tick, IInv, TypeOK
<1>2. \A p \in Proc : Due(p)' = Due(p)
  BY <1>1 DEF Due
<1>3. deadline' = deadline
  BY <1>2 DEF deadline
<1>4. ticks' = ticks \/ ticks' = ticks + 1
  BY DEF Tick
<1> QED
  BY <1>3, <1>4 DEF AlarmStep, AlarmService!Next, AlarmService!Tick

LEMMA AlarmSleep ==
  ASSUME SleepersAssumption, NoWrap, IInv, Times, NEW p \in Proc, insertADL(p)
  PROVE  AlarmStep
<1>1. TypeOK /\ ListLock /\ Listed /\ Daemon \notin Proc
  BY Constants DEF IInv
<1>2. Listed' /\ TypeOK'
  BY InsertStep DEF IInv
<1>3. DueFacts /\ DueFacts'
  BY <1>1, <1>2, Deadlines, DeadlinesNext
<1>4. /\ p \in Users \ Queue
      /\ \A q \in (Proc \cup {Daemon}) \ {p} : pc'[q] = pc[q]
      /\ \A i \in DOMAIN adl : adl[i].proc # p
  BY InsertStep
<1>5. pc[Daemon] # "drop" /\ pc'[Daemon] # "drop"
  BY <1>1, <1>4, OneUser
<1>6. PICK k \in 0..Len(adl) :
        /\ Len(adl') = Len(adl) + 1
        /\ \A j \in 1..k : adl'[j] = adl[j]
        /\ adl'[k + 1] = [wake |-> wakeTime(p), due |-> ticks + secs[p] * Second,
                          proc |-> p]
        /\ \A j \in (k + 2)..(Len(adl) + 1) : adl'[j] = adl[j - 1]
  BY InsertStep
<1>7. DOMAIN adl = 1..Len(adl) /\ Len(adl) \in Nat
  BY <1>1, TypesOf
<1>8. DOMAIN adl' = 1..(Len(adl) + 1)
  <2>1. adl' \in Seq([wake : Int, due : Int, proc : Proc])
    BY <1>2 DEF TypeOK
  <2> QED
    BY <1>6, <2>1, LenProperties
<1>9. Due(p) = 0
  BY <1>3, <1>4 DEF DueFacts
<1>10. Due(p)' = ticks + secs[p] * Second
  <2>1. k + 1 \in DOMAIN adl' /\ adl'[k + 1].proc = p
        /\ adl'[k + 1].due = ticks + secs[p] * Second
    BY <1>6, <1>7, <1>8
  <2> QED
    BY <1>3, <1>5, <2>1 DEF DueFacts
<1>11. ASSUME NEW q \in Proc, q # p PROVE Due(q)' = Due(q)
  <2>1. CASE \E i \in DOMAIN adl : adl[i].proc = q
    <3>1. PICK i \in DOMAIN adl : adl[i].proc = q
      BY <2>1
    <3>2. PICK j \in DOMAIN adl' : adl'[j] = adl[i]
      <4>1. CASE i <= k
        BY <1>6, <1>7, <1>8, <4>1
      <4>2. CASE i > k
        <5>1. i + 1 \in (k + 2)..(Len(adl) + 1) /\ (i + 1) - 1 = i
          BY <1>6, <1>7, <4>2
        <5>2. adl'[i + 1] = adl[i] /\ i + 1 \in DOMAIN adl'
          BY <1>6, <1>7, <1>8, <5>1
        <5> QED
          BY <5>2
      <4> QED
        BY <1>7, <4>1, <4>2
    <3>3. Due(q) = adl[i].due
      BY <1>3, <1>5, <3>1 DEF DueFacts
    <3>4. Due(q)' = adl'[j].due
      BY <1>3, <1>5, <3>1, <3>2 DEF DueFacts
    <3> QED
      BY <3>2, <3>3, <3>4
  <2>2. CASE \A i \in DOMAIN adl : adl[i].proc # q
    <3>1. ASSUME NEW j \in DOMAIN adl' PROVE adl'[j].proc # q
      <4>1. j \in 1..k \/ j = k + 1 \/ j \in (k + 2)..(Len(adl) + 1)
        BY <1>7, <1>8
      <4>2. CASE j \in 1..k
        BY <1>6, <1>7, <2>2, <4>2
      <4>3. CASE j = k + 1
        BY <1>6, <1>11, <4>3
      <4>4. CASE j \in (k + 2)..(Len(adl) + 1)
        <5>1. j - 1 \in DOMAIN adl /\ adl'[j] = adl[j - 1]
          BY <1>6, <1>7, <4>4
        <5> QED
          BY <2>2, <5>1
      <4> QED
        BY <4>1, <4>2, <4>3, <4>4
    <3>2. Due(q)' = 0
      BY <1>3, <3>1 DEF DueFacts
    <3> QED
      BY <1>3, <2>2, <3>2 DEF DueFacts
  <2> QED
    BY <2>1, <2>2
<1>12. UNCHANGED ticks /\ pc[p] = "insert"
  BY DEF insertADL, At
<1>13. secs[p] * Second \in {n * Second : n \in Seconds \cap Nat}
  <2>1. secs[p] > 0
    BY <1>12 DEF Times, InTime
  <2>2. secs[p] \in Seconds \cap Nat
    <3>1. secs[p] \in Seconds \cup {0} /\ \A x \in Seconds : x \in Int
      BY <1>1, Constants DEF TypeOK
    <3> QED
      BY <2>1, <3>1
  <2> QED
    BY <2>2
<1>14. deadline[p] = 0
  BY <1>9 DEF deadline
<1>15. deadline' = [deadline EXCEPT ![p] = ticks + secs[p] * Second]
  BY <1>10, <1>11 DEF deadline
<1>16. AlarmService!Sleep(p, secs[p] * Second)
  BY <1>12, <1>14, <1>15 DEF AlarmService!Sleep
<1> QED
  BY <1>13, <1>16 DEF AlarmStep, AlarmService!Next

LEMMA AlarmWake ==
  ASSUME SleepersAssumption, NoWrap, IInv, Times, At(Daemon, "wake"), FirstDue,
         sem' = verhogen(sem, Head(adl).proc), Goto(Daemon, "drop"),
         UNCHANGED <<ticks, secs, adl, free, now>>
  PROVE  AlarmStep
<1>1. TypeOK /\ Listed /\ Listed' /\ 1 \in DOMAIN adl
  BY WakeStep DEF IInv
<1>2. DueFacts /\ DueFacts'
  BY <1>1, Deadlines, DeadlinesNext
<1>3. pc[Daemon] = "wake" /\ pc'[Daemon] = "drop"
  BY <1>1, OnlyMoves DEF At
<1>0. PICK p : p = adl[1].proc
  OBVIOUS
<1>4. p \in Proc /\ adl[1].due # 0 /\ adl[1].due <= ticks /\ ticks \in Int
      /\ adl[1].due \in Int
  BY <1>0, <1>1, TypesOf, TimesWake DEF TypeOK, Times, Stamped
<1>5. Due(p) = adl[1].due /\ Due(p)' = 0
  BY <1>0, <1>1, <1>2, <1>3, <1>4 DEF DueFacts
<1>6. ASSUME NEW q \in Proc, q # p PROVE Due(q)' = Due(q)
  <2>1. CASE \E i \in DOMAIN adl : adl[i].proc = q
    <3>1. PICK i \in DOMAIN adl : adl[i].proc = q
      BY <2>1
    <3>2. i # 1
      BY <1>0, <1>6, <3>1
    <3>3. Due(q) = adl[i].due /\ Due(q)' = adl'[i].due
      BY <1>2, <3>1, <3>2 DEF DueFacts
    <3> QED
      BY <3>3
  <2>2. CASE \A i \in DOMAIN adl : adl[i].proc # q
    BY <1>2, <2>2 DEF DueFacts
  <2> QED
    BY <2>1, <2>2
<1>7. deadline[p] # 0 /\ ticks >= deadline[p]
  BY <1>4, <1>5 DEF deadline
<1>8. deadline' = [deadline EXCEPT ![p] = 0]
  BY <1>4, <1>5, <1>6 DEF deadline
<1>9. AlarmService!Wake(p)
  BY <1>7, <1>8 DEF AlarmService!Wake
<1> QED
  BY <1>4, <1>9 DEF AlarmStep, AlarmService!Next

\* The process of the first descriptor has been woken; the others keep theirs.
LEMMA AlarmDrop ==
  ASSUME SleepersAssumption, IInv, DropFirst
  PROVE  AlarmStep
<1>1. TypeOK /\ Listed /\ Listed'
  BY DropStep DEF IInv
<1>2. DueFacts /\ DueFacts'
  BY <1>1, Deadlines, DeadlinesNext
<1>3. /\ pc[Daemon] = "drop" /\ 1 \in DOMAIN adl /\ pc'[Daemon] = "wake"
      /\ DOMAIN adl' = 1..(Len(adl) - 1)
      /\ \A i \in DOMAIN adl' : i + 1 \in DOMAIN adl /\ adl'[i] = adl[i + 1]
  BY DropStep
<1>4. DOMAIN adl = 1..Len(adl) /\ Len(adl) \in Nat
  BY <1>1, TypesOf
<1>5. ASSUME NEW q \in Proc PROVE Due(q)' = Due(q)
  <2>1. CASE \E i \in DOMAIN adl : i # 1 /\ adl[i].proc = q
    <3>1. PICK i \in DOMAIN adl : i # 1 /\ adl[i].proc = q
      BY <2>1
    <3>2. i - 1 \in DOMAIN adl' /\ (i - 1) + 1 = i
      BY <1>3, <1>4, <3>1
    <3>3. adl'[i - 1] = adl[i]
      BY <1>3, <3>2
    <3>4. Due(q) = adl[i].due
      BY <1>2, <3>1 DEF DueFacts
    <3>5. Due(q)' = adl'[i - 1].due
      BY <1>2, <1>3, <3>1, <3>2, <3>3 DEF DueFacts
    <3> QED
      BY <3>3, <3>4, <3>5
  <2>2. CASE \A i \in DOMAIN adl : i # 1 => adl[i].proc # q
    <3>1. ASSUME NEW j \in DOMAIN adl' PROVE adl'[j].proc # q
      <4>1. j + 1 \in DOMAIN adl /\ j + 1 # 1 /\ adl'[j] = adl[j + 1]
        BY <1>3, <1>4
      <4> QED
        BY <2>2, <4>1
    <3>2. Due(q)' = 0
      BY <1>2, <3>1 DEF DueFacts
    <3>3. Due(q) = 0
      <4>1. CASE adl[1].proc = q
        BY <1>2, <1>3, <4>1 DEF DueFacts
      <4>2. CASE adl[1].proc # q
        BY <1>2, <2>2, <4>2 DEF DueFacts
      <4> QED
        BY <4>1, <4>2
    <3> QED
      BY <3>2, <3>3
  <2> QED
    BY <2>1, <2>2
<1>6. deadline' = deadline
  BY <1>5 DEF deadline
<1> QED
  BY <1>6 DEF AlarmStep, DropFirst

\* Steps of one process, or of the daemon, that wake and drop nobody.
LEMMA AlarmMove ==
  ASSUME SleepersAssumption, IInv, NEW p \in Proc \cup {Daemon}, NEW l, Goto(p, l),
         UNCHANGED <<ticks, adl>>, p = Daemon => pc[p] # "drop" /\ l # "drop"
  PROVE  AlarmStep
<1>1. TypeOK
  BY DEF IInv
<1>2. pc'[Daemon] = "drop" <=> pc[Daemon] = "drop"
  BY <1>1, OnlyMoves
<1> QED
  BY <1>2, AlarmKept

LEMMA AlarmNext ==
  ASSUME SleepersAssumption, NoWrap, IInv, Times, [Next]_vars
  PROVE  AlarmStep
<1>0. Daemon \notin Proc
  BY Constants
<1>1. ASSUME UNCHANGED vars PROVE AlarmStep
  BY <1>1, AlarmKept DEF vars
<1>2. ASSUME Next PROVE AlarmStep
  <2>1. Kinds
    BY <1>2, NextKinds
  <2>2. ASSUME NEW p \in Proc, P(p, "lock", Adl, "insert") PROVE AlarmStep
    BY <1>0, <2>2, AlarmMove DEF P
  <2>3. ASSUME P(Daemon, "tick", Adl, "scan") PROVE AlarmStep
    BY <2>3, AlarmMove DEF P, At
  <2>4. ASSUME At(Daemon, "wake"), Goto(Daemon, "clock"),
               UNCHANGED <<ticks, secs, adl, free, now>>
        PROVE  AlarmStep
    BY <2>4, AlarmMove DEF At
  <2>5. ASSUME NEW p \in Proc, FallAsleep(p) PROVE AlarmStep
    BY <1>0, <2>5, AlarmMove DEF FallAsleep
  <2>6. ASSUME NEW p \in Proc, Exit(p) PROVE AlarmStep
    BY <1>0, <2>6, AlarmMove DEF Exit
  <2>7. ASSUME NEW p \in Proc, Awake(p) PROVE AlarmStep
    BY <1>0, <2>7, AlarmMove DEF Awake
  <2>8. ASSUME NEW p \in Proc, NEW n \in Seconds, SYS18(p, n) PROVE AlarmStep
    BY <1>0, <2>8, AlarmMove DEF SYS18
  <2>9. ASSUME ReadClock PROVE AlarmStep
    BY <2>9, AlarmMove DEF ReadClock, At
  <2> QED
    BY <2>1, <2>2, <2>3, <2>4, <2>5, <2>6, <2>7, <2>8, <2>9, AlarmTick, AlarmSleep,
       AlarmWake, AlarmDrop DEF Kinds
<1> QED
  BY <1>1, <1>2

LEMMA AlarmInit == Init => AlarmService!Init
<1> SUFFICES ASSUME Init PROVE ticks = 0 /\ deadline = [p \in Proc |-> 0]
  BY DEF AlarmService!Init, Init
<1>1. ticks = 0 /\ DOMAIN adl = {}
  BY DEF Init
<1>2. \A p \in Proc : Due(p) = 0
  BY <1>1 DEF Due
<1> QED
  BY <1>1, <1>2 DEF deadline

\* delayDaemon.c: the sorted list, its mutex and the daemon's scan implement one
\* alarm per process, for any number of sleepers and any delays, as long as the
\* clock does not wrap.
THEOREM OneAlarmEach ==
  SleepersAssumption /\ NoWrap => (Spec => ImplementsAlarms)
<1> SUFFICES ASSUME SleepersAssumption, NoWrap PROVE Spec => ImplementsAlarms
  OBVIOUS
<1>1. Init => AlarmService!Init
  BY AlarmInit
<1>2. IInv /\ Times /\ [Next]_vars => [AlarmService!Next]_(AlarmService!alarmVars)
  BY AlarmNext DEF AlarmStep, AlarmService!alarmVars
<1>3. Spec => []Times
  BY NobodyEarly, PTL
<1> QED
  BY <1>1, <1>2, <1>3, DelayInvariant, PTL DEF Spec, ImplementsAlarms, AlarmService!Spec

-----------------------------------------------------------------------------
(* The instantiator: names of Lifecycle have the prefix Life               *)

Done == {p \in Life!UProc : proc[p] \in Life!Signalled}
Raised == {p \in Life!UProc : proc[p] \in {"store", "sys2", "dead"}}

\* What the master semaphore says of where test is.
Waits ==
  /\ test = "waiting" => masterSema4 = -1
  /\ test \notin {"waiting", "dead"} => masterSema4 >= 0
  /\ test = "end" => waits = MaxUProcs
  /\ test = "dead" => \A p \in Life!UProc : proc[p] = "dead"
  /\ test # "dead" => masterSema4 = Cardinality(Done) - waits

Launches ==
  /\ test # "dead" => \A p \in Life!UProc : p >= next => proc[p] = "none"
  /\ test \in {"lower", "lowered", "index", "take", "panic"} => next <= MaxUProcs
  /\ test \in {"wait", "waiting", "end", "dead"} => next > MaxUProcs

\* How many structures are still to be taken, once the index is lowered for one.
ToCome ==
  IF test \in {"index", "take", "panic"} THEN MaxUProcs - next ELSE MaxUProcs + 1 - next

\* The index is never lower than if nobody had returned a structure, as what is
\* written was read when at least as many were to come.
Enough ==
  /\ freeSupIndex >= ToCome
  /\ test = "lowered" => reg[0] >= ToCome
  /\ \A p \in Life!UProc : proc[p] = "raise" => reg[p] >= ToCome

\* As long as processes are launched nothing is returned; each increment of the
\* index that is seen later belongs to a process that has made it.
Calm ==
  ~early =>
    /\ test # "panic"
    /\ \A p \in Life!UProc : p < next => struct[p] = MaxUProcs + 1 - p
    /\ next <= MaxUProcs =>
         /\ Done = {} /\ freeSupIndex = ToCome
         /\ test \in {"lowered", "take"} => reg[0] = ToCome
         /\ \A k \in 0..MaxUProcs-1 : pool[k] = k + 1
    /\ next > MaxUProcs =>
         /\ freeSupIndex <= Cardinality(Raised)
         /\ \A p \in Life!UProc :
              /\ proc[p] = "raise" => reg[p] <= Cardinality(Raised)
              /\ proc[p] = "store" => reg[p] < MaxUProcs

PoolInv == Life!TypeOK /\ Waits /\ Launches /\ Enough /\ Calm

LEMMA PoolConstants ==
  ASSUME Life!LifecycleAssumption
  PROVE  /\ MaxUProcs \in Nat \ {0} /\ PoolSize \in Nat /\ MaxSupports \in Nat
         /\ MaxUProcs <= PoolSize /\ Life!UProc = 1..MaxUProcs /\ 0 \notin Life!UProc
BY DEF Life!LifecycleAssumption, Life!UProc

\* The processes that are done are counted, and those that have raised the index.
LEMMA Counted ==
  ASSUME Life!LifecycleAssumption
  PROVE  /\ IsFiniteSet(Life!UProc) /\ Cardinality(Life!UProc) = MaxUProcs
         /\ IsFiniteSet(Done) /\ Cardinality(Done) \in 0..MaxUProcs
         /\ Cardinality(Done) = MaxUProcs => Done = Life!UProc
         /\ IsFiniteSet(Raised) /\ Cardinality(Raised) \in 0..MaxUProcs
<1>1. MaxUProcs \in Nat
  BY PoolConstants
<1>2. IsFiniteSet(Life!UProc) /\ Cardinality(Life!UProc) = MaxUProcs
  BY <1>1, FS_Interval DEF Life!UProc
<1>3. Done \subseteq Life!UProc /\ Raised \subseteq Life!UProc
  BY DEF Done, Raised
<1>4. /\ IsFiniteSet(Done) /\ Cardinality(Done) <= Cardinality(Life!UProc)
      /\ Cardinality(Done) = Cardinality(Life!UProc) => Done = Life!UProc
      /\ IsFiniteSet(Raised) /\ Cardinality(Raised) <= Cardinality(Life!UProc)
  BY <1>2, <1>3, FS_Subset
<1>5. Cardinality(Done) \in Nat /\ Cardinality(Raised) \in Nat
  BY <1>4, FS_CardinalityType
<1> QED
  BY <1>1, <1>2, <1>4, <1>5

\* How the number of those that have raised the index grows.
LEMMA RaisedMore ==
  ASSUME Life!LifecycleAssumption, Raised \subseteq Raised'
  PROVE  /\ Cardinality(Raised') \in 0..MaxUProcs
         /\ Cardinality(Raised) <= Cardinality(Raised')
         /\ Raised # Raised' => Cardinality(Raised) + 1 <= Cardinality(Raised')
<1>1. IsFiniteSet(Life!UProc) /\ Cardinality(Life!UProc) = MaxUProcs /\ MaxUProcs \in Nat
  BY Counted, PoolConstants
<1>2. Raised' \subseteq Life!UProc
  BY DEF Raised
<1>3. IsFiniteSet(Raised') /\ Cardinality(Raised') <= MaxUProcs
  BY <1>1, <1>2, FS_Subset
<1>4. /\ Cardinality(Raised) <= Cardinality(Raised')
      /\ Cardinality(Raised) = Cardinality(Raised') => Raised = Raised'
  BY <1>3, FS_Subset
<1>5. Cardinality(Raised') \in Nat /\ Cardinality(Raised) \in Nat
  BY <1>1, <1>3, Counted, FS_CardinalityType
<1> QED
  BY <1>1, <1>3, <1>4, <1>5

LEMMA InitPool == ASSUME Life!LifecycleAssumption, Life!Init PROVE PoolInv
<1>1. MaxUProcs \in Nat \ {0} /\ MaxSupports \in Nat /\ PoolSize \in Nat /\ MaxUProcs <= PoolSize
  BY PoolConstants
<1>2. Life!TypeOK
  <2>1. pool \in [0..PoolSize-1 -> Life!Struct \cup {0}]
    <3>1. \A k \in 0..PoolSize-1 :
            (IF k < MaxUProcs THEN k + 1 ELSE 0) \in Life!Struct \cup {0}
      BY <1>1 DEF Life!Struct
    <3> QED
      BY <3>1 DEF Life!Init, Life!initSuppPool
  <2>2. freeSupIndex \in Nat
    BY <1>1 DEF Life!Init, Life!initSuppPool
  <2>3. /\ next \in 1..MaxUProcs+1 /\ waits \in 0..MaxUProcs
        /\ masterSema4 \in -1..MaxUProcs
    BY <1>1 DEF Life!Init
  <2>4. struct \in [Life!UProc -> Life!Struct \cup {0}] /\ reg \in [Life!UProc \cup {0} -> Nat]
    BY DEF Life!Init
  <2> QED
    BY <2>1, <2>2, <2>3, <2>4 DEF Life!Init, Life!TypeOK
<1>3. Done = {} /\ \A p \in Life!UProc : proc[p] = "none"
  BY DEF Life!Init, Done, Life!Signalled
<1>4. Waits
  BY <1>3, FS_EmptySet DEF Life!Init, Waits
<1>5. Launches /\ Enough
  BY <1>1, <1>3 DEF Life!Init, Life!initSuppPool, Launches, Enough, ToCome
<1>6. Calm
  <2>1. \A k \in 0..MaxUProcs-1 : pool[k] = k + 1
    BY <1>1 DEF Life!Init, Life!initSuppPool
  <2>2. next = 1 /\ \A p \in Life!UProc : ~(p < next)
    BY <1>1 DEF Life!Init, Life!UProc
  <2> QED
    BY <1>1, <1>3, <2>1, <2>2 DEF Life!Init, Life!initSuppPool, Calm, ToCome
<1> QED
  BY <1>2, <1>4, <1>5, <1>6 DEF PoolInv

-----------------------------------------------------------------------------
(* The steps of test                                                       *)

\* A step that leaves the processes and the pool where they are.
LEMMA TestMoves ==
  ASSUME Life!LifecycleAssumption, PoolInv, Life!TypeOK', Waits', Launches',
         next' = next, proc' = proc, struct' = struct, reg' = reg, pool' = pool,
         freeSupIndex' = freeSupIndex, early' = early, ToCome' = ToCome,
         test' \notin {"lowered", "take", "panic"}
  PROVE  PoolInv'
<1>1. Done' = Done /\ Raised' = Raised
  BY DEF Done, Raised
<1>2. Enough'
  BY DEF PoolInv, Enough
<1>3. Calm'
  BY <1>1 DEF PoolInv, Calm
<1> QED
  BY <1>2, <1>3 DEF PoolInv

LEMMA AllocateStep ==
  ASSUME Life!LifecycleAssumption, PoolInv, Life!allocate PROVE PoolInv'
<1>0. MaxUProcs \in Nat \ {0} /\ next \in 1..MaxUProcs+1 /\ freeSupIndex \in Nat
  BY PoolConstants DEF PoolInv, Life!TypeOK
<1>1. /\ test \in {"allocate", "lower", "lowered", "index"} /\ next <= MaxUProcs
      /\ UNCHANGED <<next, waits, daemon, proc, pool, masterSema4, early, struct>>
  BY <1>0 DEF Life!allocate, Life!launching, PoolInv, Launches
<1>2. Done' = Done /\ Raised' = Raised
  BY <1>1 DEF Done, Raised
<1>3. \A p \in Life!UProc : reg'[p] = reg[p]
  BY PoolConstants DEF Life!allocate, PoolInv, Life!TypeOK
<1>4. CASE test = "allocate"
  <2>1. freeSupIndex # 0 /\ test' = "lower" /\ UNCHANGED <<struct, reg, freeSupIndex>>
    BY <1>0, <1>1, <1>4 DEF Life!allocate, PoolInv, Enough, ToCome
  <2>2. Life!TypeOK' /\ Waits' /\ Launches' /\ ToCome' = ToCome
    BY <1>1, <1>2, <1>4, <2>1 DEF PoolInv, Life!TypeOK, Waits, Launches, ToCome
  <2> QED
    BY <1>1, <2>1, <2>2, TestMoves
<1>5. CASE test # "allocate"
  <2>1. \/ /\ test = "lower" /\ test' = "lowered" /\ freeSupIndex' = freeSupIndex
           /\ reg' = [reg EXCEPT ![0] = freeSupIndex]
        \/ /\ test = "lowered" /\ test' = "index" /\ freeSupIndex' = reg[0] - 1
           /\ reg' = reg
        \/ /\ test = "index" /\ test' = "take" /\ freeSupIndex' = freeSupIndex
           /\ reg' = [reg EXCEPT ![0] = freeSupIndex]
    BY <1>5 DEF Life!allocate
  <2>2. reg \in [Life!UProc \cup {0} -> Nat] /\ reg[0] \in Nat
    BY DEF PoolInv, Life!TypeOK
  <2>3. /\ test \in {"lower", "index"} => reg'[0] = freeSupIndex
        /\ reg' \in [Life!UProc \cup {0} -> Nat]
    BY <1>0, <2>1, <2>2
  <2>4. PICK b \in Nat \ {0} : b = MaxUProcs + 1 - next
    BY <1>0, <1>1
  <2>5. /\ test \in {"lower", "lowered"} => ToCome = b
        /\ test = "index" => ToCome = b - 1
        /\ test' = "lowered" => ToCome' = b
        /\ test' \in {"index", "take"} => ToCome' = b - 1
    BY <1>0, <1>1, <2>4 DEF ToCome
  <2>6. /\ freeSupIndex >= ToCome /\ (test = "lowered" => reg[0] >= ToCome)
        /\ \A p \in Life!UProc : proc[p] = "raise" => reg[p] >= ToCome
    BY DEF PoolInv, Enough
  <2>7. freeSupIndex' \in Nat /\ freeSupIndex' >= ToCome'
    BY <1>0, <2>1, <2>2, <2>4, <2>5, <2>6
  <2>8. Life!TypeOK'
    BY <1>1, <2>1, <2>3, <2>7 DEF PoolInv, Life!TypeOK
  <2>9. Waits' /\ Launches'
    BY <1>1, <1>2, <2>1 DEF PoolInv, Waits, Launches
  <2>10. Enough'
    <3>1. ASSUME NEW p \in Life!UProc, proc[p] = "raise" PROVE reg[p] >= ToCome'
      <4>1. reg[p] \in Nat /\ reg[p] >= ToCome
        BY <2>2, <2>6, <3>1
      <4> QED
        BY <2>1, <2>4, <2>5, <4>1
    <3>2. test' = "lowered" => reg'[0] >= ToCome'
      BY <2>1, <2>3, <2>5, <2>6
    <3> QED
      BY <1>1, <1>3, <2>7, <3>1, <3>2 DEF Enough
  <2>11. Calm'
    <3> SUFFICES ASSUME ~early PROVE Calm'
      BY <1>1 DEF Calm
    <3>1. /\ Done = {} /\ freeSupIndex = ToCome /\ (test = "lowered" => reg[0] = ToCome)
          /\ \A k \in 0..MaxUProcs-1 : pool[k] = k + 1
          /\ \A p \in Life!UProc : p < next => struct[p] = MaxUProcs + 1 - p
      BY <1>1 DEF PoolInv, Calm
    <3>2. freeSupIndex' = ToCome' /\ (test' \in {"lowered", "take"} => reg'[0] = ToCome')
      BY <1>0, <2>1, <2>2, <2>3, <2>4, <2>5, <3>1
    <3>3. ~(next' > MaxUProcs) /\ test' # "panic"
      BY <1>0, <1>1, <2>1
    <3> QED
      BY <1>1, <1>2, <3>1, <3>2, <3>3 DEF Calm
  <2> QED
    BY <2>8, <2>9, <2>10, <2>11 DEF PoolInv
<1> QED
  BY <1>4, <1>5

LEMMA SummonStep ==
  ASSUME Life!LifecycleAssumption, PoolInv, Life!summon_process PROVE PoolInv'
<1>0. /\ MaxUProcs \in Nat \ {0} /\ PoolSize \in Nat /\ MaxUProcs <= PoolSize
      /\ Life!UProc = 1..MaxUProcs /\ next \in 1..MaxUProcs+1 /\ freeSupIndex \in Nat
      /\ reg \in [Life!UProc \cup {0} -> Nat]
  BY PoolConstants DEF PoolInv, Life!TypeOK
<1>1. PICK s \in Life!Taken(reg[0]) :
        \/ /\ s = 0 /\ test' = "panic" /\ UNCHANGED <<struct, proc, next>>
        \/ /\ s # 0 /\ test' = "allocate"
           /\ struct' = [struct EXCEPT ![next] = s]
           /\ proc' = [proc EXCEPT ![next] = "user"] /\ next' = next + 1
  BY DEF Life!summon_process
<1>2. /\ test = "take" /\ next <= MaxUProcs
      /\ UNCHANGED <<waits, daemon, reg, pool, freeSupIndex, masterSema4, early>>
  BY DEF Life!summon_process, PoolInv, Launches
<1>3. next \in Life!UProc /\ proc[next] = "none" /\ s \in Life!Struct \cup {0}
  <2>1. pool \in [0..PoolSize-1 -> Life!Struct \cup {0}]
    BY DEF PoolInv, Life!TypeOK
  <2> QED
    BY <1>0, <1>2, <2>1 DEF PoolInv, Launches, Life!Taken
<1>4. ToCome' = ToCome /\ ToCome = MaxUProcs - next
  BY <1>0, <1>1, <1>2 DEF ToCome
\* While nobody has returned a structure the entry is there.
<1>5. ~early => s = MaxUProcs + 1 - next /\ s # 0
  <2> SUFFICES ASSUME ~early PROVE s = MaxUProcs + 1 - next /\ s # 0
    OBVIOUS
  <2>1. reg[0] = ToCome /\ \A k \in 0..MaxUProcs-1 : pool[k] = k + 1
    BY <1>2 DEF PoolInv, Calm
  <2>2. reg[0] \in 0..MaxUProcs-1 /\ reg[0] \in 0..PoolSize-1
    BY <1>0, <1>2, <1>4, <2>1
  <2>3. s = pool[reg[0]]
    BY <2>2 DEF Life!Taken, PoolInv, Life!TypeOK
  <2> QED
    BY <1>0, <1>2, <1>4, <2>1, <2>2, <2>3
<1>6. Life!TypeOK'
  <2>1. test' \in {"allocate", "panic"} /\ next' \in 1..MaxUProcs+1
    BY <1>0, <1>1, <1>2
  <2>2. struct' \in [Life!UProc -> Life!Struct \cup {0}]
    BY <1>1, <1>3 DEF PoolInv, Life!TypeOK
  <2>3. proc' \in [Life!UProc -> {"none", "user", "signal", "check", "load", "raise", "store",
                                  "sys2", "dead"}]
    BY <1>1, <1>3 DEF PoolInv, Life!TypeOK
  <2>4. /\ waits' \in 0..MaxUProcs /\ daemon' \in BOOLEAN
        /\ reg' \in [Life!UProc \cup {0} -> Nat]
        /\ pool' \in [0..PoolSize-1 -> Life!Struct \cup {0}]
        /\ freeSupIndex' \in Nat /\ early' \in BOOLEAN
        /\ masterSema4' \in -1..MaxUProcs
    BY <1>2 DEF PoolInv, Life!TypeOK
  <2> QED
    BY <2>1, <2>2, <2>3, <2>4 DEF Life!TypeOK
<1>7. Done' = Done /\ \A p \in Life!UProc : proc'[p] = "raise" => proc[p] = "raise"
  <2>1. \A p \in Life!UProc : proc'[p] = proc[p] \/ (p = next /\ proc'[p] = "user")
    BY <1>1, <1>3 DEF PoolInv, Life!TypeOK
  <2> QED
    BY <1>3, <2>1 DEF Done, Life!Signalled
<1>8. Waits'
  BY <1>1, <1>2, <1>7 DEF PoolInv, Waits
<1>9. Launches'
  <2>1. \A p \in Life!UProc : p >= next' => proc'[p] = "none"
    BY <1>0, <1>1, <1>2 DEF PoolInv, Launches, Life!TypeOK
  <2> QED
    BY <1>0, <1>1, <1>2, <2>1 DEF Launches
<1>10. Enough'
  BY <1>1, <1>2, <1>4, <1>7 DEF PoolInv, Enough
<1>11. Calm'
  <2> SUFFICES ASSUME ~early PROVE Calm'
    BY <1>2 DEF Calm
  <2>1. /\ test' = "allocate" /\ next' = next + 1
        /\ struct' = [struct EXCEPT ![next] = s]
    BY <1>1, <1>5
  <2>2. /\ Done = {} /\ freeSupIndex = ToCome
        /\ \A k \in 0..MaxUProcs-1 : pool[k] = k + 1
        /\ \A p \in Life!UProc : p < next => struct[p] = MaxUProcs + 1 - p
    BY <1>2 DEF PoolInv, Calm
  <2>3. \A p \in Life!UProc : p < next' => struct'[p] = MaxUProcs + 1 - p
    <3> SUFFICES ASSUME NEW p \in Life!UProc, p < next'
                 PROVE  struct'[p] = MaxUProcs + 1 - p
      OBVIOUS
    <3>1. p = next \/ p < next
      BY <1>0, <2>1
    <3>2. struct'[p] = IF p = next THEN s ELSE struct[p]
      BY <2>1 DEF PoolInv, Life!TypeOK
    <3> QED
      BY <1>0, <1>5, <2>2, <3>1, <3>2
  <2>4. next' > MaxUProcs => freeSupIndex' <= Cardinality(Raised')
    <3>1. next' > MaxUProcs => freeSupIndex' = 0
      BY <1>0, <1>2, <1>4, <2>1, <2>2
    <3>2. Raised' = {}
      BY <1>7, <2>2 DEF Raised, Done, Life!Signalled
    <3> QED
      BY <3>1, <3>2, FS_EmptySet
  <2>5. \A p \in Life!UProc : proc'[p] \notin {"raise", "store"}
    BY <1>7, <2>2 DEF Done, Life!Signalled
  <2> QED
    BY <1>2, <1>4, <1>7, <2>1, <2>2, <2>3, <2>4, <2>5 DEF Calm
<1> QED
  BY <1>6, <1>8, <1>9, <1>10, <1>11 DEF PoolInv

LEMMA TestStep == ASSUME Life!LifecycleAssumption, PoolInv, Life!Instantiator PROVE PoolInv'
<1>0. MaxUProcs \in Nat \ {0} /\ next \in 1..MaxUProcs+1
  BY PoolConstants DEF PoolInv, Life!TypeOK
<1>1. CASE Life!initADL \/ Life!AllLaunched
  <2>1. /\ UNCHANGED <<next, waits, proc, struct, reg, pool, freeSupIndex, masterSema4, early>>
        /\ daemon' \in BOOLEAN
        /\ \/ test = "initADL" /\ test' = "allocate"
           \/ test = "allocate" /\ test' = "wait" /\ next > MaxUProcs
    BY <1>1 DEF Life!initADL, Life!AllLaunched, Life!supports, PoolInv, Life!TypeOK
  <2>2. Done' = Done
    BY <2>1 DEF Done
  <2>3. Life!TypeOK' /\ Waits' /\ Launches' /\ ToCome' = ToCome
    BY <1>0, <2>1, <2>2 DEF PoolInv, Life!TypeOK, Waits, Launches, ToCome
  <2> QED
    BY <2>1, <2>3, TestMoves
<1>2. CASE Life!allocate
  BY <1>2, AllocateStep
<1>3. CASE Life!summon_process
  BY <1>3, SummonStep
<1>4. CASE Life!Wait
  <2>1. /\ UNCHANGED <<next, daemon, proc, struct, reg, pool, freeSupIndex, early>>
        /\ test = "wait" /\ test' \in {"wait", "waiting", "end"}
    BY <1>4 DEF Life!Wait, Life!supports
  <2>2. Done' = Done /\ Cardinality(Done) \in 0..MaxUProcs
    BY <2>1, Counted DEF Done
  <2>3. Life!TypeOK'
    BY <1>0, <1>4, <2>1, <2>2 DEF Life!Wait, PoolInv, Life!TypeOK, Waits
  <2>4. Waits'
    BY <1>0, <1>4, <2>1, <2>2 DEF Life!Wait, PoolInv, Life!TypeOK, Waits
  <2>5. Launches' /\ ToCome' = ToCome
    BY <2>1 DEF PoolInv, Launches, ToCome
  <2> QED
    BY <2>1, <2>3, <2>4, <2>5, TestMoves
<1>5. CASE Life!SYS2
  <2>1. /\ test = "end" /\ test' = "dead" /\ daemon' = FALSE
        /\ proc' = [p \in Life!UProc |-> "dead"]
        /\ UNCHANGED <<next, waits, struct, reg, pool, freeSupIndex, masterSema4, early>>
    BY <1>5 DEF Life!SYS2, Life!supports
  <2>2. Life!TypeOK' /\ Waits' /\ Launches' /\ ToCome' = ToCome /\ next > MaxUProcs
    BY <2>1 DEF PoolInv, Life!TypeOK, Waits, Launches, ToCome
  <2>3. Enough'
    BY <2>1, <2>2 DEF PoolInv, Enough
  <2>4. Calm'
    <3>1. Raised \subseteq Raised'
      BY <2>1 DEF Raised
    <3>2. PICK n \in Nat, m \in Nat : n = Cardinality(Raised) /\ m = Cardinality(Raised') /\ n <= m
      BY <3>1, RaisedMore, Counted
    <3>3. ~early => freeSupIndex <= n
      BY <2>2, <3>2 DEF PoolInv, Calm
    <3>4. ~early => freeSupIndex' <= Cardinality(Raised')
      BY <2>1, <3>2, <3>3 DEF PoolInv, Life!TypeOK
    <3>5. ~(next' <= MaxUProcs)
      BY <1>0, <2>1, <2>2
    <3> QED
      BY <2>1, <3>4, <3>5 DEF PoolInv, Calm
  <2> QED
    BY <2>2, <2>3, <2>4 DEF PoolInv
<1> QED
  BY <1>1, <1>2, <1>3, <1>4, <1>5 DEF Life!Instantiator

-----------------------------------------------------------------------------
(* The steps of the processes                                              *)

\* Only one process changes its place, and only while test lives.
LEMMA ProcessMoves ==
  ASSUME Life!LifecycleAssumption, PoolInv, NEW p \in Life!UProc,
         Life!Exit(p) \/ Life!get_nuked(p)
  PROVE  /\ test # "dead" /\ p < next /\ next' = next
         /\ waits' = waits /\ daemon' = daemon /\ struct' = struct
         /\ \A q \in Life!UProc \ {p} : proc'[q] = proc[q]
         /\ \A q \in Life!UProc : q >= next => proc'[q] = "none"
<1>1. proc[p] \notin {"none", "dead"}
  BY DEF Life!Exit, Life!get_nuked, Life!Signal, Life!deallocate, Life!Ended
<1>2. test # "dead" /\ ~(p >= next)
  BY <1>1 DEF PoolInv, Waits, Launches
<1>3. p \in Nat /\ next \in Nat
  BY PoolConstants DEF PoolInv, Life!TypeOK
<1>4. next' = next /\ waits' = waits /\ daemon' = daemon /\ struct' = struct
  BY DEF Life!Exit, Life!get_nuked, Life!Signal, Life!deallocate, Life!Ended, Life!supports,
         Life!ending
<1>5. \A q \in Life!UProc \ {p} : proc'[q] = proc[q]
  BY DEF Life!Exit, Life!get_nuked, Life!Signal, Life!deallocate, Life!Ended, PoolInv,
         Life!TypeOK
<1> QED
  BY <1>2, <1>3, <1>4, <1>5 DEF PoolInv, Launches

\* A process that goes on, and what is left to show of its step.
LEMMA ProcessGoes ==
  ASSUME Life!LifecycleAssumption, PoolInv, NEW p \in Life!UProc,
         Life!Exit(p) \/ Life!get_nuked(p),
         Life!TypeOK', Waits', ToCome' = ToCome,
         test' = test \/ (test = "waiting" /\ test' = "wait"),
         reg'[0] = reg[0], \A q \in Life!UProc \ {p} : reg'[q] = reg[q],
         freeSupIndex' >= ToCome, proc'[p] = "raise" => reg'[p] >= ToCome,
         early' = early \/ next <= MaxUProcs, early => early',
         ~early' /\ next <= MaxUProcs =>
           Done' = Done /\ freeSupIndex' = freeSupIndex /\ pool' = pool,
         Raised \subseteq Raised',
         ~early' /\ next > MaxUProcs =>
           /\ freeSupIndex' <= Cardinality(Raised')
           /\ proc'[p] = "raise" => reg'[p] <= Cardinality(Raised')
           /\ proc'[p] = "store" => reg'[p] < MaxUProcs
  PROVE  PoolInv'
<1>1. /\ next' = next /\ struct' = struct
      /\ \A q \in Life!UProc \ {p} : proc'[q] = proc[q]
      /\ \A q \in Life!UProc : q >= next => proc'[q] = "none"
  BY ProcessMoves
<1>2. Launches'
  BY <1>1 DEF PoolInv, Launches
<1>3. Enough'
  <2>1. test' = "lowered" => reg'[0] >= ToCome'
    BY DEF PoolInv, Enough
  <2>2. \A q \in Life!UProc : proc'[q] = "raise" => reg'[q] >= ToCome'
    BY <1>1 DEF PoolInv, Enough
  <2> QED
    BY <2>1, <2>2 DEF Enough
<1>4. Calm'
  <2> SUFFICES ASSUME ~early', ~early PROVE Calm'
    BY DEF Calm
  <2>1. /\ test # "panic"
        /\ \A q \in Life!UProc : q < next => struct[q] = MaxUProcs + 1 - q
    BY DEF PoolInv, Calm
  <2>2. CASE next <= MaxUProcs
    <3>1. ~(next > MaxUProcs)
      BY <2>2, PoolConstants DEF PoolInv, Life!TypeOK
    <3>2. /\ Done = {} /\ freeSupIndex = ToCome
          /\ test \in {"lowered", "take"} => reg[0] = ToCome
          /\ \A k \in 0..MaxUProcs-1 : pool[k] = k + 1
      BY <2>2 DEF PoolInv, Calm
    <3> QED
      BY <1>1, <2>1, <2>2, <3>1, <3>2 DEF Calm
  <2>3. CASE ~(next <= MaxUProcs)
    <3>1. next > MaxUProcs
      BY <2>3, PoolConstants DEF PoolInv, Life!TypeOK
    <3>2. PICK n \in Nat, m \in Nat : n = Cardinality(Raised) /\ m = Cardinality(Raised') /\ n <= m
      BY RaisedMore, Counted
    <3>3. ASSUME NEW q \in Life!UProc, q # p
          PROVE  /\ proc'[q] = "raise" => reg'[q] <= m
                 /\ proc'[q] = "store" => reg'[q] < MaxUProcs
      <4>1. reg'[q] = reg[q] /\ proc'[q] = proc[q] /\ reg[q] \in Nat
        BY <1>1, <3>3 DEF PoolInv, Life!TypeOK
      <4>2. (proc[q] = "raise" => reg[q] <= n) /\ (proc[q] = "store" => reg[q] < MaxUProcs)
        BY <3>1, <3>2 DEF PoolInv, Calm
      <4> QED
        BY <3>2, <4>1, <4>2
    <3>4. test' # "panic"
      BY <2>1
    <3> QED
      BY <1>1, <2>1, <2>3, <3>1, <3>2, <3>3, <3>4 DEF Calm
  <2> QED
    BY <2>2, <2>3
<1> QED
  BY <1>2, <1>3, <1>4 DEF PoolInv

LEMMA SignalStep ==
  ASSUME Life!LifecycleAssumption, PoolInv, NEW p \in Life!UProc, Life!Signal(p)
  PROVE  PoolInv'
<1>0. MaxUProcs \in Nat \ {0} /\ next \in 1..MaxUProcs+1
  BY PoolConstants DEF PoolInv, Life!TypeOK
<1>1. /\ test # "dead" /\ waits' = waits /\ daemon' = daemon /\ next' = next
      /\ struct' = struct /\ \A q \in Life!UProc \ {p} : proc'[q] = proc[q]
  BY ProcessMoves DEF Life!get_nuked
<1>2. /\ masterSema4' = masterSema4 + 1
      /\ test' = IF masterSema4 < 0 THEN "wait" ELSE test
      /\ UNCHANGED <<reg, pool, freeSupIndex>>
      /\ proc[p] = "signal" /\ proc' = [proc EXCEPT ![p] = "check"]
      /\ early' = (early \/ next <= MaxUProcs)
  BY DEF Life!Signal, Life!supports
<1>3. proc'[p] = "check"
  BY <1>2 DEF PoolInv, Life!TypeOK
<1>4. Done' = Done \cup {p} /\ p \notin Done /\ Raised' = Raised
  BY <1>1, <1>2, <1>3 DEF Done, Raised, Life!Signalled
<1>5. Cardinality(Done') = Cardinality(Done) + 1
  BY <1>4, Counted, FS_AddElement
<1>6. Cardinality(Done) \in Nat /\ Cardinality(Done') <= MaxUProcs
  <2>1. Done' \subseteq Life!UProc
    BY DEF Done
  <2> QED
    BY <2>1, Counted, FS_Subset
<1>7. /\ masterSema4 = Cardinality(Done) - waits /\ waits \in Nat
      /\ masterSema4 \in Int /\ masterSema4 >= -1
  BY <1>0, <1>1 DEF PoolInv, Waits, Life!TypeOK
<1>8. Life!TypeOK'
  <2>1. masterSema4' \in -1..MaxUProcs
    BY <1>0, <1>2, <1>5, <1>6, <1>7
  <2>2. proc' \in [Life!UProc -> {"none", "user", "signal", "check", "load", "raise", "store",
                                  "sys2", "dead"}]
    BY <1>2 DEF PoolInv, Life!TypeOK
  <2>3. /\ test' = test \/ test' = "wait"
        /\ early' \in BOOLEAN
    BY <1>2 DEF PoolInv, Life!TypeOK
  <2>4. /\ next' \in 1..MaxUProcs+1 /\ waits' \in 0..MaxUProcs /\ daemon' \in BOOLEAN
        /\ struct' \in [Life!UProc -> Life!Struct \cup {0}]
        /\ reg' \in [Life!UProc \cup {0} -> Nat]
        /\ pool' \in [0..PoolSize-1 -> Life!Struct \cup {0}] /\ freeSupIndex' \in Nat
    BY <1>1, <1>2 DEF PoolInv, Life!TypeOK
  <2>5. test' \in {"initADL", "allocate", "lower", "lowered", "index", "take",
                   "wait", "waiting", "end", "dead", "panic"}
    BY <2>3 DEF PoolInv, Life!TypeOK
  <2> QED
    BY <2>1, <2>2, <2>3, <2>4, <2>5 DEF Life!TypeOK
<1>9. masterSema4 < 0 => test = "waiting"
  <2>1. test # "waiting" => masterSema4 >= 0
    BY <1>1 DEF PoolInv, Waits
  <2> QED
    BY <1>7, <2>1
<1>10. Waits'
  <2>1. masterSema4' = Cardinality(Done') - waits'
    BY <1>1, <1>2, <1>5, <1>6, <1>7
  <2>2. test' # "waiting" /\ test' # "dead" /\ masterSema4' >= 0
    BY <1>1, <1>2, <1>7 DEF PoolInv, Waits
  <2>3. test' = "end" => waits' = MaxUProcs
    BY <1>1, <1>2 DEF PoolInv, Waits
  <2> QED
    BY <2>1, <2>2, <2>3 DEF Waits
<1>11. ToCome' = ToCome
  BY <1>1, <1>2, <1>9 DEF ToCome
<1>12. /\ ~early' => ~early /\ ~(next <= MaxUProcs)
       /\ ~early /\ next > MaxUProcs => freeSupIndex <= Cardinality(Raised)
       /\ freeSupIndex >= ToCome
  BY <1>2 DEF PoolInv, Calm, Enough
<1>13. freeSupIndex' >= ToCome /\ reg'[0] = reg[0] /\ Raised \subseteq Raised'
  BY <1>2, <1>4, <1>12
<1>14. ~early' /\ next > MaxUProcs => freeSupIndex' <= Cardinality(Raised')
  BY <1>2, <1>4, <1>12
<1>15. test' = test \/ (test = "waiting" /\ test' = "wait")
  BY <1>2, <1>9
<1>16. /\ early' = early \/ next <= MaxUProcs
       /\ early => early'
       /\ ~(~early' /\ next <= MaxUProcs)
  BY <1>2 DEF PoolInv, Life!TypeOK
<1>17. proc'[p] # "raise" /\ proc'[p] # "store"
  BY <1>3
<1>18. Life!get_nuked(p) /\ \A q \in Life!UProc \ {p} : reg'[q] = reg[q]
  BY <1>2 DEF Life!get_nuked
<1> QED
  BY <1>8, <1>10, <1>11, <1>13, <1>14, <1>15, <1>16, <1>17, <1>18, ProcessGoes

\* The other steps of a process leave test where it is.
LEMMA OwnStep ==
  ASSUME Life!LifecycleAssumption, PoolInv, NEW p \in Life!UProc,
         Life!Exit(p) \/ Life!deallocate(p) \/ Life!Ended(p)
  PROVE  PoolInv'
<1>0. /\ MaxUProcs \in Nat \ {0} /\ next \in 1..MaxUProcs+1 /\ freeSupIndex \in Nat
      /\ reg \in [Life!UProc \cup {0} -> Nat] /\ 0 \notin Life!UProc
  BY PoolConstants DEF PoolInv, Life!TypeOK
<1>1. /\ test # "dead" /\ waits' = waits /\ daemon' = daemon /\ next' = next
      /\ struct' = struct /\ \A q \in Life!UProc \ {p} : proc'[q] = proc[q]
  BY ProcessMoves DEF Life!get_nuked
<1>2. UNCHANGED <<test, masterSema4, early>>
  BY DEF Life!Exit, Life!deallocate, Life!Ended, Life!ending
<1>3. PICK l, m :
        /\ proc[p] = l /\ proc' = [proc EXCEPT ![p] = m]
        /\ \/ l = "user" /\ m = "signal" /\ UNCHANGED <<reg, pool, freeSupIndex>>
           \/ l = "check" /\ m \in {"load", "sys2"} /\ UNCHANGED <<reg, pool, freeSupIndex>>
           \/ /\ l = "load" /\ m = "raise" /\ UNCHANGED <<pool, freeSupIndex>>
              /\ reg' = [reg EXCEPT ![p] = freeSupIndex]
           \/ l = "raise" /\ m = "store" /\ UNCHANGED <<reg, pool>> /\ freeSupIndex' = reg[p] + 1
           \/ /\ l = "store" /\ m = "sys2" /\ UNCHANGED <<reg, freeSupIndex>>
              /\ pool' = [k \in DOMAIN pool |-> IF k = reg[p] THEN struct[p] ELSE pool[k]]
           \/ l = "sys2" /\ m = "dead" /\ UNCHANGED <<reg, pool, freeSupIndex>>
  BY DEF Life!Exit, Life!deallocate, Life!Ended, Life!supports
<1>4. proc'[p] = m
  BY <1>3 DEF PoolInv, Life!TypeOK
<1>5. Done' = Done
  BY <1>1, <1>3, <1>4 DEF Done, Life!Signalled
<1>6. Raised \subseteq Raised' /\ (l = "raise" => Raised # Raised')
  BY <1>1, <1>3, <1>4 DEF Raised
<1>7. Life!TypeOK'
  <2>1. pool \in [0..PoolSize-1 -> Life!Struct \cup {0}] /\ struct[p] \in Life!Struct \cup {0}
    BY DEF PoolInv, Life!TypeOK
  <2>2. pool' \in [0..PoolSize-1 -> Life!Struct \cup {0}]
    BY <1>3, <2>1
  <2>3. reg' \in [Life!UProc \cup {0} -> Nat] /\ freeSupIndex' \in Nat
    BY <1>0, <1>3
  <2>4. proc' \in [Life!UProc -> {"none", "user", "signal", "check", "load", "raise", "store",
                                  "sys2", "dead"}]
    BY <1>3 DEF PoolInv, Life!TypeOK
  <2> QED
    BY <1>1, <1>2, <2>2, <2>3, <2>4 DEF PoolInv, Life!TypeOK
<1>8. Waits'
  BY <1>1, <1>2, <1>5 DEF PoolInv, Waits
<1>9. ToCome' = ToCome /\ ToCome \in Int
  BY <1>0, <1>1, <1>2 DEF ToCome
<1>10. /\ reg'[0] = reg[0] /\ \A q \in Life!UProc \ {p} : reg'[q] = reg[q]
       /\ l = "load" => reg'[p] = freeSupIndex
       /\ l # "load" => reg'[p] = reg[p]
  BY <1>0, <1>3
<1>11. freeSupIndex >= ToCome /\ (l = "raise" => reg[p] >= ToCome)
  BY <1>3 DEF PoolInv, Enough
<1>12. freeSupIndex' >= ToCome /\ (m = "raise" => reg'[p] >= ToCome)
  BY <1>0, <1>3, <1>9, <1>10, <1>11
\* While test launches nobody is past its signal.
<1>13. ~early /\ next <= MaxUProcs => l = "user"
  <2>1. ~early /\ next <= MaxUProcs => p \notin Done
    BY DEF PoolInv, Calm
  <2> QED
    BY <1>3, <2>1 DEF Done, Life!Signalled
<1>14. ~early' /\ next <= MaxUProcs =>
         Done' = Done /\ freeSupIndex' = freeSupIndex /\ pool' = pool
  BY <1>2, <1>3, <1>5, <1>13
<1>15. PICK n \in Nat, k \in 0..MaxUProcs :
         /\ n = Cardinality(Raised) /\ k = Cardinality(Raised') /\ n <= k
         /\ l = "raise" => n + 1 <= k
  BY <1>0, <1>6, RaisedMore, Counted
<1>16. ~early' /\ next > MaxUProcs =>
         /\ freeSupIndex' <= k
         /\ m = "raise" => reg'[p] <= k
         /\ m = "store" => reg'[p] < MaxUProcs
  <2> SUFFICES ASSUME ~early, next > MaxUProcs
               PROVE  /\ freeSupIndex' <= k
                      /\ m = "raise" => reg'[p] <= k
                      /\ m = "store" => reg'[p] < MaxUProcs
    BY <1>2
  <2>1. freeSupIndex <= n /\ (l = "raise" => reg[p] <= n)
    BY <1>3, <1>15 DEF PoolInv, Calm
  <2>2. reg[p] \in Nat
    BY <1>0
  <2> QED
    BY <1>0, <1>3, <1>10, <1>15, <2>1, <2>2
<1>17. Life!Exit(p) \/ Life!get_nuked(p)
  BY DEF Life!get_nuked
<1> QED
  BY <1>2, <1>4, <1>6, <1>7, <1>8, <1>9, <1>10, <1>12, <1>14, <1>15, <1>16, <1>17, ProcessGoes

LEMMA PoolStep ==
  ASSUME Life!LifecycleAssumption, PoolInv, [Life!Next]_(Life!vars) PROVE PoolInv'
<1>1. ASSUME UNCHANGED Life!vars PROVE PoolInv'
  BY <1>1 DEF Life!vars, PoolInv, Life!TypeOK, Waits, Launches, Enough, Calm, ToCome, Done, Raised
<1>2. ASSUME NEW p \in Life!UProc, Life!Exit(p) \/ Life!get_nuked(p) PROVE PoolInv'
  BY <1>2, SignalStep, OwnStep DEF Life!get_nuked
<1> QED
  BY <1>1, <1>2, TestStep DEF Life!Next

LEMMA TestWaits ==
  ASSUME Life!LifecycleAssumption, PoolInv
  PROVE Life!TestIsLast /\ Life!SignalsCounted
<1>1. Life!SignalsCounted
  BY DEF PoolInv, Waits, Life!SignalsCounted, Done, Life!Cardinality, Cardinality
<1>2. CASE test = "end"
  <2>1. /\ masterSema4 = Cardinality(Done) - waits /\ waits = MaxUProcs
        /\ masterSema4 >= 0 /\ MaxUProcs \in Nat
    BY <1>2, PoolConstants DEF PoolInv, Waits
  <2>2. Cardinality(Done) \in 0..MaxUProcs /\ (Cardinality(Done) = MaxUProcs => Done = Life!UProc)
    BY Counted
  <2>3. Cardinality(Done) = MaxUProcs
    BY <2>1, <2>2
  <2>4. Done = Life!UProc
    BY <2>2, <2>3
  <2> QED
    BY <1>1, <2>4 DEF Life!TestIsLast, Done
<1>3. CASE test # "end"
  BY <1>1, <1>3 DEF PoolInv, Waits, Life!TestIsLast, Life!Signalled
<1> QED
  BY <1>2, <1>3

LEMMA PoolServes ==
  ASSUME Life!LifecycleAssumption, PoolInv
  PROVE Life!NeverEmpty /\ Life!PoolKept
<1>0. /\ MaxUProcs \in Nat \ {0} /\ next \in 1..MaxUProcs+1 /\ freeSupIndex \in Nat
      /\ PoolSize \in Nat /\ MaxUProcs <= PoolSize /\ Life!UProc = 1..MaxUProcs
  BY PoolConstants DEF PoolInv, Life!TypeOK
<1>1. Life!NeverEmpty
  BY <1>0 DEF PoolInv, Enough, ToCome, Calm, Life!NeverEmpty
<1>2. ASSUME ~early PROVE Life!PoolNotOverflowed
  <2> SUFFICES ASSUME NEW p \in Life!UProc, proc[p] = "store" PROVE reg[p] < PoolSize
    BY DEF Life!PoolNotOverflowed
  <2>1. ~(next <= MaxUProcs)
    BY <1>2 DEF PoolInv, Calm, Done, Life!Signalled
  <2>2. reg[p] < MaxUProcs /\ reg[p] \in Nat
    BY <1>0, <1>2, <2>1 DEF PoolInv, Calm, Life!TypeOK
  <2> QED
    BY <1>0, <2>2
<1>3. ASSUME ~early PROVE Life!SupportUnique
  <2> SUFFICES ASSUME NEW p \in Life!UProc, NEW q \in Life!UProc, proc[p] = "user",
                      proc[q] = "user", struct[p] = struct[q]
               PROVE  p = q
    BY DEF Life!SupportUnique
  <2>1. p < next /\ q < next
    BY <1>0 DEF PoolInv, Waits, Launches
  <2>2. struct[p] = MaxUProcs + 1 - p /\ struct[q] = MaxUProcs + 1 - q
    BY <1>3, <2>1 DEF PoolInv, Calm
  <2>3. MaxUProcs + 1 - p = MaxUProcs + 1 - q
    BY <2>2
  <2>4. p \in Int /\ q \in Int /\ MaxUProcs \in Int
    BY <1>0
  <2> QED
    BY <2>3, <2>4
<1> QED
  BY <1>1, <1>2, <1>3 DEF Life!PoolKept

\* initProc.c: the inductive invariant of the start-up: what the master semaphore
\* counts, that the pool's index leaves enough for those who are not launched yet,
\* and what is in the pool if nobody returns a structure meanwhile.
THEOREM PoolInvariant == Life!LifecycleAssumption => (Life!Spec => []PoolInv)
<1> SUFFICES ASSUME Life!LifecycleAssumption
             PROVE  Life!Spec => []PoolInv
  OBVIOUS
<1>1. Life!Init => PoolInv
  BY InitPool
<1>2. PoolInv /\ [Life!Next]_(Life!vars) => PoolInv'
  BY PoolStep
<1> QED
  BY <1>1, <1>2, PTL DEF Life!Spec

\* initProc.c: test makes SYS2 only when every user process has signalled, which
\* is behind all its work, and the master semaphore counts the signals exactly.
THEOREM TestOutlivesAll ==
  Life!LifecycleAssumption => (Life!Spec => [](Life!TestIsLast /\ Life!SignalsCounted))
<1> SUFFICES ASSUME Life!LifecycleAssumption
             PROVE  Life!Spec => [](Life!TestIsLast /\ Life!SignalsCounted)
  OBVIOUS
<1>1. PoolInv => Life!TestIsLast /\ Life!SignalsCounted
  BY TestWaits
<1> QED
  BY <1>1, PoolInvariant, PTL

\* initProc.c: however the loads and stores of the index interleave, the check of
\* allocate never fails; and if no process ends while others are still launched,
\* each gets a structure of its own and deallocate stays inside the array, though
\* it loads the index again behind its check.
THEOREM PoolSuffices ==
  Life!LifecycleAssumption => (Life!Spec => [](Life!NeverEmpty /\ Life!PoolKept))
<1> SUFFICES ASSUME Life!LifecycleAssumption
             PROVE  Life!Spec => [](Life!NeverEmpty /\ Life!PoolKept)
  OBVIOUS
<1>1. PoolInv => Life!NeverEmpty /\ Life!PoolKept
  BY PoolServes
<1> QED
  BY <1>1, PoolInvariant, PTL

\* A behaviour of the parts is one of the instantiator, or leaves it alone.
LEMMA PartsInvariant ==
  Life!LifecycleAssumption => (ServicesSpec => [](part = "life" => PoolInv))
<1> DEFINE I == part = "life" => PoolInv
<1> SUFFICES ASSUME Life!LifecycleAssumption PROVE ServicesSpec => []I
  OBVIOUS
<1>1. ServicesInit => I
  BY InitPool DEF ServicesInit
<1>2. I /\ [ServicesNext]_parts => I'
  <2> SUFFICES ASSUME I, [ServicesNext]_parts, part' = "life" PROVE PoolInv'
    OBVIOUS
  <2>1. part = "life" /\ [Life!Next]_(Life!vars)
    BY DEF ServicesNext, parts, life, Life!vars
  <2> QED
    BY <2>1, PoolStep
<1> QED
  BY <1>1, <1>2, PTL DEF ServicesSpec

\* initProc.c: whatever the order of their ends, test outlives every user process
\* and counts their signals; the pool is never found empty, and serves everybody if
\* nobody ends before all are launched.
THEOREM TestLast == Life!LifecycleAssumption => (ServicesSpec => []TestIsLast)
<1> SUFFICES ASSUME Life!LifecycleAssumption PROVE ServicesSpec => []TestIsLast
  OBVIOUS
<1>1. (part = "life" => PoolInv) => TestIsLast
  BY TestWaits, PoolServes DEF TestIsLast, PoolInv
<1> QED
  BY <1>1, PartsInvariant, PTL

-----------------------------------------------------------------------------
(* The flash calls: what DeviceCallsProofs shows of any devices is so of   *)
(* the one of the run                                                      *)

Proved == INSTANCE DeviceCallsProofs
  WITH Proc <- {1, 2, 3}, Device <- {<<"flash", 2>>}, Request <- {"put", "get"},
       Block <- {0, 1}, MaxCyl <- 1, MaxHead <- 1, MaxSect <- 1, MaxBlock <- 1,
       Val <- {"v"}, NumFrames <- 1, Failures <- TRUE, Deaths <- TRUE,
       pc <- at, sem <- mutex

LEMMA SameInit == Flash!Init => Proved!Init
BY DEF Flash!Init, Proved!Init, Flash!Locks, Proved!Locks, Flash!Place, Proved!Place,
     Flash!Places, Proved!Places, Flash!NoCall, Proved!NoCall, Flash!Sema4, Proved!Sema4,
     Flash!Flash, Proved!Flash, Flash!SwapPool, Proved!SwapPool, Flash!IsDisk, Proved!IsDisk

LEMMA SameNext == [Flash!Next]_(Flash!vars) => [Proved!Next]_(Proved!vars)
BY DEF Flash!Next, Proved!Next, Flash!vars, Proved!vars, Flash!data, Proved!data,
     Flash!devices, Proved!devices, Flash!Call, Proved!Call, Flash!Calls, Proved!Calls,
     Flash!disk_put, Proved!disk_put, Flash!disk_get, Proved!disk_get, Flash!flashOperation,
     Proved!flashOperation, Flash!IsCall, Proved!IsCall, Flash!Lock, Proved!Lock, Flash!P,
     Proved!P, Flash!FirstStep, Proved!FirstStep, Flash!Validate, Proved!Validate,
     Flash!CopyIn, Proved!CopyIn, Flash!Seek, Proved!Seek, Flash!SeekDone, Proved!SeekDone,
     Flash!Transfer, Proved!Transfer, Flash!TransferDone, Proved!TransferDone,
     Flash!Answered, Proved!Answered, Flash!CopyOut, Proved!CopyOut, Flash!Unlock,
     Proved!Unlock, Flash!Fault, Proved!Fault, Flash!Full, Proved!Full, Flash!PickFrame,
     Proved!PickFrame, Flash!WriteOut, Proved!WriteOut, Flash!ReadIn, Proved!ReadIn,
     Flash!Install, Proved!Install, Flash!Trap, Proved!Trap, Flash!Moves, Proved!Moves,
     Flash!Moved, Proved!Moved, Flash!Exit, Proved!Exit, Flash!Release, Proved!Release,
     Flash!get_nuked, Proved!get_nuked, Flash!Pager, Proved!Pager, Flash!Invoke,
     Proved!Invoke, Flash!At, Proved!At, Flash!Goto, Proved!Goto, Flash!Resident,
     Proved!Resident, Flash!Blocked, Proved!Blocked, Flash!Locks, Proved!Locks, Flash!Place,
     Proved!Place, Flash!Places, Proved!Places, Flash!Capacity, Proved!Capacity,
     Flash!IsDisk, Proved!IsDisk, Flash!Position, Proved!Position, Flash!NoCall,
     Proved!NoCall, Flash!Flash, Proved!Flash, Flash!SwapPool, Proved!SwapPool, Flash!Sema4,
     Proved!Sema4, Flash!passeren, Proved!passeren, Flash!verhogen, Proved!verhogen,
     Flash!Aims, Proved!Aims, Flash!ToSet, Proved!ToSet

LEMMA SameSafe == Proved!DeviceSafe => Flash!DeviceSafe
BY DEF Flash!DeviceSafe, Proved!DeviceSafe, Flash!TypeOK, Proved!TypeOK,
     Flash!ExclusiveOnDeath, Proved!ExclusiveOnDeath, Flash!TransferAtSeek,
     Proved!TransferAtSeek, Flash!Alone, Proved!Alone, Flash!Guarded, Proved!Guarded,
     Flash!Lost, Proved!Lost, Flash!Left, Proved!Left, Flash!EndedProc, Proved!EndedProc,
     Flash!Ended, Proved!Ended, Flash!Own, Proved!Own, Flash!Keeps, Proved!Keeps,
     Flash!Uses, Proved!Uses, Flash!InCall, Proved!InCall,
     Flash!Faulting, Proved!Faulting, Flash!Locks, Proved!Locks, Flash!Place, Proved!Place,
     Flash!Places, Proved!Places, Flash!Capacity, Proved!Capacity, Flash!IsDisk,
     Proved!IsDisk, Flash!Position, Proved!Position, Flash!NoCall, Proved!NoCall,
     Flash!Flash, Proved!Flash, Flash!SwapPool, Proved!SwapPool, Flash!Blocked,
     Proved!Blocked, Flash!Aims, Proved!Aims, Flash!Semaphores, Proved!Semaphores,
     Flash!ToSet, Proved!ToSet

LEMMA FlashAssumed == ASSUME Flash!DeviceAssumption PROVE Proved!DeviceAssumption
<1>1. Flash!DeviceAssumption
  OBVIOUS
<1> QED
  BY <1>1 DEF Flash!DeviceAssumption, Proved!DeviceAssumption,
     Flash!IsFiniteSet, Proved!IsFiniteSet

\* A behaviour of the parts is one of the flash calls, or leaves them alone.
LEMMA FlashPart == ServicesSpec => (part = "flash" => Proved!Spec)
<1>1. ServicesInit => Proved!Init
  BY SameInit DEF ServicesInit
<1>2. part = "flash" /\ [ServicesNext]_parts => (part = "flash")' /\ [Proved!Next]_(Proved!vars)
  <2> SUFFICES ASSUME part = "flash", [ServicesNext]_parts
               PROVE  part' = "flash" /\ [Proved!Next]_(Proved!vars)
    OBVIOUS
  <2>1. part' = "flash" /\ [Flash!Next]_(Flash!vars)
    BY DEF ServicesNext, parts, flash, Flash!vars
  <2> QED
    BY <2>1, SameNext
<1> QED
  BY <1>1, <1>2, PTL DEF ServicesSpec, Proved!Spec

LEMMA OtherPart == ServicesSpec => (~(part = "flash") => []~(part = "flash"))
<1>1. ~(part = "flash") /\ [ServicesNext]_parts => ~(part = "flash")'
  BY DEF ServicesNext, parts
<1> QED
  BY <1>1, PTL DEF ServicesSpec

\* sysSupport.c: of the processes that end beside or in the middle of a call on a
\* flash device none lets a second one into it, but the process with its number that
\* ends elsewhere, and none lets a second one into the pager.
THEOREM DeathsExclude == ServicesAssumption => (ServicesSpec => []ExclusiveOnDeath)
<1> SUFFICES ASSUME ServicesAssumption PROVE ServicesSpec => []ExclusiveOnDeath
  OBVIOUS
<1>1. Proved!Spec => []Proved!DeviceSafe
  <2>1. Proved!DeviceAssumption
    BY FlashAssumed DEF ServicesAssumption
  <2> QED
    BY <2>1, Proved!DevicesSafe
<1>2. Proved!DeviceSafe => ExclusiveOnDeath
  BY SameSafe DEF ExclusiveOnDeath
<1>3. ~(part = "flash") => ExclusiveOnDeath
  BY DEF ExclusiveOnDeath
<1>4. ServicesSpec /\ part = "flash" => []ExclusiveOnDeath
  BY <1>1, <1>2, FlashPart, PTL
<1>5. ServicesSpec /\ ~(part = "flash") => []ExclusiveOnDeath
  BY <1>3, OtherPart, PTL
<1> QED
  BY <1>4, <1>5
=============================================================================
