---------------------------- MODULE NucleusProofs ----------------------------
(***************************************************************************)
(* The safety of the nucleus, for any number of PCBs, semaphores and       *)
(* devices.  Core is the inductive invariant on which everything rests:    *)
(* p_semAdd splits the processes that are not free into those that may run *)
(* and those in exactly one semaphore's queue.  The second half is about   *)
(* what the nucleus counts: the values of the semaphores against their     *)
(* queues, procCnt against the live processes, and softBlockCnt against    *)
(* the processes that wait for a device or the clock.  With the counts     *)
(* right, the nucleus implements ProcessService.                           *)
(***************************************************************************)
EXTENDS Nucleus, QueueLemmas

\* The ready processes and the running one.
Runnable == ToSet(readyQ) \cup ({currProc} \ {NULL})

Queues ==
  /\ IsInjective(readyQ) /\ currProc \notin ToSet(readyQ)
  /\ \A s \in Sem : IsInjective(blockedQ[s])

Places ==
  /\ \A p \in free : p \notin Runnable /\ semAdd[p] = NULL
  /\ \A p \in Runnable : semAdd[p] = NULL
  /\ \A p \in Proc : p \in free \/ p \in Runnable \/ semAdd[p] # NULL

Core ==
  /\ TypeOK
  /\ WorkConserving
  /\ Queues
  /\ SemAddAgrees
  /\ Places

\* Only PCBs are runnable.
LEMMA RunnableType == ASSUME TypeOK PROVE Runnable \subseteq Proc
<1>1. ToSet(readyQ) \subseteq Proc
  BY ElementOfSeq, LenProperties DEF TypeOK, ToSet
<1> QED
  BY <1>1 DEF TypeOK, Runnable

-----------------------------------------------------------------------------
(* The operators the actions share.                                        *)

\* The scheduler neither loses nor doubles a process of the queue it finds.
LEMMA SwitchFacts ==
  ASSUME NEW q \in Seq(Proc), NEW cnt, NEW soft, SwitchProcess(q, cnt, soft)
  PROVE  /\ readyQ' \in Seq(Proc)
         /\ currProc' \in Proc \cup {NULL}
         /\ cpu' \in {"run", "wait", "halt", "panic"}
         /\ WorkConserving'
         /\ Runnable' = ToSet(q)
         /\ IsInjective(q) => IsInjective(readyQ') /\ currProc' \notin ToSet(readyQ')
<1>0. NULL \notin Proc
  BY ConstantsAssumption
<1>1. CASE q # <<>>
  <2>1. currProc' = Head(q) /\ readyQ' = Tail(q) /\ cpu' = "run"
    BY <1>1 DEF SwitchProcess
  <2>2. Head(q) \in Proc /\ Tail(q) \in Seq(Proc)
        /\ ToSet(q) = {Head(q)} \cup ToSet(Tail(q))
        /\ (IsInjective(q) => IsInjective(Tail(q)) /\ Head(q) \notin ToSet(Tail(q)))
    BY <1>1, HeadTailQ
  <2> QED
    BY <1>0, <2>1, <2>2 DEF WorkConserving, Runnable
<1>2. CASE q = <<>>
  <2>1. currProc' = NULL /\ readyQ' = <<>> /\ cpu' = IdleState(cnt, soft)
    BY <1>2 DEF SwitchProcess
  <2>2. cpu' \in {"wait", "halt", "panic"}
    BY <2>1 DEF IdleState
  <2>3. <<>> \in Seq(Proc) /\ ToSet(<<>>) = {} /\ IsInjective(<<>>)
    BY EmptyQ
  <2> QED
    BY <1>2, <2>1, <2>2, <2>3 DEF WorkConserving, Runnable
<1> QED
  BY <1>1, <1>2

\* The end of an interrupt handler makes the processes of t runnable, besides
\* those that were.
LEMMA ResumeFacts ==
  ASSUME TypeOK, WorkConserving, Interruptible,
         NEW t \in Seq(Proc), NEW soft, Resume(readyQ \o t, soft)
  PROVE  /\ readyQ' \in Seq(Proc)
         /\ currProc' \in Proc \cup {NULL}
         /\ cpu' \in {"run", "wait", "halt", "panic"}
         /\ WorkConserving'
         /\ Runnable' = Runnable \cup ToSet(t)
         /\ IsInjective(readyQ) /\ currProc \notin ToSet(readyQ)
               /\ IsInjective(t) /\ Runnable \cap ToSet(t) = {}
              => IsInjective(readyQ') /\ currProc' \notin ToSet(readyQ')
<1>1. /\ readyQ \o t \in Seq(Proc)
      /\ ToSet(readyQ \o t) = ToSet(readyQ) \cup ToSet(t)
      /\ (IsInjective(readyQ) /\ IsInjective(t) /\ ToSet(readyQ) \cap ToSet(t) = {}
              => IsInjective(readyQ \o t))
  BY ConcatQ DEF TypeOK
<1>2. CASE currProc # NULL
  <2>1. readyQ' = readyQ \o t /\ currProc' = currProc /\ cpu' = cpu /\ cpu = "run"
    BY <1>2 DEF Resume, WorkConserving
  <2>2. Runnable' = Runnable \cup ToSet(t) /\ WorkConserving'
    BY <1>1, <1>2, <2>1 DEF Runnable, WorkConserving
  <2>3. ASSUME IsInjective(readyQ), IsInjective(t), currProc \notin ToSet(readyQ),
               Runnable \cap ToSet(t) = {}
        PROVE  IsInjective(readyQ') /\ currProc' \notin ToSet(readyQ')
    <3>1. ToSet(readyQ) \cap ToSet(t) = {} /\ currProc \notin ToSet(t)
      BY <1>2, <2>3 DEF Runnable
    <3>2. IsInjective(readyQ \o t) /\ currProc \notin ToSet(readyQ \o t)
      BY <1>1, <2>3, <3>1
    <3> QED
      BY <2>1, <3>2
  <2>4. /\ readyQ' \in Seq(Proc) /\ currProc' \in Proc \cup {NULL}
        /\ cpu' \in {"run", "wait", "halt", "panic"}
    BY <1>1, <2>1 DEF TypeOK
  <2> QED
    BY <2>2, <2>3, <2>4
<1>3. CASE currProc = NULL
  <2>1. SwitchProcess(readyQ \o t, procCnt, soft)
    BY <1>3 DEF Resume
  <2>2. Runnable = ToSet(readyQ)
    BY <1>3 DEF Runnable
  <2>3. ASSUME IsInjective(readyQ), IsInjective(t), Runnable \cap ToSet(t) = {}
        PROVE  IsInjective(readyQ \o t)
    BY <1>1, <2>2, <2>3
  <2>4. /\ readyQ' \in Seq(Proc) /\ currProc' \in Proc \cup {NULL}
        /\ cpu' \in {"run", "wait", "halt", "panic"}
        /\ WorkConserving'
        /\ Runnable' = ToSet(readyQ \o t)
        /\ (IsInjective(readyQ \o t)
              => IsInjective(readyQ') /\ currProc' \notin ToSet(readyQ'))
    BY <1>1, <2>1, SwitchFacts
  <2> QED
    BY <1>1, <2>2, <2>3, <2>4
<1> QED
  BY <1>2, <1>3

\* The process verhogen takes off a queue, and what stays behind.
LEMMA WokenFacts ==
  ASSUME TypeOK, NEW s \in Sem
  PROVE  /\ Woken(s) \in Seq(Proc) /\ IsInjective(Woken(s))
         /\ Len(Woken(s)) = Cardinality(ToSet(Woken(s)))
         /\ ToSet(Woken(s)) \subseteq ToSet(blockedQ[s])
         /\ \A p : p \in ToSet(Woken(s)) <=> Woken(s) = <<p>>
         /\ Woken(s) # <<>> =>
              /\ blockedQ[s] # <<>> /\ sem[s] < 0
              /\ Tail(blockedQ[s]) \in Seq(Proc)
              /\ Len(Tail(blockedQ[s])) = Len(blockedQ[s]) - 1
              /\ Len(Woken(s)) = 1
              /\ ToSet(blockedQ[s]) = ToSet(Woken(s)) \cup ToSet(Tail(blockedQ[s]))
              /\ IsInjective(blockedQ[s]) =>
                   /\ IsInjective(Tail(blockedQ[s]))
                   /\ ToSet(Woken(s)) \cap ToSet(Tail(blockedQ[s])) = {}
         /\ Woken(s) = <<>> => Len(Woken(s)) = 0 /\ (blockedQ[s] = <<>> \/ sem[s] >= 0)
<1>1. blockedQ[s] \in Seq(Proc) /\ sem[s] \in Int
  BY DEF TypeOK
<1>2. CASE sem[s] + 1 <= 0 /\ blockedQ[s] # <<>>
  <2> DEFINE h == Head(blockedQ[s])
  <2>1. Woken(s) = <<h>> /\ sem[s] < 0
    BY <1>1, <1>2 DEF Woken
  <2>2. /\ h \in Proc /\ h \in ToSet(blockedQ[s])
        /\ Tail(blockedQ[s]) \in Seq(Proc)
        /\ Len(Tail(blockedQ[s])) = Len(blockedQ[s]) - 1
        /\ ToSet(blockedQ[s]) = {h} \cup ToSet(Tail(blockedQ[s]))
        /\ (IsInjective(blockedQ[s]) => IsInjective(Tail(blockedQ[s]))
                                       /\ h \notin ToSet(Tail(blockedQ[s])))
    BY <1>1, <1>2, HeadTailQ
  <2> HIDE DEF h
  <2>3. <<h>> \in Seq(Proc) /\ Len(<<h>>) = 1 /\ <<h>> # <<>> /\ IsInjective(<<h>>)
        /\ ToSet(<<h>>) = {h} /\ \A p : <<h>> = <<p>> <=> h = p
    BY <2>2 DEF ToSet, IsInjective
  <2>4. Cardinality({h}) = 1
    BY FS_Singleton
  <2> QED
    BY <1>2, <2>1, <2>2, <2>3, <2>4
<1>3. CASE ~ (sem[s] + 1 <= 0 /\ blockedQ[s] # <<>>)
  <2>1. Woken(s) = <<>>
    BY <1>3 DEF Woken
  <2>2. <<>> \in Seq(Proc) /\ ToSet(<<>>) = {} /\ Len(<<>>) = 0 /\ IsInjective(<<>>)
        /\ Cardinality({}) = 0 /\ \A p : <<>> # <<p>>
    BY EmptyQ, FS_EmptySet
  <2>3. blockedQ[s] = <<>> \/ sem[s] >= 0
    BY <1>1, <1>3
  <2> QED
    BY <2>1, <2>2, <2>3
<1> QED
  BY <1>2, <1>3

\* insertBlocked always finds a descriptor: every descriptor in use has a
\* process at the head of its queue, and the caller is in none of them.
LEMMA DescriptorLeft ==
  ASSUME Core, Running, NEW s \in Sem
  PROVE  HasSemd(s)
<1> DEFINE A == {t \in Sem : blockedQ[t] # <<>>}
<1> DEFINE B == Proc \ {currProc}
<1> DEFINE f == [t \in A |-> Head(blockedQ[t])]
<1>1. currProc \in Proc /\ semAdd[currProc] = NULL /\ NULL \notin Sem
  BY ConstantsAssumption DEF Core, TypeOK, WorkConserving, Running, Places, Runnable
<1>2. ASSUME NEW t \in A
      PROVE  Head(blockedQ[t]) \in Proc /\ Head(blockedQ[t]) \in ToSet(blockedQ[t])
             /\ semAdd[Head(blockedQ[t])] = t
  <2>1. blockedQ[t] \in Seq(Proc) /\ blockedQ[t] # <<>> /\ t \in Sem
    BY DEF Core, TypeOK
  <2>2. Head(blockedQ[t]) \in Proc /\ Head(blockedQ[t]) \in ToSet(blockedQ[t])
    BY <2>1, HeadTailQ
  <2> QED
    BY <2>1, <2>2 DEF Core, SemAddAgrees
<1>3. \A t \in A : Head(blockedQ[t]) \in B
  BY <1>1, <1>2
<1>4. f \in Injection(A, B)
  <2>1. f \in [A -> B]
    BY <1>3
  <2>2. \A t, u \in A : f[t] = f[u] => t = u
    BY <1>2
  <2> QED
    BY <2>1, <2>2 DEF Injection, IsInjective
<1>5. IsFiniteSet(B) /\ Cardinality(B) = Cardinality(Proc) - 1
      /\ Cardinality(Proc) \in Nat
  BY <1>1, FS_RemoveElement, FS_CardinalityType, ConstantsAssumption
<1>6. IsFiniteSet(A) /\ Cardinality(A) <= Cardinality(B) /\ Cardinality(A) \in Nat
  <2> HIDE DEF f, A, B
  <2> QED
    BY <1>4, <1>5, FS_Injection, FS_CardinalityType
<1> HIDE DEF B
<1>7. Cardinality(A) < NumSemd
  BY <1>5, <1>6, ConstantsAssumption
<1> QED
  BY <1>7 DEF HasSemd

\* main() establishes Core.
LEMMA CoreInit == Init => Core
<1> SUFFICES ASSUME Init PROVE Core
  OBVIOUS
<1>0. NULL \notin Proc /\ NULL \notin Sem /\ UserSem \subseteq Sem
  BY ConstantsAssumption DEF Sem
<1>1. PICK p \in Proc : free = Proc \ {p} /\ currProc = p
  BY DEF Init
<1>2. <<>> \in Seq(Proc) /\ ToSet(<<>>) = {} /\ IsInjective(<<>>)
  BY EmptyQ
<1>3. sem \in [Sem -> Int]
  BY ConstantsAssumption DEF Init
<1>4. TypeOK
  BY <1>1, <1>2, <1>3 DEF Init, TypeOK
<1>5. WorkConserving /\ Queues
  BY <1>0, <1>1, <1>2 DEF Init, WorkConserving, Queues
<1>6. SemAddAgrees /\ Places
  BY <1>0, <1>1, <1>2 DEF Init, SemAddAgrees, Places, Runnable
<1> QED
  BY <1>4, <1>5, <1>6 DEF Core

-----------------------------------------------------------------------------
(* One lemma per action: it keeps Core.                                    *)

LEMMA CoreCreate == ASSUME Core, CreateProcess PROVE Core'
<1>0. NULL \notin Proc /\ currProc \in Proc
  BY ConstantsAssumption DEF Core, TypeOK, WorkConserving, CreateProcess, Running
<1>1. CASE free = {} /\ UNCHANGED <<poolVars, readyQ, semAdd>>
  BY <1>1 DEF CreateProcess, Core, TypeOK, WorkConserving, Queues, SemAddAgrees,
              Places, Runnable, poolVars
<1>2. ASSUME NEW p \in free,
             free' = free \ {p},
             semAdd' = [semAdd EXCEPT ![p] = NULL],
             parent' = [parent EXCEPT ![p] = currProc],
             readyQ' = Append(readyQ, p),
             procCnt' = procCnt + 1
      PROVE  Core'
  <2>1. p \in Proc /\ p \notin Runnable /\ semAdd[p] = NULL /\ readyQ \in Seq(Proc)
    BY DEF Core, TypeOK, Places
  <2>2. UNCHANGED <<currProc, softBlockCnt, sem, blockedQ, io, cpu>> /\ cpu = "run"
    BY DEF CreateProcess, Running
  <2>3. semAdd' = semAdd
    BY <1>2, <2>1 DEF Core, TypeOK
  <2>4. /\ readyQ' \in Seq(Proc) /\ ToSet(readyQ') = ToSet(readyQ) \cup {p}
        /\ (IsInjective(readyQ) /\ p \notin ToSet(readyQ) => IsInjective(readyQ'))
    BY <1>2, <2>1, AppendQ
  <2>5. Runnable' = Runnable \cup {p}
    BY <2>2, <2>4 DEF Runnable
  <2>6. TypeOK'
    BY <1>0, <1>2, <2>2, <2>3, <2>4 DEF Core, TypeOK
  <2>7. WorkConserving' /\ SemAddAgrees'
    BY <2>2, <2>3 DEF Core, WorkConserving, SemAddAgrees
  <2>8. Queues'
    BY <1>0, <2>1, <2>2, <2>4 DEF Core, Queues, Runnable
  <2>9. Places'
    BY <1>2, <2>1, <2>3, <2>5 DEF Core, Places
  <2> QED
    BY <2>6, <2>7, <2>8, <2>9 DEF Core
<1> QED
  BY <1>1, <1>2 DEF CreateProcess

\* P: the caller runs on, or it is in the queue of s and the scheduler has
\* taken over.  softBlockCnt, io and the pool play no part.
LEMMA CoreP ==
  ASSUME Core, Running, NEW s \in Sem, NEW soft, P(s, soft),
         UNCHANGED poolVars, softBlockCnt' \in Int,
         io' \in [IOSem -> {"idle", "busy", "done", "error"}]
  PROVE  Core'
<1>0. NULL \notin Proc /\ NULL \notin Sem /\ currProc \in Proc /\ currProc \notin free
      /\ semAdd[currProc] = NULL
  BY ConstantsAssumption
  DEF Core, TypeOK, WorkConserving, Running, Places, Runnable
<1>1. sem' \in [Sem -> Int] /\ sem[s] \in Int
  BY DEF P, Core, TypeOK
<1>2. CASE UNCHANGED <<readyQ, currProc, blockedQ, semAdd, cpu>>
  BY <1>1, <1>2 DEF Core, TypeOK, WorkConserving, Queues, SemAddAgrees,
              Places, Runnable, poolVars
<1>3. CASE BlockCurrProc(s) /\ SwitchProcess(readyQ, procCnt, soft)
  <2>1. /\ blockedQ' = [blockedQ EXCEPT ![s] = Append(@, currProc)]
        /\ semAdd' = [semAdd EXCEPT ![currProc] = s]
    BY <1>3, DescriptorLeft DEF BlockCurrProc
  <2>2. readyQ \in Seq(Proc) /\ IsInjective(readyQ) /\ currProc \notin ToSet(readyQ)
        /\ blockedQ[s] \in Seq(Proc) /\ IsInjective(blockedQ[s])
        /\ currProc \notin ToSet(blockedQ[s])
    BY <1>0 DEF Core, TypeOK, Queues, SemAddAgrees
  <2>3. /\ readyQ' \in Seq(Proc) /\ currProc' \in Proc \cup {NULL}
        /\ cpu' \in {"run", "wait", "halt", "panic"} /\ WorkConserving'
        /\ Runnable' = ToSet(readyQ)
        /\ IsInjective(readyQ') /\ currProc' \notin ToSet(readyQ')
    BY <1>3, <2>2, SwitchFacts
  <2>4. /\ blockedQ'[s] \in Seq(Proc) /\ IsInjective(blockedQ'[s])
        /\ ToSet(blockedQ'[s]) = ToSet(blockedQ[s]) \cup {currProc}
        /\ \A t \in Sem \ {s} : blockedQ'[t] = blockedQ[t]
        /\ blockedQ' \in [Sem -> Seq(Proc)]
    <3>1. Append(blockedQ[s], currProc) \in Seq(Proc)
          /\ IsInjective(Append(blockedQ[s], currProc))
          /\ ToSet(Append(blockedQ[s], currProc)) = ToSet(blockedQ[s]) \cup {currProc}
      BY <1>0, <2>2, AppendQ
    <3> QED
      BY <2>1, <3>1 DEF Core, TypeOK
  <2>5. semAdd' \in [Proc -> Sem \cup {NULL}] /\ semAdd'[currProc] = s
        /\ \A p \in Proc \ {currProc} : semAdd'[p] = semAdd[p]
    BY <1>0, <2>1 DEF Core, TypeOK
  <2>6. TypeOK'
    BY <1>1, <2>3, <2>4, <2>5 DEF Core, TypeOK, poolVars
  <2>7. Queues'
    BY <2>3, <2>4 DEF Core, Queues
  <2>8. SemAddAgrees'
    BY <1>0, <2>4, <2>5 DEF Core, SemAddAgrees
  <2>9. Places'
    <3>1. Runnable = Runnable' \cup {currProc}
      BY <1>0, <2>3 DEF Runnable
    <3>2. currProc \notin Runnable'
      BY <2>2, <2>3
    <3>3. Runnable \subseteq Proc /\ free \subseteq Proc /\ free' = free
      BY RunnableType DEF Core, TypeOK, poolVars
    <3>4. \A p \in free : p # currProc /\ p \notin Runnable' /\ semAdd'[p] = NULL
      BY <1>0, <2>5, <3>1, <3>3 DEF Core, Places
    <3>5. \A p \in Runnable' : semAdd'[p] = NULL
      BY <2>5, <3>1, <3>2, <3>3 DEF Core, Places
    <3>6. \A p \in Proc : p \in free \/ p \in Runnable' \/ semAdd'[p] # NULL
      BY <1>0, <2>5, <3>1 DEF Core, Places
    <3> QED
      BY <3>3, <3>4, <3>5, <3>6 DEF Places
  <2> QED
    BY <2>3, <2>6, <2>7, <2>8, <2>9 DEF Core
<1> QED
  BY <1>2, <1>3 DEF P

\* Waking a set W of blocked processes: they leave every queue, lose their
\* p_semAdd and become runnable.
LEMMA WakeKeepsPlaces ==
  ASSUME Core, NEW W \in SUBSET Proc,
         \A p \in W : semAdd[p] \in Sem,
         \A p \in Proc : semAdd'[p] = IF p \in W THEN NULL ELSE semAdd[p],
         \A s \in Sem : ToSet(blockedQ'[s]) = ToSet(blockedQ[s]) \ W,
         Runnable' = Runnable \cup W, free' = free
  PROVE  SemAddAgrees' /\ Places'
<1>0. NULL \notin Sem /\ Runnable \subseteq Proc /\ free \subseteq Proc
  BY ConstantsAssumption, RunnableType DEF Core, TypeOK
<1>1. SemAddAgrees'
  <2> SUFFICES ASSUME NEW p \in Proc, NEW s \in Sem
               PROVE  semAdd'[p] = s <=> p \in ToSet(blockedQ'[s])
    BY DEF SemAddAgrees
  <2>1. semAdd[p] = s <=> p \in ToSet(blockedQ[s])
    BY DEF Core, SemAddAgrees
  <2> QED
    BY <1>0, <2>1
<1>2. \A p \in free : p \notin Runnable' /\ semAdd'[p] = NULL
  BY <1>0 DEF Core, Places
<1>3. \A p \in Runnable' : semAdd'[p] = NULL
  BY <1>0 DEF Core, Places
<1>4. \A p \in Proc : p \in free \/ p \in Runnable' \/ semAdd'[p] # NULL
  BY DEF Core, Places
<1> QED
  BY <1>1, <1>2, <1>3, <1>4 DEF Places

\* Those whom V on the semaphores of S takes off their queues.
WokenBy(S) == UNION {ToSet(Woken(s)) : s \in S}

\* V, on one semaphore or on the two of a terminal.
LEMMA VFacts ==
  ASSUME Core, NEW S \in SUBSET Sem, V(S)
  PROVE  /\ sem' \in [Sem -> Int]
         /\ blockedQ' \in [Sem -> Seq(Proc)]
         /\ \A s \in Sem : IsInjective(blockedQ'[s])
         /\ semAdd' \in [Proc -> Sem \cup {NULL}]
         /\ WokenBy(S) \subseteq Proc
         /\ \A p \in WokenBy(S) : semAdd[p] \in S
         /\ \A p \in Proc : semAdd'[p] = IF p \in WokenBy(S) THEN NULL ELSE semAdd[p]
         /\ \A s \in Sem : ToSet(blockedQ'[s]) = ToSet(blockedQ[s]) \ WokenBy(S)
<1>0. TypeOK /\ SemAddAgrees /\ \A s \in Sem : IsInjective(blockedQ[s])
  BY DEF Core, Queues
<1>1. sem' \in [Sem -> Int]
  BY <1>0 DEF V, TypeOK
<1>2. ASSUME NEW p \in WokenBy(S)
      PROVE  p \in Proc /\ semAdd[p] \in S /\ p \in ToSet(Woken(semAdd[p]))
  <2>1. PICK s \in S : p \in ToSet(Woken(s))
    BY DEF WokenBy
  <2>2. p \in ToSet(blockedQ[s]) /\ blockedQ[s] \in Seq(Proc)
    BY <1>0, <2>1, WokenFacts DEF TypeOK
  <2>3. p \in Proc
    BY <2>2, ElementOfSeq, LenProperties DEF ToSet
  <2>4. semAdd[p] = s
    BY <1>0, <2>2, <2>3 DEF SemAddAgrees
  <2> QED
    BY <2>1, <2>3, <2>4
<1>3. ASSUME NEW s \in Sem
      PROVE  /\ blockedQ'[s] \in Seq(Proc) /\ IsInjective(blockedQ'[s])
             /\ ToSet(blockedQ'[s]) = ToSet(blockedQ[s]) \ WokenBy(S)
  <2>1. blockedQ[s] \in Seq(Proc) /\ IsInjective(blockedQ[s])
    BY <1>0 DEF TypeOK
  <2>2. \A p \in ToSet(blockedQ[s]) : semAdd[p] = s
    BY <1>0, <2>1, ElementOfSeq, LenProperties DEF SemAddAgrees, ToSet
  <2>3. CASE s \in S /\ Woken(s) # <<>>
    <3>1. blockedQ'[s] = Tail(blockedQ[s])
      BY <2>3 DEF V
    <3>2. /\ Tail(blockedQ[s]) \in Seq(Proc) /\ IsInjective(Tail(blockedQ[s]))
          /\ ToSet(blockedQ[s]) = ToSet(Woken(s)) \cup ToSet(Tail(blockedQ[s]))
          /\ ToSet(Woken(s)) \cap ToSet(Tail(blockedQ[s])) = {}
      BY <1>0, <2>1, <2>3, WokenFacts
    <3>3. ToSet(Woken(s)) \subseteq WokenBy(S)
      BY <2>3 DEF WokenBy
    <3>4. \A p \in ToSet(blockedQ[s]) : p \in WokenBy(S) => p \in ToSet(Woken(s))
      BY <1>2, <2>2
    <3> QED
      BY <3>1, <3>2, <3>3, <3>4
  <2>4. CASE ~ (s \in S /\ Woken(s) # <<>>)
    <3>1. blockedQ'[s] = blockedQ[s]
      BY <2>4 DEF V
    <3>2. \A p \in ToSet(blockedQ[s]) : p \notin WokenBy(S)
      <4>1. ToSet(<<>>) = {}
        BY EmptyQ
      <4> QED
        BY <1>2, <2>2, <2>4, <4>1
    <3> QED
      BY <2>1, <3>1, <3>2
  <2> QED
    BY <2>3, <2>4
<1>4. blockedQ' \in [Sem -> Seq(Proc)]
  <2>1. DOMAIN blockedQ' = Sem /\ blockedQ' = [s \in Sem |-> blockedQ'[s]]
    BY DEF V
  <2> QED
    BY <1>3, <2>1
<1>5. ASSUME NEW p \in Proc
      PROVE  semAdd'[p] = IF p \in WokenBy(S) THEN NULL ELSE semAdd[p]
  <2>1. (\E s \in S : Woken(s) = <<p>>) <=> p \in WokenBy(S)
    BY <1>0, WokenFacts DEF WokenBy
  <2> QED
    BY <2>1 DEF V
<1>6. semAdd' \in [Proc -> Sem \cup {NULL}]
  <2>1. semAdd' = [p \in Proc |-> semAdd'[p]]
    BY DEF V
  <2>2. \A p \in Proc : semAdd'[p] \in Sem \cup {NULL}
    BY <1>0, <1>5 DEF TypeOK
  <2> QED
    BY <2>1, <2>2
<1> QED
  BY <1>1, <1>2, <1>3, <1>4, <1>5, <1>6

LEMMA CoreVerhogen == ASSUME Core, NEW s \in UserSem, Verhogen(s) PROVE Core'
<1>0. s \in Sem /\ {s} \in SUBSET Sem /\ V({s}) /\ WokenBy({s}) = ToSet(Woken(s))
      /\ NULL \notin Sem
  BY ConstantsAssumption DEF Sem, Verhogen, WokenBy
<1>1. UNCHANGED <<free, procCnt, parent, currProc, softBlockCnt, io, cpu>>
      /\ readyQ' = readyQ \o Woken(s) /\ cpu = "run"
  BY DEF Verhogen, poolVars, Running
<1>2. Woken(s) \in Seq(Proc) /\ IsInjective(Woken(s)) /\ readyQ \in Seq(Proc)
      /\ IsInjective(readyQ) /\ currProc \notin ToSet(readyQ)
  BY <1>0, WokenFacts DEF Core, TypeOK, Queues
<1>3. ToSet(Woken(s)) \cap Runnable = {}
  BY <1>0, VFacts DEF Core, Places
<1>4. /\ readyQ' \in Seq(Proc) /\ ToSet(readyQ') = ToSet(readyQ) \cup ToSet(Woken(s))
      /\ (ToSet(readyQ) \cap ToSet(Woken(s)) = {} => IsInjective(readyQ'))
  BY <1>1, <1>2, ConcatQ
<1>5. Runnable' = Runnable \cup ToSet(Woken(s))
  BY <1>1, <1>4 DEF Runnable
<1>6. TypeOK'
  BY <1>0, <1>1, <1>4, VFacts DEF Core, TypeOK
<1>7. currProc # NULL /\ WorkConserving'
  BY <1>1 DEF Core, WorkConserving
<1>8. Queues'
  <2>1. IsInjective(readyQ')
    BY <1>3, <1>4 DEF Runnable
  <2>2. currProc \notin ToSet(readyQ')
    BY <1>2, <1>3, <1>4, <1>7 DEF Runnable
  <2> QED
    BY <1>0, <1>1, <2>1, <2>2, VFacts DEF Queues
<1>9. SemAddAgrees' /\ Places'
  <2>1. /\ ToSet(Woken(s)) \in SUBSET Proc
        /\ \A p \in ToSet(Woken(s)) : semAdd[p] \in Sem
        /\ \A p \in Proc : semAdd'[p] = IF p \in ToSet(Woken(s)) THEN NULL ELSE semAdd[p]
        /\ \A t \in Sem : ToSet(blockedQ'[t]) = ToSet(blockedQ[t]) \ ToSet(Woken(s))
    BY <1>0, VFacts
  <2>2. Runnable' = Runnable \cup ToSet(Woken(s)) /\ free' = free
    BY <1>1, <1>5
  <2> QED
    BY <2>1, <2>2, WakeKeepsPlaces
<1> QED
  BY <1>6, <1>7, <1>8, <1>9 DEF Core

\* The common part of a device's and a terminal's interrupt: woken lists, each
\* once, those taken off the queues of S.
LEMMA CoreComplete ==
  ASSUME Core, Interruptible, NEW S \in SUBSET IOSem, NEW woken \in Seq(Proc),
         ToSet(woken) = WokenBy(S), IsInjective(woken), Complete(S, woken)
  PROVE  Core'
<1>0. S \in SUBSET Sem /\ V(S)
  BY DEF Complete, Sem, SoftSem
<1>1. /\ UNCHANGED <<free, procCnt, parent>>
      /\ softBlockCnt' = softBlockCnt - Len(woken)
      /\ io' = [d \in IOSem |-> IF d \in S THEN "idle" ELSE io[d]]
      /\ Resume(readyQ \o woken, softBlockCnt - Len(woken))
  BY DEF Complete, poolVars
<1>2. WokenBy(S) \cap Runnable = {}
  <2>1. NULL \notin Sem
    BY ConstantsAssumption
  <2> QED
    BY <1>0, <2>1, VFacts DEF Core, Places
<1>3. /\ readyQ' \in Seq(Proc) /\ currProc' \in Proc \cup {NULL}
      /\ cpu' \in {"run", "wait", "halt", "panic"} /\ WorkConserving'
      /\ Runnable' = Runnable \cup WokenBy(S)
      /\ IsInjective(readyQ') /\ currProc' \notin ToSet(readyQ')
  BY <1>1, <1>2, ResumeFacts DEF Core, Queues
<1>4. softBlockCnt' \in Int /\ io' \in [IOSem -> {"idle", "busy", "done", "error"}]
  BY <1>1, LenProperties DEF Core, TypeOK
<1>5. TypeOK'
  BY <1>0, <1>1, <1>3, <1>4, VFacts DEF Core, TypeOK
<1>6. Queues'
  BY <1>0, <1>3, VFacts DEF Queues
<1>7. SemAddAgrees' /\ Places'
  BY <1>0, <1>1, <1>3, VFacts, WakeKeepsPlaces
<1> QED
  BY <1>3, <1>5, <1>6, <1>7 DEF Core

LEMMA CoreDevice == ASSUME Core, NEW d \in DevSem, DeviceInterrupt(d) PROVE Core'
<1>1. d \in IOSem /\ d \in Sem /\ {d} \in SUBSET IOSem
  BY ConstantsAssumption DEF DevSem, IOSem, Sem, SoftSem
<1>2. Woken(d) \in Seq(Proc) /\ IsInjective(Woken(d)) /\ WokenBy({d}) = ToSet(Woken(d))
  BY <1>1, WokenFacts DEF Core, WokenBy
<1> QED
  BY <1>1, <1>2, CoreComplete DEF DeviceInterrupt

\* A terminal's two semaphores differ, so no process is woken by both.
LEMMA TerminalFacts ==
  ASSUME Core, NEW t \in Term, NEW acked \in SUBSET {Tx(t), Rx(t)}
  PROVE  LET wokenBy(d) == IF d \in acked THEN Woken(d) ELSE <<>>
             woken == wokenBy(Tx(t)) \o wokenBy(Rx(t))
         IN  /\ acked \in SUBSET IOSem
             /\ woken \in Seq(Proc) /\ IsInjective(woken)
             /\ ToSet(woken) = WokenBy(acked)
<1> DEFINE wokenBy(d) == IF d \in acked THEN Woken(d) ELSE <<>>
<1>1. Tx(t) \in IOSem /\ Rx(t) \in IOSem /\ Tx(t) # Rx(t)
  BY ConstantsAssumption DEF Tx, Rx, Term, IOSem
<1>2. Tx(t) \in Sem /\ Rx(t) \in Sem
  BY <1>1 DEF Sem, SoftSem
<1>3. <<>> \in Seq(Proc) /\ IsInjective(<<>>) /\ ToSet(<<>>) = {}
  BY EmptyQ
<1>4. ASSUME NEW d \in {Tx(t), Rx(t)}
      PROVE  /\ wokenBy(d) \in Seq(Proc) /\ IsInjective(wokenBy(d))
             /\ ToSet(wokenBy(d)) = IF d \in acked THEN ToSet(Woken(d)) ELSE {}
             /\ \A p \in ToSet(wokenBy(d)) : semAdd[p] = d
  <2>1. Woken(d) \in Seq(Proc) /\ IsInjective(Woken(d))
        /\ ToSet(Woken(d)) \subseteq ToSet(blockedQ[d]) /\ blockedQ[d] \in Seq(Proc)
    BY <1>2, WokenFacts DEF Core, TypeOK
  <2>2. \A p \in ToSet(blockedQ[d]) : semAdd[p] = d
    BY <1>2, <2>1, ElementOfSeq, LenProperties DEF Core, SemAddAgrees, ToSet
  <2> QED
    BY <1>3, <2>1, <2>2
<1>5. ToSet(wokenBy(Tx(t))) \cap ToSet(wokenBy(Rx(t))) = {}
  BY <1>1, <1>4
<1>6. WokenBy(acked) = ToSet(wokenBy(Tx(t))) \cup ToSet(wokenBy(Rx(t)))
  BY <1>4 DEF WokenBy
<1> HIDE DEF wokenBy
<1>7. /\ wokenBy(Tx(t)) \o wokenBy(Rx(t)) \in Seq(Proc)
      /\ IsInjective(wokenBy(Tx(t)) \o wokenBy(Rx(t)))
      /\ ToSet(wokenBy(Tx(t)) \o wokenBy(Rx(t))) = WokenBy(acked)
  BY <1>4, <1>5, <1>6, ConcatQ
<1> QED
  BY <1>1, <1>7 DEF wokenBy

LEMMA CoreTerminal == ASSUME Core, NEW t \in Term, TerminalInterrupt(t) PROVE Core'
<1> DEFINE acked == {d \in {Tx(t), Rx(t)} : io[d] = "done"}
<1> DEFINE wokenBy(d) == IF d \in acked THEN Woken(d) ELSE <<>>
<1> DEFINE woken == wokenBy(Tx(t)) \o wokenBy(Rx(t))
<1>1. Interruptible /\ Complete(acked, woken)
  BY DEF TerminalInterrupt
<1>2. acked \in SUBSET {Tx(t), Rx(t)}
  OBVIOUS
<1> HIDE DEF acked
<1>3. acked \in SUBSET IOSem /\ woken \in Seq(Proc) /\ IsInjective(woken)
      /\ ToSet(woken) = WokenBy(acked)
  BY <1>2, TerminalFacts
<1> QED
  BY <1>1, <1>3, CoreComplete

\* Every process in a queue is a PCB, and its p_semAdd names that queue.
LEMMA QueuedFacts ==
  ASSUME Core, NEW s \in Sem
  PROVE  /\ blockedQ[s] \in Seq(Proc) /\ IsInjective(blockedQ[s])
         /\ ToSet(blockedQ[s]) \subseteq Proc
         /\ \A p \in ToSet(blockedQ[s]) : semAdd[p] = s
<1>1. blockedQ[s] \in Seq(Proc) /\ IsInjective(blockedQ[s])
  BY DEF Core, TypeOK, Queues
<1>2. ToSet(blockedQ[s]) \subseteq Proc
  BY <1>1, ElementOfSeq, LenProperties DEF ToSet
<1> QED
  BY <1>1, <1>2 DEF Core, SemAddAgrees

LEMMA CoreInterval == ASSUME Core, IntervalInterrupt PROVE Core'
<1> DEFINE W == ToSet(blockedQ[Clock])
<1>0. Clock \in Sem /\ NULL \notin Sem
  BY ConstantsAssumption DEF Sem, SoftSem
<1>1. /\ UNCHANGED <<free, procCnt, parent, io>>
      /\ sem' = [sem EXCEPT ![Clock] = 0]
      /\ blockedQ' = [blockedQ EXCEPT ![Clock] = <<>>]
      /\ semAdd' = [p \in Proc |-> IF p \in W THEN NULL ELSE semAdd[p]]
      /\ softBlockCnt' = softBlockCnt - Len(blockedQ[Clock])
      /\ Resume(readyQ \o blockedQ[Clock], softBlockCnt - Len(blockedQ[Clock]))
      /\ Interruptible
  BY DEF IntervalInterrupt, poolVars
<1>2. /\ blockedQ[Clock] \in Seq(Proc) /\ IsInjective(blockedQ[Clock])
      /\ W \subseteq Proc /\ \A p \in W : semAdd[p] = Clock
  BY <1>0, QueuedFacts
<1>3. W \cap Runnable = {}
  BY <1>0, <1>2 DEF Core, Places
<1>4. /\ readyQ' \in Seq(Proc) /\ currProc' \in Proc \cup {NULL}
      /\ cpu' \in {"run", "wait", "halt", "panic"} /\ WorkConserving'
      /\ Runnable' = Runnable \cup W
      /\ IsInjective(readyQ') /\ currProc' \notin ToSet(readyQ')
  BY <1>1, <1>2, <1>3, ResumeFacts DEF Core, Queues
<1>5. /\ blockedQ' \in [Sem -> Seq(Proc)]
      /\ \A s \in Sem : /\ IsInjective(blockedQ'[s])
                        /\ ToSet(blockedQ'[s]) = ToSet(blockedQ[s]) \ W
  <2>1. <<>> \in Seq(Proc) /\ IsInjective(<<>>) /\ ToSet(<<>>) = {}
    BY EmptyQ
  <2>2. blockedQ \in [Sem -> Seq(Proc)] /\ blockedQ' \in [Sem -> Seq(Proc)]
    BY <1>1, <2>1 DEF Core, TypeOK
  <2>3. ASSUME NEW s \in Sem, s # Clock
        PROVE  /\ blockedQ'[s] = blockedQ[s] /\ IsInjective(blockedQ[s])
               /\ ToSet(blockedQ[s]) \cap W = {}
    BY <1>1, <1>2, <2>2, <2>3, QueuedFacts
  <2>4. blockedQ'[Clock] = <<>>
    BY <1>0, <1>1, <2>2
  <2> QED
    BY <2>1, <2>2, <2>3, <2>4
<1>6. /\ softBlockCnt' \in Int /\ sem' \in [Sem -> Int]
      /\ semAdd' \in [Proc -> Sem \cup {NULL}]
  <2>1. softBlockCnt' \in Int
    BY <1>1, <1>2, LenProperties DEF Core, TypeOK
  <2>2. sem' \in [Sem -> Int]
    <3>1. sem \in [Sem -> Int] /\ sem' = [sem EXCEPT ![Clock] = 0]
      BY <1>1 DEF Core, TypeOK
    <3> QED
      BY <1>0, <3>1
  <2>3. semAdd' \in [Proc -> Sem \cup {NULL}]
    <3> HIDE DEF W
    <3> QED
      BY <1>1 DEF Core, TypeOK
  <2> QED
    BY <2>1, <2>2, <2>3
<1>7. TypeOK'
  BY <1>1, <1>4, <1>5, <1>6 DEF Core, TypeOK
<1>8. Queues'
  BY <1>4, <1>5 DEF Queues
<1>9. SemAddAgrees' /\ Places'
  BY <1>0, <1>1, <1>2, <1>4, <1>5, WakeKeepsPlaces
<1> QED
  BY <1>4, <1>7, <1>8, <1>9 DEF Core

LEMMA CorePlt == ASSUME Core, PltInterrupt PROVE Core'
<1>1. /\ SwitchProcess(Append(readyQ, currProc), procCnt, softBlockCnt)
      /\ UNCHANGED <<free, procCnt, parent, softBlockCnt, sem, blockedQ, semAdd, io>>
      /\ cpu = "run"
  BY DEF PltInterrupt, poolVars
<1>2. /\ readyQ \in Seq(Proc) /\ currProc \in Proc /\ currProc # NULL
      /\ IsInjective(readyQ) /\ currProc \notin ToSet(readyQ)
  BY <1>1 DEF Core, TypeOK, WorkConserving, Queues
<1>3. /\ Append(readyQ, currProc) \in Seq(Proc)
      /\ ToSet(Append(readyQ, currProc)) = ToSet(readyQ) \cup {currProc}
      /\ IsInjective(Append(readyQ, currProc))
  BY <1>2, AppendQ
<1>4. /\ readyQ' \in Seq(Proc) /\ currProc' \in Proc \cup {NULL}
      /\ cpu' \in {"run", "wait", "halt", "panic"} /\ WorkConserving'
      /\ Runnable' = Runnable
      /\ IsInjective(readyQ') /\ currProc' \notin ToSet(readyQ')
  <2>1. Runnable = ToSet(readyQ) \cup {currProc}
    BY <1>2 DEF Runnable
  <2> QED
    BY <1>1, <1>3, <2>1, SwitchFacts
<1>5. TypeOK'
  BY <1>1, <1>4 DEF Core, TypeOK
<1>6. Queues' /\ SemAddAgrees' /\ Places'
  BY <1>1, <1>4 DEF Core, Queues, SemAddAgrees, Places
<1> QED
  BY <1>4, <1>5, <1>6 DEF Core

\* recursive_terminate frees the processes of a subtree and nothing else.
LEMMA CoreDie ==
  ASSUME Core, Running, NEW soft \in Int, Die(soft)
  PROVE  Core'
<1> DEFINE dead == Subtree(currProc)
<1> DEFINE here(s) == {p \in dead : semAdd[p] = s}
<1> DEFINE cnt == procCnt - Cardinality(dead)
<1>0. /\ NULL \notin Proc /\ NULL \notin Sem
      /\ currProc \in Proc /\ semAdd[currProc] = NULL
  BY ConstantsAssumption
  DEF Core, TypeOK, WorkConserving, Running, Places, Runnable
<1>1. dead \subseteq Proc /\ currProc \in dead /\ Cardinality(dead) \in Int
  <2>1. dead \subseteq Proc /\ currProc \in dead
    BY <1>0 DEF Subtree
  <2> HIDE DEF dead
  <2> QED
    BY <2>1, FS_Subset, FS_CardinalityType, ConstantsAssumption
<1>2. /\ blockedQ' = [s \in Sem |-> Without(blockedQ[s], here(s))]
      /\ DOMAIN sem' = Sem
      /\ \A s \in Sem : sem'[s] =
           IF TakenForDevice(s) THEN sem[s]
           ELSE sem[s] + (Len(blockedQ[s]) - Len(Without(blockedQ[s], here(s))))
      /\ sem' = [s \in Sem |-> sem'[s]]
  BY DEF Die
<1>3. /\ semAdd' = [p \in Proc |-> IF /\ p \in dead /\ semAdd[p] # NULL
                                      /\ p \in ToSet(blockedQ[semAdd[p]])
                                   THEN NULL ELSE semAdd[p]]
      /\ parent' = [p \in Proc |-> IF p \in dead THEN NULL ELSE parent[p]]
      /\ free' = free \cup dead
      /\ procCnt' = cnt /\ softBlockCnt' = soft /\ io' = io
      /\ SwitchProcess(Without(readyQ, dead \ {currProc}), cnt, soft)
  BY DEF Die
<1> HIDE DEF dead
<1>4. ASSUME NEW s \in Sem
      PROVE  /\ blockedQ'[s] \in Seq(Proc) /\ IsInjective(blockedQ'[s])
             /\ ToSet(blockedQ'[s]) = ToSet(blockedQ[s]) \ dead
             /\ sem'[s] \in Int
  <2>1. /\ blockedQ[s] \in Seq(Proc) /\ IsInjective(blockedQ[s])
        /\ \A p \in ToSet(blockedQ[s]) : semAdd[p] = s
    BY QueuedFacts
  <2>2. ToSet(blockedQ[s]) \ here(s) = ToSet(blockedQ[s]) \ dead
    BY <2>1
  <2> HIDE DEF here
  <2>3. /\ Without(blockedQ[s], here(s)) \in Seq(Proc)
        /\ IsInjective(Without(blockedQ[s], here(s)))
        /\ ToSet(Without(blockedQ[s], here(s))) = ToSet(blockedQ[s]) \ here(s)
    BY <2>1, WithoutQ
  <2>4. Len(blockedQ[s]) \in Int /\ Len(Without(blockedQ[s], here(s))) \in Int
        /\ sem[s] \in Int
    BY <2>1, <2>3, LenProperties DEF Core, TypeOK
  <2>5. blockedQ'[s] = Without(blockedQ[s], here(s))
    BY <1>2
  <2>6. sem'[s] \in Int
    <3>1. sem'[s] = IF TakenForDevice(s) THEN sem[s]
                    ELSE sem[s] + (Len(blockedQ[s]) - Len(Without(blockedQ[s], here(s))))
      BY <1>2
    <3>2. CASE TakenForDevice(s)
      BY <2>4, <3>1, <3>2
    <3>3. CASE ~TakenForDevice(s)
      <4>1. sem'[s] = sem[s] + (Len(blockedQ[s]) - Len(Without(blockedQ[s], here(s))))
        BY <3>1, <3>3
      <4>2. \A x, y, z \in Int : x + (y - z) \in Int
        OBVIOUS
      <4> QED
        BY <2>4, <4>1, <4>2
    <3> QED
      BY <3>2, <3>3
  <2> QED
    BY <2>2, <2>3, <2>5, <2>6
<1>5. blockedQ' \in [Sem -> Seq(Proc)] /\ sem' \in [Sem -> Int]
  BY <1>2, <1>4
<1>6. ASSUME NEW p \in Proc
      PROVE  semAdd'[p] = IF p \in dead THEN NULL ELSE semAdd[p]
  <2>1. semAdd[p] # NULL => semAdd[p] \in Sem /\ p \in ToSet(blockedQ[semAdd[p]])
    BY DEF Core, TypeOK, SemAddAgrees
  <2> QED
    BY <1>3, <2>1
<1>7. semAdd' \in [Proc -> Sem \cup {NULL}] /\ parent' \in [Proc -> Proc \cup {NULL}]
  <2>1. \A p \in Proc : semAdd'[p] \in Sem \cup {NULL}
    BY <1>6 DEF Core, TypeOK
  <2> QED
    BY <1>3, <2>1 DEF Core, TypeOK
<1>8. /\ readyQ' \in Seq(Proc) /\ currProc' \in Proc \cup {NULL}
      /\ cpu' \in {"run", "wait", "halt", "panic"} /\ WorkConserving'
      /\ Runnable' = Runnable \ dead
      /\ IsInjective(readyQ') /\ currProc' \notin ToSet(readyQ')
  <2>1. /\ readyQ \in Seq(Proc) /\ IsInjective(readyQ)
        /\ currProc \notin ToSet(readyQ)
    BY DEF Core, TypeOK, Queues
  <2>2. /\ Without(readyQ, dead \ {currProc}) \in Seq(Proc)
        /\ IsInjective(Without(readyQ, dead \ {currProc}))
        /\ ToSet(Without(readyQ, dead \ {currProc}))
             = ToSet(readyQ) \ (dead \ {currProc})
    BY <2>1, WithoutQ
  <2>3. Runnable \ dead = ToSet(readyQ) \ (dead \ {currProc})
    BY <1>0, <1>1, <2>1 DEF Runnable
  <2> QED
    BY <1>3, <2>2, <2>3, SwitchFacts
<1>9. TypeOK'
  BY <1>1, <1>3, <1>5, <1>7, <1>8 DEF Core, TypeOK
<1>10. Queues'
  BY <1>4, <1>8 DEF Queues
<1>11. SemAddAgrees'
  <2> SUFFICES ASSUME NEW p \in Proc, NEW s \in Sem
               PROVE  semAdd'[p] = s <=> p \in ToSet(blockedQ'[s])
    BY DEF SemAddAgrees
  <2>1. semAdd[p] = s <=> p \in ToSet(blockedQ[s])
    BY DEF Core, SemAddAgrees
  <2> QED
    BY <1>0, <1>4, <1>6, <2>1
<1>12. Places'
  <2>1. free \subseteq Proc /\ Runnable \subseteq Proc
    BY RunnableType DEF Core, TypeOK
  <2>2. \A p \in free \cup dead : p \notin Runnable' /\ semAdd'[p] = NULL
    BY <1>1, <1>6, <1>8, <2>1 DEF Core, Places
  <2>3. \A p \in Runnable' : semAdd'[p] = NULL
    BY <1>6, <1>8, <2>1 DEF Core, Places
  <2>4. \A p \in Proc : p \in free \cup dead \/ p \in Runnable' \/ semAdd'[p] # NULL
    BY <1>6, <1>8 DEF Core, Places
  <2> QED
    BY <1>3, <2>2, <2>3, <2>4 DEF Places
<1> QED
  BY <1>8, <1>9, <1>10, <1>11, <1>12 DEF Core

\* The steps of devices and programs that touch only io, and no step at all.
LEMMA CoreElsewhere ==
  ASSUME Core,
         UNCHANGED <<free, readyQ, currProc, procCnt, softBlockCnt, sem,
                     blockedQ, semAdd, parent, cpu>>,
         io' \in [IOSem -> {"idle", "busy", "done", "error"}]
  PROVE  Core'
BY DEF Core, TypeOK, WorkConserving, Queues, SemAddAgrees, Places, Runnable

LEMMA CoreWaitForIO == ASSUME Core, NEW d \in IOSem, WaitForIO(d) PROVE Core'
<1>1. d \in Sem
  BY DEF Sem, SoftSem
<1>2. /\ Running /\ P(d, softBlockCnt + 1) /\ UNCHANGED poolVars
      /\ softBlockCnt' = softBlockCnt + 1
      /\ io' = IF MaskedIO THEN [io EXCEPT ![d] = "busy"] ELSE io
  BY DEF WaitForIO, SoftP
<1>3. softBlockCnt' \in Int /\ io' \in [IOSem -> {"idle", "busy", "done", "error"}]
  BY <1>2 DEF Core, TypeOK
<1> QED
  BY <1>1, <1>2, <1>3, CoreP

LEMMA CoreWaitForClock == ASSUME Core, WaitForClock PROVE Core'
<1>1. Clock \in Sem
  BY DEF Sem, SoftSem
<1>2. /\ Running /\ P(Clock, softBlockCnt + 1) /\ UNCHANGED <<poolVars, io>>
      /\ softBlockCnt' = softBlockCnt + 1
  BY DEF WaitForClock, SoftP
<1>3. softBlockCnt' \in Int /\ io' \in [IOSem -> {"idle", "busy", "done", "error"}]
  BY <1>2 DEF Core, TypeOK
<1> QED
  BY <1>1, <1>2, <1>3, CoreP

LEMMA CorePasseren == ASSUME Core, NEW s \in UserSem, Passeren(s) PROVE Core'
<1>1. s \in Sem
  BY DEF Sem
<1>2. /\ Running /\ P(s, softBlockCnt) /\ UNCHANGED poolVars
      /\ softBlockCnt' = softBlockCnt /\ io' = io
  BY DEF Passeren
<1>3. softBlockCnt' \in Int /\ io' \in [IOSem -> {"idle", "busy", "done", "error"}]
  BY <1>2 DEF Core, TypeOK
<1> QED
  BY <1>1, <1>2, <1>3, CoreP

LEMMA CoreStep == Core /\ [Next]_vars => Core'
<1> SUFFICES ASSUME Core, [Next]_vars PROVE Core'
  OBVIOUS
<1>0. softBlockCnt \in Int /\ softBlockCnt + 1 \in Int
      /\ io \in [IOSem -> {"idle", "busy", "done", "error"}]
  BY DEF Core, TypeOK
<1>1. CASE CreateProcess
  BY <1>1, CoreCreate
<1>2. CASE TerminateProcess
  BY <1>0, <1>2, CoreDie DEF TerminateProcess
<1>3. CASE WaitForBadLine
  BY <1>0, <1>3, CoreDie DEF WaitForBadLine
<1>4. ASSUME NEW s \in UserSem, Passeren(s) PROVE Core'
  BY <1>4, CorePasseren
<1>5. ASSUME NEW s \in UserSem, Verhogen(s) PROVE Core'
  BY <1>5, CoreVerhogen
<1>6. ASSUME NEW d \in IOSem, DevCommand(d) PROVE Core'
  <2>1. io' \in [IOSem -> {"idle", "busy", "done", "error"}]
    BY <1>0, <1>6 DEF DevCommand
  <2> QED
    BY <1>6, <2>1, CoreElsewhere DEF DevCommand, poolVars
<1>7. ASSUME NEW d \in IOSem, WaitForIO(d) PROVE Core'
  BY <1>7, CoreWaitForIO
<1>8. ASSUME NEW d \in IOSem, DeviceCompletes(d) PROVE Core'
  <2>1. io' \in [IOSem -> {"idle", "busy", "done", "error"}]
    BY <1>0, <1>8 DEF DeviceCompletes
  <2> QED
    BY <1>8, <2>1, CoreElsewhere DEF DeviceCompletes, poolVars
<1>9. CASE WaitForClock
  BY <1>9, CoreWaitForClock
<1>10. CASE PltInterrupt
  BY <1>10, CorePlt
<1>11. CASE IntervalInterrupt
  BY <1>11, CoreInterval
<1>12. ASSUME NEW d \in DevSem, DeviceInterrupt(d) PROVE Core'
  BY <1>12, CoreDevice
<1>13. ASSUME NEW t \in Term, TerminalInterrupt(t) PROVE Core'
  BY <1>13, CoreTerminal
<1>14. CASE Stopped \/ UNCHANGED vars
  BY <1>0, <1>14, CoreElsewhere DEF Stopped, vars
<1> QED
  BY <1>1, <1>2, <1>3, <1>4, <1>5, <1>6, <1>7, <1>8, <1>9, <1>10, <1>11,
     <1>12, <1>13, <1>14 DEF Next

\* The free list, the runnable processes and the queues of the ASL split the
\* PCBs.
LEMMA CorePartition == Core => PcbPartition
<1> SUFFICES ASSUME Core PROVE PcbPartition
  OBVIOUS
<1>0. NULL \notin Proc /\ NULL \notin Sem /\ free \subseteq Proc
      /\ Runnable \subseteq Proc /\ currProc \in Proc \cup {NULL}
  BY ConstantsAssumption, RunnableType DEF Core, TypeOK
<1>1. \A p : p \in Waiting(Sem) <=> p \in Proc /\ semAdd[p] # NULL
  <2>1. ASSUME NEW p \in Waiting(Sem) PROVE p \in Proc /\ semAdd[p] # NULL
    <3>1. PICK s \in Sem : p \in ToSet(blockedQ[s])
      BY DEF Waiting
    <3> QED
      BY <1>0, <3>1, QueuedFacts
  <2>2. ASSUME NEW p \in Proc, semAdd[p] # NULL PROVE p \in Waiting(Sem)
    <3>1. semAdd[p] \in Sem /\ p \in ToSet(blockedQ[semAdd[p]])
      BY <2>2 DEF Core, TypeOK, SemAddAgrees
    <3> QED
      BY <3>1 DEF Waiting
  <2> QED
    BY <2>1, <2>2
<1>2. \A s, t \in Sem :
        s # t => ToSet(blockedQ[s]) \cap ToSet(blockedQ[t]) = {}
  BY QueuedFacts
<1>3. ToSet(readyQ) \subseteq Runnable /\ (currProc # NULL => currProc \in Runnable)
      /\ NULL \notin Waiting(Sem) /\ NULL \notin free
  BY <1>0, <1>1 DEF Runnable
<1>4. /\ ToSet(readyQ) \cap Waiting(Sem) = {}
      /\ free \cap (ToSet(readyQ) \cup Waiting(Sem)) = {}
      /\ currProc \notin free \cup ToSet(readyQ) \cup Waiting(Sem)
  BY <1>1, <1>3 DEF Core, Places, Queues
<1>5. Live = Runnable \cup Waiting(Sem)
  BY <1>0, <1>1 DEF Core, Places, Live
<1> QED
  BY <1>2, <1>4, <1>5 DEF Core, Queues, PcbPartition, Runnable
-----------------------------------------------------------------------------
(* The theorems.                                                           *)

\* Core is an invariant, whatever the programs and devices do.
THEOREM CoreInvariant == Spec => []Core
<1>1. Core /\ [Next]_vars => Core'
  BY CoreStep
<1> QED
  BY CoreInit, <1>1, PTL DEF Spec

\* The variables keep their types; in particular currProc is a PCB or NULL
\* whichever handler the scheduler was called from.
THEOREM TypeCorrect == Spec => []TypeOK
<1>1. Core => TypeOK
  BY DEF Core
<1> QED
  BY CoreInvariant, <1>1, PTL

\* The processor idles only with an empty ready queue and currProc NULL.
THEOREM NeverIdleWithWork == Spec => []WorkConserving
<1>1. Core => WorkConserving
  BY DEF Core
<1> QED
  BY CoreInvariant, <1>1, PTL

\* p_semAdd of a PCB names the semaphore in whose queue it is, and only that.
THEOREM SemAddCorrect == Spec => []SemAddAgrees
<1>1. Core => SemAddAgrees
  BY DEF Core
<1> QED
  BY CoreInvariant, <1>1, PTL

\* No handler loses a PCB or links one into two queues.
THEOREM NoPcbLost == Spec => []PcbPartition
<1>1. Core => PcbPartition
  BY CorePartition
<1> QED
  BY CoreInvariant, <1>1, PTL

-----------------------------------------------------------------------------
(* Order in the queues.                                                    *)

\* A queue left alone.
LEMMA OrderSame == ASSUME NEW old, NEW dead PROVE OrderKept(old, old, dead)
BY DEF OrderKept

\* A queue emptied at once.
LEMMA OrderEmpty == ASSUME NEW old, NEW dead PROVE OrderKept(old, <<>>, dead)
BY EmptyQ DEF OrderKept

\* A queue lengthened at its tail.
LEMMA OrderExtended ==
  ASSUME NEW S, NEW old \in Seq(S), NEW new \in Seq(S), NEW dead,
         Len(old) <= Len(new), \A i \in 1..Len(old) : new[i] = old[i]
  PROVE  OrderKept(old, new, dead)
<1>1. /\ Len(old) \in Nat /\ Len(new) \in Nat
      /\ DOMAIN old = 1..Len(old) /\ DOMAIN new = 1..Len(new)
  BY LenProperties
<1>2. DOMAIN old \subseteq DOMAIN new
  BY <1>1
<1>3. ToSet(old) \subseteq ToSet(new)
  BY <1>1, <1>2 DEF ToSet
<1>4. ASSUME NEW p, NEW q, Before(old, p, q) PROVE Before(new, p, q)
  BY <1>1, <1>2, <1>4 DEF Before
<1>5. ASSUME NEW p \in ToSet(old), NEW q \in ToSet(new), q \notin ToSet(old)
      PROVE  Before(new, p, q)
  <2>1. PICK i \in 1..Len(old) : old[i] = p
    BY <1>1 DEF ToSet
  <2>2. PICK k \in 1..Len(new) : new[k] = q
    BY <1>1 DEF ToSet
  <2>3. k \notin 1..Len(old)
    BY <1>1, <1>5, <2>2 DEF ToSet
  <2>4. i < k /\ i \in DOMAIN new /\ k \in DOMAIN new
    BY <1>1, <2>1, <2>2, <2>3
  <2> QED
    BY <2>1, <2>2, <2>4 DEF Before
<1> QED
  BY <1>3, <1>4, <1>5 DEF OrderKept

\* A queue purged.
LEMMA OrderWithout ==
  ASSUME NEW S, NEW old \in Seq(S), NEW D, NEW dead, ToSet(old) \cap D \subseteq dead
  PROVE  OrderKept(old, Without(old, D), dead)
<1>1. ToSet(Without(old, D)) = ToSet(old) \ D
  BY WithoutQ
<1> QED
  BY <1>1, WithoutOrder DEF OrderKept

\* Whoever is then taken off the head was in front.
LEMMA OrderTail ==
  ASSUME NEW S, NEW old \in Seq(S), NEW new \in Seq(S), NEW dead,
         new # <<>>, IsInjective(new), IsInjective(old), OrderKept(old, new, dead)
  PROVE  OrderKept(old, Tail(new), dead)
<1>1. /\ ToSet(new) = {Head(new)} \cup ToSet(Tail(new))
      /\ Head(new) \notin ToSet(Tail(new))
  BY HeadTailQ
<1> SUFFICES ASSUME NEW p \in ToSet(old) \cap ToSet(Tail(new)), NEW q \in Proc
             PROVE  /\ q \in ToSet(Tail(new)) /\ (q \notin ToSet(old) \/ Before(old, p, q))
                         => Before(Tail(new), p, q)
                    /\ q \in ToSet(old) \ (ToSet(Tail(new)) \cup dead) => Before(old, q, p)
  BY DEF OrderKept
<1>2. p \in ToSet(old) \cap ToSet(new) /\ p # Head(new)
  BY <1>1
<1>3. ASSUME q \in ToSet(Tail(new)), q \notin ToSet(old) \/ Before(old, p, q)
      PROVE  Before(Tail(new), p, q)
  <2>1. Before(new, p, q)
    BY <1>1, <1>2, <1>3 DEF OrderKept
  <2> QED
    BY <1>2, <2>1, BeforeTail
<1>4. ASSUME q \in ToSet(old), q \notin ToSet(Tail(new)), q \notin dead
      PROVE  Before(old, q, p)
  <2>1. CASE q \notin ToSet(new)
    BY <1>2, <1>4, <2>1 DEF OrderKept
  <2>2. CASE q = Head(new)
    <3>1. Before(new, q, p)
      BY <2>2, BeforeTail
    <3>2. ~Before(new, p, q)
      BY <3>1, BeforeStrict
    <3>3. ~Before(old, p, q)
      BY <1>1, <1>2, <2>2, <3>2 DEF OrderKept
    <3> QED
      BY <1>2, <1>4, <2>2, <3>3, BeforeTotal
  <2> QED
    BY <1>1, <1>4, <2>1, <2>2
<1> QED
  BY <1>3, <1>4

\* insertProcQ.
LEMMA OrderAppend ==
  ASSUME NEW S, NEW old \in Seq(S), NEW p \in S, NEW dead
  PROVE  OrderKept(old, Append(old, p), dead)
<1>1. /\ Append(old, p) \in Seq(S) /\ Len(old) \in Nat
      /\ Len(Append(old, p)) = Len(old) + 1
      /\ \A i \in 1..Len(old) : Append(old, p)[i] = old[i]
  BY AppendProperties, LenProperties
<1>2. Len(old) <= Len(Append(old, p))
  BY <1>1
<1> QED
  BY <1>1, <1>2, OrderExtended

\* insertProcQ for each process of t.
LEMMA OrderConcat ==
  ASSUME NEW S, NEW old \in Seq(S), NEW t \in Seq(S), NEW dead
  PROVE  OrderKept(old, old \o t, dead)
<1>1. /\ old \o t \in Seq(S) /\ Len(old) \in Nat /\ Len(t) \in Nat
      /\ Len(old \o t) = Len(old) + Len(t)
      /\ \A i \in 1..(Len(old) + Len(t)) :
           (old \o t)[i] = IF i <= Len(old) THEN old[i] ELSE t[i - Len(old)]
  BY ConcatProperties, LenProperties
<1>2. Len(old) <= Len(old \o t)
  BY <1>1
<1>3. \A i \in 1..Len(old) : (old \o t)[i] = old[i]
  BY <1>1
<1> QED
  BY <1>1, <1>2, <1>3, OrderExtended

\* The scheduler keeps the order that the queue it finds has.
LEMMA OrderSwitch ==
  ASSUME NEW q \in Seq(Proc), NEW old \in Seq(Proc), NEW dead, NEW cnt, NEW soft,
         IsInjective(q), IsInjective(old), OrderKept(old, q, dead),
         SwitchProcess(q, cnt, soft)
  PROVE  OrderKept(old, readyQ', dead)
<1>1. CASE q # <<>> /\ readyQ' = Tail(q)
  BY <1>1, OrderTail
<1>2. CASE readyQ' = q
  BY <1>2
<1> QED
  BY <1>1, <1>2 DEF SwitchProcess

\* An interrupt handler queues those it woke behind the ready processes.
LEMMA OrderResume ==
  ASSUME Core, NEW t \in Seq(Proc), IsInjective(t), Runnable \cap ToSet(t) = {},
         NEW dead, NEW soft, Resume(readyQ \o t, soft)
  PROVE  OrderKept(readyQ, readyQ', dead)
<1>1. /\ readyQ \in Seq(Proc) /\ IsInjective(readyQ)
      /\ ToSet(readyQ) \cap ToSet(t) = {}
  BY DEF Core, TypeOK, Queues, Runnable
<1>2. /\ readyQ \o t \in Seq(Proc) /\ IsInjective(readyQ \o t)
      /\ OrderKept(readyQ, readyQ \o t, dead)
  BY <1>1, ConcatQ, OrderConcat
<1>3. CASE readyQ' = readyQ \o t
  BY <1>2, <1>3
<1>4. CASE SwitchProcess(readyQ \o t, procCnt, soft)
  BY <1>1, <1>2, <1>4, OrderSwitch
<1> QED
  BY <1>3, <1>4 DEF Resume

-----------------------------------------------------------------------------
\* FifoStep, but for the ready queue.
BlockedInOrder == \A s \in Sem : OrderKept(blockedQ[s], blockedQ'[s], free')

\* P lines the caller up behind the others.
LEMMA FifoP ==
  ASSUME Core, Running, NEW s \in Sem, NEW soft, P(s, soft)
  PROVE  FifoStep
<1>1. /\ readyQ \in Seq(Proc) /\ IsInjective(readyQ) /\ currProc \in Proc
      /\ blockedQ \in [Sem -> Seq(Proc)]
  BY DEF Core, TypeOK, Queues, WorkConserving, Running
<1>2. OrderKept(readyQ, readyQ', free')
  BY <1>1, OrderSame, OrderSwitch DEF P
<1>3. BlockedInOrder
  <2>1. CASE blockedQ' = blockedQ
    BY <2>1, OrderSame DEF BlockedInOrder
  <2>2. CASE blockedQ' = [blockedQ EXCEPT ![s] = Append(@, currProc)]
    <3> SUFFICES ASSUME NEW t \in Sem
                 PROVE  OrderKept(blockedQ[t], blockedQ'[t], free')
      BY DEF BlockedInOrder
    <3>1. CASE t = s
      <4>1. blockedQ'[t] = Append(blockedQ[t], currProc) /\ blockedQ[t] \in Seq(Proc)
        BY <1>1, <2>2, <3>1
      <4> QED
        BY <1>1, <4>1, OrderAppend
    <3>2. CASE t # s
      <4>1. blockedQ'[t] = blockedQ[t]
        BY <1>1, <2>2, <3>2
      <4> QED
        BY <4>1, OrderSame
    <3> QED
      BY <3>1, <3>2
  <2> QED
    BY <2>1, <2>2 DEF P, BlockCurrProc
<1> QED
  BY <1>2, <1>3 DEF FifoStep, BlockedInOrder

\* V takes the first of a queue.
LEMMA FifoV == ASSUME Core, NEW S \in SUBSET Sem, V(S) PROVE BlockedInOrder
<1> SUFFICES ASSUME NEW s \in Sem PROVE OrderKept(blockedQ[s], blockedQ'[s], free')
  BY DEF BlockedInOrder
<1>1. TypeOK /\ blockedQ[s] \in Seq(Proc) /\ IsInjective(blockedQ[s])
  BY QueuedFacts DEF Core
<1>2. CASE Woken(s) # <<>> /\ blockedQ'[s] = Tail(blockedQ[s])
  <2>1. blockedQ[s] # <<>>
    BY <1>2 DEF Woken
  <2> QED
    BY <1>1, <1>2, <2>1, OrderSame, OrderTail
<1>3. CASE blockedQ'[s] = blockedQ[s]
  BY <1>3, OrderSame
<1> QED
  BY <1>2, <1>3 DEF V

\* recursive_terminate takes only the dead out of the queues.
LEMMA FifoDie ==
  ASSUME Core, Running, NEW soft, Die(soft)
  PROVE  FifoStep
<1> DEFINE dead == Subtree(currProc)
           here(s) == {p \in dead : semAdd[p] = s}
           q == Without(readyQ, dead \ {currProc})
<1>1. /\ readyQ \in Seq(Proc) /\ IsInjective(readyQ)
  BY DEF Core, TypeOK, Queues
<1>2. /\ blockedQ' = [s \in Sem |-> Without(blockedQ[s], here(s))]
      /\ free' = free \cup dead
      /\ SwitchProcess(q, procCnt - Cardinality(dead), soft)
  BY DEF Die
<1> HIDE DEF dead
<1>3. OrderKept(readyQ, readyQ', free')
  <2>1. ToSet(readyQ) \cap (dead \ {currProc}) \subseteq free'
    BY <1>2
  <2>2. q \in Seq(Proc) /\ IsInjective(q) /\ OrderKept(readyQ, q, free')
    BY <1>1, <2>1, WithoutQ, OrderWithout
  <2> QED
    BY <1>1, <1>2, <2>2, OrderSwitch
<1>4. ASSUME NEW s \in Sem PROVE OrderKept(blockedQ[s], blockedQ'[s], free')
  <2>1. ToSet(blockedQ[s]) \cap here(s) \subseteq free'
    BY <1>2
  <2>2. blockedQ'[s] = Without(blockedQ[s], here(s)) /\ blockedQ[s] \in Seq(Proc)
    BY <1>2, QueuedFacts
  <2> HIDE DEF here
  <2> QED
    BY <2>1, <2>2, OrderWithout
<1> QED
  BY <1>3, <1>4 DEF FifoStep

\* An interrupt of devices queues those it wakes behind the ready processes.
LEMMA FifoComplete ==
  ASSUME Core, NEW S \in SUBSET IOSem, NEW woken \in Seq(Proc), IsInjective(woken),
         ToSet(woken) = WokenBy(S), Complete(S, woken)
  PROVE  FifoStep
<1>1. S \in SUBSET Sem /\ NULL \notin Sem
  BY ConstantsAssumption DEF Sem, SoftSem
<1>2. V(S) /\ Resume(readyQ \o woken, softBlockCnt - Len(woken))
  BY DEF Complete
<1>3. \A p \in ToSet(woken) : semAdd[p] \in Sem
  BY <1>1, <1>2, VFacts
<1>4. Runnable \cap ToSet(woken) = {}
  BY <1>1, <1>3 DEF Core, Places
<1>5. OrderKept(readyQ, readyQ', free')
  BY <1>2, <1>4, OrderResume
<1> QED
  BY <1>1, <1>2, <1>5, FifoV DEF FifoStep, BlockedInOrder

\* The interval timer empties the queue of its semaphore.
LEMMA FifoInterval == ASSUME Core, IntervalInterrupt PROVE FifoStep
<1>0. Clock \in Sem /\ NULL \notin Sem
  BY ConstantsAssumption DEF Sem, SoftSem
<1>1. /\ blockedQ' = [blockedQ EXCEPT ![Clock] = <<>>]
      /\ blockedQ \in [Sem -> Seq(Proc)]
      /\ Resume(readyQ \o blockedQ[Clock], softBlockCnt - Len(blockedQ[Clock]))
  BY DEF IntervalInterrupt, Core, TypeOK
<1>2. /\ blockedQ[Clock] \in Seq(Proc) /\ IsInjective(blockedQ[Clock])
      /\ \A p \in ToSet(blockedQ[Clock]) : semAdd[p] = Clock
  BY <1>0, QueuedFacts
<1>3. Runnable \cap ToSet(blockedQ[Clock]) = {}
  BY <1>0, <1>2 DEF Core, Places
<1>4. OrderKept(readyQ, readyQ', free')
  BY <1>1, <1>2, <1>3, OrderResume
<1>5. ASSUME NEW s \in Sem PROVE OrderKept(blockedQ[s], blockedQ'[s], free')
  <2>1. blockedQ'[s] = blockedQ[s] \/ blockedQ'[s] = <<>>
    BY <1>1
  <2> QED
    BY <2>1, OrderSame, OrderEmpty
<1> QED
  BY <1>4, <1>5 DEF FifoStep

\* Whose time slice is over goes behind the ready processes.
LEMMA FifoPlt == ASSUME Core, PltInterrupt PROVE FifoStep
<1>1. /\ SwitchProcess(Append(readyQ, currProc), procCnt, softBlockCnt)
      /\ blockedQ' = blockedQ /\ cpu = "run"
  BY DEF PltInterrupt
<1>2. /\ readyQ \in Seq(Proc) /\ currProc \in Proc
      /\ IsInjective(readyQ) /\ currProc \notin ToSet(readyQ)
  BY <1>1 DEF Core, TypeOK, WorkConserving, Queues
<1>3. /\ Append(readyQ, currProc) \in Seq(Proc) /\ IsInjective(Append(readyQ, currProc))
      /\ OrderKept(readyQ, Append(readyQ, currProc), free')
  BY <1>2, AppendQ, OrderAppend
<1>4. OrderKept(readyQ, readyQ', free')
  BY <1>1, <1>2, <1>3, OrderSwitch
<1> QED
  BY <1>1, <1>4, OrderSame DEF FifoStep

\* Every step of the nucleus.
LEMMA FifoNext == ASSUME Core, [Next]_vars PROVE FifoStep
<1>0. readyQ \in Seq(Proc)
  BY DEF Core, TypeOK
<1>1. CASE UNCHANGED <<readyQ, blockedQ>>
  BY <1>1, OrderSame DEF FifoStep
<1>2. CASE Stopped \/ UNCHANGED vars
  BY <1>1, <1>2 DEF Stopped, vars
<1>3. CASE CreateProcess
  <2>1. ASSUME NEW p \in free, readyQ' = Append(readyQ, p)
        PROVE  OrderKept(readyQ, readyQ', free')
    <3>1. p \in Proc
      BY DEF Core, TypeOK
    <3> QED
      BY <1>0, <2>1, <3>1, OrderAppend
  <2>2. OrderKept(readyQ, readyQ', free')
    BY <1>3, <2>1, OrderSame DEF CreateProcess
  <2> QED
    BY <1>3, <2>2, OrderSame DEF FifoStep, CreateProcess
<1>4. CASE TerminateProcess \/ WaitForBadLine
  BY <1>4, FifoDie DEF TerminateProcess, WaitForBadLine
<1>5. ASSUME NEW s \in UserSem, Passeren(s) PROVE FifoStep
  BY <1>5, FifoP DEF Passeren, Sem
<1>6. ASSUME NEW s \in UserSem, Verhogen(s) PROVE FifoStep
  <2>1. s \in Sem /\ {s} \in SUBSET Sem /\ V({s}) /\ readyQ' = readyQ \o Woken(s)
    BY <1>6 DEF Sem, Verhogen
  <2>2. Woken(s) \in Seq(Proc)
    BY <2>1, WokenFacts DEF Core
  <2>3. OrderKept(readyQ, readyQ', free')
    BY <1>0, <2>1, <2>2, OrderConcat
  <2> QED
    BY <2>1, <2>3, FifoV DEF FifoStep, BlockedInOrder
<1>7. ASSUME NEW d \in IOSem, DevCommand(d) \/ DeviceCompletes(d) PROVE FifoStep
  BY <1>1, <1>7 DEF DevCommand, DeviceCompletes
<1>8. ASSUME NEW d \in IOSem, WaitForIO(d) PROVE FifoStep
  <2>1. d \in Sem
    BY DEF Sem, SoftSem
  <2> QED
    BY <1>8, <2>1, FifoP DEF WaitForIO, SoftP
<1>9. CASE WaitForClock
  <2>1. Clock \in Sem
    BY DEF Sem, SoftSem
  <2> QED
    BY <1>9, <2>1, FifoP DEF WaitForClock, SoftP
<1>10. ASSUME NEW d \in DevSem, DeviceInterrupt(d) PROVE FifoStep
  <2>1. d \in Sem /\ {d} \in SUBSET IOSem
    BY ConstantsAssumption DEF DevSem, IOSem, Sem, SoftSem
  <2>2. Woken(d) \in Seq(Proc) /\ IsInjective(Woken(d)) /\ ToSet(Woken(d)) = WokenBy({d})
    BY <2>1, WokenFacts DEF Core, WokenBy
  <2> QED
    BY <1>10, <2>1, <2>2, FifoComplete DEF DeviceInterrupt
<1>11. ASSUME NEW t \in Term, TerminalInterrupt(t) PROVE FifoStep
  <2> DEFINE acked == {d \in {Tx(t), Rx(t)} : io[d] = "done"}
             wokenBy(d) == IF d \in acked THEN Woken(d) ELSE <<>>
             woken == wokenBy(Tx(t)) \o wokenBy(Rx(t))
  <2>1. Complete(acked, woken)
    BY <1>11 DEF TerminalInterrupt
  <2>2. acked \in SUBSET {Tx(t), Rx(t)}
    OBVIOUS
  <2> HIDE DEF acked
  <2>3. acked \in SUBSET IOSem /\ woken \in Seq(Proc) /\ IsInjective(woken)
        /\ ToSet(woken) = WokenBy(acked)
    BY <2>2, TerminalFacts
  <2> QED
    BY <2>1, <2>3, FifoComplete
<1> QED
  BY <1>2, <1>3, <1>4, <1>5, <1>6, <1>7, <1>8, <1>9, <1>10, <1>11, FifoInterval,
     FifoPlt DEF Next

\* No handler lets a process overtake another: not in the ready queue, nor in
\* the queue of any semaphore.
THEOREM FifoCorrect == Spec => Fifo
<1>1. Core /\ [Next]_vars => [FifoStep]_vars
  BY FifoNext
<1> QED
  BY CoreInvariant, <1>1, PTL DEF Spec, Fifo

-----------------------------------------------------------------------------
(* Semaphores.  Seen from one semaphore, a step of the nucleus is one of   *)
(* five moves.                                                             *)

Unmoved(s) == sem'[s] = sem[s] /\ blockedQ'[s] = blockedQ[s]

Lowered(s) ==
  /\ sem'[s] = sem[s] - 1
  /\ \/ sem[s] > 0 /\ blockedQ'[s] = blockedQ[s]
     \/ sem[s] <= 0 /\ Len(blockedQ'[s]) = Len(blockedQ[s]) + 1

Raised(s) ==
  /\ sem'[s] = sem[s] + 1
  /\ \/ sem[s] < 0 /\ Len(blockedQ'[s]) = Len(blockedQ[s]) - 1
     \/ (sem[s] >= 0 \/ Len(blockedQ[s]) = 0) /\ blockedQ'[s] = blockedQ[s]

\* Processes are killed in the queue of s.
Purged(s) ==
  /\ Len(blockedQ'[s]) <= Len(blockedQ[s])
  /\ sem'[s] = IF TakenForDevice(s) THEN sem[s]
               ELSE sem[s] + (Len(blockedQ[s]) - Len(blockedQ'[s]))

Zeroed(s) == s = Clock /\ sem'[s] = 0 /\ Len(blockedQ'[s]) = 0

Moved(s) ==
  \/ Unmoved(s)
  \/ Lowered(s)
  \/ Raised(s)
  \/ Purged(s)
  \/ Zeroed(s)

LEMMA MoveOfP ==
  ASSUME Core, Running, NEW s \in Sem, NEW soft, P(s, soft)
  PROVE  \A t \in Sem : Moved(t)
<1>1. sem \in [Sem -> Int] /\ blockedQ \in [Sem -> Seq(Proc)] /\ currProc \in Proc
  BY DEF Core, TypeOK, WorkConserving, Running
<1>2. sem' = [sem EXCEPT ![s] = @ - 1]
  BY DEF P
<1>3. CASE sem[s] - 1 >= 0 /\ blockedQ' = blockedQ
  BY <1>1, <1>2, <1>3 DEF Moved, Unmoved, Lowered
<1>4. CASE sem[s] - 1 < 0 /\ BlockCurrProc(s)
  <2>1. blockedQ' = [blockedQ EXCEPT ![s] = Append(@, currProc)]
    BY <1>4, DescriptorLeft DEF BlockCurrProc
  <2>2. Len(blockedQ'[s]) = Len(blockedQ[s]) + 1
    BY <1>1, <2>1, AppendQ
  <2> QED
    BY <1>1, <1>2, <1>4, <2>1, <2>2 DEF Moved, Unmoved, Lowered
<1> QED
  BY <1>3, <1>4 DEF P

LEMMA MoveOfV ==
  ASSUME Core, NEW S \in SUBSET Sem, V(S)
  PROVE  \A t \in Sem : Moved(t)
<1> SUFFICES ASSUME NEW t \in Sem PROVE Moved(t)
  OBVIOUS
<1>1. sem[t] \in Int /\ blockedQ[t] \in Seq(Proc) /\ TypeOK
  BY DEF Core, TypeOK
<1>2. CASE t \notin S
  BY <1>2 DEF V, Moved, Unmoved
<1>3. CASE t \in S /\ Woken(t) # <<>>
  <2>1. blockedQ'[t] = Tail(blockedQ[t]) /\ sem'[t] = sem[t] + 1
    BY <1>3 DEF V
  <2>2. sem[t] < 0 /\ Len(Tail(blockedQ[t])) = Len(blockedQ[t]) - 1
    BY <1>1, <1>3, WokenFacts
  <2> QED
    BY <2>1, <2>2 DEF Moved, Raised
<1>4. CASE t \in S /\ Woken(t) = <<>>
  <2>1. blockedQ'[t] = blockedQ[t] /\ sem'[t] = sem[t] + 1
    BY <1>4 DEF V
  <2>2. sem[t] >= 0 \/ Len(blockedQ[t]) = 0
    BY <1>1, <1>4, WokenFacts, EmptyQ
  <2> QED
    BY <2>1, <2>2 DEF Moved, Raised
<1> QED
  BY <1>2, <1>3, <1>4

LEMMA MoveOfDie ==
  ASSUME Core, NEW soft, Die(soft)
  PROVE  \A t \in Sem : Moved(t)
<1> SUFFICES ASSUME NEW t \in Sem PROVE Purged(t)
  BY DEF Moved
<1> DEFINE here == {p \in Subtree(currProc) : semAdd[p] = t}
<1>1. /\ blockedQ'[t] = Without(blockedQ[t], here)
      /\ sem'[t] = IF TakenForDevice(t) THEN sem[t]
                   ELSE sem[t] + (Len(blockedQ[t]) - Len(Without(blockedQ[t], here)))
  BY DEF Die
<1> HIDE DEF here
<1>2. Len(Without(blockedQ[t], here)) <= Len(blockedQ[t])
  BY WithoutQ DEF Core, TypeOK
<1> QED
  BY <1>1, <1>2 DEF Purged

LEMMA QueueMoves == ASSUME Core, [Next]_vars PROVE \A t \in Sem : Moved(t)
<1>1. CASE UNCHANGED <<sem, blockedQ>>
  BY <1>1 DEF Moved, Unmoved
<1>2. CASE CreateProcess \/ PltInterrupt \/ Stopped \/ UNCHANGED vars
  BY <1>1, <1>2 DEF CreateProcess, PltInterrupt, Stopped, vars
<1>3. CASE TerminateProcess \/ WaitForBadLine
  BY <1>3, MoveOfDie DEF TerminateProcess, WaitForBadLine
<1>4. ASSUME NEW s \in UserSem, Passeren(s) PROVE \A t \in Sem : Moved(t)
  BY <1>4, MoveOfP DEF Passeren, Sem
<1>5. ASSUME NEW s \in UserSem, Verhogen(s) PROVE \A t \in Sem : Moved(t)
  <2>1. {s} \in SUBSET Sem
    BY DEF Sem
  <2> QED
    BY <1>5, <2>1, MoveOfV DEF Verhogen
<1>6. ASSUME NEW d \in IOSem, DevCommand(d) \/ DeviceCompletes(d)
      PROVE  \A t \in Sem : Moved(t)
  BY <1>1, <1>6 DEF DevCommand, DeviceCompletes
<1>7. ASSUME NEW d \in IOSem, WaitForIO(d) PROVE \A t \in Sem : Moved(t)
  <2>1. d \in Sem
    BY DEF Sem, SoftSem
  <2> QED
    BY <1>7, <2>1, MoveOfP DEF WaitForIO, SoftP
<1>8. CASE WaitForClock
  <2>1. Clock \in Sem
    BY DEF Sem, SoftSem
  <2> QED
    BY <1>8, <2>1, MoveOfP DEF WaitForClock, SoftP
<1>9. CASE IntervalInterrupt
  <2>1. /\ sem' = [sem EXCEPT ![Clock] = 0]
        /\ blockedQ' = [blockedQ EXCEPT ![Clock] = <<>>]
        /\ sem \in [Sem -> Int] /\ blockedQ \in [Sem -> Seq(Proc)]
    BY <1>9 DEF IntervalInterrupt, Core, TypeOK
  <2>2. Len(<<>>) = 0
    BY EmptyQ
  <2> QED
    BY <2>1, <2>2 DEF Moved, Unmoved, Zeroed
<1>10. ASSUME NEW S \in SUBSET IOSem, NEW w, Complete(S, w)
       PROVE  \A t \in Sem : Moved(t)
  <2>1. S \in SUBSET Sem
    BY DEF Sem, SoftSem
  <2> QED
    BY <1>10, <2>1, MoveOfV DEF Complete
<1>11. ASSUME NEW d \in DevSem, DeviceInterrupt(d) PROVE \A t \in Sem : Moved(t)
  <2>1. {d} \in SUBSET IOSem
    BY ConstantsAssumption DEF DevSem, IOSem
  <2> QED
    BY <1>10, <1>11, <2>1 DEF DeviceInterrupt
<1>12. ASSUME NEW t \in Term, TerminalInterrupt(t) PROVE \A u \in Sem : Moved(u)
  <2>1. {d \in {Tx(t), Rx(t)} : io[d] = "done"} \in SUBSET IOSem
    BY ConstantsAssumption DEF Tx, Rx, Term, IOSem
  <2> QED
    BY <1>10, <1>12, <2>1 DEF TerminalInterrupt
<1> QED
  BY <1>2, <1>3, <1>4, <1>5, <1>6, <1>7, <1>8, <1>9, <1>11, <1>12 DEF Next

\* A semaphore of the programs is negative exactly by the number of its
\* waiters, provided none lies where recursive_terminate takes it for a
\* device's.
THEOREM UserSemCorrect == ASSUME NearSem = {} PROVE Spec => []UserSemCounts
<1>1. Init => UserSemCounts
  <2> SUFFICES ASSUME Init, NEW s \in UserSem
               PROVE  Len(blockedQ[s]) = IF sem[s] < 0 THEN -sem[s] ELSE 0
    BY DEF UserSemCounts
  <2>1. s \in Sem /\ sem[s] \in Nat /\ blockedQ[s] = <<>>
    BY ConstantsAssumption DEF Init, Sem
  <2> QED
    BY <2>1, EmptyQ
<1>2. ASSUME Core, Core', UserSemCounts, [Next]_vars PROVE UserSemCounts'
  <2> SUFFICES ASSUME NEW s \in UserSem
               PROVE  Len(blockedQ'[s]) = IF sem'[s] < 0 THEN -sem'[s] ELSE 0
    BY DEF UserSemCounts
  <2>1. s \in Sem /\ ~TakenForDevice(s) /\ s # Clock
    BY ConstantsAssumption DEF Sem, TakenForDevice, SoftSem
  <2>2. /\ sem[s] \in Int /\ sem'[s] \in Int
        /\ Len(blockedQ[s]) \in Nat /\ Len(blockedQ'[s]) \in Nat
    BY <1>2, <2>1, LenProperties DEF Core, TypeOK
  <2>3. Len(blockedQ[s]) = IF sem[s] < 0 THEN -sem[s] ELSE 0
    BY <1>2 DEF UserSemCounts
  <2>4. Moved(s)
    BY <1>2, <2>1, QueueMoves
  <2>5. CASE Unmoved(s)
    BY <2>3, <2>5 DEF Unmoved
  <2>6. CASE Lowered(s)
    BY <2>2, <2>3, <2>6 DEF Lowered
  <2>7. CASE Raised(s)
    BY <2>2, <2>3, <2>7 DEF Raised
  <2>8. CASE Purged(s)
    <3>1. /\ Len(blockedQ'[s]) <= Len(blockedQ[s])
          /\ sem'[s] = sem[s] + (Len(blockedQ[s]) - Len(blockedQ'[s]))
      BY <2>1, <2>8 DEF Purged
    <3> QED
      BY <2>2, <2>3, <3>1
  <2> QED
    BY <2>1, <2>4, <2>5, <2>6, <2>7, <2>8 DEF Moved, Zeroed
<1> QED
  BY <1>1, <1>2, CoreInvariant, PTL DEF Spec

\* Whoever waits is owed a V that will find the value not above 0.
Owed == \A s \in Sem : blockedQ[s] # <<>> => sem[s] <= -Len(blockedQ[s])

\* Also on a semaphore of the programs, and on those whose value
\* recursive_terminate does not raise.
LEMMA OwedInvariant == Spec => []Owed
<1>1. Init => Owed
  BY DEF Init, Owed
<1>2. ASSUME Core, Core', Owed, [Next]_vars PROVE Owed'
  <2> SUFFICES ASSUME NEW s \in Sem, blockedQ'[s] # <<>>
               PROVE  sem'[s] <= -Len(blockedQ'[s])
    BY DEF Owed
  <2>2. /\ sem[s] \in Int /\ sem'[s] \in Int
        /\ Len(blockedQ[s]) \in Nat /\ Len(blockedQ'[s]) \in Nat
        /\ (blockedQ[s] = <<>> <=> Len(blockedQ[s]) = 0)
        /\ Len(blockedQ'[s]) # 0
    BY <1>2, LenProperties, EmptyQ DEF Core, TypeOK
  <2>3. Len(blockedQ[s]) # 0 => sem[s] <= -Len(blockedQ[s])
    BY <1>2, <2>2 DEF Owed
  <2>4. Moved(s)
    BY <1>2, QueueMoves
  <2>5. CASE Unmoved(s)
    BY <2>2, <2>3, <2>5 DEF Unmoved
  <2>6. CASE Lowered(s)
    BY <2>2, <2>3, <2>6 DEF Lowered
  <2>7. CASE Raised(s)
    BY <2>2, <2>3, <2>7 DEF Raised
  <2>8. CASE Purged(s)
    <3> DEFINE old == Len(blockedQ[s])
               new == Len(blockedQ'[s])
    <3>1. new <= old /\ (sem'[s] = sem[s] \/ sem'[s] = sem[s] + (old - new))
      BY <2>8 DEF Purged
    <3>2. old \in Nat /\ new \in Nat /\ new # 0 /\ (old # 0 => sem[s] <= -old)
      BY <2>2, <2>3
    <3> HIDE DEF old, new
    <3>3. sem'[s] <= -new
      BY <2>2, <3>1, <3>2
    <3> QED
      BY <3>3 DEF new
  <2> QED
    BY <2>2, <2>4, <2>5, <2>6, <2>7, <2>8 DEF Moved, Zeroed
<1> QED
  BY <1>1, <1>2, CoreInvariant, PTL DEF Spec

\* Whoever waits for a device or the clock will be taken off the queue by the
\* V it is owed, whatever was killed or completed before.
THEOREM SoftSemCorrect == Spec => []SoftSemOwed
<1>1. Owed => SoftSemOwed
  BY DEF Owed, SoftSemOwed, Sem
<1> QED
  BY OwedInvariant, <1>1, PTL

\* What one device and its semaphore see of a step when SYS5 and the command are
\* one piece: nothing, a new operation, or the end of one.
Left(d) == sem'[d] = sem[d] /\ (io'[d] = "idle" <=> io[d] = "idle")
Driven(d) == blockedQ[d] = <<>> /\ sem'[d] = sem[d] - 1 /\ io'[d] = "busy"
Answered(d) == io[d] # "idle" /\ sem'[d] = sem[d] + 1 /\ io'[d] = "idle"

LEMMA DeviceMoves ==
  ASSUME Core, MaskedIO, [Next]_vars, NEW d \in IOSem
  PROVE  Left(d) \/ Driven(d) \/ Answered(d)
<1>1. /\ sem \in [Sem -> Int] /\ blockedQ \in [Sem -> Seq(Proc)]
      /\ io \in [IOSem -> {"idle", "busy", "done", "error"}]
  BY DEF Core, TypeOK
<1>2. d \in Sem /\ d # Clock /\ d \notin UserSem /\ TakenForDevice(d)
  BY ConstantsAssumption DEF Sem, SoftSem, TakenForDevice
<1>3. CASE UNCHANGED <<sem, io>>
  BY <1>3 DEF Left
<1>4. CASE CreateProcess \/ PltInterrupt \/ Stopped \/ UNCHANGED vars
  BY <1>3, <1>4 DEF CreateProcess, PltInterrupt, Stopped, vars
<1>5. CASE TerminateProcess \/ WaitForBadLine
  BY <1>2, <1>5 DEF TerminateProcess, WaitForBadLine, Die, Left
<1>6. ASSUME NEW s \in UserSem, Passeren(s) PROVE Left(d)
  <2>1. sem' = [sem EXCEPT ![s] = @ - 1] /\ io' = io /\ s # d
    BY <1>2, <1>6 DEF Passeren, P
  <2> QED
    BY <1>1, <2>1 DEF Left
<1>7. ASSUME NEW s \in UserSem, Verhogen(s) PROVE Left(d)
  BY <1>2, <1>7 DEF Verhogen, V, Left
<1>8. ASSUME NEW e \in IOSem, DeviceCompletes(e) PROVE Left(d)
  <2>1. sem' = sem /\ io[e] = "busy" /\ io'[e] # "idle" /\ (e # d => io'[d] = io[d])
    BY <1>1, <1>8 DEF DeviceCompletes
  <2> QED
    BY <2>1 DEF Left
<1>9. ASSUME NEW e \in IOSem, WaitForIO(e) PROVE Left(d) \/ Driven(d)
  <2>1. /\ blockedQ[e] = <<>> /\ sem' = [sem EXCEPT ![e] = @ - 1]
        /\ io' = [io EXCEPT ![e] = "busy"]
    BY <1>9 DEF WaitForIO, MayDrive, SoftP, P
  <2> QED
    BY <1>1, <1>2, <2>1 DEF Left, Driven
<1>10. CASE WaitForClock
  <2>1. sem' = [sem EXCEPT ![Clock] = @ - 1] /\ io' = io
    BY <1>10 DEF WaitForClock, SoftP, P
  <2> QED
    BY <1>1, <1>2, <2>1 DEF Left
<1>11. CASE IntervalInterrupt
  <2>1. sem' = [sem EXCEPT ![Clock] = 0] /\ io' = io
    BY <1>11 DEF IntervalInterrupt
  <2> QED
    BY <1>1, <1>2, <2>1 DEF Left
<1>12. ASSUME NEW S, NEW w, Complete(S, w), \A e \in S : io[e] # "idle"
       PROVE  Left(d) \/ Answered(d)
  BY <1>2, <1>12 DEF Complete, V, Left, Answered
<1>13. ASSUME NEW e \in DevSem, DeviceInterrupt(e) PROVE Left(d) \/ Answered(d)
  BY <1>12, <1>13 DEF DeviceInterrupt, Pending
<1>14. ASSUME NEW t \in Term, TerminalInterrupt(t) PROVE Left(d) \/ Answered(d)
  BY <1>12, <1>14 DEF TerminalInterrupt
<1> QED
  BY <1>4, <1>5, <1>6, <1>7, <1>8, <1>9, <1>10, <1>11, <1>13, <1>14 DEF Next, DevCommand

\* With the command and SYS5 in one piece a process waits alone for its device,
\* which is at work for it, and nothing is left over of an operation whose process
\* was killed: SYS5 always blocks.
THEOREM WaiterCorrect == Spec => []WaiterServed
<1>1. Init => WaiterServed
  <2> SUFFICES ASSUME Init, NEW d \in IOSem
               PROVE  blockedQ[d] = <<>> /\ sem[d] = 0 /\ io[d] = "idle"
    BY DEF WaiterServed
  <2> QED
    BY DEF Init, Sem, SoftSem
<1>2. ASSUME Core, Core', WaiterServed, [Next]_vars PROVE WaiterServed'
  <2> SUFFICES ASSUME MaskedIO, NEW d \in IOSem
               PROVE  /\ blockedQ'[d] # <<>> => Len(blockedQ'[d]) = 1 /\ io'[d] # "idle"
                      /\ sem'[d] <= IF io'[d] = "idle" THEN 0 ELSE -1
    BY DEF WaiterServed
  <2>1. d \in Sem /\ TakenForDevice(d) /\ d # Clock
    BY ConstantsAssumption DEF Sem, SoftSem, TakenForDevice
  <2>2. /\ sem[d] \in Int /\ sem'[d] \in Int
        /\ Len(blockedQ[d]) \in Nat /\ Len(blockedQ'[d]) \in Nat
        /\ (blockedQ[d] = <<>> <=> Len(blockedQ[d]) = 0)
        /\ (blockedQ'[d] = <<>> <=> Len(blockedQ'[d]) = 0)
    BY <1>2, <2>1, LenProperties, EmptyQ DEF Core, TypeOK
  <2>3. /\ Len(blockedQ[d]) # 0 => Len(blockedQ[d]) = 1 /\ io[d] # "idle"
        /\ sem[d] <= 0 /\ (io[d] # "idle" => sem[d] <= -1)
    BY <1>2, <2>2 DEF WaiterServed
  <2>4. Moved(d)
    BY <1>2, <2>1, QueueMoves
  <2>5. CASE Left(d)
    <3>1. Len(blockedQ'[d]) <= Len(blockedQ[d])
      BY <2>1, <2>2, <2>4, <2>5
      DEF Left, Moved, Unmoved, Lowered, Raised, Purged, Zeroed
    <3>2. sem'[d] = sem[d] /\ (io'[d] = "idle" <=> io[d] = "idle")
      BY <2>5 DEF Left
    <3>3. Len(blockedQ'[d]) # 0 => Len(blockedQ'[d]) = 1 /\ io'[d] # "idle"
      <4> DEFINE old == Len(blockedQ[d])
                 new == Len(blockedQ'[d])
      <4>1. old \in Nat /\ new \in Nat /\ new <= old
        BY <2>2, <3>1
      <4>2. old # 0 => old = 1 /\ io'[d] # "idle"
        BY <2>3, <3>2
      <4> HIDE DEF old, new
      <4>3. new # 0 => new = 1 /\ old # 0
        BY <4>1, <4>2
      <4> QED
        BY <4>2, <4>3 DEF new
    <3>4. sem'[d] <= IF io'[d] = "idle" THEN 0 ELSE -1
      BY <2>2, <2>3, <3>2
    <3> QED
      BY <2>2, <3>3, <3>4
  <2>6. CASE Driven(d)
    <3>1. Len(blockedQ'[d]) = 1
      BY <2>1, <2>2, <2>3, <2>4, <2>6
      DEF Driven, Moved, Unmoved, Lowered, Raised, Purged, Zeroed
    <3> QED
      BY <2>2, <2>3, <2>6, <3>1 DEF Driven
  <2>7. CASE Answered(d)
    <3>1. sem[d] <= -1 /\ sem'[d] = sem[d] + 1
      BY <2>3, <2>7 DEF Answered
    <3>2. Raised(d)
      BY <2>1, <2>2, <2>4, <3>1 DEF Moved, Unmoved, Lowered, Purged, Zeroed
    <3>3. Len(blockedQ'[d]) = Len(blockedQ[d]) - 1 \/ Len(blockedQ[d]) = 0
      BY <2>2, <3>1, <3>2 DEF Raised
    <3>4. Len(blockedQ'[d]) = Len(blockedQ[d]) - 1 \/ Len(blockedQ'[d]) = Len(blockedQ[d])
      BY <3>2 DEF Raised
    <3>5. Len(blockedQ'[d]) = 0
      <4> DEFINE old == Len(blockedQ[d])
                 new == Len(blockedQ'[d])
      <4>1. /\ old \in Nat /\ new \in Nat /\ (old # 0 => old = 1)
            /\ new = old - 1 \/ old = 0
            /\ new = old - 1 \/ new = old
        BY <2>2, <2>3, <3>3, <3>4
      <4> HIDE DEF old, new
      <4>2. new = 0
        BY <4>1
      <4> QED
        BY <4>2 DEF new
    <3> QED
      BY <2>2, <3>1, <3>5, <2>7 DEF Answered
  <2> QED
    BY <1>2, <2>5, <2>6, <2>7, DeviceMoves
<1> QED
  BY <1>1, <1>2, CoreInvariant, PTL DEF Spec

-----------------------------------------------------------------------------
(* The process tree and the two counters.                                  *)

Counted ==
  /\ procCnt = Cardinality(Live)
  /\ softBlockCnt >= Cardinality(SoftBlocked)

\* What the scheduler needs of the two to halt and panic rightly.
Honest ==
  /\ Core
  /\ TreeSound
  /\ HaltsWhenDone
  /\ NoFalsePanic

\* The processes blocked on a device or the clock are those whose p_semAdd
\* says so.
LEMMA SoftBlockedIs ==
  Core => /\ SoftBlocked = {p \in Proc : semAdd[p] \in SoftSem}
          /\ IsFiniteSet(SoftBlocked) /\ Cardinality(SoftBlocked) \in Nat
<1> SUFFICES ASSUME Core
             PROVE  /\ SoftBlocked = {p \in Proc : semAdd[p] \in SoftSem}
                    /\ IsFiniteSet(SoftBlocked) /\ Cardinality(SoftBlocked) \in Nat
  OBVIOUS
<1>1. ASSUME NEW p \in SoftBlocked PROVE p \in Proc /\ semAdd[p] \in SoftSem
  <2>1. PICK s \in SoftSem : p \in ToSet(blockedQ[s])
    BY DEF SoftBlocked, Waiting
  <2> QED
    BY <2>1, QueuedFacts DEF Sem
<1>2. ASSUME NEW p \in Proc, semAdd[p] \in SoftSem PROVE p \in SoftBlocked
  <2>1. p \in ToSet(blockedQ[semAdd[p]])
    BY <1>2 DEF Core, SemAddAgrees, Sem
  <2> QED
    BY <1>2, <2>1 DEF SoftBlocked, Waiting
<1>3. SoftBlocked = {p \in Proc : semAdd[p] \in SoftSem}
  BY <1>1, <1>2
<1>4. SoftBlocked \subseteq Proc
  BY <1>3
<1> QED
  BY <1>3, <1>4, FS_Subset, FS_CardinalityType, ConstantsAssumption

LEMMA SoftBlockedNext ==
  ASSUME Core'
  PROVE  /\ (SoftBlocked = {p \in Proc : semAdd[p] \in SoftSem})'
         /\ IsFiniteSet(SoftBlocked') /\ Cardinality(SoftBlocked') \in Nat
<1>1. Core' => (/\ SoftBlocked = {p \in Proc : semAdd[p] \in SoftSem}
                /\ IsFiniteSet(SoftBlocked) /\ Cardinality(SoftBlocked) \in Nat)'
  BY SoftBlockedIs, PTL
<1> QED
  BY <1>1

\* A live process is runnable or waits on some semaphore.
LEMMA LiveIs ==
  Core => /\ Live = Runnable \cup Waiting(UserSem) \cup SoftBlocked
          /\ IsFiniteSet(Live) /\ Cardinality(Live) \in Nat
          /\ Cardinality(Live) = 0 <=> Live = {}
<1> SUFFICES ASSUME Core
             PROVE  /\ Live = Runnable \cup Waiting(UserSem) \cup SoftBlocked
                    /\ IsFiniteSet(Live) /\ Cardinality(Live) \in Nat
                    /\ Cardinality(Live) = 0 <=> Live = {}
  OBVIOUS
<1>1. Live = Runnable \cup Waiting(UserSem) \cup SoftBlocked
  <2>1. Live = Runnable \cup Waiting(Sem)
    BY CorePartition DEF PcbPartition, Runnable
  <2>2. Waiting(Sem) = Waiting(UserSem) \cup SoftBlocked
    BY DEF Waiting, SoftBlocked, Sem
  <2> QED
    BY <2>1, <2>2
<1>2. IsFiniteSet(Live)
  BY FS_Subset, ConstantsAssumption DEF Live
<1> QED
  BY <1>1, <1>2, FS_CardinalityType, FS_EmptySet

\* The scheduler halts, panics or waits as it should when both counters are
\* right.
LEMMA SwitchHonest ==
  ASSUME Core', Counted', procCnt' \in Int, softBlockCnt' \in Int, NEW q \in Seq(Proc),
         SwitchProcess(q, procCnt', softBlockCnt')
  PROVE  HaltsWhenDone' /\ NoFalsePanic'
<1> DEFINE n == procCnt'
<1> DEFINE m == softBlockCnt'
<1>1. /\ (Live = Runnable \cup Waiting(UserSem) \cup SoftBlocked)'
      /\ Cardinality(Live') \in Nat
      /\ (Cardinality(Live') = 0 <=> Live' = {})
      /\ Cardinality(SoftBlocked') \in Nat /\ IsFiniteSet(SoftBlocked')
  <2>1. Core' => (/\ Live = Runnable \cup Waiting(UserSem) \cup SoftBlocked
                  /\ IsFiniteSet(Live) /\ Cardinality(Live) \in Nat
                  /\ Cardinality(Live) = 0 <=> Live = {})'
    BY LiveIs, PTL
  <2> QED
    BY <2>1, SoftBlockedNext
<1>2. n = Cardinality(Live') /\ m >= Cardinality(SoftBlocked')
  BY DEF Counted
<1>3. CASE q # <<>>
  <2>1. cpu' = "run" /\ Runnable' # {}
    <3>1. Runnable' = ToSet(q) /\ ToSet(q) # {} /\ cpu' = "run"
      BY <1>3, SwitchFacts, EmptyQ DEF SwitchProcess
    <3> QED
      BY <3>1
  <2> QED
    BY <1>1, <1>2, <2>1 DEF HaltsWhenDone, NoFalsePanic
<1>4. CASE q = <<>>
  <2>1. Runnable' = {} /\ cpu' = IdleState(n, m)
    BY <1>4, SwitchFacts, EmptyQ DEF SwitchProcess
  <2>2. cpu' = "halt" <=> Live' = {}
    BY <1>1, <1>2, <2>1 DEF IdleState
  <2>3. ASSUME cpu' = "panic" PROVE Live' # {} /\ SoftBlocked' = {}
    <3>1. n > 0 /\ m <= 0
      BY <1>1, <1>2, <2>1, <2>3 DEF IdleState
    <3>2. Cardinality(SoftBlocked') = 0
      BY <1>1, <1>2, <3>1
    <3> QED
      BY <1>1, <1>2, <3>1, <3>2, FS_EmptySet
  <2> QED
    BY <1>1, <1>2, <2>1, <2>2, <2>3 DEF HaltsWhenDone, NoFalsePanic
<1> QED
  BY <1>3, <1>4

\* A handler that goes back to the program it left, or to WAIT, with the
\* counters right.
LEMMA ReturnHonest ==
  ASSUME Core', Counted', cpu' \in {"run", "wait"}, Live' # {}
  PROVE  HaltsWhenDone' /\ NoFalsePanic'
BY DEF HaltsWhenDone, NoFalsePanic, Counted

\* A step that changes no parent and frees nobody keeps the tree.
LEMMA TreeUnchanged ==
  ASSUME TreeSound, parent' = parent, free' = free
  PROVE  TreeSound'
BY DEF TreeSound, Live

\* The end of a handler that left the live processes alone: what the scheduler
\* or the interrupted program finds.
LEMMA StepHonest ==
  ASSUME Honest, Core', Interruptible, UNCHANGED poolVars,
         softBlockCnt' >= Cardinality(SoftBlocked'),
         \/ UNCHANGED cpu
         \/ \E q \in Seq(Proc) : SwitchProcess(q, procCnt, softBlockCnt')
  PROVE  Honest'
<1>1. /\ procCnt' = procCnt /\ parent' = parent /\ free' = free
      /\ Live' = Live /\ procCnt' = Cardinality(Live')
      /\ cpu \in {"run", "wait"}
  BY DEF poolVars, Live, Honest, HaltsWhenDone, Interruptible
<1>2. Counted' /\ procCnt' \in Int /\ softBlockCnt' \in Int
  BY <1>1 DEF Counted, Core, TypeOK
<1>3. TreeSound'
  BY <1>1, TreeUnchanged DEF Honest
<1>4. Live # {}
  BY <1>1 DEF Honest, HaltsWhenDone
<1>5. HaltsWhenDone' /\ NoFalsePanic'
  <2>1. CASE UNCHANGED cpu
    BY <1>1, <1>2, <1>4, <2>1, ReturnHonest
  <2>2. CASE \E q \in Seq(Proc) : SwitchProcess(q, procCnt, softBlockCnt')
    BY <1>1, <1>2, <2>2, SwitchHonest
  <2> QED
    BY <2>1, <2>2
<1> QED
  BY <1>3, <1>5 DEF Honest

\* The subtree of a live process is live.
LEMMA SubtreeLive ==
  ASSUME Core, TreeSound, NEW r \in Live
  PROVE  Subtree(r) \subseteq Live
<1>1. Live \in SUBSET Proc
  BY DEF Live
<1>2. \A c \in Proc : parent[c] \in Live => c \in Live
  BY ConstantsAssumption DEF TreeSound, Live
<1> QED
  BY <1>1, <1>2 DEF Subtree

\* ... and closed under children.
LEMMA SubtreeClosed ==
  ASSUME NEW r, NEW c \in Proc, parent[c] \in Subtree(r)
  PROVE  c \in Subtree(r)
BY DEF Subtree

LEMMA HonestCreate == ASSUME Honest, Core', CreateProcess PROVE Honest'
<1>1. Core /\ currProc \in Live /\ currProc # NULL /\ cpu = "run" /\ Interruptible
  <2>1. currProc \in Proc /\ currProc # NULL /\ cpu = "run"
    BY DEF Honest, Core, TypeOK, WorkConserving, CreateProcess, Running
  <2> QED
    BY <2>1 DEF Honest, Core, Places, Runnable, Live, Interruptible
<1>2. SoftBlocked' = SoftBlocked /\ softBlockCnt' = softBlockCnt /\ cpu' = cpu
  BY DEF CreateProcess, SoftBlocked, Waiting
<1>3. softBlockCnt' >= Cardinality(SoftBlocked')
  BY <1>2 DEF Honest, NoFalsePanic
<1>4. CASE UNCHANGED poolVars
  BY <1>1, <1>2, <1>3, <1>4, StepHonest
<1>5. ASSUME NEW p \in free,
             free' = free \ {p},
             parent' = [parent EXCEPT ![p] = currProc],
             procCnt' = procCnt + 1
      PROVE  Honest'
  <2>1. p \in Proc /\ p \notin Live /\ Live' = Live \cup {p} /\ p # currProc
    BY <1>1, <1>5 DEF Core, TypeOK, Live
  <2>2. Cardinality(Live') = Cardinality(Live) + 1
    BY <1>1, <2>1, LiveIs, FS_AddElement
  <2>3. Counted' /\ procCnt' \in Int /\ Live' # {}
    BY <1>3, <1>5, <2>1, <2>2 DEF Honest, HaltsWhenDone, Counted, Core, TypeOK
  <2>4. TreeSound'
    <3>1. /\ parent'[p] = currProc
          /\ \A q \in Proc \ {p} : parent'[q] = parent[q]
      BY <1>1, <1>5, <2>1 DEF Core, TypeOK
    <3> QED
      BY <1>1, <1>5, <2>1, <3>1 DEF Honest, TreeSound
  <2>5. HaltsWhenDone' /\ NoFalsePanic'
    BY <1>1, <1>2, <2>3, ReturnHonest
  <2> QED
    BY <2>4, <2>5 DEF Honest
<1> QED
  BY <1>4, <1>5 DEF CreateProcess

LEMMA HonestDie ==
  ASSUME Honest, Core', Running, NEW soft \in Int, soft >= softBlockCnt, Die(soft)
  PROVE  Honest'
<1> DEFINE dead == Subtree(currProc)
<1>1. Core /\ currProc \in Live
  <2>1. currProc \in Proc /\ currProc # NULL
    BY DEF Honest, Core, TypeOK, WorkConserving, Running
  <2> QED
    BY <2>1 DEF Honest, Core, Places, Runnable, Live
<1>2. /\ semAdd' = [p \in Proc |-> IF /\ p \in dead /\ semAdd[p] # NULL
                                      /\ p \in ToSet(blockedQ[semAdd[p]])
                                   THEN NULL ELSE semAdd[p]]
      /\ parent' = [p \in Proc |-> IF p \in dead THEN NULL ELSE parent[p]]
      /\ free' = free \cup dead
      /\ procCnt' = procCnt - Cardinality(dead) /\ softBlockCnt' = soft
      /\ SwitchProcess(Without(readyQ, dead \ {currProc}), procCnt', softBlockCnt')
  BY DEF Die
<1>3. dead \subseteq Live /\ dead \subseteq Proc
  BY <1>1, SubtreeLive DEF Honest, Live
<1>4. \A c \in Proc : parent[c] \in dead => c \in dead
  BY SubtreeClosed
<1> HIDE DEF dead
<1>5. Live' = Live \ dead
  BY <1>2 DEF Live
<1>6. procCnt' = Cardinality(Live') /\ procCnt' \in Int
  <2>1. Cardinality(Live \ dead) = Cardinality(Live) - Cardinality(dead)
    <3>1. IsFiniteSet(Live) /\ IsFiniteSet(dead)
      BY <1>1, <1>3, LiveIs, FS_Subset
    <3>2. Cardinality(Live \ dead) = Cardinality(Live) - Cardinality(Live \cap dead)
      BY <3>1, FS_Difference
    <3>3. Live \cap dead = dead
      BY <1>3
    <3> QED
      BY <3>2, <3>3
  <2> QED
    BY <1>2, <1>5, <2>1 DEF Honest, HaltsWhenDone, Core, TypeOK
<1>7. softBlockCnt' >= Cardinality(SoftBlocked')
  <2>2. NULL \notin SoftSem
    BY ConstantsAssumption DEF Sem
  <2>3. SoftBlocked' \subseteq SoftBlocked
    BY <1>1, <1>2, <2>2, SoftBlockedIs, SoftBlockedNext
  <2>4. Cardinality(SoftBlocked') <= Cardinality(SoftBlocked)
        /\ Cardinality(SoftBlocked) \in Nat /\ Cardinality(SoftBlocked') \in Nat
    BY <1>1, <2>3, SoftBlockedIs, SoftBlockedNext, FS_Subset
  <2> QED
    BY <1>2, <2>4 DEF Honest, NoFalsePanic, Core, TypeOK
<1>8. HaltsWhenDone' /\ NoFalsePanic'
  <2>1. Without(readyQ, dead \ {currProc}) \in Seq(Proc)
    BY <1>1, WithoutQ DEF Core, TypeOK
  <2> QED
    BY <1>2, <1>6, <1>7, <2>1, SwitchHonest DEF Counted
<1>9. TreeSound'
  <2> SUFFICES ASSUME NEW p \in Proc
               PROVE  /\ p \in free' => parent'[p] = NULL
                      /\ parent'[p] # NULL => parent'[p] \in Live' \ {p}
    BY DEF TreeSound
  <2>1. parent'[p] = IF p \in dead THEN NULL ELSE parent[p]
    BY <1>2
  <2> QED
    BY <1>2, <1>4, <1>5, <2>1 DEF Honest, TreeSound
<1> QED
  BY <1>8, <1>9 DEF Honest

LEMMA OneMore ==
  ASSUME NEW S, IsFiniteSet(S), NEW x
  PROVE  /\ IsFiniteSet(S \cup {x})
         /\ Cardinality(S \cup {x}) <= Cardinality(S) + 1
<1>1. Cardinality(S) \in Nat
  BY FS_CardinalityType
<1>2. CASE x \in S
  <2>1. S \cup {x} = S
    BY <1>2
  <2>2. Cardinality(S) <= Cardinality(S) + 1
    BY <1>1
  <2> QED
    BY <2>1, <2>2
<1>3. CASE x \notin S
  <2>1. IsFiniteSet(S \cup {x}) /\ Cardinality(S \cup {x}) = Cardinality(S) + 1
    BY <1>3, FS_AddElement
  <2> QED
    BY <1>1, <2>1
<1> QED
  BY <1>2, <1>3

\* How many processes a step may add to those blocked on devices and the
\* clock, and how many it takes from them.
LEMMA SoftAfterP ==
  ASSUME Core, Core', Running, NEW s \in Sem, NEW soft, P(s, soft)
  PROVE  /\ s \in UserSem => Cardinality(SoftBlocked') <= Cardinality(SoftBlocked)
         /\ Cardinality(SoftBlocked') <= Cardinality(SoftBlocked) + 1
         /\ \/ UNCHANGED cpu
            \/ \E q \in Seq(Proc) : SwitchProcess(q, procCnt, soft)
<1>0. /\ (SoftBlocked = {p \in Proc : semAdd[p] \in SoftSem})'
      /\ SoftBlocked = {p \in Proc : semAdd[p] \in SoftSem}
      /\ IsFiniteSet(SoftBlocked) /\ Cardinality(SoftBlocked) \in Nat
  BY SoftBlockedIs, SoftBlockedNext
<1>1. semAdd \in [Proc -> Sem \cup {NULL}] /\ readyQ \in Seq(Proc)
  BY DEF Core, TypeOK
<1>2. CASE UNCHANGED <<semAdd, cpu>>
  <2>1. SoftBlocked' = SoftBlocked
    BY <1>0, <1>2
  <2> QED
    BY <1>0, <1>2, <2>1
<1>3. CASE BlockCurrProc(s) /\ SwitchProcess(readyQ, procCnt, soft)
  <2>1. semAdd' = [semAdd EXCEPT ![currProc] = s]
    BY <1>3, DescriptorLeft DEF BlockCurrProc
  <2>2. SoftBlocked' \subseteq SoftBlocked \cup {currProc}
    BY <1>0, <1>1, <2>1
  <2>3. s \in UserSem => SoftBlocked' \subseteq SoftBlocked
    <3>1. UserSem \cap SoftSem = {}
      BY ConstantsAssumption
    <3> QED
      BY <1>0, <1>1, <2>1, <3>1
  <2>4. /\ IsFiniteSet(SoftBlocked \cup {currProc})
        /\ Cardinality(SoftBlocked \cup {currProc}) <= Cardinality(SoftBlocked) + 1
    BY <1>0, OneMore
  <2>5. /\ Cardinality(SoftBlocked') <= Cardinality(SoftBlocked \cup {currProc})
        /\ Cardinality(SoftBlocked') \in Nat
        /\ Cardinality(SoftBlocked \cup {currProc}) \in Nat
    BY <2>2, <2>4, FS_Subset, FS_CardinalityType
  <2>6. s \in UserSem => Cardinality(SoftBlocked') <= Cardinality(SoftBlocked)
    BY <1>0, <2>3, FS_Subset
  <2> QED
    BY <1>0, <1>1, <1>3, <2>4, <2>5, <2>6
<1> QED
  BY <1>2, <1>3 DEF P

\* When those of W, blocked on devices or the clock, lose their p_semAdd.
LEMMA SoftAfterWake ==
  ASSUME Core, Core', NEW W \in SUBSET Proc,
         \A p \in W : semAdd[p] \in SoftSem,
         \A p \in Proc : semAdd'[p] = IF p \in W THEN NULL ELSE semAdd[p]
  PROVE  Cardinality(SoftBlocked') = Cardinality(SoftBlocked) - Cardinality(W)
<1>1. /\ (SoftBlocked = {p \in Proc : semAdd[p] \in SoftSem})'
      /\ SoftBlocked = {p \in Proc : semAdd[p] \in SoftSem}
      /\ IsFiniteSet(SoftBlocked)
  BY SoftBlockedIs, SoftBlockedNext
<1>2. NULL \notin SoftSem
  BY ConstantsAssumption DEF Sem
<1>3. SoftBlocked' = SoftBlocked \ W /\ SoftBlocked \cap W = W
  BY <1>1, <1>2
<1> QED
  BY <1>1, <1>3, FS_Difference

LEMMA HonestPasseren ==
  ASSUME Honest, Core', NEW s \in UserSem, Passeren(s)
  PROVE  Honest'
<1>1. /\ Core /\ Running /\ Interruptible /\ s \in Sem /\ P(s, softBlockCnt)
      /\ UNCHANGED poolVars /\ softBlockCnt' = softBlockCnt
  BY DEF Honest, Passeren, Running, Interruptible, Sem
<1>2. softBlockCnt' >= Cardinality(SoftBlocked')
  <2>1. /\ Cardinality(SoftBlocked) \in Nat /\ softBlockCnt \in Int
        /\ softBlockCnt >= Cardinality(SoftBlocked)
    BY <1>1, SoftBlockedIs DEF Honest, NoFalsePanic, Core, TypeOK
  <2>2. Cardinality(SoftBlocked') \in Nat
    BY SoftBlockedNext
  <2>3. Cardinality(SoftBlocked') <= Cardinality(SoftBlocked)
    BY <1>1, SoftAfterP
  <2> QED
    BY <1>1, <2>1, <2>2, <2>3
<1> QED
  BY <1>1, <1>2, SoftAfterP, StepHonest

LEMMA HonestSoftP ==
  ASSUME Honest, Core', Running, NEW s \in SoftSem, SoftP(s), UNCHANGED poolVars
  PROVE  Honest'
<1>1. /\ Core /\ Interruptible /\ s \in Sem /\ P(s, softBlockCnt + 1)
      /\ softBlockCnt' = softBlockCnt + 1
  BY DEF Honest, SoftP, Running, Interruptible, Sem
<1>2. softBlockCnt' >= Cardinality(SoftBlocked')
  <2>1. /\ Cardinality(SoftBlocked) \in Nat /\ softBlockCnt \in Int
        /\ softBlockCnt >= Cardinality(SoftBlocked)
    BY <1>1, SoftBlockedIs DEF Honest, NoFalsePanic, Core, TypeOK
  <2>2. Cardinality(SoftBlocked') \in Nat
    BY SoftBlockedNext
  <2>3. Cardinality(SoftBlocked') <= Cardinality(SoftBlocked) + 1
    BY <1>1, SoftAfterP
  <2> QED
    BY <1>1, <2>1, <2>2, <2>3
<1>3. \/ UNCHANGED cpu
      \/ \E q \in Seq(Proc) : SwitchProcess(q, procCnt, softBlockCnt')
  BY <1>1, SoftAfterP
<1> QED
  BY <1>1, <1>2, <1>3, StepHonest

\* A V by a program wakes nobody that softBlockCnt counts.
LEMMA HonestVerhogen ==
  ASSUME Honest, Core', NEW s \in UserSem, Verhogen(s)
  PROVE  Honest'
<1>1. /\ Core /\ Interruptible /\ {s} \in SUBSET Sem /\ V({s})
      /\ UNCHANGED poolVars /\ softBlockCnt' = softBlockCnt /\ cpu' = cpu
      /\ UserSem \cap SoftSem = {} /\ NULL \notin SoftSem
  BY ConstantsAssumption
  DEF Honest, Verhogen, Running, Interruptible, Sem
<1>2. /\ (SoftBlocked = {p \in Proc : semAdd[p] \in SoftSem})'
      /\ SoftBlocked = {p \in Proc : semAdd[p] \in SoftSem}
  BY <1>1, SoftBlockedIs, SoftBlockedNext
<1>3. /\ \A p \in WokenBy({s}) : semAdd[p] = s
      /\ \A p \in Proc : semAdd'[p] = IF p \in WokenBy({s}) THEN NULL ELSE semAdd[p]
  BY <1>1, VFacts
<1>4. SoftBlocked' = SoftBlocked
  BY <1>1, <1>2, <1>3
<1>5. softBlockCnt' >= Cardinality(SoftBlocked')
  BY <1>1, <1>4 DEF Honest, NoFalsePanic
<1> QED
  BY <1>1, <1>5, StepHonest

\* An interrupt that wakes the processes of t, all of them counted.
LEMMA HonestWake ==
  ASSUME Honest, Core', Interruptible, NEW t \in Seq(Proc), IsInjective(t),
         \A p \in ToSet(t) : semAdd[p] \in SoftSem,
         \A p \in Proc : semAdd'[p] = IF p \in ToSet(t) THEN NULL ELSE semAdd[p],
         softBlockCnt' = softBlockCnt - Len(t),
         Resume(readyQ \o t, softBlockCnt - Len(t)), UNCHANGED poolVars
  PROVE  Honest'
<1>1. /\ Core /\ softBlockCnt \in Int
      /\ Cardinality(SoftBlocked) \in Nat
      /\ softBlockCnt >= Cardinality(SoftBlocked)
  BY SoftBlockedIs DEF Honest, NoFalsePanic, Core, TypeOK
<1>2. Cardinality(ToSet(t)) = Len(t) /\ Len(t) \in Nat /\ ToSet(t) \in SUBSET Proc
  <2>1. ToSet(t) \in SUBSET Proc
    BY ElementOfSeq, LenProperties DEF ToSet
  <2> QED
    BY <2>1, LenIsCardinality, LenProperties
<1>3. Cardinality(SoftBlocked') = Cardinality(SoftBlocked) - Len(t)
  BY <1>1, <1>2, SoftAfterWake
<1>4. softBlockCnt' >= Cardinality(SoftBlocked')
  BY <1>1, <1>2, <1>3
<1>5. \/ UNCHANGED cpu
      \/ \E q \in Seq(Proc) : SwitchProcess(q, procCnt, softBlockCnt')
  <2>1. readyQ \o t \in Seq(Proc)
    BY <1>1, ConcatQ DEF Core, TypeOK
  <2> QED
    BY <2>1 DEF Resume
<1> QED
  BY <1>1, <1>4, <1>5, StepHonest

LEMMA HonestInterval == ASSUME Honest, Core', IntervalInterrupt PROVE Honest'
<1>1. Clock \in Sem /\ Clock \in SoftSem /\ Core
  BY DEF Sem, SoftSem, Honest
<1>2. /\ blockedQ[Clock] \in Seq(Proc) /\ IsInjective(blockedQ[Clock])
      /\ \A p \in ToSet(blockedQ[Clock]) : semAdd[p] \in SoftSem
  BY <1>1, QueuedFacts
<1>3. /\ \A p \in Proc :
           semAdd'[p] = IF p \in ToSet(blockedQ[Clock]) THEN NULL ELSE semAdd[p]
      /\ softBlockCnt' = softBlockCnt - Len(blockedQ[Clock])
      /\ Resume(readyQ \o blockedQ[Clock], softBlockCnt - Len(blockedQ[Clock]))
      /\ UNCHANGED poolVars /\ Interruptible
  BY DEF IntervalInterrupt
<1> QED
  BY <1>2, <1>3, HonestWake

LEMMA HonestComplete ==
  ASSUME Honest, Core', Interruptible, NEW S \in SUBSET IOSem,
         NEW woken \in Seq(Proc), ToSet(woken) = WokenBy(S), IsInjective(woken),
         Complete(S, woken)
  PROVE  Honest'
<1>1. S \in SUBSET Sem /\ S \subseteq SoftSem /\ V(S) /\ Core
  BY DEF Complete, Sem, SoftSem, Honest
<1>2. /\ \A p \in ToSet(woken) : semAdd[p] \in SoftSem
      /\ \A p \in Proc : semAdd'[p] = IF p \in ToSet(woken) THEN NULL ELSE semAdd[p]
  BY <1>1, VFacts
<1>3. /\ softBlockCnt' = softBlockCnt - Len(woken)
      /\ Resume(readyQ \o woken, softBlockCnt - Len(woken)) /\ UNCHANGED poolVars
  BY DEF Complete
<1> QED
  BY <1>2, <1>3, HonestWake

LEMMA HonestDevice ==
  ASSUME Honest, Core', NEW d \in DevSem, DeviceInterrupt(d)
  PROVE  Honest'
<1>1. d \in Sem /\ {d} \in SUBSET IOSem /\ Core
  BY ConstantsAssumption DEF DevSem, IOSem, Sem, SoftSem, Honest
<1>2. Woken(d) \in Seq(Proc) /\ IsInjective(Woken(d)) /\ WokenBy({d}) = ToSet(Woken(d))
  BY <1>1, WokenFacts DEF Core, WokenBy
<1> QED
  BY <1>1, <1>2, HonestComplete DEF DeviceInterrupt

LEMMA HonestTerminal ==
  ASSUME Honest, Core', NEW t \in Term, TerminalInterrupt(t)
  PROVE  Honest'
<1> DEFINE acked == {d \in {Tx(t), Rx(t)} : io[d] = "done"}
<1> DEFINE wokenBy(d) == IF d \in acked THEN Woken(d) ELSE <<>>
<1> DEFINE woken == wokenBy(Tx(t)) \o wokenBy(Rx(t))
<1>1. Interruptible /\ Complete(acked, woken) /\ Core
  BY DEF TerminalInterrupt, Honest
<1>2. acked \in SUBSET {Tx(t), Rx(t)}
  OBVIOUS
<1> HIDE DEF acked
<1>3. acked \in SUBSET IOSem /\ woken \in Seq(Proc) /\ IsInjective(woken)
      /\ ToSet(woken) = WokenBy(acked)
  BY <1>1, <1>2, TerminalFacts
<1> QED
  BY <1>1, <1>3, HonestComplete

LEMMA HonestPlt == ASSUME Honest, Core', PltInterrupt PROVE Honest'
<1>1. /\ SwitchProcess(Append(readyQ, currProc), procCnt, softBlockCnt')
      /\ UNCHANGED poolVars /\ Interruptible /\ SoftBlocked' = SoftBlocked
      /\ softBlockCnt' = softBlockCnt
  BY DEF PltInterrupt, Interruptible, SoftBlocked, Waiting
<1>2. Append(readyQ, currProc) \in Seq(Proc)
  <2>1. readyQ \in Seq(Proc) /\ currProc \in Proc
    BY DEF Honest, Core, TypeOK, WorkConserving, PltInterrupt
  <2> QED
    BY <2>1, AppendQ
<1>3. softBlockCnt' >= Cardinality(SoftBlocked')
  BY <1>1 DEF Honest, NoFalsePanic
<1> QED
  BY <1>1, <1>2, <1>3, StepHonest

\* A step that only touches io, or none.
LEMMA HonestElsewhere ==
  ASSUME Honest, Core',
         UNCHANGED <<free, procCnt, softBlockCnt, blockedQ, parent, cpu>>
  PROVE  Honest'
BY DEF Honest, TreeSound, HaltsWhenDone, NoFalsePanic, SoftBlocked, Waiting, Live

LEMMA HonestInit == Init => Honest
<1> SUFFICES ASSUME Init PROVE Honest
  OBVIOUS
<1>1. Core /\ NULL \notin Proc
  BY CoreInit, ConstantsAssumption
<1>2. PICK p \in Proc : free = Proc \ {p} /\ currProc = p
  BY DEF Init
<1>3. Live = {p} /\ Cardinality({p}) = 1
  BY <1>2, FS_Singleton DEF Live
<1>4. SoftBlocked = {} /\ Cardinality({}) = 0
  <2>1. \A s \in SoftSem : ToSet(blockedQ[s]) = {}
    BY EmptyQ DEF Init, Sem
  <2> QED
    BY <2>1, FS_EmptySet DEF SoftBlocked, Waiting
<1>5. TreeSound
  BY DEF Init, TreeSound
<1>6. HaltsWhenDone /\ NoFalsePanic
  BY <1>3, <1>4 DEF Init, HaltsWhenDone, NoFalsePanic
<1> QED
  BY <1>1, <1>5, <1>6 DEF Honest

LEMMA HonestStep == ASSUME Honest, Core', [Next]_vars PROVE Honest'
<1>0. softBlockCnt \in Int /\ softBlockCnt + 1 \in Int
      /\ softBlockCnt >= softBlockCnt /\ softBlockCnt + 1 >= softBlockCnt
  BY DEF Honest, Core, TypeOK
<1>1. CASE CreateProcess
  BY <1>1, HonestCreate
<1>2. CASE TerminateProcess
  BY <1>0, <1>2, HonestDie DEF TerminateProcess
<1>3. CASE WaitForBadLine
  BY <1>0, <1>3, HonestDie DEF WaitForBadLine
<1>4. ASSUME NEW s \in UserSem, Passeren(s) PROVE Honest'
  BY <1>4, HonestPasseren
<1>5. ASSUME NEW s \in UserSem, Verhogen(s) PROVE Honest'
  BY <1>5, HonestVerhogen
<1>6. ASSUME NEW d \in IOSem, DevCommand(d) \/ DeviceCompletes(d) PROVE Honest'
  BY <1>6, HonestElsewhere DEF DevCommand, DeviceCompletes, poolVars
<1>7. ASSUME NEW d \in IOSem, WaitForIO(d) PROVE Honest'
  BY <1>7, HonestSoftP DEF WaitForIO, SoftSem
<1>8. CASE WaitForClock
  BY <1>8, HonestSoftP DEF WaitForClock, SoftSem
<1>9. CASE PltInterrupt
  BY <1>9, HonestPlt
<1>10. CASE IntervalInterrupt
  BY <1>10, HonestInterval
<1>11. ASSUME NEW d \in DevSem, DeviceInterrupt(d) PROVE Honest'
  BY <1>11, HonestDevice
<1>12. ASSUME NEW t \in Term, TerminalInterrupt(t) PROVE Honest'
  BY <1>12, HonestTerminal
<1>13. CASE Stopped \/ UNCHANGED vars
  BY <1>13, HonestElsewhere DEF Stopped, vars
<1> QED
  BY <1>1, <1>2, <1>3, <1>4, <1>5, <1>6, <1>7, <1>8, <1>9, <1>10, <1>11,
     <1>12, <1>13 DEF Next

-----------------------------------------------------------------------------

THEOREM HonestInvariant == Spec => []Honest
<1>1. Honest => Core
  BY DEF Honest
<1>2. Honest /\ Core' /\ [Next]_vars => Honest'
  BY HonestStep
<1> QED
  BY HonestInit, CoreInvariant, <1>1, <1>2, PTL DEF Spec

\* Terminating a process terminates all its descendants with it.
THEOREM TreeCorrect == Spec => []TreeSound
<1>1. Honest => TreeSound
  BY DEF Honest
<1> QED
  BY HonestInvariant, <1>1, PTL

\* procCnt counts the live processes, and the machine halts with the last.
THEOREM HaltCorrect == Spec => []HaltsWhenDone
<1>1. Honest => HaltsWhenDone
  BY DEF Honest
<1> QED
  BY HonestInvariant, <1>1, PTL

\* softBlockCnt may be too high but never too low: whenever the scheduler
\* panics, every live process waits for a V that only another could give.
THEOREM PanicCorrect == Spec => []NoFalsePanic
<1>1. Honest => NoFalsePanic
  BY DEF Honest
<1> QED
  BY HonestInvariant, <1>1, PTL

-----------------------------------------------------------------------------
(* The nucleus implements ProcessService.                                  *)

\* The machine waits only when softBlockCnt says that somebody is blocked.
WaitCounted == cpu = "wait" => softBlockCnt > 0

\* What the refinement rests on.
Sound == Honest /\ Owed /\ WaitCounted

\* The refinement mapping, by name: the value the service sees, and what it
\* comes to when the value is negative by the number of waiters.
Held == [s \in UserSem |-> sem[s] + Len(blockedQ[s])]
Units == [s \in UserSem |-> IF sem[s] > 0 THEN sem[s] ELSE 0]
UserQs == [s \in UserSem |-> blockedQ[s]]
Off == cpu \in {"halt", "panic"}

\* The scheduler waits only on account of softBlockCnt.
LEMMA SwitchWait ==
  ASSUME NEW q, NEW cnt, SwitchProcess(q, cnt, softBlockCnt')
  PROVE  WaitCounted'
BY DEF SwitchProcess, IdleState, WaitCounted

\* The end of an interrupt handler, too.
LEMMA ResumeWait ==
  ASSUME WorkConserving, Interruptible, NEW q, Resume(q, softBlockCnt')
  PROVE  WaitCounted'
<1>1. CASE currProc # NULL /\ UNCHANGED cpu
  BY <1>1 DEF WorkConserving, WaitCounted
<1>2. CASE SwitchProcess(q, procCnt, softBlockCnt')
  BY <1>2, SwitchWait
<1> QED
  BY <1>1, <1>2 DEF Resume

\* Every step.
LEMMA WaitStep == ASSUME Core, WaitCounted, [Next]_vars PROVE WaitCounted'
<1>1. CASE UNCHANGED <<cpu, softBlockCnt>>
  BY <1>1 DEF WaitCounted
<1>2. CASE cpu = "run" /\ UNCHANGED cpu
  BY <1>2 DEF WaitCounted
<1>3. ASSUME NEW s, NEW soft, P(s, soft), softBlockCnt' = soft, cpu = "run"
      PROVE  WaitCounted'
  BY <1>2, <1>3, SwitchWait DEF P
<1>4. ASSUME NEW S, NEW w, Complete(S, w), Interruptible PROVE WaitCounted'
  BY <1>4, ResumeWait DEF Complete, Core
<1>5. CASE TerminateProcess \/ WaitForBadLine
  BY <1>5, SwitchWait DEF TerminateProcess, WaitForBadLine, Die
<1>6. CASE PltInterrupt
  BY <1>6, SwitchWait DEF PltInterrupt
<1>7. CASE IntervalInterrupt
  BY <1>7, ResumeWait DEF IntervalInterrupt, Core
<1>8. CASE WaitForClock
  BY <1>3, <1>8 DEF WaitForClock, SoftP, Running
<1>9. ASSUME NEW s \in UserSem, Passeren(s) PROVE WaitCounted'
  BY <1>3, <1>9 DEF Passeren, Running
<1>10. ASSUME NEW d \in IOSem, WaitForIO(d) PROVE WaitCounted'
  BY <1>3, <1>10 DEF WaitForIO, SoftP, Running
<1>11. ASSUME NEW s \in UserSem, Verhogen(s) PROVE WaitCounted'
  BY <1>1, <1>11 DEF Verhogen
<1>12. ASSUME NEW d \in DevSem, DeviceInterrupt(d) PROVE WaitCounted'
  BY <1>4, <1>12 DEF DeviceInterrupt
<1>13. ASSUME NEW t \in Term, TerminalInterrupt(t) PROVE WaitCounted'
  BY <1>4, <1>13 DEF TerminalInterrupt
<1>14. ASSUME NEW d \in IOSem, DevCommand(d) \/ DeviceCompletes(d) PROVE WaitCounted'
  BY <1>1, <1>14 DEF DevCommand, DeviceCompletes
<1>15. CASE CreateProcess \/ Stopped \/ UNCHANGED vars
  BY <1>1, <1>15 DEF CreateProcess, Stopped, vars
<1> QED
  BY <1>5, <1>6, <1>7, <1>8, <1>9, <1>10, <1>11, <1>12, <1>13, <1>14, <1>15 DEF Next

\* Sound is an invariant.
THEOREM SoundInvariant == Spec => []Sound
<1>1. Init => WaitCounted
  BY DEF Init, WaitCounted
<1>2. Core /\ WaitCounted /\ [Next]_vars => WaitCounted'
  BY WaitStep
<1>3. Sound <=> Honest /\ Owed /\ WaitCounted
  BY DEF Sound
<1> QED
  BY <1>1, <1>2, <1>3, CoreInvariant, HonestInvariant, OwedInvariant, PTL DEF Spec

\* When the values of the semaphores are right, the service sees the units
\* nobody has taken.
LEMMA UnitsHeld == Core /\ UserSemCounts => Held = Units
<1> SUFFICES ASSUME Core, UserSemCounts, NEW s \in UserSem
             PROVE  sem[s] + Len(blockedQ[s]) = IF sem[s] > 0 THEN sem[s] ELSE 0
  BY DEF Held, Units
<1>1. s \in Sem /\ sem[s] \in Int
  BY ConstantsAssumption DEF Core, TypeOK, Sem
<1>2. Len(blockedQ[s]) = IF sem[s] < 0 THEN -sem[s] ELSE 0
  BY DEF UserSemCounts
<1> QED
  BY <1>1, <1>2

\* Those alive in the service are the live processes of the nucleus.
LEMMA AliveIs == ASSUME Core PROVE Service!Alive = Live
<1>1. Service!Queued = Waiting(UserSem)
  <2>1. \A s : Service!ToSet(s) = ToSet(s)
    BY DEF Service!ToSet, ToSet
  <2> QED
    BY <2>1 DEF Service!Queued, Waiting
<1> QED
  BY <1>1, LiveIs DEF Service!Alive, Runnable

\* The service takes processes out of a queue as the nucleus does.
LEMMA SameWithout == ASSUME NEW q, NEW D PROVE Service!Without(q, D) = Without(q, D)
BY DEF Service!Without, Service!Kept, Service!Rank, Service!Cardinality,
       Without, Kept, Rank, Cardinality

\* When the nucleus stops, nobody is left who could run, now or later.
LEMMA StopsRightly == Honest => (Off => Runnable = {} /\ SoftBlocked = {})
<1> SUFFICES ASSUME Honest, Off PROVE Runnable = {} /\ SoftBlocked = {}
  OBVIOUS
<1>1. Core /\ Live = Runnable \cup Waiting(UserSem) \cup SoftBlocked
  BY LiveIs DEF Honest
<1>2. CASE cpu = "halt"
  BY <1>1, <1>2 DEF Honest, HaltsWhenDone
<1>3. CASE cpu = "panic"
  <2>1. Live = Waiting(UserSem)
    BY <1>3 DEF Honest, NoFalsePanic
  <2>2. Runnable = {}
    <3>1. currProc = NULL /\ readyQ = <<>> /\ ToSet(<<>>) = {}
      BY <1>1, <1>3, EmptyQ DEF Core, WorkConserving
    <3> QED
      BY <3>1 DEF Runnable
  <2>3. SoftBlocked \cap Waiting(UserSem) = {}
    <3>1. UserSem \cap SoftSem = {} /\ UserSem \subseteq Sem /\ SoftSem \subseteq Sem
      BY ConstantsAssumption DEF Sem
    <3>2. ASSUME NEW p \in SoftBlocked, p \in Waiting(UserSem) PROVE FALSE
      <4>1. PICK s \in SoftSem, t \in UserSem : p \in ToSet(blockedQ[s]) /\ p \in ToSet(blockedQ[t])
        BY <3>2 DEF SoftBlocked, Waiting
      <4> QED
        BY <1>1, <3>1, <4>1, QueuedFacts
    <3> QED
      BY <3>2
  <2> QED
    BY <1>1, <2>1, <2>2, <2>3
<1> QED
  BY <1>2, <1>3 DEF Off

\* One of the steps of the service, taken while the machine is on.
LEMMA Shown ==
  ASSUME Interruptible, Runnable \cup SoftBlocked # {}, Honest',
         \/ \E p \in Proc : Service!Fork(p) \/ Service!Sleep(p)
         \/ \E s \in UserSem : Service!Take(s) \/ Service!Give(s) \/ Service!Hand(s)
         \/ \E s \in UserSem, p \in Proc : Service!Wait(s, p)
         \/ \E S \in SUBSET SoftBlocked : Service!WakeUp(S)
         \/ \E D \in SUBSET Service!Alive : Service!Exit(D)
  PROVE  Service!Next
<1>1. ~(cpu \in {"halt", "panic"})
  BY DEF Interruptible
<1>2. ToSet(readyQ) \cup (({currProc}) \ {NULL}) \cup SoftBlocked # {}
  BY DEF Runnable
<1>3. Service!MayStop
  <2>1. Honest' => (Off => Runnable = {} /\ SoftBlocked = {})'
    BY StopsRightly, PTL
  <2>2. Off' => Runnable' = {} /\ SoftBlocked' = {}
    BY <2>1
  <2> QED
    BY <2>2 DEF Service!MayStop, Off, Runnable
<1> QED
  BY <1>1, <1>2, <1>3 DEF Service!Next

\* A step the service does not see.
LEMMA Hidden ==
  ASSUME Held = Units, Held' = Units', Runnable' = Runnable,
         SoftBlocked' = SoftBlocked, UserQs' = UserQs, Units' = Units, Off' = Off
  PROVE  UNCHANGED Service!serviceVars
BY DEF Service!serviceVars, Runnable, UserQs, Units, Held, Off

\* A step as the service sees it.
ServiceStep == Service!Next \/ UNCHANGED Service!serviceVars

\* While a program runs, somebody is runnable.
LEMMA SomeoneRuns ==
  ASSUME Core, cpu = "run"
  PROVE  /\ currProc \in Proc /\ currProc \in Runnable /\ currProc # NULL
         /\ Interruptible
BY DEF Core, TypeOK, WorkConserving, Runnable, Interruptible

\* SYS1.
LEMMA SeeCreate ==
  ASSUME Sound, Honest', Held = Units, Held' = Units', CreateProcess
  PROVE  ServiceStep
<1>1. /\ Core /\ cpu = "run"
      /\ UNCHANGED <<currProc, blockedQ, sem, cpu>>
  BY DEF Sound, Honest, CreateProcess, Running
<1>2. /\ SoftBlocked' = SoftBlocked /\ UserQs' = UserQs /\ Units' = Units /\ Off' = Off
  BY <1>1 DEF SoftBlocked, Waiting, UserQs, Units, Off
<1>3. CASE UNCHANGED readyQ
  BY <1>1, <1>2, <1>3, Hidden DEF ServiceStep, Runnable
<1>4. ASSUME NEW p \in free, readyQ' = Append(readyQ, p) PROVE ServiceStep
  <2>1. p \in Proc /\ p \notin Service!Alive
    BY <1>1, AliveIs DEF Core, TypeOK, Live
  <2>2. Runnable' = Runnable \cup {p}
    <3>1. ToSet(readyQ') = ToSet(readyQ) \cup {p}
      BY <1>1, <1>4, <2>1, AppendQ DEF Core, TypeOK
    <3>2. p # NULL
      BY <2>1, ConstantsAssumption
    <3> QED
      BY <1>1, <3>1, <3>2 DEF Runnable
  <2>3. Service!Fork(p)
    BY <1>2, <2>1, <2>2 DEF Service!Fork, Runnable, UserQs, Units, Held
  <2> QED
    BY <1>1, <2>1, <2>3, SomeoneRuns, Shown DEF ServiceStep
<1> QED
  BY <1>3, <1>4 DEF CreateProcess

\* SYS3 takes a unit or waits for one.
LEMMA SeePasseren ==
  ASSUME Sound, Honest', Held = Units, Held' = Units', NEW s \in UserSem, Passeren(s)
  PROVE  ServiceStep
<1>1. /\ Core /\ Running /\ cpu = "run" /\ s \in Sem /\ s \notin SoftSem
      /\ P(s, softBlockCnt)
      /\ sem \in [Sem -> Int] /\ blockedQ \in [Sem -> Seq(Proc)]
      /\ UserSem \subseteq Sem /\ SoftSem \subseteq Sem
  BY ConstantsAssumption DEF Sound, Honest, Core, TypeOK, Passeren, Running, Sem
<1>2. sem' = [sem EXCEPT ![s] = @ - 1]
  BY <1>1 DEF P
<1>3. CASE sem[s] - 1 >= 0 /\ UNCHANGED <<readyQ, currProc, blockedQ, semAdd, cpu>>
  <2>1. Runnable' = Runnable /\ SoftBlocked' = SoftBlocked /\ UserQs' = UserQs
    BY <1>3 DEF Runnable, SoftBlocked, Waiting, UserQs
  <2>2. Units[s] > 0 /\ Units' = [Units EXCEPT ![s] = @ - 1]
    <3>1. sem[s] > 0 /\ sem'[s] = sem[s] - 1 /\ Units[s] = sem[s]
      BY <1>1, <1>2, <1>3 DEF Units
    <3>2. \A t \in UserSem : t # s => sem'[t] = sem[t]
      BY <1>1, <1>2
    <3>3. (IF sem'[s] > 0 THEN sem'[s] ELSE 0) = sem[s] - 1
      BY <1>1, <3>1
    <3> QED
      BY <3>1, <3>2, <3>3 DEF Units
  <2>3. Service!Take(s)
    BY <2>1, <2>2 DEF Service!Take, Runnable, UserQs, Units, Held
  <2> QED
    BY <1>1, <2>3, SomeoneRuns, Shown DEF ServiceStep
<1>4. CASE sem[s] - 1 < 0 /\ BlockCurrProc(s) /\ SwitchProcess(readyQ, procCnt, softBlockCnt)
  <2>1. blockedQ' = [blockedQ EXCEPT ![s] = Append(@, currProc)]
    BY <1>1, <1>4, DescriptorLeft DEF BlockCurrProc
  <2>2. SoftBlocked' = SoftBlocked
    <3>1. \A t \in SoftSem : blockedQ'[t] = blockedQ[t]
      BY <1>1, <2>1
    <3> QED
      BY <3>1 DEF SoftBlocked, Waiting
  <2>3. UserQs' = [UserQs EXCEPT ![s] = Append(@, currProc)]
    BY <1>1, <2>1 DEF UserQs
  <2>4. Units' = Units /\ Units[s] = 0
    BY <1>1, <1>2, <1>4 DEF Units
  <2>5. Runnable' = Runnable \ {currProc}
    <3>1. Runnable' = ToSet(readyQ)
      BY <1>1, <1>4, SwitchFacts DEF Core, TypeOK
    <3>2. currProc \notin ToSet(readyQ)
      BY <1>1 DEF Core, Queues
    <3> QED
      BY <3>1, <3>2 DEF Runnable
  <2>6. PICK p \in Proc : p = currProc
    BY <1>1, SomeoneRuns
  <2>7. Service!Wait(s, p)
    BY <1>1, <2>2, <2>3, <2>4, <2>5, <2>6, SomeoneRuns
    DEF Service!Wait, Runnable, UserQs, Units, Held
  <2> QED
    BY <1>1, <2>7, SomeoneRuns, Shown DEF ServiceStep
<1> QED
  BY <1>1, <1>3, <1>4 DEF P

\* SYS5 and SYS7 put the caller to sleep, or let it go on.
LEMMA SeeSoftP ==
  ASSUME Sound, Honest', Held = Units, Held' = Units', Running, NEW s \in SoftSem, SoftP(s)
  PROVE  ServiceStep
<1>1. /\ Core /\ cpu = "run" /\ s \in Sem /\ s \notin UserSem
      /\ P(s, softBlockCnt + 1)
      /\ sem \in [Sem -> Int] /\ blockedQ \in [Sem -> Seq(Proc)]
      /\ UserSem \subseteq Sem /\ SoftSem \subseteq Sem
  BY ConstantsAssumption DEF Sound, Honest, Core, TypeOK, SoftP, Running, Sem
<1>2. sem' = [sem EXCEPT ![s] = @ - 1]
  BY <1>1 DEF P
<1>3. Units' = Units
  BY <1>1, <1>2 DEF Units
<1>4. CASE UNCHANGED <<readyQ, currProc, blockedQ, semAdd, cpu>>
  BY <1>3, <1>4, Hidden DEF ServiceStep, Runnable, SoftBlocked, Waiting, UserQs, Off
<1>5. CASE BlockCurrProc(s) /\ SwitchProcess(readyQ, procCnt, softBlockCnt + 1)
  <2>1. blockedQ' = [blockedQ EXCEPT ![s] = Append(@, currProc)]
    BY <1>1, <1>5, DescriptorLeft DEF BlockCurrProc
  <2>2. currProc \in Proc /\ currProc \in Runnable
    BY <1>1, SomeoneRuns
  <2>3. SoftBlocked' = SoftBlocked \cup {currProc}
    <3>1. ToSet(blockedQ'[s]) = ToSet(blockedQ[s]) \cup {currProc}
      BY <1>1, <2>1, <2>2, AppendQ
    <3>2. \A t \in SoftSem : t # s => blockedQ'[t] = blockedQ[t]
      BY <1>1, <2>1
    <3> QED
      BY <3>1, <3>2 DEF SoftBlocked, Waiting
  <2>4. UserQs' = UserQs
    BY <1>1, <2>1 DEF UserQs
  <2>5. Runnable' = Runnable \ {currProc}
    <3>1. Runnable' = ToSet(readyQ)
      BY <1>1, <1>5, SwitchFacts DEF Core, TypeOK
    <3>2. currProc \notin ToSet(readyQ)
      BY <1>1 DEF Core, Queues
    <3> QED
      BY <3>1, <3>2 DEF Runnable
  <2>6. Service!Sleep(currProc)
    BY <1>3, <2>2, <2>3, <2>4, <2>5 DEF Service!Sleep, Runnable, UserQs, Units, Held
  <2> QED
    BY <1>1, <2>2, <2>6, SomeoneRuns, Shown DEF ServiceStep
<1> QED
  BY <1>1, <1>4, <1>5 DEF P

\* SYS4 gives its unit to the first who waits, or leaves it. On a semaphore
\* below 0 for which nobody waits any more the unit is lost.
LEMMA SeeVerhogen ==
  ASSUME Sound, Honest', Held = Units, Held' = Units', NEW s \in UserSem, Verhogen(s)
  PROVE  ServiceStep
<1>1. /\ Core /\ TypeOK /\ cpu = "run" /\ s \in Sem /\ s \notin SoftSem
      /\ V({s}) /\ readyQ' = readyQ \o Woken(s) /\ UNCHANGED <<currProc, cpu>>
      /\ sem[s] \in Int /\ blockedQ[s] \in Seq(Proc) /\ readyQ \in Seq(Proc)
      /\ UserSem \subseteq Sem /\ SoftSem \subseteq Sem
  BY ConstantsAssumption DEF Sound, Honest, Core, TypeOK, Verhogen, Running, Sem
<1>2. /\ SoftBlocked' = SoftBlocked /\ Off' = Off
  <2>1. \A t \in SoftSem : blockedQ'[t] = blockedQ[t]
    BY <1>1 DEF V
  <2> QED
    BY <1>1, <2>1 DEF SoftBlocked, Waiting, Off
<1>3. \A t \in UserSem : t # s => sem'[t] = sem[t] /\ blockedQ'[t] = blockedQ[t]
  BY <1>1 DEF V
<1>4. sem'[s] = sem[s] + 1
  BY <1>1 DEF V
<1>5. Woken(s) \in Seq(Proc) /\ ToSet(readyQ') = ToSet(readyQ) \cup ToSet(Woken(s))
  BY <1>1, WokenFacts, ConcatQ
<1>6. CASE blockedQ[s] # <<>>
  <2>1. sem[s] + 1 <= 0
    <3>1. sem[s] <= -Len(blockedQ[s]) /\ Len(blockedQ[s]) \in Nat /\ Len(blockedQ[s]) # 0
      BY <1>1, <1>6, EmptyQ, LenProperties DEF Sound, Owed
    <3> QED
      BY <1>1, <3>1
  <2>2. Woken(s) = <<Head(blockedQ[s])>> /\ Head(blockedQ[s]) \in Proc
    BY <1>1, <1>6, <2>1, HeadTailQ DEF Woken
  <2>3. blockedQ'[s] = Tail(blockedQ[s])
    <3>1. Woken(s) # <<>>
      BY <2>2
    <3> QED
      BY <1>1, <3>1 DEF V
  <2>4. UserQs' = [UserQs EXCEPT ![s] = Tail(@)] /\ UserQs[s] = blockedQ[s]
    BY <1>3, <2>3 DEF UserQs
  <2>5. Units' = Units
    BY <1>1, <1>3, <1>4, <2>1 DEF Units
  <2>6. Runnable' = Runnable \cup {Head(blockedQ[s])}
    <3>1. ToSet(Woken(s)) = {Head(blockedQ[s])}
      BY <2>2 DEF ToSet
    <3>2. Head(blockedQ[s]) # NULL
      BY <2>2, ConstantsAssumption
    <3> QED
      BY <1>1, <1>5, <3>1, <3>2 DEF Runnable
  <2>7. Service!Hand(s)
    BY <1>2, <1>6, <2>4, <2>5, <2>6 DEF Service!Hand, Runnable, UserQs, Units, Held
  <2> QED
    BY <1>1, <2>7, SomeoneRuns, Shown DEF ServiceStep
<1>7. CASE blockedQ[s] = <<>>
  <2>1. Woken(s) = <<>> /\ ToSet(<<>>) = {}
    BY <1>7, EmptyQ DEF Woken
  <2>2. Runnable' = Runnable
    BY <1>1, <1>5, <2>1 DEF Runnable
  <2>3. UserQs' = UserQs /\ UserQs[s] = <<>>
    <3>1. blockedQ'[s] = blockedQ[s]
      BY <1>1, <2>1 DEF V
    <3> QED
      BY <1>3, <1>7, <3>1 DEF UserQs
  <2>4. CASE sem[s] >= 0
    <3>1. Units' = [Units EXCEPT ![s] = @ + 1]
      <4>1. Units[s] = sem[s] /\ (IF sem'[s] > 0 THEN sem'[s] ELSE 0) = sem[s] + 1
        BY <1>1, <1>4, <2>4 DEF Units
      <4> QED
        BY <1>3, <4>1 DEF Units
    <3>2. Service!Give(s)
      BY <1>2, <2>2, <2>3, <3>1 DEF Service!Give, Runnable, UserQs, Units, Held
    <3> QED
      BY <1>1, <3>2, SomeoneRuns, Shown DEF ServiceStep
  <2>5. CASE sem[s] < 0
    <3>1. Units' = Units
      BY <1>1, <1>3, <1>4, <2>5 DEF Units
    <3> QED
      BY <1>2, <2>2, <2>3, <3>1, Hidden DEF ServiceStep
  <2> QED
    BY <1>1, <2>4, <2>5
<1> QED
  BY <1>6, <1>7

\* A death is the exit of a subtree.
LEMMA SeeDie ==
  ASSUME Sound, Honest', Held = Units, Held' = Units', Running, NEW soft, Die(soft)
  PROVE  ServiceStep
<1> DEFINE dead == Subtree(currProc)
           here(s) == {p \in dead : semAdd[p] = s}
<1>1. /\ Core /\ Core' /\ cpu = "run" /\ TreeSound
      /\ sem \in [Sem -> Int] /\ blockedQ \in [Sem -> Seq(Proc)]
      /\ UserSem \subseteq Sem /\ SoftSem \subseteq Sem
  BY DEF Sound, Honest, Core, TypeOK, Running, Sem
<1>2. /\ blockedQ' = [s \in Sem |-> Without(blockedQ[s], here(s))]
      /\ \A s \in Sem : sem'[s] =
           IF TakenForDevice(s) THEN sem[s]
           ELSE sem[s] + (Len(blockedQ[s]) - Len(Without(blockedQ[s], here(s))))
      /\ SwitchProcess(Without(readyQ, dead \ {currProc}), procCnt - Cardinality(dead), soft)
  BY DEF Die
<1>3. dead \subseteq Live /\ currProc \in dead
  <2>1. currProc \in Proc /\ currProc \in Live
    BY <1>1, SomeoneRuns DEF Core, Places, Live
  <2> QED
    BY <1>1, <2>1, SubtreeLive DEF Subtree
<1> HIDE DEF dead
<1>4. Runnable' = Runnable \ dead
  <2>1. /\ readyQ \in Seq(Proc) /\ currProc \notin ToSet(readyQ)
    BY <1>1 DEF Core, TypeOK, Queues
  <2>2. /\ Without(readyQ, dead \ {currProc}) \in Seq(Proc)
        /\ ToSet(Without(readyQ, dead \ {currProc})) = ToSet(readyQ) \ (dead \ {currProc})
    BY <2>1, WithoutQ
  <2>3. Runnable' = ToSet(readyQ) \ (dead \ {currProc})
    BY <1>2, <2>2, SwitchFacts
  <2> QED
    BY <1>3, <2>1, <2>3 DEF Runnable
<1>5. ASSUME NEW s \in Sem
      PROVE  /\ blockedQ'[s] = Without(blockedQ[s], dead)
             /\ ToSet(blockedQ'[s]) = ToSet(blockedQ[s]) \ dead
             /\ Len(blockedQ'[s]) <= Len(blockedQ[s])
  <2>1. blockedQ[s] \in Seq(Proc) /\ \A p \in ToSet(blockedQ[s]) : semAdd[p] = s
    BY <1>1, QueuedFacts
  <2>2. Kept(blockedQ[s], here(s)) = Kept(blockedQ[s], dead)
    BY <2>1 DEF Kept, ToSet
  <2>3. blockedQ'[s] = Without(blockedQ[s], dead)
    <3>1. blockedQ'[s] = Without(blockedQ[s], here(s))
      BY <1>2
    <3> HIDE DEF here
    <3> QED
      BY <2>2, <3>1, WithoutSame
  <2> QED
    BY <2>1, <2>3, WithoutQ
<1>6. SoftBlocked' = SoftBlocked \ dead
  BY <1>1, <1>5 DEF SoftBlocked, Waiting
<1>7. UserQs' = [s \in UserSem |-> Without(UserQs[s], dead)]
  BY <1>1, <1>5 DEF UserQs
<1>8. Units' = Units
  <2>1. ASSUME NEW s \in UserSem
        PROVE  (IF sem'[s] > 0 THEN sem'[s] ELSE 0) = (IF sem[s] > 0 THEN sem[s] ELSE 0)
    <3> DEFINE old == Len(blockedQ[s])
               new == Len(blockedQ'[s])
    <3>1. /\ s \in Sem /\ sem[s] \in Int /\ old \in Nat /\ new \in Nat /\ new <= old
          /\ sem'[s] = IF TakenForDevice(s) THEN sem[s] ELSE sem[s] + (old - new)
      <4>1. s \in Sem /\ blockedQ'[s] \in Seq(Proc) /\ blockedQ[s] \in Seq(Proc)
        BY <1>1 DEF Core, TypeOK
      <4>2. blockedQ'[s] = Without(blockedQ[s], here(s))
        BY <1>2, <4>1
      <4> HIDE DEF here
      <4> QED
        BY <1>1, <1>2, <1>5, <4>1, <4>2, LenProperties
    <3>2. old # 0 => sem[s] <= -old
      BY <1>1, <3>1, EmptyQ DEF Sound, Owed
    <3> HIDE DEF old, new
    <3>3. CASE sem'[s] = sem[s]
      BY <3>3
    <3>4. CASE sem'[s] = sem[s] + (old - new) /\ old # 0
      <4>1. sem[s] <= 0 /\ sem'[s] <= 0
        BY <3>1, <3>2, <3>4
      <4>2. ~(sem[s] > 0) /\ ~(sem'[s] > 0)
        BY <3>1, <3>4, <4>1
      <4> QED
        BY <4>2
    <3>5. CASE sem'[s] = sem[s] + (old - new) /\ old = 0
      <4>1. sem'[s] = sem[s]
        BY <3>1, <3>5
      <4> QED
        BY <4>1
    <3> QED
      BY <3>1, <3>3, <3>4, <3>5
  <2> QED
    BY <2>1 DEF Units
<1>9. PICK D : D = dead
  OBVIOUS
<1>10. Service!Exit(D)
  <2>1. D \cap Runnable # {}
    BY <1>1, <1>3, <1>9, SomeoneRuns
  <2>2. UserQs' = [s \in UserSem |-> Service!Without(UserQs[s], D)]
    BY <1>7, <1>9, SameWithout
  <2> QED
    BY <1>4, <1>6, <1>8, <1>9, <2>1, <2>2 DEF Service!Exit, Runnable, UserQs, Units, Held
<1>11. D \in SUBSET Service!Alive
  BY <1>1, <1>3, <1>9, AliveIs
<1>12. Runnable \cup SoftBlocked # {} /\ Interruptible
  BY <1>1, SomeoneRuns
<1> QED
  BY <1>10, <1>11, <1>12, Shown DEF ServiceStep

\* The end of an interrupt handler that has woken those of t.
LEMMA SeeWake ==
  ASSUME Sound, Honest', Held = Units, Held' = Units', Interruptible, NEW t \in Seq(Proc),
         \A p \in ToSet(t) : semAdd[p] \in SoftSem,
         \A p \in Proc : semAdd'[p] = IF p \in ToSet(t) THEN NULL ELSE semAdd[p],
         softBlockCnt' = softBlockCnt - Len(t),
         Resume(readyQ \o t, softBlockCnt - Len(t)),
         UserQs' = UserQs, Units' = Units
  PROVE  ServiceStep
<1>1. Core /\ Core' /\ TypeOK /\ WorkConserving /\ softBlockCnt \in Int
  BY DEF Sound, Honest, Core, TypeOK
<1>2. Runnable' = Runnable \cup ToSet(t)
  BY <1>1, ResumeFacts
<1>3. /\ SoftBlocked' = SoftBlocked \ ToSet(t)
      /\ ToSet(t) \subseteq SoftBlocked
  <2>1. /\ (SoftBlocked = {p \in Proc : semAdd[p] \in SoftSem})'
        /\ SoftBlocked = {p \in Proc : semAdd[p] \in SoftSem}
    BY <1>1, SoftBlockedIs, SoftBlockedNext
  <2>2. NULL \notin SoftSem
    BY ConstantsAssumption DEF Sem
  <2>3. ToSet(t) \subseteq Proc
    BY ElementOfSeq, LenProperties DEF ToSet
  <2> QED
    BY <2>1, <2>2, <2>3
<1>4. CASE t # <<>>
  <2>1. ToSet(t) # {}
    BY <1>4, EmptyQ
  <2>2. Service!WakeUp(ToSet(t))
    BY <1>2, <1>3, <2>1 DEF Service!WakeUp, Runnable, UserQs, Units, Held
  <2>3. Runnable \cup SoftBlocked # {}
    BY <1>3, <2>1
  <2> QED
    BY <1>3, <2>2, <2>3, Shown DEF ServiceStep
<1>5. CASE t = <<>>
  <2>1. /\ ToSet(t) = {} /\ Len(t) = 0 /\ readyQ \o t = readyQ /\ softBlockCnt' = softBlockCnt
    BY <1>1, <1>5, EmptyQ, ConcatProperties, ConcatEmptySeq DEF TypeOK
  <2>2. Off' = Off
    <3>1. CASE currProc # NULL
      BY <3>1 DEF Resume, Off
    <3>2. CASE currProc = NULL
      <4>1. cpu = "wait" /\ readyQ = <<>> /\ softBlockCnt > 0
        BY <1>1, <3>2 DEF Sound, WaitCounted, WorkConserving, Interruptible
      <4>2. procCnt > 0
        <5>1. Live # {} /\ procCnt = Cardinality(Live)
          BY <4>1 DEF Sound, Honest, HaltsWhenDone
        <5>2. Cardinality(Live) \in Nat /\ Cardinality(Live) # 0
          BY <1>1, <5>1, LiveIs
        <5> QED
          BY <5>1, <5>2
      <4>3. cpu' = IdleState(procCnt, softBlockCnt - Len(t))
        BY <2>1, <3>2, <4>1 DEF Resume, SwitchProcess
      <4>4. IdleState(procCnt, softBlockCnt - Len(t)) = "wait"
        BY <1>1, <2>1, <4>1, <4>2 DEF IdleState
      <4> QED
        BY <4>1, <4>3, <4>4 DEF Off
    <3> QED
      BY <3>1, <3>2
  <2> QED
    BY <1>2, <1>3, <2>1, <2>2, Hidden DEF ServiceStep
<1> QED
  BY <1>4, <1>5

\* The interval timer.
LEMMA SeeInterval ==
  ASSUME Sound, Honest', Held = Units, Held' = Units', IntervalInterrupt
  PROVE  ServiceStep
<1>1. /\ Core /\ Clock \in Sem /\ Clock \in SoftSem /\ Clock \notin UserSem
      /\ UserSem \subseteq Sem
      /\ sem \in [Sem -> Int] /\ blockedQ \in [Sem -> Seq(Proc)]
  BY ConstantsAssumption DEF Sem, SoftSem, Sound, Honest, Core, TypeOK
<1>2. /\ blockedQ[Clock] \in Seq(Proc)
      /\ \A p \in ToSet(blockedQ[Clock]) : semAdd[p] \in SoftSem
  BY <1>1, QueuedFacts
<1>3. /\ Interruptible
      /\ sem' = [sem EXCEPT ![Clock] = 0]
      /\ blockedQ' = [blockedQ EXCEPT ![Clock] = <<>>]
      /\ \A p \in Proc :
           semAdd'[p] = IF p \in ToSet(blockedQ[Clock]) THEN NULL ELSE semAdd[p]
      /\ softBlockCnt' = softBlockCnt - Len(blockedQ[Clock])
      /\ Resume(readyQ \o blockedQ[Clock], softBlockCnt - Len(blockedQ[Clock]))
  BY DEF IntervalInterrupt
<1>4. UserQs' = UserQs /\ Units' = Units
  BY <1>1, <1>3 DEF UserQs, Units
<1> QED
  BY <1>2, <1>3, <1>4, SeeWake

\* Device interrupts.
LEMMA SeeComplete ==
  ASSUME Sound, Honest', Held = Units, Held' = Units', Interruptible, NEW S \in SUBSET IOSem,
         NEW woken \in Seq(Proc), ToSet(woken) = WokenBy(S), Complete(S, woken)
  PROVE  ServiceStep
<1>1. /\ S \in SUBSET Sem /\ S \subseteq SoftSem /\ V(S) /\ Core
      /\ UserSem \cap S = {} /\ UserSem \subseteq Sem
  BY ConstantsAssumption DEF Complete, Sem, SoftSem, Sound, Honest
<1>2. /\ \A p \in ToSet(woken) : semAdd[p] \in SoftSem
      /\ \A p \in Proc : semAdd'[p] = IF p \in ToSet(woken) THEN NULL ELSE semAdd[p]
  BY <1>1, VFacts
<1>3. UserQs' = UserQs /\ Units' = Units
  <2>1. \A s \in UserSem : sem'[s] = sem[s] /\ blockedQ'[s] = blockedQ[s]
    BY <1>1 DEF V
  <2> QED
    BY <2>1 DEF UserQs, Units
<1>4. /\ softBlockCnt' = softBlockCnt - Len(woken)
      /\ Resume(readyQ \o woken, softBlockCnt - Len(woken))
  BY DEF Complete
<1> QED
  BY <1>2, <1>3, <1>4, SeeWake

\* One device.
LEMMA SeeDevice ==
  ASSUME Sound, Honest', Held = Units, Held' = Units', NEW d \in DevSem, DeviceInterrupt(d)
  PROVE  ServiceStep
<1>1. d \in Sem /\ {d} \in SUBSET IOSem /\ Core
  BY ConstantsAssumption DEF DevSem, IOSem, Sem, SoftSem, Sound, Honest
<1>2. Woken(d) \in Seq(Proc) /\ ToSet(Woken(d)) = WokenBy({d})
  BY <1>1, WokenFacts DEF Core, WokenBy
<1> QED
  BY <1>1, <1>2, SeeComplete DEF DeviceInterrupt

\* Both sub-devices of a terminal.
LEMMA SeeTerminal ==
  ASSUME Sound, Honest', Held = Units, Held' = Units', NEW t \in Term, TerminalInterrupt(t)
  PROVE  ServiceStep
<1> DEFINE acked == {d \in {Tx(t), Rx(t)} : io[d] = "done"}
           wokenBy(d) == IF d \in acked THEN Woken(d) ELSE <<>>
           woken == wokenBy(Tx(t)) \o wokenBy(Rx(t))
<1>1. Interruptible /\ Complete(acked, woken) /\ Core
  BY DEF TerminalInterrupt, Sound, Honest
<1>2. acked \in SUBSET {Tx(t), Rx(t)}
  OBVIOUS
<1> HIDE DEF acked
<1>3. acked \in SUBSET IOSem /\ woken \in Seq(Proc) /\ ToSet(woken) = WokenBy(acked)
  BY <1>1, <1>2, TerminalFacts
<1> QED
  BY <1>1, <1>3, SeeComplete

\* The end of a time slice changes whose turn it is and nothing the service
\* speaks of.
LEMMA SeePlt ==
  ASSUME Sound, Honest', Held = Units, Held' = Units', PltInterrupt
  PROVE  ServiceStep
<1>1. /\ SwitchProcess(Append(readyQ, currProc), procCnt, softBlockCnt)
      /\ UNCHANGED <<sem, blockedQ>> /\ cpu = "run" /\ Core
  BY DEF PltInterrupt, Sound, Honest
<1>2. readyQ \in Seq(Proc) /\ currProc \in Proc /\ currProc # NULL
  BY <1>1, SomeoneRuns DEF Core, TypeOK
<1>3. /\ Append(readyQ, currProc) \in Seq(Proc) /\ Append(readyQ, currProc) # <<>>
      /\ ToSet(Append(readyQ, currProc)) = ToSet(readyQ) \cup {currProc}
  BY <1>2, AppendQ
<1>4. Runnable' = Runnable
  BY <1>1, <1>2, <1>3, SwitchFacts DEF Runnable
<1>5. SoftBlocked' = SoftBlocked /\ UserQs' = UserQs /\ Units' = Units
  BY <1>1 DEF SoftBlocked, Waiting, UserQs, Units
<1>6. Off' = Off
  BY <1>1, <1>3 DEF SwitchProcess, Off
<1> QED
  BY <1>4, <1>5, <1>6, Hidden DEF ServiceStep

\* Every step of the nucleus.
LEMMA SeeNext ==
  ASSUME Sound, Honest', Held = Units, Held' = Units', [Next]_vars
  PROVE  ServiceStep
<1>1. CASE UNCHANGED <<readyQ, currProc, sem, blockedQ, cpu>>
  BY <1>1, Hidden DEF ServiceStep, Runnable, SoftBlocked, Waiting, UserQs, Units, Off
<1>2. CASE Stopped \/ UNCHANGED vars
  BY <1>1, <1>2 DEF Stopped, vars
<1>3. CASE TerminateProcess \/ WaitForBadLine
  BY <1>3, SeeDie DEF TerminateProcess, WaitForBadLine
<1>4. ASSUME NEW s \in UserSem, Passeren(s) \/ Verhogen(s) PROVE ServiceStep
  BY <1>4, SeePasseren, SeeVerhogen
<1>5. ASSUME NEW d \in IOSem, DevCommand(d) \/ DeviceCompletes(d) PROVE ServiceStep
  BY <1>1, <1>5 DEF DevCommand, DeviceCompletes
<1>6. ASSUME NEW d \in IOSem, WaitForIO(d) PROVE ServiceStep
  BY <1>6, SeeSoftP DEF WaitForIO, SoftSem
<1>7. CASE WaitForClock
  BY <1>7, SeeSoftP DEF WaitForClock, SoftSem
<1> QED
  BY <1>2, <1>3, <1>4, <1>5, <1>6, <1>7, SeeCreate, SeePlt, SeeInterval,
     SeeDevice, SeeTerminal DEF Next

\* main() starts the service with one runnable process.
LEMMA SeeInit == Init => Service!Init
<1> SUFFICES ASSUME Init PROVE Service!Init
  OBVIOUS
<1>1. PICK p \in Proc : currProc = p
  BY DEF Init
<1>2. readyQ = <<>> /\ ToSet(<<>>) = {} /\ p # NULL
  BY EmptyQ, ConstantsAssumption DEF Init
<1>3. Runnable = {p}
  BY <1>1, <1>2 DEF Runnable
<1>4. SoftBlocked = {}
  <2>1. \A s \in SoftSem : ToSet(blockedQ[s]) = {}
    BY EmptyQ DEF Init, Sem
  <2> QED
    BY <2>1 DEF SoftBlocked, Waiting
<1>5. UserQs = [s \in UserSem |-> <<>>] /\ Held \in [UserSem -> Nat] /\ Off = FALSE
  <2>1. \A s \in UserSem : /\ s \in Sem /\ blockedQ[s] = <<>>
                            /\ sem[s] \in Nat /\ sem[s] + Len(blockedQ[s]) \in Nat
    BY EmptyQ, ConstantsAssumption DEF Init, Sem
  <2> QED
    BY <2>1 DEF UserQs, Held, Off, Init
<1> QED
  BY <1>3, <1>4, <1>5 DEF Service!Init, Runnable, UserQs, Units, Held, Off

\* The nucleus, with its PCBs, queues and counters, does nothing that the
\* service promised to programs does not allow, provided no semaphore of the
\* programs lies where recursive_terminate takes it for a device's.
THEOREM ServiceImplemented == ASSUME NearSem = {} PROVE Spec => ImplementsService
<1>1. /\ Sound /\ Honest' /\ UserSemCounts /\ UserSemCounts' /\ [Next]_vars
      => [Service!Next]_(Service!serviceVars)
  <2> SUFFICES ASSUME Sound, Honest', UserSemCounts, UserSemCounts', [Next]_vars
               PROVE  ServiceStep
    BY DEF ServiceStep
  <2>1. Core /\ Core'
    BY DEF Sound, Honest
  <2>2. Held = Units
    BY <2>1, UnitsHeld
  <2>3. Held' = Units'
    <3>1. Core' /\ UserSemCounts' => (Held = Units)'
      BY UnitsHeld, PTL
    <3> QED
      BY <2>1, <3>1
  <2> QED
    BY <2>2, <2>3, SeeNext
<1>2. Sound => Honest
  BY DEF Sound
<1> QED
  BY SeeInit, SoundInvariant, UserSemCorrect, <1>1, <1>2, PTL
  DEF Spec, ImplementsService, Service!Spec
=============================================================================
