------------------------------- MODULE P1Test -------------------------------
(***************************************************************************)
(* phase1/p1test.c, run over the pointers of KernelLists with the real     *)
(* MAXPROC: the calls in their order, what is done with each result and    *)
(* what the result must be.  Messages are left out.                        *)
(***************************************************************************)
EXTENDS KernelLists, SequencesExt

VARIABLES
  h,      \* the heap
  reg,    \* procp[0..19], q, p, firstproc, midproc, lastproc
  pc,
  result  \* of the last call

vars == <<h, reg, pc, result>>

Regs == 0..19 \cup 20..24
qR == 20
pR == 21
firstproc == 22
midproc == 23
lastproc == 24

sem(i) == LargestAddr + 1 + i
onesem == LargestAddr + 21

For(a, b, F(_)) == FlattenSeq([n \in 1..(b - a + 1) |-> F(a + n - 1)])

\* A call of f on what is in register x, for semaphore s; the result is put in
\* register to, and must be as want says: Null, some PCB, or the same as register same.
Call == [f |-> "none", x |-> qR, y |-> qR, s |-> onesem, to |-> -1, want |-> "any", same |-> -1]
alloc(r) == [Call EXCEPT !.f = "allocPcb", !.to = r]
free(r) == [Call EXCEPT !.f = "freePcb", !.x = r]
child(x, y) == [Call EXCEPT !.f = "insertChild", !.x = x, !.y = y]
take(f, x, r) == [Call EXCEPT !.f = f, !.x = x, !.to = r]
block(i, r) == [Call EXCEPT !.f = "insertBlocked", !.x = r, !.s = sem(i), !.want = "Null"]
unblock(i, r) == [Call EXCEPT !.f = "removeBlocked", !.s = sem(i), !.to = r]
front(i, r) == [Call EXCEPT !.f = "headBlocked", !.s = sem(i), !.to = r]
some(c) == [c EXCEPT !.want = "some"]
none(c) == [c EXCEPT !.want = "Null"]
same(c, r) == [c EXCEPT !.want = "same", !.same = r]
plain(f) == [Call EXCEPT !.f = f]
copy(x, r) == take("copy", x, r)

queues ==
  For(0, 19, LAMBDA i : <<some(alloc(i))>>)
  \o <<none(alloc(qR))>> \o For(10, 19, LAMBDA i : <<free(i)>>)
  \o <<some(plain("emptyProcQ"))>>
  \o For(0, 9, LAMBDA i :
        <<some(alloc(qR))>>
        \o (IF i = 0 THEN <<copy(qR, firstproc)>> ELSE IF i = 5 THEN <<copy(qR, midproc)>>
            ELSE IF i = 9 THEN <<copy(qR, lastproc)>> ELSE <<>>)
        \o <<[plain("insertProcQ") EXCEPT !.x = qR]>>)
  \o <<none(plain("emptyProcQ")), same(plain("headProcQ"), firstproc),
       same(take("outProcQ", firstproc, qR), firstproc), free(qR),
       same(take("outProcQ", midproc, qR), midproc), free(qR),
       none(take("outProcQ", 0, -1))>>
  \o For(1, 8, LAMBDA i : <<some(take("removeProcQ", qR, qR))>>
                          \o (IF i = 8 THEN <<same(copy(qR, qR), lastproc)>> ELSE <<>>)
                          \o <<free(qR)>>)
  \o <<none(plain("removeProcQ")), some(plain("emptyProcQ"))>>

trees ==
  <<some(take("emptyChild", 2, -1))>> \o For(1, 9, LAMBDA i : <<child(0, i)>>)
  \o <<none(take("emptyChild", 0, -1)),
       same(take("outChild", 1, qR), 1), same(take("outChild", 4, qR), 4),
       none(take("outChild", 0, -1))>>
  \o For(1, 7, LAMBDA i : <<some(take("removeChild", 0, qR))>>)
  \o <<none(take("removeChild", 0, -1)), some(take("emptyChild", 0, -1))>>
  \o For(0, 9, LAMBDA i : <<free(i)>>)

semaphores ==
  <<plain("initASL")>>
  \o For(10, 19, LAMBDA i : <<alloc(i), block(i, i)>>)
  \o For(0, 9, LAMBDA i : <<alloc(i), block(i, i)>>)
  \o <<unblock(11, pR), block(11, pR),
       some([Call EXCEPT !.f = "insertBlocked", !.x = 9])>>
  \o For(10, 19, LAMBDA i : <<some(unblock(i, qR)), same(copy(qR, qR), i), block(i - 10, qR)>>)
  \o <<none(unblock(11, -1)), none(front(11, -1)),
       some(front(9, qR)), same(copy(qR, qR), 9), same(take("outBlocked", qR, pR), qR),
       some(front(9, qR)), same(copy(qR, qR), 19), same(take("outBlocked", qR, pR), qR),
       none(take("outBlocked", qR, pR)), none(front(9, -1))>>

main == <<plain("initPcbs")>> \o queues \o trees \o semaphores

\* What call c does to the heap, and what it returns.
Heap(c) ==
  LET x == reg[c.x] IN
  CASE c.f = "initPcbs" -> initPcbs(h)
    [] c.f = "initASL" -> initASL(h)
    [] c.f = "allocPcb" -> allocPcb(h)
    [] c.f = "freePcb" -> freePcb(h, x)
    [] c.f = "insertProcQ" -> insertProcQ(h, Ready, x)
    [] c.f = "removeProcQ" -> removeProcQ(h, Ready)
    [] c.f = "outProcQ" -> outProcQ(h, Ready, x)
    [] c.f = "insertChild" -> insertChild(h, x, reg[c.y])
    [] c.f = "removeChild" -> removeChild(h, x)
    [] c.f = "outChild" -> outChild(h, x)
    [] c.f = "insertBlocked" -> insertBlocked(h, c.s, x)
    [] c.f = "removeBlocked" -> removeBlocked(h, c.s)
    [] c.f = "outBlocked" -> outBlocked(h, x)
    [] OTHER -> h

Result(c) ==
  LET x == reg[c.x] IN
  CASE c.f = "allocPcb" -> h.pcbFree
    [] c.f \in {"removeProcQ", "headProcQ"} -> headProcQ(h, Ready)
    [] c.f = "outProcQ" -> IF Position(Chain(h, Ready), x) = {} THEN Null ELSE x
    [] c.f = "removeChild" -> h.child[x]
    [] c.f = "emptyProcQ" -> IF emptyProcQ(h, Ready) THEN 1 ELSE Null
    [] c.f = "emptyChild" -> IF emptyChild(h, x) THEN 1 ELSE Null
    [] c.f = "outChild" -> IF h.prnt[x] = Null THEN Null ELSE x
    [] c.f = "insertBlocked" -> IF insertRefused(h, c.s) THEN 1 ELSE Null
    [] c.f \in {"removeBlocked", "headBlocked"} -> headBlocked(h, c.s)
    [] c.f = "outBlocked" -> IF Waits(h, x) THEN x ELSE Null
    [] c.f = "copy" -> x
    [] OTHER -> Null

Init ==
  /\ h = Blank
  /\ reg = [r \in Regs |-> Null]
  /\ pc = 1 /\ result = Null

Next ==
  /\ pc <= Len(main)
  /\ LET c == main[pc] IN
     /\ h' = Heap(c)
     /\ result' = Result(c)
     /\ reg' = [r \in Regs |-> IF r = c.to THEN result' ELSE reg[r]]
  /\ pc' = pc + 1

Spec == Init /\ [][Next]_vars

-----------------------------------------------------------------------------
(* Properties                                                              *)

\* Every call returns what the test expects: adderrbuf is never called.
NoErrors ==
  pc > 1 =>
    LET c == main[pc - 1] IN
    /\ c.want = "Null" => result = Null
    /\ c.want = "some" => result # Null
    /\ c.want = "same" => result = reg[c.same]

\* At the end 18 blocks wait, two for each of sem[0] to sem[8], and no descriptor
\* is left over from a semaphore that nobody waits for.
EndsClean ==
  pc > Len(main) =>
    /\ Cardinality({p \in Pcb : h.semAdd[p] # Null}) = 18
    /\ Len(Descriptors(h)) = 11
    /\ \A n \in 2..10 : Len(Chain(h, Descriptors(h)[n])) = 2
=============================================================================
