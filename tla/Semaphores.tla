----------------------------- MODULE Semaphores -----------------------------
(***************************************************************************)
(* SYS3 and SYS4 as the processes above the nucleus see them: an integer   *)
(* and the queue of those who wait for it (exceptions.c, passeren and      *)
(* verhogen; ProcessService says that Nucleus provides just this).  The    *)
(* integer goes negative, as in the code, because get_nuked looks at it.   *)
(* A process that must wait is put in the queue and goes on from where it  *)
(* stands once it is in no queue.                                          *)
(***************************************************************************)
EXTENDS Integers, Sequences, SequencesExt

Sema4(n) == [val |-> n, queue |-> <<>>]

Semaphores(S, P) == [S -> [val : Int, queue : Seq(P)]]

\* Mutant: one process too many gets through.
passeren_OffByOne(sem, s, p) ==
  [sem EXCEPT ![s].val = @ - 1,
              ![s].queue = IF sem[s].val >= 0 THEN @ ELSE Append(@, p)]

passeren(sem, s, p) ==
  [sem EXCEPT ![s].val = @ - 1,
              ![s].queue = IF sem[s].val > 0 THEN @ ELSE Append(@, p)]

verhogen(sem, s) ==
  [sem EXCEPT ![s].val = @ + 1,
              ![s].queue = IF sem[s].val < 0 /\ @ # <<>> THEN Tail(@) ELSE @]

Blocked(sem, p) == \E s \in DOMAIN sem : p \in ToSet(sem[s].queue)
=============================================================================
