----------------------------- MODULE ProcQueues -----------------------------
(***************************************************************************)
(* Process queues (pcb.c) as sequences: the head is what removeProcQ takes *)
(* and insertProcQ appends at the tail.  Only outProcQ needs an operator   *)
(* of its own.  It is given in closed form, not by recursion, so that the  *)
(* proofs can reason about it.                                             *)
(***************************************************************************)
EXTENDS Integers, FiniteSets, SequencesExt

\* Positions of s that survive when the members of D are taken out.
Kept(s, D) == {i \in DOMAIN s : s[i] \notin D}

\* How many surviving positions there are up to and including i.
Rank(s, D, i) == Cardinality({j \in Kept(s, D) : j <= i})

\* outProcQ applied to s for every process of D: the others keep their order.
Without(s, D) ==
  [n \in 1..Cardinality(Kept(s, D)) |->
     s[CHOOSE i \in Kept(s, D) : Rank(s, D, i) = n]]

\* p is queued in front of q.
Before(s, p, q) == \E i, j \in DOMAIN s : i < j /\ s[i] = p /\ s[j] = q
=============================================================================
