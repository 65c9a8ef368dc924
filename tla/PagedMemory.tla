----------------------------- MODULE PagedMemory -----------------------------
(***************************************************************************)
(* What the pager promises to a user process: its pages are a memory of    *)
(* its own.  A page changes only by an instruction of its owner that       *)
(* touches it, and no more is promised about a process that has ended.     *)
(***************************************************************************)
CONSTANTS Proc, Page, Val, None

VARIABLES
  alive,     \* the processes that have not ended
  touching,  \* the page each one is about to read or write, or None
  mem        \* the pages of those that are alive

memoryVars == <<alive, touching, mem>>

Init ==
  /\ alive = Proc
  /\ touching = [p \in Proc |-> None]
  /\ \E v \in Val : mem = [p \in Proc |-> [g \in Page |-> v]]

Touch(p, g) ==
  /\ p \in alive /\ touching[p] = None
  /\ touching' = [touching EXCEPT ![p] = g]
  /\ UNCHANGED <<alive, mem>>

\* A read leaves the value as it is.
Access(p, v) ==
  /\ p \in alive /\ touching[p] # None
  /\ mem' = [mem EXCEPT ![p][touching[p]] = v]
  /\ touching' = [touching EXCEPT ![p] = None]
  /\ UNCHANGED alive

End(S) ==
  /\ S # {} /\ S \subseteq alive
  /\ alive' = alive \ S
  /\ touching' = [p \in Proc |-> IF p \in S THEN None ELSE touching[p]]
  /\ \A q \in alive' : mem'[q] = mem[q]

Next ==
  \/ \E p \in Proc : \/ \E g \in Page : Touch(p, g)
                     \/ \E v \in Val : Access(p, v)
  \/ \E S \in SUBSET alive : End(S)

Spec == Init /\ [][Next]_memoryVars
=============================================================================
