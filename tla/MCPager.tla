------------------------------- MODULE MCPager -------------------------------
(***************************************************************************)
(* Instances of Pager for TLC: one frame and several contents of a page,   *)
(* or two frames and one.                                                  *)
(***************************************************************************)
EXTENDS Pager

VARIABLE frames

Two == INSTANCE Pager WITH NumFrames <- 2, Val <- {CHOOSE v \in Val : TRUE}

InitPool ==
  \/ frames = NumFrames /\ Init
  \/ frames = 2 /\ Two!Init

NextPool ==
  \/ frames = NumFrames /\ Next /\ UNCHANGED frames
  \/ frames = 2 /\ Two!Next /\ UNCHANGED frames

SpecPool == InitPool /\ [][NextPool]_<<frames, vars>>

Symmetric == Permutations(Proc) \cup Permutations(Page)
=============================================================================
