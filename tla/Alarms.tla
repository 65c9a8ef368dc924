------------------------------- MODULE Alarms -------------------------------
(***************************************************************************)
(* What SYS18 promises: a process that asks for a delay sleeps until the   *)
(* delay is over, and no process wakes before its time.                    *)
(***************************************************************************)
EXTENDS Integers

CONSTANTS Proc, Delay

VARIABLES
  time,
  deadline   \* of those who sleep; 0 for the others

alarmVars == <<time, deadline>>

Init ==
  /\ time = 0
  /\ deadline = [p \in Proc |-> 0]

Sleep(p, d) ==
  /\ deadline[p] = 0
  /\ deadline' = [deadline EXCEPT ![p] = time + d]
  /\ UNCHANGED time

Wake(p) ==
  /\ deadline[p] # 0 /\ time >= deadline[p]
  /\ deadline' = [deadline EXCEPT ![p] = 0]
  /\ UNCHANGED time

Tick ==
  /\ time' = time + 1
  /\ UNCHANGED deadline

Next == Tick \/ \E p \in Proc : Wake(p) \/ \E d \in Delay : Sleep(p, d)

Spec == Init /\ [][Next]_alarmVars
=============================================================================
