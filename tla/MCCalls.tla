------------------------------- MODULE MCCalls -------------------------------
(***************************************************************************)
(* Instances for TLC of the calls on devices: DeviceCalls with a disk or a *)
(* flash device that has a process's number, and CharCalls.  They share no *)
(* variable: a behaviour is one of one part, and the other stays in an     *)
(* initial state.                                                          *)
(***************************************************************************)
EXTENDS DeviceCalls, TLC

CONSTANTS Length, MaxLength, Char, Junk, Room  \* of CharCalls

VARIABLES
  part,       \* "disk" or "chars"
  at, op, len, i, count, status, going, line, answer, lock, sent, taken

Chars == INSTANCE CharCalls WITH pc <- at, v0 <- answer

CallsAssumption == DeviceAssumption /\ Chars!CharAssumption

ASSUME CallsAssumed == CallsAssumption

chars == <<at, op, len, i, count, status, going, line, answer, lock, sent, taken>>
parts == <<part, vars, chars>>

CallsInit ==
  /\ Init /\ Chars!Init
  /\ part \in {"disk", "chars"}
  /\ part = "chars" => /\ \A p \in Proc, d \in Device : page[p] = buf[d]
                       /\ \A p \in Proc, x \in Place : store[x] = page[p]
  /\ part = "disk" => \A n \in Length, s \in Junk : len <= n /\ status <= s

CallsNext ==
  \/ part = "disk" /\ Next /\ UNCHANGED <<part, chars>>
  \/ part = "chars" /\ Chars!Next /\ UNCHANGED <<part, vars>>

CallsSpec == CallsInit /\ [][CallsNext]_parts

\* With the fairness of DeviceCalls, for the liveness of its calls.
CallsFairSpec == CallsSpec /\ (part = "disk" => Fairness)

Symmetric == Permutations(Val)

\* Values of constants.
Disk1 == {<<"disk", 1>>}
Flash1 == {<<"flash", 1>>}
Lengths == -1..3
Junks == {-2, 0, 3}

-----------------------------------------------------------------------------
(* Properties, stated in the modules of the parts; those of the disk are   *)
(* DeviceSafe, ImplementsBlockStore, Exclusive and FlashReleased.          *)

\* SYS13: the buffer holds what the terminal has delivered, up to the newline,
\* and a result that is a count is that of a whole line; every mutex comes back.
LineRead == part = "chars" => Chars!TypeOK /\ Chars!LineRead /\ Chars!LocksReleased

\* SYS11: a call that stops before its time does not return a count.
PrinterStops == part = "chars" => Chars!PrinterStops

\* sysSupport.c:113-118, :245, :266-267: a call that stops returns the negative
\* of a status.  Refuted.
StopIsNegative == part = "chars" => Chars!StopIsNegative

\* sysSupport.c:118: the count is that of the characters transmitted.  Refuted.
CountSent == part = "chars" => Chars!CountSent

\* sysSupport.c:103-104, :136: SYS11 checks the length.  Refuted.
LengthChecked == part = "chars" => Chars!LengthChecked
=============================================================================
