------------------------------ MODULE CharCalls ------------------------------
(***************************************************************************)
(* SYS9 and SYS11 to SYS13 (sysSupport.c): a user process writes to its    *)
(* printer and its terminal and reads lines from the terminal, a character *)
(* and a SYS5 at a time.  Each process has devices of its own, so one      *)
(* process is enough; SYS14 to SYS17, on shared devices, are in            *)
(* DeviceCalls.                                                            *)
(***************************************************************************)
EXTENDS Integers, Sequences, SequencesExt

CONSTANTS
  Length,     \* the lengths the program asks for
  MaxLength,  \* 128
  Char,       \* the characters on the keyboard, but for the newline
  Junk,       \* what an uninitialised int may hold
  Room        \* bound on the characters read in one call

\* What the constants must be; the modules of the runs assume it.
CharAssumption ==
  /\ Length \subseteq Int /\ MaxLength \in Nat /\ Junk \subseteq Int
  /\ Room \in Nat /\ "newline" \notin Char

VARIABLES
  pc,
  op,         \* the call: "printer", "transm" or "recv", also its mutex
  len,
  i,
  count,      \* char_printed_count, transmittedChars or receivedChars
  status,     \* the local variable for the result of SYS5
  going,      \* continueReading
  line,       \* the caller's buffer
  v0,
  lock,       \* the three mutexes of the process
  sent,       \* characters the device has put out in this call
  taken       \* characters the terminal has delivered in this call

vars == <<pc, op, len, i, count, status, going, line, v0, lock, sent, taken>>
args == <<op, len>>
locals == <<i, count, status, going>>
history == <<sent, taken>>

Mutex == {"printer", "transm", "recv"}

\* Device status codes: OK is OKCHARTRANS (5) or, for a printer, READY.
OK == 5
BAD == 4

\* What a printer that is not ready shows: 0 is a printer that is not installed,
\* and that is so from the start.
PrinterStatus(n) == {2, 3, 4} \cup (IF n = 0 THEN {0} ELSE {})

TypeOK ==
  /\ pc \in {"user", "lock", "write", "sending", "read", "receiving", "unlock",
             "nuke", "dead"}
  /\ op \in Mutex /\ len \in Length
  /\ i \in Nat /\ count \in Int /\ status \in {OK, BAD} \cup Junk
  /\ going \in BOOLEAN
  /\ line \in Seq(Char) /\ Len(line) <= Room
  /\ v0 \in Int
  /\ lock \in [Mutex -> {0, 1}]
  /\ sent \in Nat /\ taken \in Seq(Char \cup {"newline"})

Init ==
  /\ pc = "user" /\ op = "recv" /\ len \in Length
  /\ i = 0 /\ count = 0 /\ status \in Junk /\ going = TRUE
  /\ line = <<>> /\ v0 = 0
  /\ lock = [m \in Mutex |-> 1]
  /\ sent = 0 /\ taken = <<>>

-----------------------------------------------------------------------------
\* The terminal checks the length, the printer does not any more; SYS9 from
\* the handler ends the process.
Invoke(m, n) ==
  /\ pc = "user"
  /\ op' = m /\ len' = n
  /\ pc' = IF m = "transm" /\ n \notin 0..MaxLength THEN "nuke" ELSE "lock"
  /\ UNCHANGED <<locals, line, v0, lock, history>>

Lock ==
  /\ pc = "lock"
  /\ lock' = [lock EXCEPT ![op] = @ - 1]
  /\ pc' = IF op = "recv" THEN "read" ELSE "write"
  /\ i' = 0 /\ count' = 0 /\ status' \in Junk /\ going' = TRUE
  /\ sent' = 0 /\ taken' = <<>> /\ line' = <<>>
  /\ UNCHANGED <<args, v0>>

\* The device is ready and the character can be read: the command and SYS5.
Send ==
  /\ pc = "write" /\ i < len
  /\ pc' = "sending"
  /\ UNCHANGED <<args, locals, line, v0, lock, history>>

\* The status SYS5 returns is kept, but nobody looks at it.
Sent ==
  /\ pc = "sending"
  /\ \E answer \in {OK, BAD} :
       /\ status' = IF op = "transm" THEN answer ELSE status
       /\ sent' = IF answer = OK THEN sent + 1 ELSE sent
  /\ count' = count + 1 /\ i' = i + 1
  /\ pc' = "write"
  /\ UNCHANGED <<args, going, line, v0, lock, taken>>

\* Mutant: out of the loop with the count so far.
NotReady_Silent ==
  /\ pc = "write" /\ i < len
  /\ i' = len
  /\ UNCHANGED <<pc, args, count, status, going, line, v0, lock, history>>

\* The device is not ready: minus its status, whatever it is, or for a terminal
\* what is left in the local variable, and out of the loop.
NotReady ==
  /\ pc = "write" /\ i < len
  /\ \E s \in IF op = "printer" THEN PrinterStatus(i) ELSE {status} : count' = - s
  /\ i' = len
  /\ UNCHANGED <<pc, args, status, going, line, v0, lock, history>>

Written ==
  /\ pc = "write" /\ i >= len
  /\ v0' = count
  /\ pc' = "unlock"
  /\ UNCHANGED <<args, locals, line, lock, history>>

\* The page of the buffer is not the program's: a trap, with the mutex held.
Trap ==
  /\ pc \in {"write", "receiving"}
  /\ pc' = "nuke"
  /\ UNCHANGED <<args, locals, line, v0, lock, history>>

Receive ==
  /\ pc = "read" /\ going
  /\ pc' = "receiving"
  /\ UNCHANGED <<args, locals, line, v0, lock, history>>

\* Mutant: the newline does not end the loop.
Received_GoesOn ==
  /\ pc = "receiving" /\ pc' = "read"
  /\ \/ \E c \in Char \cup {"newline"} :
          /\ Len(line) < Room
          /\ status' = OK /\ taken' = Append(taken, c)
          /\ IF c = "newline" THEN UNCHANGED <<line, count>>
             ELSE line' = Append(line, c) /\ count' = count + 1
          /\ UNCHANGED going
     \/ /\ status' = BAD /\ going' = FALSE
        /\ UNCHANGED <<line, count, taken>>
  /\ UNCHANGED <<args, i, v0, lock, sent>>

\* A character of the line, the newline that ends it, or an error.
Received ==
  /\ pc = "receiving" /\ pc' = "read"
  /\ \/ \E c \in Char :
          /\ Len(line) < Room
          /\ status' = OK /\ taken' = Append(taken, c)
          /\ line' = Append(line, c) /\ count' = count + 1
          /\ UNCHANGED going
     \/ /\ status' = OK /\ taken' = Append(taken, "newline") /\ going' = FALSE
        /\ UNCHANGED <<line, count>>
     \/ /\ status' = BAD /\ going' = FALSE
        /\ UNCHANGED <<line, count, taken>>
  /\ UNCHANGED <<args, i, v0, lock, sent>>

\* The end of the loop, or a receiver that is not ready.
LineDone ==
  /\ pc = "read"
  /\ \/ v0' = - status
     \/ /\ ~going /\ status = OK
        /\ v0' = count
  /\ pc' = "unlock"
  /\ UNCHANGED <<args, locals, line, lock, history>>

Unlock ==
  /\ pc = "unlock" /\ pc' = "user"
  /\ lock' = [lock EXCEPT ![op] = @ + 1]
  /\ UNCHANGED <<args, locals, line, v0, history>>

SYS9 ==
  /\ pc = "user" /\ pc' = "nuke"
  /\ UNCHANGED <<args, locals, line, v0, lock, history>>

\* Nobody else uses these mutexes: the check and the SYS4 are one step.
get_nuked ==
  /\ pc = "nuke" /\ pc' = "dead"
  /\ lock' = [m \in Mutex |-> IF lock[m] = 0 THEN 1 ELSE lock[m]]
  /\ UNCHANGED <<args, locals, line, v0, history>>

write_to_device == Send \/ Sent \/ NotReady \/ Written
read_from_terminal == Receive \/ Received \/ LineDone

Next ==
  \/ \E m \in Mutex, n \in Length : Invoke(m, n)
  \/ Lock \/ write_to_device \/ read_from_terminal \/ Unlock
  \/ Trap \/ SYS9 \/ get_nuked

Spec == Init /\ [][Next]_vars

-----------------------------------------------------------------------------
(* Properties                                                              *)

\* However a call ends, the mutexes are as they were: also for a process that
\* traps in the middle of one.
LocksReleased == pc \in {"user", "dead"} => \A m \in Mutex : lock[m] = 1

\* The buffer holds what the terminal has delivered; a count is that of the
\* characters in it, and once a character has come, a result that is a count
\* stands for a whole line, up to the newline, which is not in the buffer.
LineRead ==
  op = "recv" =>
    /\ taken \in {line, Append(line, "newline")}
    /\ count = Len(line) \/ pc \in {"lock", "user", "nuke", "dead"}
    /\ pc = "unlock" /\ taken # <<>> /\ v0 >= 0 =>
         v0 = Len(line) /\ taken = Append(line, "newline")

Wanted == IF len < 0 THEN 0 ELSE len

\* A SYS11 that stops before its time says so with a negative result, or, if
\* there is no printer, with 0: a positive one is the length asked for.
PrinterStops ==
  (pc = "unlock" /\ op = "printer" /\ v0 >= 0) => v0 = Wanted \/ (v0 = 0 /\ sent = 0)

\* sysSupport.c:113-118, :245-246, :266-267: a call that stops says so with the
\* negative of a status.  Refuted: the status may be 0, or whatever was left in
\* a local variable that no SYS5 has set.
StopIsNegative ==
  (pc = "unlock" /\ v0 >= 0) =>
    IF op = "recv" THEN taken = Append(line, "newline") ELSE v0 = Wanted

\* sysSupport.c:114, :118: the result counts the characters transmitted.
\* Refuted: one that the device reports as failed is counted too.
CountSent == (pc = "unlock" /\ op # "recv" /\ v0 >= 0) => v0 = sent

\* sysSupport.c:103-104, :136: the length of what is printed is within bounds.
\* Refuted: the test is commented out.
LengthChecked ==
  (op = "printer" /\ pc \in {"write", "sending"}) => len \in 0..MaxLength

=============================================================================
