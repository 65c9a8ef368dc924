------------------------------ MODULE CallsProofs ------------------------------
(***************************************************************************)
(* Strings written to a printer or a terminal and lines read from one, of  *)
(* any length: what a result says of the buffer or of the string, and that *)
(* whichever way a call ends the mutexes are as they were.  Names of       *)
(* CharCalls have the prefix Chars, its pc and v0 are at and answer.       *)
(***************************************************************************)
EXTENDS MCCalls, SequenceTheorems, TLAPS

\* Where a call has the mutex of its device.
Locked == {"write", "sending", "read", "receiving", "unlock"}

\* One mutex at most is taken, that of the call; a process on its way out may
\* have been in the middle of one.
Mutexes ==
  /\ \A m \in Chars!Mutex \ {op} : lock[m] = 1
  /\ at \in Locked => lock[op] = 0
  /\ at \in {"user", "lock", "dead"} => lock[op] = 1

\* Which loop a call is in.
Loops ==
  /\ at \in {"write", "sending"} => op # "recv"
  /\ at \in {"read", "receiving"} => op = "recv"
  /\ at = "sending" => i < len

\* As long as the loop goes on no newline has come, and once it is over the
\* status says why; a status that no SYS5 has set goes with an empty buffer.
Reading ==
  /\ taken \in {line, Append(line, "newline")}
  /\ (at = "read" /\ going) \/ at = "receiving" => taken = line
  /\ at = "receiving" => going
  /\ op = "recv" /\ at \in {"read", "receiving", "unlock"} => count = Len(line)
  /\ at \in {"read", "receiving"} /\ taken # <<>> => status \in {Chars!OK, Chars!BAD}
  /\ at = "read" /\ ~going /\ status = Chars!OK => taken = Append(line, "newline")
  /\ op = "recv" /\ at = "unlock" /\ taken # <<>> /\ answer >= 0 =>
       answer = Len(line) /\ taken = Append(line, "newline")

\* The loop over the string: each character so far was passed to the device, or
\* the loop was left with minus a status, 0 only if there is no printer and
\* nothing was sent.
Printing ==
  op = "printer" =>
    /\ at \in {"write", "sending"} =>
         \/ count = i /\ sent <= i /\ (i = 0 \/ i <= len)
         \/ count < 0 /\ i >= len
         \/ count = 0 /\ i >= len /\ sent = 0
    /\ at = "unlock" /\ answer >= 0 =>
         answer = Chars!Wanted \/ (answer = 0 /\ sent = 0)

CharInv == Chars!TypeOK /\ Mutexes /\ Loops /\ Reading /\ Printing

LEMMA InitChar == ASSUME Chars!CharAssumption, Chars!Init PROVE CharInv
<1>1. Chars!TypeOK
  <2>1. <<>> \in Seq(Char) /\ Len(<<>>) = 0 /\ <<>> \in Seq(Char \cup {"newline"})
    BY EmptySeq
  <2> QED
    BY <2>1 DEF Chars!Init, Chars!TypeOK, Chars!CharAssumption, Chars!Mutex
<1>2. Mutexes /\ Loops /\ Reading /\ Printing
  BY DEF Chars!Init, Mutexes, Loops, Reading, Printing, Chars!Mutex, Locked
<1> QED
  BY <1>1, <1>2 DEF CharInv

LEMMA InvokeStep ==
  ASSUME Chars!CharAssumption, CharInv, NEW m \in Chars!Mutex, NEW n \in Length, Chars!Invoke(m, n)
  PROVE  CharInv'
<1>1. Chars!TypeOK'
  BY DEF CharInv, Chars!Invoke, Chars!TypeOK, Chars!locals, Chars!history
<1>2. Mutexes' /\ Loops' /\ Reading' /\ Printing'
  BY DEF CharInv, Chars!Invoke, Mutexes, Loops, Reading, Printing, Chars!locals,
     Chars!history, Locked, Chars!TypeOK, Chars!Mutex
<1> QED
  BY <1>1, <1>2 DEF CharInv

LEMMA LockStep ==
  ASSUME Chars!CharAssumption, CharInv, Chars!Lock
  PROVE  CharInv'
<1>1. lock[op] = 1 /\ lock \in [Chars!Mutex -> {0, 1}] /\ op \in Chars!Mutex
  BY DEF CharInv, Chars!Lock, Mutexes, Chars!TypeOK
<1>2. <<>> \in Seq(Char) /\ Len(<<>>) = 0 /\ <<>> \in Seq(Char \cup {"newline"})
  BY EmptySeq
<1>3. lock' \in [Chars!Mutex -> {0, 1}]
  BY <1>1 DEF Chars!Lock
<1>4. Chars!TypeOK'
  BY <1>2, <1>3 DEF CharInv, Chars!Lock, Chars!TypeOK, Chars!args, Chars!CharAssumption
<1>5. Mutexes'
  BY <1>1 DEF CharInv, Chars!Lock, Mutexes, Chars!args, Locked
<1>6. Loops' /\ Reading' /\ Printing'
  BY <1>1, <1>2 DEF Chars!Lock, Loops, Reading, Printing, Chars!args
<1> QED
  BY <1>4, <1>5, <1>6 DEF CharInv

LEMMA WriteStep ==
  ASSUME Chars!CharAssumption, CharInv, Chars!Send \/ Chars!Sent \/ Chars!NotReady \/ Chars!Written
  PROVE  CharInv'
<1>0. Chars!TypeOK /\ Mutexes /\ Loops /\ Reading /\ Printing /\ len \in Int /\ i \in Nat
      /\ count \in Int /\ status \in Int /\ at \in {"write", "sending"} /\ op # "recv"
      /\ sent \in Nat
  BY DEF CharInv, Chars!TypeOK, Chars!CharAssumption, Chars!OK, Chars!BAD, Chars!Send,
     Chars!Sent, Chars!NotReady, Chars!Written, Loops
<1>1. Chars!TypeOK'
  <2>1. CASE Chars!Send
    BY <1>0, <2>1 DEF Chars!Send, Chars!TypeOK, Chars!args, Chars!locals, Chars!history
  <2>2. CASE Chars!Sent
    BY <1>0, <2>2 DEF Chars!Sent, Chars!TypeOK, Chars!args
  <2>3. CASE Chars!NotReady
    BY <1>0, <2>3 DEF Chars!NotReady, Chars!TypeOK, Chars!args, Chars!history, Chars!PrinterStatus
  <2>4. CASE Chars!Written
    BY <1>0, <2>4 DEF Chars!Written, Chars!TypeOK, Chars!args, Chars!locals, Chars!history
  <2> QED
    BY <2>1, <2>2, <2>3, <2>4
<1>2. Mutexes'
  BY <1>0 DEF Chars!Send, Chars!Sent, Chars!NotReady, Chars!Written, Mutexes, Locked,
     Chars!args
<1>3. Loops'
  BY <1>0 DEF Chars!Send, Chars!Sent, Chars!NotReady, Chars!Written, Loops,
     Chars!args, Chars!locals
<1>4. Reading'
  BY <1>0 DEF Chars!Send, Chars!Sent, Chars!NotReady, Chars!Written, Reading,
     Chars!args, Chars!locals, Chars!history
<1>5. Printing'
  <2>1. CASE Chars!Send
    BY <1>0, <2>1 DEF Chars!Send, Printing, Chars!args, Chars!locals, Chars!history,
       Chars!Wanted
  <2>2. CASE Chars!Sent
    <3> SUFFICES ASSUME op = "printer"
                 PROVE  /\ at' = "write" /\ op' = op
                        /\ count' = i' /\ sent' <= i' /\ i' <= len'
      BY <1>0, <2>2 DEF Chars!Sent, Printing, Chars!args
    <3>1. i < len /\ count = i /\ sent <= i
      BY <1>0, <2>2 DEF Chars!Sent, Loops, Printing
    <3>2. sent' \in {sent, sent + 1} /\ count' = count + 1 /\ i' = i + 1 /\ len' = len
          /\ at' = "write" /\ op' = op
      BY <2>2 DEF Chars!Sent, Chars!args
    <3> QED
      BY <1>0, <3>1, <3>2
  <2>3. CASE Chars!NotReady
    <3> SUFFICES ASSUME op = "printer"
                 PROVE  /\ at' = "write" /\ op' = op /\ i' >= len'
                        /\ count' < 0 \/ (count' = 0 /\ sent' = 0)
      BY <1>0, <2>3 DEF Chars!NotReady, Printing, Chars!args
    <3>1. PICK s \in Chars!PrinterStatus(i) : count' = - s
      BY <2>3 DEF Chars!NotReady
    <3>2. i < len /\ i' = len /\ at' = "write" /\ op' = op /\ len' = len /\ sent' = sent
      BY <2>3 DEF Chars!NotReady, Chars!args, Chars!history
    <3>3. s \in {2, 3, 4} \/ (s = 0 /\ i = 0)
      BY DEF Chars!PrinterStatus
    <3>4. i = 0 => sent = 0
      BY <1>0, <2>3, <3>2 DEF Printing, Chars!NotReady
    <3> QED
      BY <1>0, <3>1, <3>2, <3>3, <3>4
  <2>4. CASE Chars!Written
    BY <1>0, <2>4 DEF Chars!Written, Printing, Chars!args, Chars!locals, Chars!history,
       Chars!Wanted
  <2> QED
    BY <2>1, <2>2, <2>3, <2>4
<1> QED
  BY <1>0, <1>1, <1>2, <1>3, <1>4, <1>5 DEF CharInv

LEMMA ReadStep ==
  ASSUME Chars!CharAssumption, CharInv, Chars!Receive \/ Chars!Received \/ Chars!LineDone
  PROVE  CharInv'
<1>0. Chars!TypeOK /\ Mutexes /\ Loops /\ Reading /\ Printing /\ status \in Int /\ count \in Int
      /\ at \in {"read", "receiving"} /\ op = "recv"
  BY DEF CharInv, Chars!TypeOK, Chars!CharAssumption, Chars!OK, Chars!BAD,
     Chars!Receive, Chars!Received, Chars!LineDone, Loops
<1>1. ASSUME NEW c \in Char
      PROVE  /\ Append(line, c) \in Seq(Char) /\ Len(Append(line, c)) = Len(line) + 1
             /\ Append(taken, c) \in Seq(Char \cup {"newline"}) /\ Len(line) \in Nat
  BY <1>0, AppendProperties DEF Chars!TypeOK
<1>2. Append(taken, "newline") \in Seq(Char \cup {"newline"})
  BY <1>0, AppendProperties DEF Chars!TypeOK
<1>3. Chars!TypeOK'
  <2>1. CASE Chars!Receive
    BY <1>0, <2>1 DEF Chars!Receive, Chars!TypeOK, Chars!args, Chars!locals, Chars!history
  <2>2. CASE Chars!Received
    <3>1. line' \in Seq(Char) /\ Len(line') <= Room /\ taken' \in Seq(Char \cup {"newline"})
          /\ count' \in Int /\ going' \in BOOLEAN /\ status' \in {Chars!OK, Chars!BAD}
      <4>1. Len(line) \in Nat /\ Room \in Nat /\ line \in Seq(Char) /\ Len(line) <= Room
            /\ going \in BOOLEAN
        BY <1>0, LenProperties DEF Chars!TypeOK, Chars!CharAssumption
      <4>2. ASSUME NEW c \in Char, Len(line) < Room, line' = Append(line, c)
            PROVE  line' \in Seq(Char) /\ Len(line') <= Room
        BY <1>1, <4>1, <4>2
      <4>3. line' \in Seq(Char) /\ Len(line') <= Room
        BY <2>2, <4>1, <4>2 DEF Chars!Received
      <4>4. taken' \in Seq(Char \cup {"newline"})
        BY <1>0, <1>1, <1>2, <2>2 DEF Chars!Received, Chars!TypeOK
      <4>5. count' \in Int /\ going' \in BOOLEAN /\ status' \in {Chars!OK, Chars!BAD}
        <5>1. count' \in Int
          BY <1>0, <2>2 DEF Chars!Received
        <5>2. going' \in BOOLEAN
          BY <2>2, <4>1, Zenon DEF Chars!Received
        <5>3. status' \in {Chars!OK, Chars!BAD}
          BY <2>2 DEF Chars!Received
        <5> QED
          BY <5>1, <5>2, <5>3
      <4> QED
        BY <4>3, <4>4, <4>5
    <3> QED
      BY <1>0, <2>2, <3>1 DEF Chars!Received, Chars!TypeOK, Chars!args
  <2>3. CASE Chars!LineDone
    BY <1>0, <2>3 DEF Chars!LineDone, Chars!TypeOK, Chars!args, Chars!locals,
       Chars!history
  <2> QED
    BY <2>1, <2>2, <2>3
<1>4. Mutexes' /\ Loops' /\ Printing'
  BY <1>0 DEF Chars!Receive, Chars!Received, Chars!LineDone, Mutexes, Loops, Printing,
     Locked, Chars!args, Chars!locals
<1>5. Reading'
  <2>1. CASE Chars!Receive
    BY <1>0, <2>1 DEF Chars!Receive, Reading, Chars!args, Chars!locals, Chars!history
  <2>2. CASE Chars!Received
    <3>0. taken = line /\ going /\ count = Len(line) /\ at = "receiving" /\ at' = "read"
          /\ op' = op /\ (taken # <<>> => status \in {Chars!OK, Chars!BAD})
      BY <1>0, <2>2 DEF Chars!Received, Reading, Chars!args
    <3>1. ASSUME NEW c \in Char, status' = Chars!OK, taken' = Append(taken, c),
                 line' = Append(line, c), count' = count + 1, going' = going
          PROVE  Reading'
      BY <1>1, <3>0, <3>1 DEF Reading
    <3>2. ASSUME status' = Chars!OK, taken' = Append(taken, "newline"), going' = FALSE,
                 line' = line, count' = count
          PROVE  Reading'
      BY <3>0, <3>2 DEF Reading
    <3>3. ASSUME status' = Chars!BAD, going' = FALSE, line' = line, count' = count,
                 taken' = taken
          PROVE  Reading'
      BY <3>0, <3>3 DEF Reading, Chars!OK, Chars!BAD
    <3> QED
      BY <2>2, <3>1, <3>2, <3>3 DEF Chars!Received
  <2>3. CASE Chars!LineDone
    <3>0. at' = "unlock" /\ op' = op /\ taken' = taken /\ line' = line /\ count' = count
          /\ count = Len(line) /\ taken \in {line, Append(line, "newline")}
          /\ (taken # <<>> => status \in {Chars!OK, Chars!BAD})
      BY <1>0, <2>3 DEF Chars!LineDone, Reading, Chars!args, Chars!locals, Chars!history
    <3>1. CASE answer' = - status
      BY <3>0, <3>1 DEF Reading, Chars!OK, Chars!BAD
    <3>2. CASE ~going /\ status = Chars!OK /\ answer' = count
      BY <1>0, <2>3, <3>0, <3>2 DEF Chars!LineDone, Reading
    <3> QED
      BY <2>3, <3>1, <3>2 DEF Chars!LineDone
  <2> QED
    BY <2>1, <2>2, <2>3
<1> QED
  BY <1>3, <1>4, <1>5 DEF CharInv

LEMMA UnlockStep ==
  ASSUME Chars!CharAssumption, CharInv, Chars!Unlock
  PROVE  CharInv'
<1>1. lock[op] = 0 /\ lock \in [Chars!Mutex -> {0, 1}] /\ op \in Chars!Mutex
  BY DEF CharInv, Chars!Unlock, Mutexes, Chars!TypeOK, Locked
<1>2. lock' \in [Chars!Mutex -> {0, 1}] /\ lock'[op] = 1
      /\ \A m \in Chars!Mutex \ {op} : lock'[m] = lock[m]
  BY <1>1 DEF Chars!Unlock
<1>3. Chars!TypeOK'
  BY <1>2 DEF CharInv, Chars!Unlock, Chars!TypeOK, Chars!args, Chars!locals, Chars!history
<1>4. Mutexes'
  BY <1>1, <1>2 DEF CharInv, Chars!Unlock, Mutexes, Chars!args, Locked
<1>5. Loops' /\ Reading' /\ Printing'
  BY DEF CharInv, Chars!Unlock, Loops, Reading, Printing, Chars!args, Chars!locals,
     Chars!history
<1> QED
  BY <1>3, <1>4, <1>5 DEF CharInv

LEMMA EndStep ==
  ASSUME Chars!CharAssumption, CharInv, Chars!Trap \/ Chars!SYS9 \/ Chars!get_nuked
  PROVE  CharInv'
<1>1. Chars!TypeOK'
  <2>1. lock' \in [Chars!Mutex -> {0, 1}]
    BY DEF CharInv, Chars!TypeOK, Chars!Trap, Chars!SYS9, Chars!get_nuked
  <2> QED
    BY <2>1 DEF CharInv, Chars!TypeOK, Chars!Trap, Chars!SYS9, Chars!get_nuked,
       Chars!args, Chars!locals, Chars!history
<1>2. Mutexes'
  <2>1. CASE Chars!Trap \/ Chars!SYS9
    BY <2>1 DEF CharInv, Chars!Trap, Chars!SYS9, Mutexes, Chars!args, Locked
  <2>2. CASE Chars!get_nuked
    <3>1. \A m \in Chars!Mutex : lock'[m] = 1
      BY <2>2 DEF CharInv, Chars!TypeOK, Chars!get_nuked
    <3> QED
      BY <2>2, <3>1 DEF CharInv, Chars!TypeOK, Chars!get_nuked, Mutexes, Chars!args,
         Locked
  <2> QED
    BY <2>1, <2>2
<1>3. Loops' /\ Reading' /\ Printing'
  BY DEF CharInv, Chars!Trap, Chars!SYS9, Chars!get_nuked, Loops, Reading, Printing,
     Chars!args, Chars!locals, Chars!history
<1> QED
  BY <1>1, <1>2, <1>3 DEF CharInv

LEMMA CharStep ==
  ASSUME Chars!CharAssumption, CharInv, [Chars!Next]_(Chars!vars)
  PROVE  CharInv'
<1>1. CASE Chars!Next
  BY <1>1, InvokeStep, LockStep, WriteStep, ReadStep, UnlockStep, EndStep
     DEF Chars!Next, Chars!write_to_device, Chars!read_from_terminal
<1>2. CASE UNCHANGED Chars!vars
  BY <1>2 DEF Chars!vars, CharInv, Chars!TypeOK, Mutexes, Loops, Reading, Printing,
     Chars!Wanted
<1> QED
  BY <1>1, <1>2

\* The inductive invariant of the calls: which mutex is taken, which loop the
\* process is in, and what its buffer and its count stand for.
THEOREM CharInvariant == Chars!CharAssumption => (Chars!Spec => []CharInv)
<1> SUFFICES ASSUME Chars!CharAssumption PROVE Chars!Spec => []CharInv
  OBVIOUS
<1>1. Chars!Init => CharInv
  BY InitChar
<1>2. CharInv /\ [Chars!Next]_(Chars!vars) => CharInv'
  BY CharStep
<1> QED
  BY <1>1, <1>2, PTL DEF Chars!Spec

\* A behaviour of the parts is one of these calls, or leaves them alone.
LEMMA PartsInvariant ==
  Chars!CharAssumption => (CallsSpec => [](part = "chars" => CharInv))
<1> DEFINE I == part = "chars" => CharInv
<1> SUFFICES ASSUME Chars!CharAssumption PROVE CallsSpec => []I
  OBVIOUS
<1>1. CallsInit => I
  BY InitChar DEF CallsInit
<1>2. I /\ [CallsNext]_parts => I'
  <2> SUFFICES ASSUME I, [CallsNext]_parts, part' = "chars" PROVE CharInv'
    OBVIOUS
  <2>1. part = "chars" /\ [Chars!Next]_(Chars!vars)
    BY DEF CallsNext, parts, chars, Chars!vars
  <2> QED
    BY <2>1, CharStep
<1> QED
  BY <1>1, <1>2, PTL DEF CallsSpec

\* SYS13: for lines of any length the buffer holds what the terminal has
\* delivered, up to the newline, and the count is that of the buffer; whichever
\* way a call ends, a trap in the middle included, its mutex comes back.
THEOREM LineIsRead == Chars!CharAssumption => (CallsSpec => []LineRead)
<1> SUFFICES ASSUME Chars!CharAssumption PROVE CallsSpec => []LineRead
  OBVIOUS
<1>1. ASSUME CharInv PROVE Chars!TypeOK /\ Chars!LineRead /\ Chars!LocksReleased
  <2>1. Chars!TypeOK /\ Chars!LineRead
    BY <1>1 DEF CharInv, Chars!LineRead, Reading, Loops, Chars!TypeOK
  <2>2. Chars!LocksReleased
    BY <1>1 DEF CharInv, Chars!LocksReleased, Mutexes, Chars!TypeOK
  <2> QED
    BY <2>1, <2>2
<1>2. (part = "chars" => CharInv) => LineRead
  BY <1>1 DEF LineRead
<1> QED
  BY <1>2, PartsInvariant, PTL

\* SYS11: for strings of any length, a call that stops before the end returns
\* no count: a negative result, or, if there is no printer, 0.
THEOREM StopsSay == Chars!CharAssumption => (CallsSpec => []PrinterStops)
<1> SUFFICES ASSUME Chars!CharAssumption PROVE CallsSpec => []PrinterStops
  OBVIOUS
<1>1. (part = "chars" => CharInv) => PrinterStops
  BY DEF CharInv, Printing, PrinterStops, Chars!PrinterStops
<1> QED
  BY <1>1, PartsInvariant, PTL
================================================================================
