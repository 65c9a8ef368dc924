---------------------------- MODULE UserPrograms ----------------------------
(***************************************************************************)
(* The programs of testers/ run together on the support level.  A program  *)
(* is a sequence of instructions; a call is one step, for which            *)
(* DeviceCalls, CharCalls and DelayDaemon give the reasons, and a page     *)
(* fault is another, the memory being that of Pager: pages in the frames   *)
(* of the swap pool, in the order they came, and on the flash devices.     *)
(* Messages are reduced to what they say of the test.                      *)
(***************************************************************************)
EXTENDS Integers, Sequences, SequencesExt, FiniteSets

CONSTANTS
  Mixes,          \* which program each process runs: functions on 1..n
  NumFrames,      \* frames of the swap pool that are left for data pages
  Capacity,       \* sectors of disk 1
  MaxBlock,       \* blocks of flash device 0
  Line,           \* what the user may type; no line is longer than the buffer for it
  Unready         \* programs whose terminal may fail, or be found not ready

\* What the constants must be; the modules of the runs assume it.
UserAssumption ==
  /\ NumFrames \in Nat \ {0} /\ Capacity \in Nat /\ MaxBlock \in Nat

VARIABLES
  mix,
  proc,      \* of each process: the instruction it is at, the result of its last
             \* call, its loop variable, the lines it has read, if one of them
             \* was not read to its end, the text it has made and the messages
             \* it has put out, the seconds it has still to sleep, and the
             \* seconds since it has looked at the clock
  frames,    \* the swap pool, oldest first
  flash,     \* the flash devices: backing store, and blocks for the programs
  disk,      \* disk 1
  gone

vars == <<mix, proc, frames, flash, disk, gone>>
memory == <<frames, flash, disk>>

UProc == DOMAIN mix

\* The pages of SEG2 and the flash blocks that the programs use; a page's
\* backing store is the block of its number on the flash device of its asid.
Page == 20..30
Block == Page \cup {5, 8, 10}
Word == Nat

READY == 1
BUSY == 3
MILLION == 1000000
LongAgo == 3

-----------------------------------------------------------------------------
(* The programs                                                            *)

Say(w) == <<"print", w>>
Store(pg, x) == <<"store", pg, x>>
PutDisk(pg, b) == <<"put disk", pg, b>>
GetDisk(pg, b) == <<"get disk", pg, b>>
PutFlash(pg, b) == <<"put flash", pg, b>>
GetFlash(pg, b) == <<"get flash", pg, b>>
ReportResult(x) == <<"report result", x>>
ReportWord(pg, x) == <<"report word", pg, x>>
Require == <<"require", READY>>
Trap == <<"trap">>
Terminate == <<"SYS9">>
Error == Say("error")

diskIOtest ==
  <<Say("info"), Store(20, 42), PutDisk(20, 3), ReportResult(READY),
    Store(20, 100), PutDisk(20, 23),
    GetDisk(20, 3), ReportWord(20, 42), GetDisk(20, 23), ReportWord(20, 100),
    <<"scan", 20>>, Say("completed"),
    Trap, Error, Trap, Error, Trap, Error, Trap, Error, Terminate>>

\* The three strings are 1, 2 and 3.
flashIOtest ==
  <<Say("info"), Store(30, 1), PutFlash(30, 8), Require,
    Store(30, 2), PutFlash(30, 10), Require,
    Store(30, 3), GetFlash(30, 8), Require, ReportWord(30, 1),
    Store(30, 3), GetFlash(30, 10), Require, ReportWord(30, 2),
    Say("completed"), Terminate>>

flashOp ==
  <<Say("info"), Store(20, 123), PutFlash(20, 5), ReportResult(READY),
    Store(20, 0), GetFlash(20, 5), <<"report both", 20, 123>>,
    Say("completed"), Terminate>>

swapStress ==
  <<Say("info"), <<"fill">>, Say("ok"), <<"verify">>, Say("completed"),
    Trap, Error, Terminate>>

strConcat ==
  <<Say("info"), Say("info"), <<"read">>, Say("info"), Say("info"), <<"read">>,
    <<"concat">>, Say("text"), Say("completed"), Terminate>>

strRev ==
  <<Say("info"), <<"read">>, <<"reverse">>, Say("info"), Say("text"),
    Say("completed"), Terminate>>

terminalReader ==
  <<Say("info"), Say("info"), <<"read">>, Say("info"), <<"echo">>,
    Say("text"), Say("completed"), Terminate>>

\* The clock does not wrap during the test.
delayTest ==
  <<Say("info"), <<"tod">>, Say("ok"), <<"delay", 2>>, <<"report age", 1>>,
    Say("completed"), Trap, Error, Terminate>>

terminalTest1 == <<Say("info"), Say("completed"), Terminate>>
terminalTest2 == <<Say("info"), Say("completed"), Terminate>>
terminalTest3 == <<Say("info"), Say("completed"), Terminate>>
terminalTest4 == <<Say("info"), Say("completed"), Terminate>>
terminalTest5 == <<Say("info"), Say("completed"), Terminate>>
terminalTest6 == <<Say("info"), Say("completed"), Terminate>>
terminalTest7 == <<Say("info"), Say("completed"), Terminate>>
terminalTest8 == <<Say("info"), Say("completed"), Terminate>>
printerTest == <<Say("info"), Say("completed"), Terminate>>

Recursion(n, x) ==
  <<Say("info"), <<"fib", n>>, Say("completed"), ReportResult(x), Terminate>>

fibSeven == Recursion(7, 13)
fibEight == Recursion(8, 21)
fibNine == Recursion(9, 34)
fibTen == Recursion(10, 55)
fibEleven == Recursion(11, 89)

Program ==
  [diskIOtest |-> diskIOtest, flashIOtest |-> flashIOtest, flashOp |-> flashOp,
   swapStress |-> swapStress, strConcat |-> strConcat, strRev |-> strRev,
   terminalReader |-> terminalReader, delayTest |-> delayTest,
   printerTest |-> printerTest,
   terminalTest1 |-> terminalTest1, terminalTest2 |-> terminalTest2, terminalTest3 |-> terminalTest3,
   terminalTest4 |-> terminalTest4, terminalTest5 |-> terminalTest5, terminalTest6 |-> terminalTest6,
   terminalTest7 |-> terminalTest7, terminalTest8 |-> terminalTest8,
   fibSeven |-> fibSeven, fibEight |-> fibEight, fibNine |-> fibNine,
   fibTen |-> fibTen, fibEleven |-> fibEleven]

fib[n \in 1..11] == IF n = 1 \/ n = 2 THEN 1 ELSE fib[n-1] + fib[n-2]

\* Mutant: the newline is taken off when there is none.
Concatenated_Shorter(a, b) ==
  LET copyLen == IF Len(a) > 0 THEN Len(a) - 1 ELSE Len(a) IN SubSeq(a, 1, copyLen) \o b

Concatenated(a, b) ==
  LET copyLen == IF Len(a) > 0 /\ a[Len(a)] = "\n" THEN Len(a) - 1 ELSE Len(a) IN
  SubSeq(a, 1, copyLen) \o b

\* The loop swaps start with end while start is below.
Reversed(b) ==
  LET n == Len(b)
      swapped[k \in 0..n \div 2] ==
        IF k = 0 THEN b
        ELSE [swapped[k-1] EXCEPT ![k] = swapped[k-1][n+1-k], ![n+1-k] = swapped[k-1][k]] IN
  swapped[n \div 2]

-----------------------------------------------------------------------------
TypeOK ==
  /\ mix \in Mixes
  /\ DOMAIN proc = UProc
  /\ \A p \in UProc :
       /\ proc[p].at \in 1..Len(Program[mix[p]])
       /\ proc[p].v0 \in Int /\ proc[p].i \in Nat
       /\ proc[p].lines \in Seq(Line)
       /\ proc[p].unread \in BOOLEAN
       /\ proc[p].said \in Seq({"info", "ok", "error", "bad", "text", "completed"})
       /\ proc[p].left \in 0..2 /\ proc[p].age \in 0..3
  /\ frames \in Seq([asid : UProc, page : Page, word : Word]) /\ Len(frames) <= NumFrames
  /\ flash \in [UProc -> [Block -> Word]]
  /\ disk \in [0..Capacity-1 -> Word]
  /\ gone \subseteq UProc

Init ==
  /\ mix \in Mixes
  /\ proc = [p \in UProc |-> [at |-> 1, v0 |-> 0, i |-> 0, lines |-> <<>>, unread |-> FALSE,
                              text |-> <<>>, said |-> <<>>, left |-> 0, age |-> 0]]
  /\ frames = <<>>
  /\ flash = [p \in UProc |-> [b \in Block |-> 0]]
  /\ disk = [s \in 0..Capacity-1 |-> 0]
  /\ gone = {}

Instr(p) == Program[mix[p]][proc[p].at]
Awake(p) == p \notin gone /\ proc[p].left = 0
Runs(p, op) == Awake(p) /\ Instr(p)[1] = op

\* The page the instruction touches, if any.
Touches(p, pg) ==
  \/ /\ Instr(p)[1] \in {"store", "put disk", "get disk", "put flash", "get flash",
                         "report word", "report both", "scan"}
     /\ pg = Instr(p)[2]
  \/ Instr(p)[1] \in {"fill", "verify"} /\ pg = 20 + proc[p].i

In(p, pg) == SelectInSeq(frames, LAMBDA f : f.asid = p /\ f.page = pg)
Resident(p) == \A pg \in Page : Touches(p, pg) => In(p, pg) # 0
Held(p, pg) == frames[In(p, pg)].word
Write(p, pg, x) == frames' = [frames EXCEPT ![In(p, pg)].word = x]
Says(p, w) == [proc[p] EXCEPT !.said = Append(@, w)]
Verdict(ok) == IF ok THEN "ok" ELSE "error"

-----------------------------------------------------------------------------
(* The support level                                                       *)

Full == Len(frames) = NumFrames

\* Mutant: the page is not written back.
BackingStore_Stale == flash

\* The flash devices when a frame has been made free.
BackingStore ==
  IF Full THEN [flash EXCEPT ![Head(frames).asid][Head(frames).page] = Head(frames).word]
  ELSE flash

Remaining == IF Full THEN Tail(frames) ELSE frames

PageFault(p) ==
  /\ Awake(p) /\ ~Resident(p)
  /\ flash' = BackingStore
  /\ \E pg \in Page :
       /\ Touches(p, pg)
       /\ frames' = Append(Remaining, [asid |-> p, page |-> pg, word |-> flash'[p][pg]])
  /\ UNCHANGED <<mix, proc, disk, gone>>

End(p) == gone' = gone \cup {p} /\ UNCHANGED <<mix, proc, memory>>

\* The program goes on with the next instruction.
Goes(p, step) ==
  /\ proc' = [proc EXCEPT ![p] = [step EXCEPT !.at = @ + 1]]
  /\ UNCHANGED <<mix, gone>>

\* Mutant: the sector behind the last one ends the caller, too.
Beyond_Early(s) == s >= Capacity

\* A sector that ends the caller.  The one behind the last does not: there the
\* disk finds no cylinder.
Beyond(s) == s > Capacity

DiskStatus(s) == IF s < Capacity THEN READY ELSE -BUSY

DiskPut(p) ==
  /\ Runs(p, "put disk") /\ Resident(p)
  /\ LET s == Instr(p)[3] IN
     IF Beyond(s) THEN End(p)
     ELSE /\ disk' = IF s < Capacity THEN [disk EXCEPT ![s] = Held(p, Instr(p)[2])] ELSE disk
          /\ Goes(p, [proc[p] EXCEPT !.v0 = DiskStatus(s)])
          /\ UNCHANGED <<frames, flash>>

SectorRead(p, s) ==
  /\ IF s < Capacity THEN Write(p, Instr(p)[2], disk[s]) ELSE UNCHANGED frames
  /\ UNCHANGED <<flash, disk>>

DiskGet(p) ==
  /\ Runs(p, "get disk") /\ Resident(p)
  /\ LET s == Instr(p)[3] IN
     IF Beyond(s) THEN End(p)
     ELSE SectorRead(p, s) /\ Goes(p, [proc[p] EXCEPT !.v0 = DiskStatus(s)])

\* Sector after sector, until a call does not return READY.
Scan(p) ==
  /\ Runs(p, "scan") /\ Resident(p)
  /\ LET s == proc[p].i IN
     IF Beyond(s) THEN End(p)
     ELSE /\ SectorRead(p, s)
          /\ IF DiskStatus(s) = READY /\ s < MILLION
             THEN proc' = [proc EXCEPT ![p].i = @ + 1] /\ UNCHANGED <<mix, gone>>
             ELSE Goes(p, Says(p, Verdict(s < MILLION)))

\* Flash device 0, whose blocks are the pages of process 1, too.
FlashPut(p) ==
  /\ Runs(p, "put flash") /\ Resident(p)
  /\ IF Instr(p)[3] >= MaxBlock THEN End(p)
     ELSE /\ flash' = [flash EXCEPT ![1][Instr(p)[3]] = Held(p, Instr(p)[2])]
          /\ Goes(p, [proc[p] EXCEPT !.v0 = READY])
          /\ UNCHANGED <<frames, disk>>

FlashGet(p) ==
  /\ Runs(p, "get flash") /\ Resident(p)
  /\ IF Instr(p)[3] >= MaxBlock THEN End(p)
     ELSE /\ Write(p, Instr(p)[2], flash[1][Instr(p)[3]])
          /\ Goes(p, [proc[p] EXCEPT !.v0 = READY])
          /\ UNCHANGED <<flash, disk>>

\* SYS13.  A receiver that fails or is not ready gives a status to return
\* instead of a count; what has come of the line does not matter then.
ReadTerminal(p) ==
  /\ Runs(p, "read")
  /\ \/ \E line \in Line :
          Goes(p, [proc[p] EXCEPT !.lines = Append(@, line), !.v0 = Len(line)])
     \/ /\ mix[p] \in Unready
        /\ Goes(p, [proc[p] EXCEPT !.lines = Append(@, <<>>), !.v0 = -BUSY, !.unread = TRUE])
  /\ UNCHANGED memory

\* SYS12 in print().  A terminal that is not ready has a status to return that
\* may be negative or not (see CharCalls); negative, print() ends the program.
Message(p) ==
  /\ Runs(p, "print")
  /\ \/ Goes(p, Says(p, Instr(p)[2])) /\ UNCHANGED memory
     \/ /\ mix[p] \in Unready
        /\ \/ Goes(p, Says(p, "bad")) /\ UNCHANGED memory
           \/ /\ proc' = [proc EXCEPT ![p] = Says(p, "bad")]
              /\ gone' = gone \cup {p}
              /\ UNCHANGED <<mix, memory>>

\* SYS18.
Delay(p) ==
  /\ Runs(p, "delay")
  /\ Goes(p, [proc[p] EXCEPT !.left = Instr(p)[2]])
  /\ UNCHANGED memory

\* Mutant: who has one second left is not found.
Slept_NotLast(left) == IF left = 1 THEN 1 ELSE left - 1

Slept(left) == left - 1

\* A second passes for who sleeps and for who has looked at the clock; the
\* delay daemon runs.
Tick ==
  /\ \E p \in UProc : proc[p].left > 0
  /\ proc' = [p \in UProc |->
       [proc[p] EXCEPT
          !.left = IF @ > 0 THEN Slept(@) ELSE @,
          !.age = IF mix[p] = "delayTest" /\ @ < LongAgo THEN @ + 1 ELSE @]]
  /\ UNCHANGED <<mix, gone, memory>>

-----------------------------------------------------------------------------
(* What the programs do by themselves                                      *)

StoreWord(p) ==
  /\ Runs(p, "store") /\ Resident(p)
  /\ Write(p, Instr(p)[2], Instr(p)[3])
  /\ Goes(p, proc[p])
  /\ UNCHANGED <<flash, disk>>

\* The comparisons and what they report.
Holds(p) ==
  CASE Instr(p)[1] = "report result" -> proc[p].v0 = Instr(p)[2]
    [] Instr(p)[1] = "report word" -> Held(p, Instr(p)[2]) = Instr(p)[3]
    [] Instr(p)[1] = "report both" ->
         proc[p].v0 = READY /\ Held(p, Instr(p)[2]) = Instr(p)[3]
    [] Instr(p)[1] = "report age" -> proc[p].age >= Instr(p)[2]
    [] OTHER -> FALSE

Report(p) ==
  /\ Awake(p) /\ Resident(p)
  /\ Instr(p)[1] \in {"report result", "report word", "report both", "report age"}
  /\ Goes(p, Says(p, Verdict(Holds(p))))
  /\ UNCHANGED memory

Required(p) ==
  /\ Runs(p, "require")
  /\ IF proc[p].v0 = Instr(p)[2] THEN Goes(p, proc[p])
     ELSE /\ proc' = [proc EXCEPT ![p] = Says(p, "error")]
          /\ gone' = gone \cup {p}
          /\ UNCHANGED mix
  /\ UNCHANGED memory

\* The loops over ten pages: the number of a page into its first word.
Fill(p) ==
  /\ Runs(p, "fill") /\ Resident(p)
  /\ LET i == proc[p].i IN
     /\ Write(p, 20 + i, 20 + i)
     /\ IF i < 9 THEN proc' = [proc EXCEPT ![p].i = @ + 1] /\ UNCHANGED <<mix, gone>>
        ELSE Goes(p, [proc[p] EXCEPT !.i = 0])
  /\ UNCHANGED <<flash, disk>>

\* A wrong word is reported instead of the message that follows.
Verify(p) ==
  /\ Runs(p, "verify") /\ Resident(p)
  /\ LET i == proc[p].i IN
     IF Held(p, 20 + i) # 20 + i
     THEN Goes(p, [Says(p, "error") EXCEPT !.at = @ + 1])
     ELSE IF i < 9 THEN proc' = [proc EXCEPT ![p].i = @ + 1] /\ UNCHANGED <<mix, gone>>
     ELSE Goes(p, proc[p])
  /\ UNCHANGED memory

\* The text a program makes of its lines.
Text(p) ==
  LET lines == proc[p].lines IN
  CASE Instr(p)[1] = "concat" -> Concatenated(lines[1], lines[2])
    [] Instr(p)[1] = "reverse" -> Reversed(lines[1])
    [] OTHER -> lines[1]

\* The result of a read that failed is no length, but an index all the same, and
\* for an empty line strRev looks at the byte in front of its buffer: the text
\* is what the stack happens to hold.
Unknown(p) == proc[p].unread \/ (Instr(p)[1] = "reverse" /\ proc[p].lines[1] = <<>>)

WriteText(p) ==
  /\ Awake(p) /\ Instr(p)[1] \in {"concat", "reverse", "echo"}
  /\ \E t \in {Text(p)} \cup (IF Unknown(p) THEN Line ELSE {}) :
       Goes(p, [proc[p] EXCEPT !.text = t])
  /\ UNCHANGED memory

\* The index is below the program's pages, or the text has no end where SYS12
\* allows one.
Stray(p) == Awake(p) /\ proc[p].unread /\ End(p)

\* SYS10, the second call of which cannot return less than the first.
LookAtClock(p) ==
  /\ Runs(p, "tod")
  /\ Goes(p, [proc[p] EXCEPT !.age = 0])
  /\ UNCHANGED memory

Recurse(p) ==
  /\ Runs(p, "fib")
  /\ Goes(p, [proc[p] EXCEPT !.v0 = fib[Instr(p)[2]]])
  /\ UNCHANGED memory

\* SYS9, an address or an instruction a program may not use, a call of the
\* nucleus: get_nuked.
EndProgram(p) == (Runs(p, "trap") \/ Runs(p, "SYS9")) /\ End(p)

Step(p) ==
  \/ PageFault(p) \/ DiskPut(p) \/ DiskGet(p) \/ Scan(p) \/ FlashPut(p) \/ FlashGet(p)
  \/ ReadTerminal(p) \/ Message(p) \/ Delay(p)
  \/ StoreWord(p) \/ Report(p) \/ Required(p) \/ Fill(p) \/ Verify(p) \/ WriteText(p)
  \/ Stray(p) \/ LookAtClock(p) \/ Recurse(p) \/ EndProgram(p)

Next == Tick \/ \E p \in UProc : Step(p)

Spec == Init /\ [][Next]_vars

-----------------------------------------------------------------------------
(* Properties                                                              *)

\* No program reports an error: what it wrote to its pages, to the disk or to
\* flash is what it reads back whatever the others do, the last sector is
\* found, and a delay is no shorter than it must be.
NoErrors == \A p \in UProc : "error" \notin Range(proc[p].said)

\* A program comes to its end: none is terminated for what it does before its
\* last message (diskIOtest asks for the sector behind the last), but one whose
\* terminal has failed.
Completed ==
  \A p \in gone : {"completed", "bad"} \cap Range(proc[p].said) # {} \/ proc[p].unread

\* A text that strConcat, strRev or terminalReader has put out, of the lines it
\* has read: one after the other, from the end, as it was.
TextOf(p) ==
  LET lines == proc[p].lines IN
  /\ mix[p] = "strConcat" => proc[p].text = lines[1] \o lines[2]
  /\ mix[p] = "strRev" => proc[p].text = Reverse(lines[1])
  /\ mix[p] = "terminalReader" => proc[p].text = lines[1]

\* That is so if the lines were read to their end, and for strRev if there is
\* anything to be reversed.
TextsTrue ==
  \A p \in UProc :
    "text" \in Range(proc[p].said) /\ ~proc[p].unread
      /\ ~(mix[p] = "strRev" /\ proc[p].lines[1] = <<>>) => TextOf(p)

\* strConcat.c:10, "concatenates two strings together and prints them out".
\* Refuted when the terminal fails: nobody looks for a negative result.
TextsAlways == \A p \in UProc : "text" \in Range(proc[p].said) => TextOf(p)
=============================================================================
