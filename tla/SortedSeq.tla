------------------------------ MODULE SortedSeq ------------------------------
(***************************************************************************)
(* The test program sortedSeq.c: integers are read from a line, sorted by  *)
(* heapsort and written.  A character is a digit or one of the negative    *)
(* codes below; the base and the largest integer are parameters, 10 and    *)
(* 2^31 - 1 in the code.  Arrays begin at 1 here.                          *)
(***************************************************************************)
EXTENDS Integers, Sequences, SequencesExt, FiniteSets

CONSTANTS
  Base, INT_MAX,
  MAX_NUMS,
  Length,      \* bound: characters of a line
  Values       \* bound: what an array holds that is only sorted

\* What the constants must be; the modules of the runs assume it.
SortedSeqAssumption ==
  /\ Base \in Nat \ {0, 1} /\ INT_MAX \in Nat
  /\ {MAX_NUMS, Length} \subseteq Nat \ {0}
  /\ Values \subseteq -INT_MAX..INT_MAX

Space == -1  Minus == -2  Letter == -3
Digits == 0..Base-1
Chars == Digits \cup {Space, Minus, Letter}

VARIABLES
  input,    \* the line without its end
  i,        \* the loop's index
  numbers,  \* the array
  skipped,  \* a warning was written
  read,     \* history: the numbers as they were read
  phase,    \* ask, read, build, take, write, done
  output    \* the texts written

vars == <<input, i, numbers, skipped, read, phase, output>>

Init ==
  /\ input \in UNION {[1..n -> Chars] : n \in 0..Length}
  /\ i = 1 /\ numbers = <<>> /\ read = <<>> /\ output = <<>>
  /\ skipped = FALSE /\ phase = "ask"

-----------------------------------------------------------------------------
(* The conversions                                                         *)

Signed(neg, n) == IF neg THEN -n ELSE n

IsDigit(k) == k <= Len(input) /\ input[k] \in Digits

\* Mutant: the largest integer is turned away.
RECURSIVE Convert_Strict(_, _)
Convert_Strict(k, result) ==
  IF ~IsDigit(k) THEN [next |-> k, value |-> result]
  ELSE IF \/ result > INT_MAX \div Base
          \/ result = INT_MAX \div Base /\ input[k] >= INT_MAX % Base
       THEN [next |-> 0, value |-> result]
  ELSE Convert_Strict(k + 1, result * Base + input[k])

\* The digits from k on, after those of result; next is 0 if they are too many.
RECURSIVE Convert(_, _)
Convert(k, result) ==
  IF ~IsDigit(k) THEN [next |-> k, value |-> result]
  ELSE IF \/ result > INT_MAX \div Base
          \/ result = INT_MAX \div Base /\ input[k] > INT_MAX % Base
       THEN [next |-> 0, value |-> result]
  ELSE Convert(k + 1, result * Base + input[k])

\* The end of the number that begins at k, and its value.
atoiConversion(k) ==
  LET neg == input[k] = Minus
      r == Convert(IF neg THEN k + 1 ELSE k, 0) IN
  [r EXCEPT !.value = Signed(neg, @)]

\* The digits of a positive number, the last first, as the loop leaves them.
RECURSIVE Backwards(_)
Backwards(n) == IF n = 0 THEN <<>> ELSE <<n % Base>> \o Backwards(n \div Base)

\* Mutant: zero has no text of its own.
itoaConversion_NoZero(val) ==
  Reverse(IF val < 0 THEN Append(Backwards(-val), Minus) ELSE Backwards(val))

itoaConversion(val) ==
  IF val = 0 THEN <<0>>
  ELSE Reverse(IF val < 0 THEN Append(Backwards(-val), Minus) ELSE Backwards(val))

-----------------------------------------------------------------------------
(* The heap                                                                *)

swap(arr, a, b) == [arr EXCEPT ![a] = arr[b], ![b] = arr[a]]

Greater(arr, n, a, b) == IF b <= n /\ arr[b] > arr[a] THEN b ELSE a

\* Mutant: the right child is compared with the parent.
RECURSIVE heapify_Parent(_, _, _)
heapify_Parent(arr, n, k) ==
  LET left == Greater(arr, n, k, 2 * k)
      largest == IF Greater(arr, n, k, 2 * k + 1) = k THEN left ELSE 2 * k + 1 IN
  IF largest = k THEN arr ELSE heapify_Parent(swap(arr, k, largest), n, largest)

\* The element at k sinks in the first n to where no child is greater.
RECURSIVE heapify(_, _, _)
heapify(arr, n, k) ==
  LET largest == Greater(arr, n, Greater(arr, n, k, 2 * k), 2 * k + 1) IN
  IF largest = k THEN arr ELSE heapify(swap(arr, k, largest), n, largest)

-----------------------------------------------------------------------------
(* The program: a step is a turn of one of its loops                       *)

\* The first character at or after k that is not a space.
Start(k) ==
  LET S == {j \in k..Len(input) : input[j] # Space} IN
  IF S = {} THEN Len(input) + 1 ELSE CHOOSE j \in S : \A l \in S : j <= l

\* SYS13; a negative result ends the program.  Of an empty line, the byte in
\* front of the buffer may be taken for its newline: a length of -1 or of 0 ends
\* the loop that follows alike.
Ask ==
  /\ phase = "ask" /\ phase' \in {"read", "done"}
  /\ UNCHANGED <<input, i, numbers, skipped, read, output>>

ReadOn == i <= Len(input) /\ Len(numbers) < MAX_NUMS /\ Start(i) <= Len(input)

ReadNumber ==
  /\ phase = "read" /\ ReadOn
  /\ LET at == Start(i) r == atoiConversion(at) IN
     \/ /\ r.next > at
        /\ numbers' = Append(numbers, r.value) /\ i' = r.next
        /\ UNCHANGED skipped
     \/ /\ r.next <= at
        /\ i' = at + 1 /\ skipped' = (skipped \/ r.next = 0)
        /\ UNCHANGED numbers
  /\ UNCHANGED <<input, read, phase, output>>

\* No number ends the program; else the sorting begins.
ReadEnd ==
  /\ phase = "read" /\ ~ReadOn
  /\ read' = numbers
  /\ phase' = IF numbers = <<>> THEN "done" ELSE "build"
  /\ i' = Len(numbers) \div 2
  /\ UNCHANGED <<input, numbers, skipped, output>>

Build ==
  /\ phase = "build"
  /\ IF i > 0
     THEN numbers' = heapify(numbers, Len(numbers), i) /\ i' = i - 1 /\ UNCHANGED phase
     ELSE phase' = "take" /\ i' = Len(numbers) /\ UNCHANGED numbers
  /\ UNCHANGED <<input, skipped, read, output>>

Take ==
  /\ phase = "take"
  /\ IF i > 0
     THEN /\ numbers' = heapify(swap(numbers, 1, i), i - 1, 1)
          /\ i' = i - 1
          /\ UNCHANGED phase
     ELSE phase' = "write" /\ i' = 1 /\ UNCHANGED numbers
  /\ UNCHANGED <<input, skipped, read, output>>

Write ==
  /\ phase = "write"
  /\ IF i <= Len(numbers)
     THEN output' = Append(output, itoaConversion(numbers[i])) /\ i' = i + 1 /\ UNCHANGED phase
     ELSE phase' = "done" /\ UNCHANGED <<i, output>>
  /\ UNCHANGED <<input, numbers, skipped, read>>

Finished == phase = "done" /\ UNCHANGED vars

Next == Ask \/ ReadNumber \/ ReadEnd \/ Build \/ Take \/ Write \/ Finished

Spec == Init /\ [][Next]_vars

\* From any array that a line may hold.
InitArray ==
  /\ numbers \in UNION {[1..n -> Values] : n \in 1..MAX_NUMS}
  /\ i = Len(numbers) \div 2 /\ read = numbers /\ output = <<>>
  /\ input = <<>> /\ skipped = FALSE /\ phase = "build"

-----------------------------------------------------------------------------
(* Properties                                                              *)

\* What is in the array fits a machine word, whatever was typed.
TypeOK ==
  /\ Len(numbers) <= MAX_NUMS
  /\ \A k \in DOMAIN numbers : numbers[k] \in -INT_MAX..INT_MAX
  /\ phase \in {"ask", "read", "build", "take", "write", "done"}

\* Reference: the value of a text, by the powers of the base.
RECURSIVE Value(_)
Value(s) == IF s = <<>> THEN 0 ELSE Value(Front(s)) * Base + Last(s)

ValueOf(s) == IF Head(s) = Minus THEN -Value(Tail(s)) ELSE Value(s)

\* The words of the line, between its spaces.
Words ==
  LET Bounds == {b \in (1..Len(input)) \X (1..Len(input)) :
                   /\ b[1] <= b[2] /\ \A k \in b[1]..b[2] : input[k] # Space
                   /\ b[1] = 1 \/ input[b[1] - 1] = Space
                   /\ b[2] = Len(input) \/ input[b[2] + 1] = Space} IN
  [k \in 1..Cardinality(Bounds) |->
     LET b == CHOOSE x \in Bounds : Cardinality({y \in Bounds : y[1] < x[1]}) = k - 1 IN
     SubSeq(input, b[1], b[2])]

IsNumeral(w) ==
  /\ w # <<>>
  /\ LET d == IF Head(w) = Minus THEN Tail(w) ELSE w IN d # <<>> /\ Range(d) \subseteq Digits

Fits(w) == ValueOf(w) \in -INT_MAX..INT_MAX

\* A line of integers separated by spaces is read as those integers, the first
\* twenty of them, up to the largest that a word can hold, without a warning.
NumbersRead ==
  LET w == Words IN
  phase = "build" /\ (\A k \in DOMAIN w : IsNumeral(w[k]) /\ Fits(w[k])) =>
    ~skipped /\ read = [k \in 1..(IF Len(w) < MAX_NUMS THEN Len(w) ELSE MAX_NUMS) |-> ValueOf(w[k])]

HeapFrom(a, n) ==
  \A k \in a..n : \A c \in {2 * k, 2 * k + 1} : c <= n => numbers[k] >= numbers[c]

\* heapsort's loops: behind i there are heaps, then the greatest in order, and
\* the array stays a permutation of what was read.
HeapSorts ==
  LET n == Len(numbers) IN
  /\ phase = "build" => HeapFrom(i + 1, n)
  /\ phase = "take" =>
       /\ \A k \in i+1..n, j \in 1..n : j <= k => numbers[j] <= numbers[k]
       /\ HeapFrom(1, i)
  /\ phase \notin {"ask", "read"} =>
       \A v \in Range(read) \cup Range(numbers) :
         Cardinality({k \in DOMAIN read : read[k] = v})
           = Cardinality({k \in DOMAIN numbers : numbers[k] = v})

\* Every number is written as a text that has its value and no digit too many.
TextsTrue ==
  \A k \in DOMAIN output :
    /\ IsNumeral(output[k]) /\ ValueOf(output[k]) = numbers[k]
    /\ Len(output[k]) > 1 => output[k][1] # 0
=============================================================================
