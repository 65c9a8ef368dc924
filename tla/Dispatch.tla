------------------------------ MODULE Dispatch ------------------------------
(***************************************************************************)
(* The way of one process through exceptions: from its instruction to the  *)
(* nucleus (gen_exception_handler and what it calls), perhaps on to the    *)
(* support level (sysSupportGenHandler, syscall_excp_handler, the pager's  *)
(* entry), and back behind or to that instruction, or to its death.        *)
(* A program counter counts instructions; the cause is the field ExcCode   *)
(* and the set of pending lines.                                           *)
(***************************************************************************)
EXTENDS Integers, FiniteSets, FiniteSetsExt

CONSTANTS
  Codes,    \* values of ExcCode
  Numbers,  \* what a0 may hold at a SYSCALL
  Lines,    \* interrupt lines other than 0, which no device uses
  MaxPc     \* bound: length of the program

\* What the constants must be; the modules of the runs assume it.
DispatchAssumption ==
  /\ Codes \subseteq 0..31 /\ Lines \subseteq 1..7
  /\ Numbers \subseteq Int /\ Numbers # {}
  /\ MaxPc \in Nat

VARIABLES
  where,      \* running, nucleus, general, pgfault, dead
  pc, user,   \* of the process
  supported,  \* it has a support structure
  pending,    \* lines that request an interrupt
  saved,      \* the state at the start of the BIOS data page
  sup,        \* sup_exceptState, for the two kinds of exception
  done,       \* what was done about the last exception
  raised      \* the last exception as it was raised

vars == <<where, pc, user, supported, pending, saved, sup, done, raised>>

Nothing == <<"nothing", 0>>
\* What a0 holds when it does not matter.
Unset == CHOOSE n \in Numbers : TRUE

State(c, n) == [code |-> c, num |-> n, pc |-> pc, user |-> user]
States == [code : 0..31, num : Numbers, pc : 0..MaxPc+1, user : BOOLEAN]
Kinds == {"general", "pgfault"}

\* A process begins in the mode and with the support structure it is given.
Begin(u, s) ==
  /\ where' = "running" /\ pc' = 0 /\ user' = u /\ supported' = s
  /\ done' = Nothing
  /\ UNCHANGED <<pending, saved, sup, raised>>

Init ==
  /\ where = "running" /\ pc = 0
  /\ user \in BOOLEAN /\ supported \in BOOLEAN
  /\ pending = {}
  /\ saved = State(0, Unset)
  /\ sup = [k \in Kinds |-> saved]
  /\ done = Nothing /\ raised = saved

\* The processor stores the state and jumps to the nucleus.
Exception(c, n) ==
  /\ where = "running" /\ pc < MaxPc
  /\ where' = "nucleus"
  /\ saved' = State(c, n) /\ raised' = saved'
  /\ done' = Nothing
  /\ UNCHANGED <<pc, user, supported, pending, sup>>

Request(l) ==
  /\ where = "running" /\ l \notin pending
  /\ pending' = pending \cup {l} /\ done' = Nothing
  /\ UNCHANGED <<where, pc, user, supported, saved, sup, raised>>

Die(d) ==
  /\ where' = "dead" /\ done' = d
  /\ UNCHANGED <<pc, user, supported, pending, saved, sup, raised>>

\* LDST of the state s, after d was done.
Load(s, d) ==
  /\ where' = "running" /\ pc' = s.pc /\ user' = s.user /\ done' = d
  /\ UNCHANGED <<supported, raised>>

\* To the context of the support structure, in kernel mode, or to the grave.
exceptionPassUpHandler(k, s) ==
  IF supported
  THEN /\ sup' = [sup EXCEPT ![k] = s]
       /\ saved' = s
       /\ where' = k /\ user' = FALSE
       /\ UNCHANGED <<pc, supported, pending, done, raised>>
  ELSE Die(<<"died", s.code>>)

\* The mask 0xFFFFFF28 over ExcCode, which begins at bit 2: it keeps the bits
\* of 2 and 8.
Masked(c) == (IF (c \div 2) % 2 = 1 THEN 2 ELSE 0) + (IF (c \div 8) % 2 = 1 THEN 8 ELSE 0)

\* Mutant: the mode is looked at for numbers above 8 only.
sysTrapHandler_NoMode ==
  LET s == [saved EXCEPT !.pc = @ + 1] IN
  IF s.num \notin 1..8
  THEN exceptionPassUpHandler("general", [s EXCEPT !.code = IF s.user THEN Masked(@) ELSE @])
  ELSE IF s.num = 2 THEN Die(<<"nucleus", 2>>)
  ELSE Load(s, <<"nucleus", s.num>>) /\ UNCHANGED <<pending, saved, sup>>

sysTrapHandler ==
  LET s == [saved EXCEPT !.pc = @ + 1] IN
  IF s.user THEN exceptionPassUpHandler("general", [s EXCEPT !.code = Masked(@)])
  ELSE IF s.num \notin 1..8 THEN exceptionPassUpHandler("general", s)
  ELSE IF s.num = 2 THEN Die(<<"nucleus", 2>>)
  ELSE Load(s, <<"nucleus", s.num>>) /\ UNCHANGED <<pending, saved, sup>>

\* Mutant: the highest line is isolated.
Isolated_High(S) == Max(S)

\* getInterruptLine of the lowest bit that is set; lines 1 and 2 come first.
Isolated(S) == Min(S)

interruptsHandler ==
  /\ pending' = pending \ {Isolated(pending)}
  /\ Load(saved, <<"line", Isolated(pending)>>)
  /\ UNCHANGED <<saved, sup>>

gen_exception_handler ==
  /\ where = "nucleus"
  /\ \/ saved.code = 0 /\ interruptsHandler
     \/ saved.code \in 1..3 /\ exceptionPassUpHandler("pgfault", saved)
     \/ saved.code = 8 /\ sysTrapHandler
     \/ saved.code \notin 0..3 \cup {8} /\ exceptionPassUpHandler("general", saved)

syscall_excp_handler ==
  LET s == sup["general"] IN
  \/ s.num \notin 9..18 /\ Die(<<"died", s.code>>)
  \/ s.num = 9 /\ Die(<<"support", 9>>)
  \/ /\ s.num \in 10..18
     /\ sup' = [sup EXCEPT !["general"].pc = @ + 1]
     /\ Load(sup'["general"], <<"support", s.num>>)
     /\ UNCHANGED <<pending, saved>>

sysSupportGenHandler ==
  /\ where = "general"
  /\ \/ sup["general"].code = 8 /\ syscall_excp_handler
     \/ sup["general"].code # 8 /\ Die(<<"died", sup["general"].code>>)

\* The pager's entry and exit: a TLB modification is a program trap.
tlb_exception_handler ==
  /\ where = "pgfault"
  /\ \/ sup["pgfault"].code = 1 /\ Die(<<"died", 1>>)
     \/ /\ sup["pgfault"].code # 1
        /\ Load(sup["pgfault"], <<"pager", sup["pgfault"].code>>)
        /\ UNCHANGED <<pending, saved, sup>>

Next ==
  \/ \E c \in Codes \ {0, 8} : Exception(c, Unset)
  \/ \E n \in Numbers : Exception(8, n)
  \/ pending # {} /\ Exception(0, Unset)
  \/ \E l \in Lines : Request(l)
  \/ gen_exception_handler
  \/ sysSupportGenHandler
  \/ tlb_exception_handler
  \/ where = "dead" /\ \E u, s \in BOOLEAN : Begin(u, s)
  \/ where = "running" /\ pc >= MaxPc /\ Begin(user, supported)

Spec == Init /\ [][Next]_vars

-----------------------------------------------------------------------------
(* Properties                                                              *)

TypeOK ==
  /\ where \in {"running", "nucleus", "dead"} \cup Kinds
  /\ pc \in 0..MaxPc+1 /\ user \in BOOLEAN /\ supported \in BOOLEAN
  /\ pending \subseteq Lines
  /\ saved \in States /\ raised \in States /\ sup \in [Kinds -> States]

Settled == where \in {"running", "dead"} /\ done # Nothing

\* Whatever path an exception takes through the early returns of both levels,
\* it comes to what is due: the services 1 to 8 for kernel mode only, 9 to 18
\* for processes with a support structure, the pager for invalid entries, death
\* for all else.
Due ==
  LET c == raised.code n == raised.num IN
  Settled /\ c # 0 =>
    done = IF c = 8 /\ ~raised.user /\ n \in 1..8 THEN <<"nucleus", n>>
           ELSE IF c = 8 /\ supported /\ n \in 9..18 THEN <<"support", n>>
           ELSE IF c \in 2..3 /\ supported THEN <<"pager", c>>
           ELSE <<"died", c>>

\* Of the lines that request an interrupt the lowest is served, whatever else
\* is pending, and the interrupted instruction is executed again in its mode;
\* so is one that missed a page.
Restarts ==
  Settled /\ where = "running" /\ raised.code # 8 =>
    /\ pc = raised.pc /\ user = raised.user
    /\ done[1] = "line" => \A l \in pending : l > done[2]

\* A process goes on with the instruction after its SYSCALL.
ResumesBehind ==
  Settled /\ where = "running" /\ raised.code = 8 => pc = raised.pc + 1

\* A nucleus service asked for in user mode is passed up as Reserved Instruction.
TrapIsReserved ==
  where = "general" /\ raised.code = 8 /\ raised.user /\ raised.num \in 1..8
    => sup["general"].code = 10
=============================================================================
