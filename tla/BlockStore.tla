----------------------------- MODULE BlockStore -----------------------------
(***************************************************************************)
(* What SYS14 to SYS17 promise: each device is an array of blocks, and     *)
(* each request takes effect at one moment between call and return, or     *)
(* fails and changes nothing, as it does if there is no such block.  A     *)
(* process may end in the middle of its request, which then has taken      *)
(* effect or not.  It takes the devices of its number along: of those      *)
(* nothing is promised any more, unless it was at work on them itself.     *)
(***************************************************************************)
CONSTANTS
  Proc, Device,
  Block,      \* what is asked for
  Exists,     \* the blocks of Device \X Block that there are
  Own,        \* the devices of each process's number
  Val, None

VARIABLES
  blocks,     \* contents of the devices
  request,    \* what each process has asked for
  result,     \* what it is going to be told
  ended,      \* the processes that are gone
  lost        \* the devices of which nothing is promised

storeVars == <<blocks, request, result, ended, lost>>

Requests ==
  [op : {"get"}, dev : Device, blk : Block]
    \cup [op : {"put"}, dev : Device, blk : Block, data : Val]

Init ==
  /\ blocks \in [Exists -> Val]
  /\ request = [p \in Proc |-> None]
  /\ result = [p \in Proc |-> None]
  /\ ended = {} /\ lost = {}

There(r) == <<r.dev, r.blk>> \in Exists

Ask(p, r) ==
  /\ request[p] = None /\ p \notin ended
  /\ request' = [request EXCEPT ![p] = r]
  /\ UNCHANGED <<blocks, result, ended, lost>>

Put(p) ==
  /\ request[p] # None /\ result[p] = None
  /\ request[p].op = "put" /\ There(request[p])
  /\ blocks' = [blocks EXCEPT ![<<request[p].dev, request[p].blk>>] = request[p].data]
  /\ result' = [result EXCEPT ![p] = "ready"]
  /\ UNCHANGED <<request, ended, lost>>

Get(p) ==
  /\ request[p] # None /\ result[p] = None
  /\ request[p].op = "get" /\ There(request[p])
  /\ result' = [result EXCEPT ![p] = blocks[<<request[p].dev, request[p].blk>>]]
  /\ UNCHANGED <<blocks, request, ended, lost>>

Fail(p) ==
  /\ request[p] # None /\ result[p] = None
  /\ result' = [result EXCEPT ![p] = "error"]
  /\ UNCHANGED <<blocks, request, ended, lost>>

Answer(p) ==
  /\ result[p] # None
  /\ request' = [request EXCEPT ![p] = None]
  /\ result' = [result EXCEPT ![p] = None]
  /\ UNCHANGED <<blocks, ended, lost>>

End(p) ==
  /\ p \notin ended /\ ended' = ended \cup {p}
  /\ lost' = lost \cup (Own[p] \ (IF request[p] = None THEN {} ELSE {request[p].dev}))
  /\ request' = [request EXCEPT ![p] = None]
  /\ result' = [result EXCEPT ![p] = None]
  /\ UNCHANGED blocks

\* Whatever processes do to each other at a device that is lost: it concerns its
\* blocks, and those that are at work on it.
Clash ==
  /\ \A x \in Exists : x[1] \notin lost => blocks'[x] = blocks[x]
  /\ \A p \in Proc :
       \/ request'[p] = request[p] /\ result'[p] = result[p]
       \/ /\ request[p] # None /\ request[p].dev \in lost
          /\ request'[p] # None => request'[p].dev = request[p].dev
  /\ blocks' \in [Exists -> Val]
  /\ DOMAIN request' = Proc /\ DOMAIN result' = Proc
  /\ UNCHANGED <<ended, lost>>

Next ==
  \/ \E p \in Proc :
       \/ Put(p) \/ Get(p) \/ Fail(p) \/ Answer(p) \/ End(p)
       \/ \E r \in Requests : Ask(p, r)
  \/ Clash

Spec == Init /\ [][Next]_storeVars
=============================================================================
