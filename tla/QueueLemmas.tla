----------------------------- MODULE QueueLemmas -----------------------------
(***************************************************************************)
(* What the queue operations of pcb.c keep: the members of a queue, their  *)
(* number and their order, and that nobody is queued twice; and what SYS3  *)
(* and SYS4 do to a semaphore and to who waits for it, for the proofs      *)
(* about the processes above the nucleus.                                  *)
(***************************************************************************)
EXTENDS ProcQueues, Semaphores, SequenceTheorems, FiniteSetTheorems, TLAPS

\* The empty queue (mkEmptyProcQ).
LEMMA EmptyQ ==
  ASSUME NEW S
  PROVE  /\ <<>> \in Seq(S) /\ ToSet(<<>>) = {} /\ Len(<<>>) = 0
         /\ IsInjective(<<>>)
         /\ \A s \in Seq(S) : /\ s = <<>> <=> Len(s) = 0
                              /\ s = <<>> <=> ToSet(s) = {}
<1>1. <<>> \in Seq(S) /\ Len(<<>>) = 0
  BY EmptySeq
<1>2. ToSet(<<>>) = {} /\ IsInjective(<<>>)
  BY DEF ToSet, IsInjective
<1>3. ASSUME NEW s \in Seq(S)
      PROVE  (s = <<>> <=> Len(s) = 0) /\ (s = <<>> <=> ToSet(s) = {})
  <2>1. s = <<>> <=> Len(s) = 0
    BY EmptySeq
  <2>2. Len(s) \in Nat /\ DOMAIN s = 1..Len(s)
    BY LenProperties
  <2>3. ASSUME Len(s) # 0 PROVE s[1] \in ToSet(s)
    BY <2>2, <2>3 DEF ToSet
  <2> QED
    BY <1>2, <2>1, <2>3
<1> QED
  BY <1>1, <1>2, <1>3

\* insertProcQ adds its process and nothing else, behind the others.
LEMMA AppendQ ==
  ASSUME NEW S, NEW s \in Seq(S), NEW p \in S
  PROVE  /\ Append(s, p) \in Seq(S)
         /\ Len(Append(s, p)) = Len(s) + 1
         /\ Append(s, p) # <<>>
         /\ ToSet(Append(s, p)) = ToSet(s) \cup {p}
         /\ IsInjective(s) /\ p \notin ToSet(s) => IsInjective(Append(s, p))
<1>1. DOMAIN s = 1..Len(s) /\ DOMAIN Append(s, p) = 1..(Len(s) + 1)
  BY AppendProperties, LenProperties
<1>2. \A i \in 1..Len(s) : Append(s, p)[i] = s[i] /\ Append(s, p)[Len(s)+1] = p
  BY AppendProperties
<1>3. Append(s, p) \in Seq(S) /\ Len(Append(s, p)) = Len(s) + 1
      /\ Append(s, p) # <<>>
  BY AppendProperties
<1>4. Append(s, p)[Len(s)+1] = p
  BY AppendProperties
<1>5. Len(s) \in Nat
  BY LenProperties
<1>6. ToSet(Append(s, p)) = ToSet(s) \cup {p}
  BY <1>1, <1>2, <1>4, <1>5 DEF ToSet
<1>7. IsInjective(s) /\ p \notin ToSet(s) => IsInjective(Append(s, p))
  BY <1>1, <1>2, <1>4, <1>5 DEF ToSet, IsInjective
<1> QED
  BY <1>3, <1>6, <1>7

\* removeProcQ takes the head.
LEMMA HeadTailQ ==
  ASSUME NEW S, NEW s \in Seq(S), s # <<>>
  PROVE  /\ Head(s) \in S
         /\ Head(s) \in ToSet(s)
         /\ Tail(s) \in Seq(S)
         /\ Len(Tail(s)) = Len(s) - 1
         /\ ToSet(s) = {Head(s)} \cup ToSet(Tail(s))
         /\ IsInjective(s) => IsInjective(Tail(s)) /\ Head(s) \notin ToSet(Tail(s))
<1>1. /\ Head(s) \in S /\ Tail(s) \in Seq(S) /\ Len(Tail(s)) = Len(s) - 1
      /\ \A i \in 1..Len(Tail(s)) : Tail(s)[i] = s[i+1]
  BY HeadTailProperties
<1>2. Len(s) \in Nat /\ Len(s) # 0 /\ DOMAIN s = 1..Len(s)
  BY LenProperties, EmptySeq
<1>3. DOMAIN Tail(s) = 1..(Len(s) - 1)
  BY <1>1, LenProperties
<1>4. Head(s) = s[1]
  OBVIOUS
<1>5. Head(s) \in ToSet(s)
  BY <1>2, <1>4 DEF ToSet
<1>6. ToSet(s) = {Head(s)} \cup ToSet(Tail(s))
  <2>1. ASSUME NEW i \in DOMAIN s PROVE s[i] \in {Head(s)} \cup ToSet(Tail(s))
    <3>1. CASE i = 1
      BY <3>1, <1>4
    <3>2. CASE i # 1
      <4>1. i - 1 \in DOMAIN Tail(s) /\ Tail(s)[i-1] = s[i]
        BY <3>2, <1>1, <1>2, <1>3
      <4> QED BY <4>1 DEF ToSet
    <3> QED BY <3>1, <3>2
  <2>2. ASSUME NEW i \in DOMAIN Tail(s) PROVE Tail(s)[i] \in ToSet(s)
    BY <1>1, <1>2, <1>3 DEF ToSet
  <2> QED
    BY <2>1, <2>2, <1>5 DEF ToSet
<1>7. ASSUME IsInjective(s)
      PROVE IsInjective(Tail(s)) /\ Head(s) \notin ToSet(Tail(s))
  BY <1>1, <1>2, <1>3, <1>4, <1>7 DEF ToSet, IsInjective
<1> QED
  BY <1>1, <1>5, <1>6, <1>7

\* Queueing all of t behind s, in order.
LEMMA ConcatQ ==
  ASSUME NEW S, NEW s \in Seq(S), NEW t \in Seq(S)
  PROVE  /\ s \o t \in Seq(S)
         /\ Len(s \o t) = Len(s) + Len(t)
         /\ ToSet(s \o t) = ToSet(s) \cup ToSet(t)
         /\ IsInjective(s) /\ IsInjective(t) /\ ToSet(s) \cap ToSet(t) = {}
              => IsInjective(s \o t)
<1>1. /\ s \o t \in Seq(S) /\ Len(s \o t) = Len(s) + Len(t)
      /\ \A i \in 1..(Len(s) + Len(t)) :
           (s \o t)[i] = IF i <= Len(s) THEN s[i] ELSE t[i - Len(s)]
  BY ConcatProperties
<1>2. /\ Len(s) \in Nat /\ DOMAIN s = 1..Len(s)
      /\ Len(t) \in Nat /\ DOMAIN t = 1..Len(t)
      /\ DOMAIN (s \o t) = 1..(Len(s) + Len(t))
  BY <1>1, LenProperties
<1>3. ToSet(s \o t) = ToSet(s) \cup ToSet(t)
  <2>1. ASSUME NEW i \in DOMAIN (s \o t) PROVE (s \o t)[i] \in ToSet(s) \cup ToSet(t)
    <3>1. CASE i <= Len(s)
      BY <3>1, <1>1, <1>2 DEF ToSet
    <3>2. CASE ~ (i <= Len(s))
      <4>1. i - Len(s) \in DOMAIN t /\ (s \o t)[i] = t[i - Len(s)]
        BY <3>2, <1>1, <1>2
      <4> QED BY <4>1 DEF ToSet
    <3> QED BY <3>1, <3>2
  <2>2. ASSUME NEW i \in DOMAIN s PROVE s[i] \in ToSet(s \o t)
    <3>1. i \in DOMAIN (s \o t) /\ (s \o t)[i] = s[i]
      BY <1>1, <1>2
    <3> QED BY <3>1 DEF ToSet
  <2>3. ASSUME NEW i \in DOMAIN t PROVE t[i] \in ToSet(s \o t)
    <3>1. i + Len(s) \in DOMAIN (s \o t) /\ (s \o t)[i + Len(s)] = t[i]
      BY <1>1, <1>2
    <3> QED BY <3>1 DEF ToSet
  <2> QED
    BY <2>1, <2>2, <2>3 DEF ToSet
<1>4. ASSUME IsInjective(s), IsInjective(t), ToSet(s) \cap ToSet(t) = {}
      PROVE  IsInjective(s \o t)
  <2> SUFFICES ASSUME NEW a \in 1..(Len(s) + Len(t)), NEW b \in 1..(Len(s) + Len(t)),
                      (s \o t)[a] = (s \o t)[b]
               PROVE  a = b
    BY <1>2 DEF IsInjective
  <2>1. CASE a <= Len(s) /\ b <= Len(s)
    BY <2>1, <1>1, <1>2, <1>4 DEF IsInjective
  <2>2. CASE ~ (a <= Len(s)) /\ ~ (b <= Len(s))
    <3>1. a - Len(s) \in DOMAIN t /\ b - Len(s) \in DOMAIN t
          /\ t[a - Len(s)] = t[b - Len(s)]
      BY <2>2, <1>1, <1>2
    <3>2. a - Len(s) = b - Len(s)
      BY <3>1, <1>4 DEF IsInjective
    <3> QED BY <3>2, <1>2
  <2>3. CASE a <= Len(s) /\ ~ (b <= Len(s))
    <3>1. a \in DOMAIN s /\ b - Len(s) \in DOMAIN t /\ s[a] = t[b - Len(s)]
      BY <2>3, <1>1, <1>2
    <3> QED BY <3>1, <1>4 DEF ToSet
  <2>4. CASE ~ (a <= Len(s)) /\ b <= Len(s)
    <3>1. b \in DOMAIN s /\ a - Len(s) \in DOMAIN t /\ s[b] = t[a - Len(s)]
      BY <2>4, <1>1, <1>2
    <3> QED BY <3>1, <1>4 DEF ToSet
  <2> QED BY <2>1, <2>2, <2>3, <2>4
<1> QED
  BY <1>1, <1>3, <1>4

\* A queue without duplicates is as long as it has members.
LEMMA LenIsCardinality ==
  ASSUME NEW S, NEW s \in Seq(S)
  PROVE  /\ IsFiniteSet(ToSet(s))
         /\ Cardinality(ToSet(s)) <= Len(s)
         /\ IsInjective(s) => Cardinality(ToSet(s)) = Len(s)
<1>1. Len(s) \in Nat /\ DOMAIN s = 1..Len(s) /\ s \in [1..Len(s) -> S]
  BY LenProperties, ElementOfSeq
<1>2. IsFiniteSet(1..Len(s)) /\ Cardinality(1..Len(s)) = Len(s)
  BY <1>1, FS_Interval
<1>3. s \in Surjection(1..Len(s), ToSet(s))
  BY <1>1 DEF Surjection, ToSet
<1>4. s \in Injection(1..Len(s), ToSet(s)) <=> IsInjective(s)
  BY <1>1 DEF Injection, ToSet
<1> QED
  BY <1>2, <1>3, <1>4, FS_Surjection

\* The surviving positions are finitely many; one position further counts at
\* most one more of them.
LEMMA RankStep ==
  ASSUME NEW S, NEW s \in Seq(S), NEW D
  PROVE  /\ Kept(s, D) \subseteq 1..Len(s)
         /\ IsFiniteSet(Kept(s, D))
         /\ Cardinality(Kept(s, D)) \in Nat
         /\ Cardinality(Kept(s, D)) <= Len(s)
         /\ Rank(s, D, 0) = 0
         /\ Rank(s, D, Len(s)) = Cardinality(Kept(s, D))
         /\ \A i \in Int :
              /\ Rank(s, D, i) \in Nat
              /\ Rank(s, D, i) <= Cardinality(Kept(s, D))
              /\ Rank(s, D, i) =
                   IF i \in Kept(s, D) THEN Rank(s, D, i-1) + 1 ELSE Rank(s, D, i-1)
<1> DEFINE K == Kept(s, D)
<1> DEFINE Upto(i) == {j \in K : j <= i}
<1>1. Len(s) \in Nat /\ DOMAIN s = 1..Len(s)
  BY LenProperties
<1>2. K \subseteq 1..Len(s)
  BY <1>1 DEF Kept
<1>3. IsFiniteSet(1..Len(s)) /\ Cardinality(1..Len(s)) = Len(s)
  BY <1>1, FS_Interval
<1>4. IsFiniteSet(K) /\ Cardinality(K) <= Len(s)
  BY <1>2, <1>3, FS_Subset
<1>5. Cardinality(K) \in Nat
  BY <1>4, FS_CardinalityType
<1>6. Upto(0) = {} /\ Upto(Len(s)) = K
  BY <1>1, <1>2
<1>7. Cardinality({}) = 0
  BY FS_EmptySet
<1>8. ASSUME NEW i \in Int
      PROVE  /\ IsFiniteSet(Upto(i)) /\ Cardinality(Upto(i)) \in Nat
             /\ Cardinality(Upto(i)) <= Cardinality(K)
  <2>1. Upto(i) \in SUBSET K
    OBVIOUS
  <2> QED
    BY <1>4, <2>1, FS_Subset, FS_CardinalityType
<1>9. ASSUME NEW i \in Int
      PROVE  Cardinality(Upto(i)) =
               IF i \in K THEN Cardinality(Upto(i-1)) + 1 ELSE Cardinality(Upto(i-1))
  <2>1. CASE i \in K
    <3>1. Upto(i) = Upto(i-1) \cup {i} /\ i \notin Upto(i-1)
      BY <1>1, <1>2, <2>1
    <3>2. IsFiniteSet(Upto(i-1))
      BY <1>8
    <3> HIDE DEF Upto
    <3> QED
      BY <2>1, <3>1, <3>2, FS_AddElement
  <2>2. CASE i \notin K
    <3>1. Upto(i) = Upto(i-1)
      BY <1>1, <1>2, <2>2
    <3> QED
      BY <2>2, <3>1
  <2> QED
    BY <2>1, <2>2
<1>10. \A i : Rank(s, D, i) = Cardinality(Upto(i))
  BY DEF Rank
<1> HIDE DEF Upto, K
<1> QED
  <2>1. K = Kept(s, D)
    BY DEF K
  <2> QED
    BY <1>2, <1>4, <1>5, <1>6, <1>7, <1>8, <1>9, <1>10, <2>1

\* Every number from 1 to the number of survivors is the rank of one.
LEMMA RankOnto ==
  ASSUME NEW S, NEW s \in Seq(S), NEW D,
         NEW n \in 1..Cardinality(Kept(s, D))
  PROVE  \E i \in Kept(s, D) : Rank(s, D, i) = n
<1> DEFINE T == {i \in Nat : Rank(s, D, i) >= n}
<1>1. Len(s) \in Nat
  BY LenProperties
<1>2. Len(s) \in T
  BY <1>1, RankStep
<1>3. PICK i \in T : \A j \in T : ~ (<<j, i>> \in OpToRel(<, Nat))
  BY <1>2, WFMin, NatLessThanWellFounded
<1>4. \A j \in T : ~ (j < i)
  BY <1>3 DEF OpToRel
<1>5. i # 0
  BY RankStep
<1>6. i - 1 \in Nat /\ i - 1 \notin T
  BY <1>4, <1>5
<1>7. Rank(s, D, i-1) < n /\ Rank(s, D, i) >= n
  BY <1>6, RankStep
<1>8. /\ Rank(s, D, i) \in Nat /\ Rank(s, D, i-1) \in Nat
      /\ Rank(s, D, i) = IF i \in Kept(s, D) THEN Rank(s, D, i-1) + 1 ELSE Rank(s, D, i-1)
  BY <1>6, RankStep
<1>9. i \in Kept(s, D) /\ Rank(s, D, i) = n
  BY <1>7, <1>8
<1> QED
  BY <1>9

\* No two survivors have the same rank, and every rank is in range.
LEMMA RankInjective ==
  ASSUME NEW S, NEW s \in Seq(S), NEW D
  PROVE  /\ \A i, k \in Kept(s, D) : Rank(s, D, i) = Rank(s, D, k) => i = k
         /\ \A i \in Kept(s, D) : Rank(s, D, i) \in 1..Cardinality(Kept(s, D))
<1>1. ASSUME NEW i \in Kept(s, D), NEW k \in Kept(s, D), i < k
      PROVE  Rank(s, D, i) # Rank(s, D, k)
  <2> DEFINE Ui == {j \in Kept(s, D) : j <= i}
  <2> DEFINE Uk == {j \in Kept(s, D) : j <= k}
  <2>1. i \in Int /\ k \in Int /\ \A j \in Kept(s, D) : j \in Int
    BY RankStep, LenProperties
  <2>2. Ui \in SUBSET Uk /\ Ui # Uk
    <3>1. \A j \in Kept(s, D) : j <= i => j <= k
      BY <1>1, <2>1
    <3>2. k \in Uk /\ k \notin Ui
      BY <1>1, <2>1
    <3> QED
      BY <3>1, <3>2
  <2>3. IsFiniteSet(Uk)
    <3>1. Uk \in SUBSET Kept(s, D)
      OBVIOUS
    <3> QED
      BY <3>1, RankStep, FS_Subset
  <2>4. Cardinality(Uk) # Cardinality(Ui)
    <3> HIDE DEF Ui, Uk
    <3> QED BY <2>2, <2>3, FS_Subset
  <2> QED
    BY <2>4 DEF Rank
<1>2. \A i \in Kept(s, D) : i \in Int
  BY RankStep, LenProperties
<1>3. ASSUME NEW i \in Kept(s, D) PROVE Rank(s, D, i) \in 1..Cardinality(Kept(s, D))
  <2>1. i \in Int /\ i - 1 \in Int
    BY <1>2
  <2>2. Rank(s, D, i) = Rank(s, D, i-1) + 1 /\ Rank(s, D, i-1) \in Nat
    BY <2>1, RankStep
  <2>3. Rank(s, D, i) <= Cardinality(Kept(s, D)) /\ Cardinality(Kept(s, D)) \in Nat
    BY <2>1, RankStep
  <2> QED
    BY <2>2, <2>3
<1>4. ASSUME NEW i \in Kept(s, D), NEW k \in Kept(s, D),
             Rank(s, D, i) = Rank(s, D, k)
      PROVE  i = k
  <2>1. i \in Int /\ k \in Int
    BY <1>2
  <2>2. ~ (i < k) /\ ~ (k < i)
    BY <1>1, <1>4
  <2> QED
    BY <2>1, <2>2
<1> QED
  BY <1>3, <1>4

\* outProcQ takes out the members of D, keeps all others and nobody twice.
LEMMA WithoutQ ==
  ASSUME NEW S, NEW s \in Seq(S), NEW D
  PROVE  /\ Without(s, D) \in Seq(S)
         /\ Len(Without(s, D)) <= Len(s)
         /\ ToSet(Without(s, D)) = ToSet(s) \ D
         /\ IsInjective(s) => IsInjective(Without(s, D))
<1> DEFINE K == Kept(s, D)
<1> DEFINE N == Cardinality(K)
<1> DEFINE at(n) == CHOOSE i \in K : Rank(s, D, i) = n
<1>1. Len(s) \in Nat /\ DOMAIN s = 1..Len(s) /\ \A i \in DOMAIN s : s[i] \in S
  BY LenProperties, ElementOfSeq
<1>2. K \subseteq DOMAIN s /\ N \in Nat /\ N <= Len(s)
  BY <1>1, RankStep
<1>3. \A n \in 1..N : at(n) \in K /\ Rank(s, D, at(n)) = n
  BY RankOnto
<1>4. \A i \in K : Rank(s, D, i) \in 1..N /\ at(Rank(s, D, i)) = i
  BY <1>3, RankInjective
<1>5. Without(s, D) = [n \in 1..N |-> s[at(n)]]
  BY DEF Without
<1> HIDE DEF at, N
<1>6. \A n \in 1..N : s[at(n)] \in S
  BY <1>1, <1>2, <1>3
<1>7. Without(s, D) \in Seq(S) /\ Len(Without(s, D)) = N
  BY <1>2, <1>5, <1>6, IsASeq
<1>8. DOMAIN Without(s, D) = 1..N
  BY <1>5
<1>9. ToSet(Without(s, D)) = {s[i] : i \in K}
  <2>1. ASSUME NEW n \in 1..N PROVE Without(s, D)[n] \in {s[i] : i \in K}
    BY <1>3, <1>5
  <2>2. ASSUME NEW i \in K PROVE s[i] \in ToSet(Without(s, D))
    <3>1. Without(s, D)[Rank(s, D, i)] = s[i]
      BY <1>4, <1>5
    <3> QED
      BY <1>4, <1>8, <3>1 DEF ToSet
  <2> QED
    BY <1>8, <2>1, <2>2 DEF ToSet
<1>10. {s[i] : i \in K} = ToSet(s) \ D
  BY DEF ToSet, Kept
<1>11. ASSUME IsInjective(s),
              NEW a \in 1..N, NEW b \in 1..N, Without(s, D)[a] = Without(s, D)[b]
       PROVE  a = b
  <2>1. s[at(a)] = s[at(b)] /\ at(a) \in DOMAIN s /\ at(b) \in DOMAIN s
    BY <1>2, <1>3, <1>5, <1>11
  <2>2. at(a) = at(b)
    BY <1>11, <2>1 DEF IsInjective
  <2> QED
    BY <1>3, <2>2
<1> QED
  BY <1>2, <1>7, <1>8, <1>9, <1>10, <1>11 DEF IsInjective

\* A queue none of whose members is taken out stays as it is.
LEMMA WithoutNone ==
  ASSUME NEW S, NEW s \in Seq(S), NEW D, ToSet(s) \cap D = {}
  PROVE  Without(s, D) = s
<1> DEFINE K == Kept(s, D)
<1> DEFINE at(n) == CHOOSE i \in K : Rank(s, D, i) = n
<1>1. Len(s) \in Nat /\ DOMAIN s = 1..Len(s)
  BY LenProperties
<1>2. K = 1..Len(s)
  BY <1>1 DEF Kept, ToSet
<1>3. Cardinality(1..Len(s)) = Len(s)
  BY <1>1, FS_Interval
<1>4. ASSUME NEW n \in 1..Len(s) PROVE at(n) = n
  <2>1. {j \in K : j <= n} = 1..n
    BY <1>1, <1>2
  <2>2. Rank(s, D, n) = n
    <3>1. n \in Int /\ n >= 1
      BY <1>1
    <3>2. Cardinality(1..n) = n
      BY <3>1, FS_Interval
    <3> QED
      BY <2>1, <3>2 DEF Rank
  <2> QED
    BY <1>2, <2>2, RankInjective
<1>5. Without(s, D) = [n \in 1..Len(s) |-> s[at(n)]]
  BY <1>2, <1>3 DEF Without
<1> HIDE DEF at
<1>6. Without(s, D) = [n \in 1..Len(s) |-> s[n]]
  BY <1>4, <1>5
<1> QED
  BY <1>1, <1>6, ElementOfSeq

\* What outProcQ takes out of a queue without duplicates, it takes out once.
LEMMA WithoutLen ==
  ASSUME NEW S, NEW s \in Seq(S), NEW D, IsInjective(s)
  PROVE  /\ Cardinality(ToSet(s) \cap D) \in Nat
         /\ Len(Without(s, D)) = Len(s) - Cardinality(ToSet(s) \cap D)
<1>1. Without(s, D) \in Seq(S) /\ ToSet(Without(s, D)) = ToSet(s) \ D
      /\ IsInjective(Without(s, D))
  BY WithoutQ
<1>2. /\ IsFiniteSet(ToSet(s)) /\ Cardinality(ToSet(s)) = Len(s)
      /\ Cardinality(ToSet(s) \ D) = Len(Without(s, D))
  BY <1>1, LenIsCardinality
<1>3. ToSet(s) = (ToSet(s) \ D) \cup (ToSet(s) \cap D)
      /\ (ToSet(s) \ D) \cap (ToSet(s) \cap D) = {}
  OBVIOUS
<1>4. IsFiniteSet(ToSet(s) \ D) /\ IsFiniteSet(ToSet(s) \cap D)
  <2>1. ToSet(s) \ D \in SUBSET ToSet(s) /\ ToSet(s) \cap D \in SUBSET ToSet(s)
    OBVIOUS
  <2> QED
    BY <1>2, <2>1, FS_Subset
<1>5. Cardinality(ToSet(s)) =
        Cardinality(ToSet(s) \ D) + Cardinality(ToSet(s) \cap D) - 0
  <2>1. Cardinality((ToSet(s) \ D) \cup (ToSet(s) \cap D)) =
          Cardinality(ToSet(s) \ D) + Cardinality(ToSet(s) \cap D)
          - Cardinality((ToSet(s) \ D) \cap (ToSet(s) \cap D))
    BY <1>4, FS_Union
  <2>2. Cardinality((ToSet(s) \ D) \cap (ToSet(s) \cap D)) = 0
    BY <1>3, FS_EmptySet
  <2> QED
    BY <1>3, <2>1, <2>2
<1>6. Cardinality(ToSet(s) \ D) \in Nat /\ Cardinality(ToSet(s) \cap D) \in Nat
  BY <1>4, FS_CardinalityType
<1> QED
  BY <1>2, <1>5, <1>6

\* A survivor further back has a greater rank.
LEMMA RankOrder ==
  ASSUME NEW S, NEW s \in Seq(S), NEW D,
         NEW i \in Kept(s, D), NEW k \in Kept(s, D), i < k
  PROVE  Rank(s, D, i) < Rank(s, D, k)
<1> DEFINE Ui == {j \in Kept(s, D) : j <= i}
           Uk == {j \in Kept(s, D) : j <= k}
<1>1. i \in Int /\ k \in Int /\ \A j \in Kept(s, D) : j \in Int
  BY RankStep, LenProperties
<1>2. Ui \in SUBSET Uk
  <2>1. \A j \in Kept(s, D) : j <= i => j <= k
    BY <1>1
  <2> QED
    BY <2>1
<1>3. IsFiniteSet(Uk)
  <2>1. Uk \in SUBSET Kept(s, D)
    OBVIOUS
  <2> QED
    BY <2>1, RankStep, FS_Subset
<1>4. Rank(s, D, i) = Cardinality(Ui) /\ Rank(s, D, k) = Cardinality(Uk)
  BY DEF Rank
<1> HIDE DEF Ui, Uk
<1>5. Cardinality(Ui) <= Cardinality(Uk)
  BY <1>2, <1>3, FS_Subset
<1>6. Rank(s, D, i) \in Nat /\ Rank(s, D, k) \in Nat /\ Rank(s, D, i) # Rank(s, D, k)
  BY <1>1, RankStep, RankInjective
<1> QED
  BY <1>4, <1>5, <1>6

\* outProcQ keeps the order of those it leaves.
LEMMA WithoutOrder ==
  ASSUME NEW S, NEW s \in Seq(S), NEW D, NEW p, NEW q,
         Before(s, p, q), p \notin D, q \notin D
  PROVE  Before(Without(s, D), p, q)
<1> DEFINE K == Kept(s, D)
           N == Cardinality(K)
           at(n) == CHOOSE i \in K : Rank(s, D, i) = n
<1>1. PICK i \in DOMAIN s, k \in DOMAIN s : i < k /\ s[i] = p /\ s[k] = q
  BY DEF Before
<1>2. i \in K /\ k \in K
  BY <1>1 DEF Kept
<1>3. \A n \in 1..N : at(n) \in K /\ Rank(s, D, at(n)) = n
  BY RankOnto
<1>4. \A j \in K : Rank(s, D, j) \in 1..N /\ at(Rank(s, D, j)) = j
  BY <1>3, RankInjective
<1>5. Without(s, D) = [n \in 1..N |-> s[at(n)]]
  BY DEF Without
<1>6. Rank(s, D, i) < Rank(s, D, k)
  BY <1>1, <1>2, RankOrder
<1> HIDE DEF at, N, K
<1>7. /\ Without(s, D)[Rank(s, D, i)] = p /\ Without(s, D)[Rank(s, D, k)] = q
      /\ Rank(s, D, i) \in DOMAIN Without(s, D) /\ Rank(s, D, k) \in DOMAIN Without(s, D)
  BY <1>1, <1>2, <1>4, <1>5
<1> QED
  BY <1>6, <1>7 DEF Before

\* In a queue without repetitions, of two processes one is in front.
LEMMA BeforeTotal ==
  ASSUME NEW S, NEW s \in Seq(S), NEW p \in ToSet(s), NEW q \in ToSet(s), p # q
  PROVE  Before(s, p, q) \/ Before(s, q, p)
<1>1. DOMAIN s = 1..Len(s) /\ Len(s) \in Nat
  BY LenProperties
<1>2. PICK i \in DOMAIN s, k \in DOMAIN s : s[i] = p /\ s[k] = q
  BY DEF ToSet
<1>3. i < k \/ k < i
  BY <1>1, <1>2
<1> QED
  BY <1>2, <1>3 DEF Before

\* Never both.
LEMMA BeforeStrict ==
  ASSUME NEW S, NEW s \in Seq(S), IsInjective(s), NEW p, NEW q, Before(s, p, q)
  PROVE  ~Before(s, q, p)
<1>1. DOMAIN s = 1..Len(s) /\ Len(s) \in Nat
  BY LenProperties
<1>2. PICK i \in DOMAIN s, k \in DOMAIN s : i < k /\ s[i] = p /\ s[k] = q
  BY DEF Before
<1>3. ASSUME NEW j \in DOMAIN s, NEW l \in DOMAIN s, j < l, s[j] = q, s[l] = p
      PROVE  FALSE
  <2>1. j = k /\ l = i
    BY <1>2, <1>3 DEF IsInjective
  <2> QED
    BY <1>1, <1>2, <1>3, <2>1
<1> QED
  BY <1>3 DEF Before

\* Who is taken off the head was in front of all, and the others keep their order.
LEMMA BeforeTail ==
  ASSUME NEW S, NEW s \in Seq(S), s # <<>>, NEW p, NEW q
  PROVE  /\ q \in ToSet(Tail(s)) => Before(s, Head(s), q)
         /\ Before(s, p, q) /\ p # Head(s) => Before(Tail(s), p, q)
<1>1. /\ Len(s) \in Nat \ {0} /\ DOMAIN s = 1..Len(s) /\ Head(s) = s[1]
      /\ DOMAIN Tail(s) = 1..(Len(s) - 1) /\ Len(s) - 1 \in Nat
      /\ \A i \in 1..(Len(s) - 1) : Tail(s)[i] = s[i+1]
  BY HeadTailProperties, EmptySeq, LenProperties
<1>2. ASSUME q \in ToSet(Tail(s)) PROVE Before(s, Head(s), q)
  <2>1. PICK i \in 1..(Len(s) - 1) : Tail(s)[i] = q
    BY <1>1, <1>2 DEF ToSet
  <2>2. 1 \in DOMAIN s /\ i + 1 \in DOMAIN s /\ 1 < i + 1 /\ s[i+1] = q
    BY <1>1, <2>1
  <2> QED
    BY <1>1, <2>2 DEF Before
<1>3. ASSUME Before(s, p, q), p # Head(s) PROVE Before(Tail(s), p, q)
  <2>1. PICK i \in DOMAIN s, k \in DOMAIN s : i < k /\ s[i] = p /\ s[k] = q
    BY <1>3 DEF Before
  <2>2. i # 1
    BY <1>1, <1>3, <2>1
  <2>3. i - 1 \in 1..(Len(s) - 1) /\ k - 1 \in 1..(Len(s) - 1) /\ i - 1 < k - 1
    BY <1>1, <2>1, <2>2
  <2>4. Tail(s)[i-1] = p /\ Tail(s)[k-1] = q
    BY <1>1, <2>1, <2>3
  <2> QED
    BY <1>1, <2>3, <2>4 DEF Before
<1> QED
  BY <1>2, <1>3

\* Only members of a queue are in front of one another.
LEMMA BeforeIn ==
  ASSUME NEW S, NEW s \in Seq(S), NEW p, NEW q, Before(s, p, q)
  PROVE  p \in ToSet(s) /\ q \in ToSet(s)
BY DEF Before, ToSet

\* Naming processes that are not in the queue makes no difference.
LEMMA WithoutSame ==
  ASSUME NEW q, NEW D, NEW E, Kept(q, D) = Kept(q, E)
  PROVE  Without(q, D) = Without(q, E)
<1>1. \A i : Rank(q, D, i) = Rank(q, E, i)
  BY DEF Rank
<1>2. Without(q, D) = [n \in 1..Cardinality(Kept(q, E)) |->
                         q[CHOOSE i \in Kept(q, E) : Rank(q, D, i) = n]]
  BY DEF Without
<1> QED
  BY <1>1, <1>2 DEF Without, Rank

-----------------------------------------------------------------------------
(* SYS3 and SYS4                                                           *)

\* passeren: whoever finds the integer positive goes on, the others wait.
LEMMA TakeFacts ==
  ASSUME NEW S, NEW T, NEW sm \in Semaphores(S, T), NEW s \in S, NEW p \in T,
         NEW new, new = passeren(sm, s, p)
  PROVE  /\ new \in Semaphores(S, T)
         /\ \A t \in S \ {s} : new[t] = sm[t]
         /\ new[s].val = sm[s].val - 1
         /\ sm[s].val > 0 => new[s].queue = sm[s].queue
         /\ ~(sm[s].val > 0) => /\ new[s].queue = Append(sm[s].queue, p)
                                /\ ToSet(new[s].queue) = ToSet(sm[s].queue) \cup {p}
<1> DEFINE n == sm[s].val - 1
<1> DEFINE q == IF sm[s].val > 0 THEN sm[s].queue ELSE Append(sm[s].queue, p)
<1>1. sm[s].queue \in Seq(T) /\ sm[s].val \in Int
  BY DEF Semaphores
<1>2. /\ Append(sm[s].queue, p) \in Seq(T)
      /\ ToSet(Append(sm[s].queue, p)) = ToSet(sm[s].queue) \cup {p}
  BY <1>1, AppendQ
<1>3. n \in Int /\ q \in Seq(T)
  BY <1>1, <1>2
<1>4. new = [sm EXCEPT ![s].val = n, ![s].queue = q]
  BY DEF passeren
<1> HIDE DEF n, q
<1>5. sm \in [S -> [val : Int, queue : Seq(T)]]
  BY DEF Semaphores
<1>6. [sm EXCEPT ![s].val = n] \in [S -> [val : Int, queue : Seq(T)]]
  BY <1>3, <1>5
<1>7. new \in Semaphores(S, T)
  BY <1>3, <1>4, <1>6 DEF Semaphores
<1>8. new[s].val = n /\ new[s].queue = q /\ \A t \in S \ {s} : new[t] = sm[t]
  BY <1>3, <1>4, <1>5
<1> QED
  BY <1>2, <1>7, <1>8 DEF n, q

\* verhogen: the first of those who wait goes on.
LEMMA GiveFacts ==
  ASSUME NEW S, NEW T, NEW sm \in Semaphores(S, T), NEW s \in S,
         NEW new, new = verhogen(sm, s)
  PROVE  /\ new \in Semaphores(S, T)
         /\ \A t \in S \ {s} : new[t] = sm[t]
         /\ new[s].val = sm[s].val + 1
         /\ sm[s].val < 0 /\ sm[s].queue # <<>> => new[s].queue = Tail(sm[s].queue)
         /\ sm[s].val >= 0 \/ sm[s].queue = <<>> => new[s].queue = sm[s].queue
<1> DEFINE n == sm[s].val + 1
<1> DEFINE q == IF sm[s].val < 0 /\ sm[s].queue # <<>> THEN Tail(sm[s].queue)
                ELSE sm[s].queue
<1>1. sm[s].queue \in Seq(T) /\ sm[s].val \in Int
  BY DEF Semaphores
<1>2. sm[s].queue # <<>> => Tail(sm[s].queue) \in Seq(T)
  BY <1>1, HeadTailQ
<1>3. n \in Int /\ q \in Seq(T)
  BY <1>1, <1>2
<1>4. new = [sm EXCEPT ![s].val = n, ![s].queue = q]
  BY DEF verhogen
<1> HIDE DEF n, q
<1>5. sm \in [S -> [val : Int, queue : Seq(T)]]
  BY DEF Semaphores
<1>6. [sm EXCEPT ![s].val = n] \in [S -> [val : Int, queue : Seq(T)]]
  BY <1>3, <1>5
<1>7. new \in Semaphores(S, T)
  BY <1>3, <1>4, <1>6 DEF Semaphores
<1>8. new[s].val = n /\ new[s].queue = q /\ \A t \in S \ {s} : new[t] = sm[t]
  BY <1>3, <1>4, <1>5
<1> QED
  BY <1>1, <1>7, <1>8 DEF n, q

\* verhogen takes nobody off the queue of a semaphore that is not negative, and
\* never more than one.
LEMMA GivePops ==
  ASSUME NEW S, NEW T, NEW sm \in Semaphores(S, T), NEW s \in S,
         NEW new, new = verhogen(sm, s)
  PROVE  /\ \A x \in ToSet(new[s].queue) : x \in ToSet(sm[s].queue)
         /\ \A x, y \in ToSet(sm[s].queue) :
              x \notin ToSet(new[s].queue) /\ y \notin ToSet(new[s].queue)
                => x = y /\ sm[s].val < 0
<1>1. sm[s].queue \in Seq(T) /\ sm[s].val \in Int
  BY DEF Semaphores
<1>2. CASE sm[s].val < 0 /\ sm[s].queue # <<>>
  <2>1. new[s].queue = Tail(sm[s].queue)
    BY <1>2, GiveFacts
  <2>2. ToSet(sm[s].queue) = {Head(sm[s].queue)} \cup ToSet(Tail(sm[s].queue))
    BY <1>1, <1>2, HeadTailQ
  <2> QED
    BY <1>2, <2>1, <2>2
<1>3. CASE sm[s].val >= 0 \/ sm[s].queue = <<>>
  <2>1. new[s].queue = sm[s].queue
    BY <1>3, GiveFacts
  <2> QED
    BY <2>1
<1> QED
  BY <1>1, <1>2, <1>3
=============================================================================
