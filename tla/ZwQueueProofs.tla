---------------------------- MODULE ZwQueueProofs ----------------------------
(***************************************************************************)
(* The task queue of zwave_daemon for every set of cells, every finite set *)
(* of priorities and every payload: its types, the shape of the list, when *)
(* queue_found can find an equal task, and that the list implements the    *)
(* queue of TaskQueue.                                                     *)
(*                                                                         *)
(* The inductive invariant is that some sequence of units is linked from   *)
(* head to tail in both directions without a repetition and is exactly     *)
(* what is queued (ListInv), and that a unit that is not in the list yet   *)
(* has no links (Unlinked). Chain, which the model reads off the pointers  *)
(* as a recursive function, is that sequence: were they to differ, they    *)
(* would at a least place (ChainIs), and a least counterexample needs no   *)
(* induction.                                                              *)
(*                                                                         *)
(* Every step takes a linked sequence to a linked sequence as the abstract *)
(* queue allows (StepOfTheList); the invariant and the refinement both     *)
(* follow from that one lemma.                                             *)
(***************************************************************************)
EXTENDS ZwQueue, FiniteSetTheorems, TLAPS

\* A set of naturals that is not empty has a least element.
LEMMA Least ==
  ASSUME NEW S \in SUBSET Nat, S # {}
  PROVE  \E m \in S : \A k \in S : m <= k
<1> DEFINE R == {ss \in Nat \X Nat : ss[1] < ss[2]}
<1>1. IsWellFoundedOn(R, Nat)
  BY NatLessThanWellFounded DEF OpToRel
<1>2. IsWellFoundedOn(R, S)
  BY <1>1, IsWellFoundedOnSubset
<1>3. PICK m \in S : \A k \in S : ~ (<<k, m>> \in R)
  <2> HIDE DEF R
  <2> QED BY <1>2, WFMin
<1>4. ASSUME NEW k \in S PROVE m <= k
  <2>1. <<k, m>> \in Nat \X Nat /\ <<k, m>>[1] = k /\ <<k, m>>[2] = m
    OBVIOUS
  <2>2. ~ (k < m)
    BY <1>3, <2>1
  <2> QED BY <2>2
<1> QED BY <1>4

\* The units of s are linked, from head to tail, and none occurs twice.
Linked(s) ==
  LET n == Len(s) IN
  /\ head = IF n = 0 THEN Null ELSE s[1]
  /\ tail = IF n = 0 THEN Null ELSE s[n]
  /\ \A i \in 1 .. n :
       /\ next[s[i]] = IF i = n THEN Null ELSE s[i + 1]
       /\ prev[s[i]] = IF i = 1 THEN Null ELSE s[i - 1]
  /\ \A i, j \in 1 .. n : s[i] = s[j] => i = j

\* What is linked is what is queued, and it is counted.
Holds(s) ==
  /\ count = Len(s)
  /\ \A u \in Units : where[u] = "queued" <=> \E i \in 1 .. Len(s) : s[i] = u

ListInv == \E s \in Seq(Units) : Linked(s) /\ Holds(s)

\* The links of a unit that is not in the list yet are NULL.
Unlinked ==
  \A u \in Units : where[u] \in {"free", "fresh"} => prev[u] = Null /\ next[u] = Null

\* A sequence of units without repetition is no longer than there are units.
LEMMA LengthBound ==
  ASSUME NEW s \in Seq(Units), \A i, j \in 1 .. Len(s) : s[i] = s[j] => i = j
  PROVE  /\ Cardinality(Units) \in Nat
         /\ Len(s) <= Cardinality(Units)
         /\ Cardinality({s[i] : i \in 1 .. Len(s)}) = Len(s)
<1>1. Len(s) \in Nat /\ IsFiniteSet(1 .. Len(s)) /\ Cardinality(1 .. Len(s)) = Len(s)
  BY FS_Interval
<1> DEFINE S == {s[i] : i \in 1 .. Len(s)}
           f == [i \in 1 .. Len(s) |-> s[i]]
<1>2. f \in Bijection(1 .. Len(s), S)
  <2>1. f \in [1 .. Len(s) -> S]
    OBVIOUS
  <2>2. \A x \in S : \E i \in 1 .. Len(s) : f[i] = x
    OBVIOUS
  <2>3. \A i, j \in 1 .. Len(s) : f[i] = f[j] => i = j
    OBVIOUS
  <2> QED BY <2>1, <2>2, <2>3 DEF Bijection, Injection, Surjection, IsInjective
<1>3. ExistsBijection(1 .. Len(s), S)
  BY <1>2 DEF ExistsBijection
<1>4. IsFiniteSet(S) /\ Cardinality(S) = Len(s)
  BY <1>1, <1>3, FS_Bijection
<1>5. S \subseteq Units
  OBVIOUS
<1>6. IsFiniteSet(Units) /\ Cardinality(Units) \in Nat
  BY UnitsAssumption, FS_CardinalityType
<1>7. Cardinality(S) <= Cardinality(Units)
  <2> HIDE DEF S
  <2> QED BY <1>5, <1>6, FS_Subset
<1> QED BY <1>4, <1>6, <1>7

\* What the model reads off the pointers of a linked sequence is that sequence.
LEMMA ChainIs ==
  ASSUME NEW s \in Seq(Units), Linked(s)
  PROVE  Chain = s
<1> DEFINE N == Cardinality(Units)
           Step(w, n) ==
             LET u == IF w = << >> THEN head ELSE next[w[Len(w)]]
             IN IF Len(w) < n - 1 \/ u = Null THEN w ELSE Append(w, u)
           Walks(f) == f = [n \in 0 .. N |-> IF n = 0 THEN << >> ELSE Step(f[n - 1], n)]
           upto(n) == [i \in 1 .. (IF n <= Len(s) THEN n ELSE Len(s)) |-> s[i]]
           g == [n \in 0 .. N |-> upto(n)]
<1>1. N \in Nat /\ Len(s) \in Nat /\ Len(s) <= N
  <2>1. \A i, j \in 1 .. Len(s) : s[i] = s[j] => i = j
    BY DEF Linked
  <2>2. Cardinality(Units) \in Nat /\ Len(s) <= Cardinality(Units)
    BY <2>1, LengthBound
  <2> QED BY <2>2
<1>2. \A n \in 1 .. N : Step(upto(n - 1), n) = upto(n)
  <2> SUFFICES ASSUME NEW n \in 1 .. N PROVE Step(upto(n - 1), n) = upto(n)
    OBVIOUS
  <2> DEFINE w == upto(n - 1)
             m == IF n - 1 <= Len(s) THEN n - 1 ELSE Len(s)
  <2>1. w \in Seq(Units) /\ Len(w) = m /\ m \in Nat /\ \A i \in 1 .. m : w[i] = s[i]
    BY <1>1
  <2>2. CASE n > Len(s) + 1
    <3>1. Len(w) < n - 1
      BY <1>1, <2>1, <2>2
    <3>2. upto(n) = w
      BY <1>1, <2>2
    <3> QED BY <3>1, <3>2
  <2>3. CASE n = Len(s) + 1
    <3>1. w = s
      BY <1>1, <2>1, <2>3
    <3>2. (IF w = << >> THEN head ELSE next[w[Len(w)]]) = Null
      BY <1>1, <3>1 DEF Linked
    <3>3. upto(n) = w
      BY <1>1, <2>3
    <3> QED BY <3>2, <3>3
  <2>4. CASE n <= Len(s)
    <3>1. Len(w) = n - 1 /\ s[n] \in Units /\ s[n] # Null
      BY <1>1, <2>1, <2>4, UnitsAssumption
    <3>2. (IF w = << >> THEN head ELSE next[w[Len(w)]]) = s[n]
      <4>1. CASE n = 1
        BY <1>1, <2>1, <2>4, <3>1, <4>1 DEF Linked
      <4>2. CASE n # 1
        <5>1. w # << >> /\ w[Len(w)] = s[n - 1] /\ n - 1 \in 1 .. Len(s)
          BY <1>1, <2>1, <2>4, <3>1, <4>2
        <5> QED BY <1>1, <5>1, <2>4 DEF Linked
      <4> QED BY <4>1, <4>2
    <3>3. Append(w, s[n]) = upto(n)
      BY <1>1, <2>1, <2>4, <3>1
    <3> QED BY <3>1, <3>2, <3>3
  <2> QED BY <1>1, <2>2, <2>3, <2>4
<1>3. upto(0) = << >>
  BY <1>1
<1> HIDE DEF Step, upto
<1>4. Walks(g)
  BY <1>1, <1>2, <1>3
<1>5. ASSUME NEW f, Walks(f) PROVE f = g
  <2> DEFINE Off == {n \in 0 .. N : f[n] # g[n]}
  <2>1. SUFFICES ASSUME Off # {} PROVE FALSE
    BY <1>4, <1>5
  <2>2. PICK m \in Off : \A k \in Off : m <= k
    <3>1. Off \in SUBSET Nat
      BY <1>1
    <3> HIDE DEF Off
    <3> QED BY <2>1, <3>1, Least
  <2>3. CASE m = 0
    BY <1>1, <1>3, <1>5, <2>2, <2>3
  <2>4. CASE m # 0
    <3>1. m - 1 \in 0 .. N /\ m - 1 \notin Off
      BY <1>1, <2>2, <2>4
    <3>2. f[m - 1] = g[m - 1]
      BY <3>1
    <3>3. f[m] = Step(f[m - 1], m)
      BY <1>1, <1>5, <2>2, <2>4
    <3>4. g[m] = Step(g[m - 1], m)
      BY <1>1, <1>4, <2>2, <2>4
    <3> QED BY <2>2, <3>2, <3>3, <3>4
  <2> QED BY <2>3, <2>4
<1>6. (CHOOSE f : Walks(f)) = g
  <2> HIDE DEF Walks, g
  <2>1. Walks(CHOOSE f : Walks(f))
    BY <1>4
  <2> QED BY <1>5, <2>1
<1>7. g[N] = s
  BY <1>1 DEF upto
<1>8. Chain = IF head = Null THEN << >> ELSE (CHOOSE f : Walks(f))[N]
  BY DEF Chain, Step
<1>9. head = Null => s = << >>
  BY <1>1, UnitsAssumption DEF Linked
<1> QED BY <1>6, <1>7, <1>8, <1>9

\* The same for every sequence, and after a step.
LEMMA ChainOfLinked == \A s \in Seq(Units) : Linked(s) => Chain = s
  BY ChainIs

\* The same after a step.
LEMMA ChainOfLinkedNext == (\A s \in Seq(Units) : Linked(s) => Chain = s)'
  BY ChainOfLinked, PTL

\* The chain is the witness of the invariant.
LEMMA ListIsChain ==
  ASSUME ListInv
  PROVE  /\ Chain \in Seq(Units) /\ Len(Chain) \in Nat /\ Linked(Chain) /\ Holds(Chain)
         /\ DOMAIN Chain = 1 .. Len(Chain)
<1>1. PICK s \in Seq(Units) : Linked(s) /\ Holds(s)
  BY DEF ListInv
<1>2. Chain = s
  BY <1>1, ChainIs
<1>3. Len(s) \in Nat /\ DOMAIN s = 1 .. Len(s)
  OBVIOUS
<1> QED BY <1>1, <1>2, <1>3

\* The invariant gives the property of the list.
LEMMA ListGivesLinks ==
  ASSUME ListInv
  PROVE  LinkedBothWays
<1> DEFINE Queue == {u \in Units : where[u] = "queued"}
<1>1. {Chain[i] : i \in 1 .. Len(Chain)} = Queue
  BY ListIsChain DEF Holds
<1>2. \A i, j \in 1 .. Len(Chain) : Chain[i] = Chain[j] => i = j
  BY ListIsChain DEF Linked
<1>3. Cardinality(Queue) = Len(Chain)
  BY <1>1, <1>2, ListIsChain, LengthBound
<1>4. count = Len(Chain) /\ tail = (IF Len(Chain) = 0 THEN Null ELSE Chain[Len(Chain)])
  BY ListIsChain DEF Linked, Holds
<1>5. \A i \in 1 .. Len(Chain) :
        /\ next[Chain[i]] = IF i = Len(Chain) THEN Null ELSE Chain[i + 1]
        /\ prev[Chain[i]] = IF i = 1 THEN Null ELSE Chain[i - 1]
  BY ListIsChain DEF Linked
<1> QED BY <1>1, <1>3, <1>4, <1>5 DEF LinkedBothWays

\* In a linked list only a unit that is alone has no links, as the one looked
\* for.
LEMMA ListGivesFound ==
  ASSUME ListInv, Unlinked
  PROVE  FoundOnlyWhenAlone
<1> DEFINE n == Len(Chain)
<1>1. n \in Nat /\ \A i \in 1 .. n : Chain[i] \in Units /\ Chain[i] # Null
  BY ListIsChain, UnitsAssumption
<1>2. ASSUME NEW i \in 1 .. n
      PROVE  prev[Chain[i]] = Null /\ next[Chain[i]] = Null <=> n = 1
  <2>1. /\ next[Chain[i]] = IF i = n THEN Null ELSE Chain[i + 1]
        /\ prev[Chain[i]] = IF i = 1 THEN Null ELSE Chain[i - 1]
    BY ListIsChain DEF Linked
  <2> HIDE DEF n
  <2>2. (i # 1 => i - 1 \in 1 .. n) /\ (i # n => i + 1 \in 1 .. n)
    BY <1>1
  <2>3. (i # 1 => prev[Chain[i]] # Null) /\ (i # n => next[Chain[i]] # Null)
    BY <1>1, <2>1, <2>2
  <2> QED BY <1>1, <2>1, <2>3
<1>3. ASSUME NEW u \in Units, where[u] = "fresh"
      PROVE  Found(u) <=> n = 1 /\ data[Chain[1]] = data[u]
  <2>1. prev[u] = Null /\ next[u] = Null
    BY <1>3 DEF Unlinked
  <2>2. Found(u) <=> \E i \in 1 .. n :
                       data[Chain[i]] = data[u] /\ prev[Chain[i]] = Null /\ next[Chain[i]] = Null
    BY ListIsChain, <2>1 DEF Found, SameBytes
  <2> HIDE DEF n
  <2> QED BY <1>1, <1>2, <2>2
<1> QED BY <1>3 DEF FoundOnlyWhenAlone

\* The neighbour that queue_insert_priority stops at is at the first place of a
\* less urgent task.
LEMMA FirstLessUrgentPlace ==
  ASSUME TypeOK, NEW s \in Seq(Units), Linked(s), NEW u \in Units
  PROVE  \E p \in 1 .. Len(s) + 1 :
           /\ FirstLessUrgent(u) = IF p = Len(s) + 1 THEN Null ELSE s[p]
           /\ \A j \in 1 .. Len(s) : j < p => data[s[j]].priority <= data[u].priority
           /\ p <= Len(s) => data[u].priority < data[s[p]].priority
<1> DEFINE later == {i \in DOMAIN s : data[u].priority < data[s[i]].priority}
<1>1. Chain = s /\ Len(s) \in Nat /\ DOMAIN s = 1 .. Len(s)
  BY ChainIs
<1>2. FirstLessUrgent(u) = IF later = {} THEN Null ELSE s[CHOOSE i \in later : \A j \in later : i <= j]
  BY <1>1 DEF FirstLessUrgent
<1>3. \A v \in Units : data[v].priority \in Nat
  BY PrioritiesAssumption DEF TypeOK, Data
<1>4. \A j \in 1 .. Len(s) : j \notin later => data[s[j]].priority <= data[u].priority
  BY <1>1, <1>3
<1>5. CASE later = {}
  BY <1>1, <1>2, <1>4, <1>5
<1>6. CASE later # {}
  <2> DEFINE p == CHOOSE i \in later : \A j \in later : i <= j
  <2>1. later \in SUBSET Nat /\ later \subseteq 1 .. Len(s)
    BY <1>1
  <2>2. p \in later /\ \A j \in later : p <= j
    <3> HIDE DEF later
    <3> QED BY <1>6, <2>1, Least
  <2>3. p \in 1 .. Len(s) /\ data[u].priority < data[s[p]].priority
    BY <2>1, <2>2
  <2>4. FirstLessUrgent(u) = s[p]
    BY <1>2, <1>6
  <2>5. \A j \in 1 .. Len(s) : j < p => j \notin later
    <3> HIDE DEF later, p
    <3> QED BY <2>1, <2>2, <2>3
  <2> HIDE DEF p
  <2> QED BY <1>1, <1>4, <2>3, <2>4, <2>5
<1> QED BY <1>5, <1>6

\* What the pointers are after u was put in front of place p of the list s.
PutPointers(s, p, u) ==
  /\ head' = IF p = 1 THEN u ELSE head
  /\ tail' = IF p = Len(s) + 1 THEN u ELSE tail
  /\ \A x \in Units :
       /\ next'[x] = IF x = u THEN IF p = Len(s) + 1 THEN Null ELSE s[p]
                     ELSE IF p > 1 /\ x = s[p - 1] THEN u ELSE next[x]
       /\ prev'[x] = IF x = u THEN IF p = 1 THEN Null ELSE s[p - 1]
                     ELSE IF p <= Len(s) /\ x = s[p] THEN u ELSE prev[x]

\* Each of the three ways to link a unit puts it at that place.
LEMMA InsertPutsPointers ==
  ASSUME TypeOK, NEW s \in Seq(Units), Linked(s), NEW u \in Units, InsertPriority(u),
         \A i \in 1 .. Len(s) : s[i] # u
  PROVE  \E p \in 1 .. Len(s) + 1 :
           /\ PutPointers(s, p, u)
           /\ \A j \in 1 .. Len(s) : j < p => data[s[j]].priority <= data[u].priority
           /\ p <= Len(s) => data[u].priority < data[s[p]].priority
<1> DEFINE n == Len(s)
<1>1. PICK p \in 1 .. n + 1 :
           /\ FirstLessUrgent(u) = IF p = n + 1 THEN Null ELSE s[p]
           /\ \A j \in 1 .. n : j < p => data[s[j]].priority <= data[u].priority
           /\ p <= n => data[u].priority < data[s[p]].priority
  BY FirstLessUrgentPlace
<1>2. n \in Nat /\ \A i \in 1 .. n : s[i] \in Units /\ s[i] # Null /\ s[i] # u
  BY UnitsAssumption
<1>3. /\ head = IF n = 0 THEN Null ELSE s[1]
      /\ tail = IF n = 0 THEN Null ELSE s[n]
      /\ \A i \in 1 .. n : prev[s[i]] = IF i = 1 THEN Null ELSE s[i - 1]
  BY DEF Linked
<1> HIDE DEF n
<1>4. head = Null <=> n = 0
  BY <1>2, <1>3
<1>5. p \in Nat /\ n \in Nat /\ 1 <= p /\ p <= n + 1
  BY <1>2
<1>6. CASE n = 0
  <2>1. LinkFirst(u) /\ p = 1 /\ p = n + 1
    BY <1>1, <1>4, <1>6 DEF InsertPriority, Empty
  <2> QED BY <1>1, <1>6, <2>1 DEF PutPointers, LinkFirst, TypeOK, n
<1>7. CASE n # 0 /\ p = n + 1
  <2>1. LinkLast(u) /\ tail = s[p - 1] /\ p # 1 /\ p > 1 /\ ~ (p <= n)
    BY <1>1, <1>3, <1>4, <1>5, <1>7 DEF InsertPriority, Empty
  <2>2. tail \in Units /\ tail # u
    <3>1. p - 1 \in 1 .. n
      BY <1>2, <1>7
    <3> QED BY <1>2, <2>1, <3>1
  <2>3. /\ \A x \in Units : next'[x] = IF x = u THEN Null ELSE IF x = s[p - 1] THEN u ELSE next[x]
        /\ \A x \in Units : prev'[x] = IF x = u THEN s[p - 1] ELSE prev[x]
        /\ head' = head /\ tail' = u
    BY <2>1, <2>2 DEF LinkLast, TypeOK
  <2>4. PutPointers(s, p, u)
    BY <1>7, <2>1, <2>3 DEF PutPointers, n
  <2> QED BY <1>1, <2>4 DEF n
<1>8. CASE n # 0 /\ p # n + 1
  <2>1. p \in 1 .. n /\ p <= n
    BY <1>1, <1>5, <1>8
  <2>2. LinkBefore(u, s[p]) /\ s[p] \in Units /\ s[p] # u
    BY <1>1, <1>2, <1>4, <1>8, <2>1 DEF InsertPriority, Empty, n
  <2>3. CASE p = 1
    <3>1. prev[s[p]] = Null
      BY <1>3, <2>1, <2>3
    <3>2. /\ \A x \in Units : next'[x] = IF x = u THEN s[p] ELSE next[x]
          /\ \A x \in Units : prev'[x] = IF x = u THEN Null ELSE IF x = s[p] THEN u ELSE prev[x]
          /\ head' = u /\ tail' = tail
      BY <2>2, <3>1 DEF LinkBefore, TypeOK
    <3>3. PutPointers(s, p, u)
      BY <1>8, <2>1, <2>3, <3>2 DEF PutPointers, n
    <3> QED BY <1>1, <3>3 DEF n
  <2>4. CASE p # 1
    <3>1. p - 1 \in 1 .. n /\ p > 1
      BY <1>5, <2>1, <2>4
    <3>2. prev[s[p]] = s[p - 1] /\ s[p - 1] \in Units /\ s[p - 1] # u /\ s[p - 1] # Null
      BY <1>2, <1>3, <2>1, <2>4, <3>1 DEF n
    <3>3. /\ \A x \in Units : next'[x] = IF x = u THEN s[p] ELSE IF x = s[p - 1] THEN u ELSE next[x]
          /\ \A x \in Units : prev'[x] = IF x = u THEN s[p - 1] ELSE IF x = s[p] THEN u ELSE prev[x]
          /\ head' = head /\ tail' = tail
      BY <2>2, <3>2 DEF LinkBefore, TypeOK
    <3>4. PutPointers(s, p, u)
      BY <1>8, <2>1, <2>4, <3>1, <3>3 DEF PutPointers, n
    <3> QED BY <1>1, <3>4 DEF n
  <2> QED BY <2>3, <2>4
<1> QED BY <1>6, <1>7, <1>8

\* With a unit put at a place of a linked list, the list is linked.
LEMMA PutIsLinked ==
  ASSUME NEW s \in Seq(Units), Linked(s), NEW u \in Units, NEW p \in 1 .. Len(s) + 1,
         \A i \in 1 .. Len(s) : s[i] # u, PutPointers(s, p, u)
  PROVE  /\ Abstract!PutAt(s, p, u) \in Seq(Units)
         /\ Linked(Abstract!PutAt(s, p, u))'
<1> DEFINE n == Len(s)
           t == Abstract!PutAt(s, p, u)
<1>1. n \in Nat /\ \A i \in 1 .. n : s[i] \in Units
  OBVIOUS
<1>2. t \in Seq(Units) /\ Len(t) = n + 1
  BY <1>1 DEF Abstract!PutAt
<1>3. \A j \in 1 .. n + 1 : t[j] = IF j < p THEN s[j] ELSE IF j = p THEN u ELSE s[j - 1]
  BY <1>1 DEF Abstract!PutAt
<1>4. /\ head = IF n = 0 THEN Null ELSE s[1]
      /\ tail = IF n = 0 THEN Null ELSE s[n]
      /\ \A i \in 1 .. n : next[s[i]] = IF i = n THEN Null ELSE s[i + 1]
      /\ \A i \in 1 .. n : prev[s[i]] = IF i = 1 THEN Null ELSE s[i - 1]
      /\ \A i, j \in 1 .. n : s[i] = s[j] => i = j
  BY DEF Linked
<1>5. /\ head' = IF p = 1 THEN u ELSE head
      /\ tail' = IF p = n + 1 THEN u ELSE tail
      /\ \A x \in Units :
           next'[x] = IF x = u THEN IF p = n + 1 THEN Null ELSE s[p]
                      ELSE IF p > 1 /\ x = s[p - 1] THEN u ELSE next[x]
      /\ \A x \in Units :
           prev'[x] = IF x = u THEN IF p = 1 THEN Null ELSE s[p - 1]
                      ELSE IF p <= n /\ x = s[p] THEN u ELSE prev[x]
  BY DEF PutPointers
<1>6. p \in Nat /\ 1 <= p /\ p <= n + 1 /\ \A i \in 1 .. n : s[i] # u
  BY <1>1
<1> HIDE DEF n, t
<1>7. head' = t[1] /\ tail' = t[n + 1]
  BY <1>1, <1>3, <1>4, <1>5, <1>6
<1>8. ASSUME NEW j \in 1 .. n + 1
      PROVE  next'[t[j]] = IF j = n + 1 THEN Null ELSE t[j + 1]
  <2>1. CASE j = p
    BY <1>1, <1>3, <1>5, <1>6, <1>8, <2>1
  <2>2. CASE j < p
    <3>1. j \in 1 .. n /\ t[j] = s[j] /\ s[j] \in Units /\ s[j] # u /\ p > 1 /\ p - 1 \in 1 .. n
      BY <1>1, <1>3, <1>6, <2>2
    <3>2. s[j] = s[p - 1] <=> j = p - 1
      BY <1>4, <3>1
    <3>3. next'[t[j]] = IF j = p - 1 THEN u ELSE next[s[j]]
      BY <1>5, <3>1, <3>2
    <3>4. j + 1 \in 1 .. n + 1 /\ j # n + 1
      BY <1>1, <1>6, <3>1
    <3>5. t[j + 1] = IF j = p - 1 THEN u ELSE s[j + 1]
      BY <1>1, <1>3, <1>6, <2>2, <3>4
    <3>6. j # p - 1 => next[s[j]] = s[j + 1]
      BY <1>1, <1>4, <1>6, <2>2, <3>1
    <3> QED BY <3>3, <3>4, <3>5, <3>6
  <2>3. CASE j > p
    <3>1. j - 1 \in 1 .. n /\ t[j] = s[j - 1] /\ s[j - 1] \in Units /\ s[j - 1] # u
      BY <1>1, <1>3, <1>6, <2>3
    <3>2. p > 1 => s[j - 1] # s[p - 1]
      BY <1>1, <1>4, <1>6, <2>3, <3>1
    <3>3. next'[t[j]] = next[s[j - 1]]
      BY <1>5, <3>1, <3>2
    <3>4. j # n + 1 => j + 1 \in 1 .. n + 1 /\ t[j + 1] = s[j]
      <4>1. ASSUME j # n + 1
            PROVE  j + 1 \in 1 .. n + 1 /\ ~ (j + 1 < p) /\ j + 1 # p /\ (j + 1) - 1 = j
        BY <1>1, <1>6, <1>8, <2>3, <4>1
      <4> QED BY <1>3, <4>1
    <3>5. next[s[j - 1]] = IF j = n + 1 THEN Null ELSE s[j]
      BY <1>1, <1>4, <3>1
    <3> QED BY <3>3, <3>4, <3>5
  <2> QED BY <1>6, <2>1, <2>2, <2>3
<1>9. ASSUME NEW j \in 1 .. n + 1
      PROVE  prev'[t[j]] = IF j = 1 THEN Null ELSE t[j - 1]
  <2>1. CASE j = p
    BY <1>1, <1>3, <1>5, <1>6, <1>9, <2>1
  <2>2. CASE j < p
    <3>1. j \in 1 .. n /\ t[j] = s[j] /\ s[j] \in Units /\ s[j] # u
      BY <1>1, <1>3, <1>6, <2>2
    <3>2. p <= n => s[j] # s[p]
      BY <1>1, <1>4, <1>6, <2>2, <3>1
    <3>3. prev'[t[j]] = prev[s[j]]
      BY <1>5, <3>1, <3>2
    <3>4. j # 1 => t[j - 1] = s[j - 1]
      BY <1>1, <1>3, <1>6, <2>2
    <3> QED BY <1>4, <3>1, <3>3, <3>4
  <2>3. CASE j > p
    <3>1. j - 1 \in 1 .. n /\ t[j] = s[j - 1] /\ s[j - 1] \in Units /\ s[j - 1] # u /\ p \in 1 .. n
      BY <1>1, <1>3, <1>6, <2>3
    <3>2. s[j - 1] = s[p] <=> j - 1 = p
      BY <1>4, <3>1
    <3>3. prev'[t[j]] = IF j - 1 = p THEN u ELSE prev[s[j - 1]]
      BY <1>1, <1>5, <1>6, <3>1, <3>2
    <3>4. j # 1 /\ j - 1 \in 1 .. n + 1
      BY <1>1, <1>6, <3>1
    <3>5. t[j - 1] = IF j - 1 = p THEN u ELSE s[j - 2]
      BY <1>1, <1>3, <1>6, <2>3, <3>4
    <3>6. j - 1 # p => prev[s[j - 1]] = s[j - 2]
      BY <1>1, <1>4, <1>6, <2>3, <3>1
    <3> QED BY <3>3, <3>4, <3>5, <3>6
  <2> QED BY <1>6, <2>1, <2>2, <2>3
<1>10. ASSUME NEW i \in 1 .. n + 1, NEW j \in 1 .. n + 1, t[i] = t[j]
       PROVE  i = j
  <2> DEFINE place(k) == IF k < p THEN k ELSE k - 1
  <2>1. \A k \in 1 .. n + 1 : k # p => place(k) \in 1 .. n /\ t[k] = s[place(k)]
    BY <1>1, <1>3, <1>6
  <2>2. t[p] = u
    BY <1>1, <1>3, <1>6
  <2>3. \A k \in 1 .. n + 1 : k # p => t[k] # u
    <3> HIDE DEF place
    <3> QED BY <1>6, <2>1
  <2>4. CASE i = p \/ j = p
    BY <1>10, <2>2, <2>3, <2>4
  <2>5. CASE i # p /\ j # p
    <3>1. place(i) = place(j)
      <4> HIDE DEF place
      <4>1. place(i) \in 1 .. n /\ place(j) \in 1 .. n /\ s[place(i)] = s[place(j)]
        BY <1>10, <2>1, <2>5
      <4> QED BY <1>4, <4>1
    <3> QED BY <1>1, <1>6, <2>5, <3>1
  <2> QED BY <2>4, <2>5
<1>11. Len(t) = n + 1 /\ n + 1 # 0
  BY <1>1, <1>2
<1> QED BY <1>2, <1>7, <1>8, <1>9, <1>10, <1>11 DEF Linked, t

IInv == TypeOK /\ ListInv /\ Unlinked

\* A step that touches only units outside the list leaves it as it is.
LEMMA OutsideStep ==
  ASSUME TypeOK, NEW s \in Seq(Units), Linked(s), Holds(s), NEW u \in Units, where[u] # "queued",
         UNCHANGED <<head, tail, count>>,
         \A v \in Units : v # u => next'[v] = next[v] /\ prev'[v] = prev[v],
         \A v \in Units : where'[v] = "queued" <=> where[v] = "queued"
  PROVE  Linked(s)' /\ Holds(s)' /\ \A i \in 1 .. Len(s) : s[i] # u
<1>1. \A i \in 1 .. Len(s) : s[i] \in Units /\ s[i] # u
  BY DEF Holds
<1>2. Linked(s)'
  BY <1>1 DEF Linked
<1>3. Holds(s)'
  BY DEF Holds
<1> QED BY <1>1, <1>2, <1>3

\* A unit is allocated outside the list.
LEMMA AllocateStep ==
  ASSUME TypeOK, NEW s \in Seq(Units), Linked(s), Holds(s),
         NEW u \in Units, NEW d \in Data, Allocate(u, d)
  PROVE  Linked(s)' /\ Holds(s)' /\ \A i \in 1 .. Len(s) : data'[s[i]] = data[s[i]]
<1>1. /\ where[u] # "queued" /\ UNCHANGED <<head, tail, count>>
      /\ \A v \in Units : v # u => next'[v] = next[v] /\ prev'[v] = prev[v]
      /\ \A v \in Units : where'[v] = "queued" <=> where[v] = "queued"
      /\ \A v \in Units : v # u => data'[v] = data[v]
  BY DEF Allocate, TypeOK
<1> QED BY <1>1, OutsideStep

\* A unit is freed outside the list.
LEMMA FreeStep ==
  ASSUME TypeOK, NEW s \in Seq(Units), Linked(s), Holds(s), NEW u \in Units, Free(u)
  PROVE  Linked(s)' /\ Holds(s)' /\ \A i \in 1 .. Len(s) : data'[s[i]] = data[s[i]]
<1>1. /\ where[u] # "queued" /\ UNCHANGED <<head, tail, count>>
      /\ \A v \in Units : v # u => next'[v] = next[v] /\ prev'[v] = prev[v]
      /\ \A v \in Units : where'[v] = "queued" <=> where[v] = "queued"
      /\ \A v \in Units : v # u => data'[v] = data[v]
  BY DEF Free, TypeOK
<1> QED BY <1>1, OutsideStep

\* An insertion puts the unit at its place.
LEMMA InsertStep ==
  ASSUME TypeOK, NEW s \in Seq(Units), Linked(s), Holds(s), NEW u \in Units, InsertPriority(u)
  PROVE  \E p \in 1 .. Len(s) + 1 :
           /\ \A j \in 1 .. Len(s) : j < p => data[s[j]].priority <= data[u].priority
           /\ p <= Len(s) => data[u].priority < data[s[p]].priority
           /\ Abstract!PutAt(s, p, u) \in Seq(Units)
           /\ Linked(Abstract!PutAt(s, p, u))' /\ Holds(Abstract!PutAt(s, p, u))'
<1> DEFINE n == Len(s)
<1>1. where[u] = "fresh" /\ count' = count + 1 /\ where' = [where EXCEPT ![u] = "queued"]
  BY DEF InsertPriority
<1>2. \A i \in 1 .. n : s[i] \in Units /\ s[i] # u
  BY <1>1 DEF Holds
<1>3. PICK p \in 1 .. n + 1 :
           /\ PutPointers(s, p, u)
           /\ \A j \in 1 .. n : j < p => data[s[j]].priority <= data[u].priority
           /\ p <= n => data[u].priority < data[s[p]].priority
  BY <1>2, InsertPutsPointers
<1> DEFINE t == Abstract!PutAt(s, p, u)
<1>4. t \in Seq(Units) /\ Linked(t)'
  BY <1>2, <1>3, PutIsLinked
<1>5. Holds(t)'
  <2>1. n \in Nat /\ Len(t) = n + 1 /\ p \in 1 .. n + 1
        /\ \A j \in 1 .. n + 1 : t[j] = IF j < p THEN s[j] ELSE IF j = p THEN u ELSE s[j - 1]
    BY DEF Abstract!PutAt
  <2>2. count' = Len(t)
    BY <1>1, <2>1 DEF Holds
  <2>3. ASSUME NEW v \in Units
        PROVE  where'[v] = "queued" <=> \E j \in 1 .. Len(t) : t[j] = v
    <3>1. where'[v] = "queued" <=> v = u \/ \E i \in 1 .. n : s[i] = v
      BY <1>1 DEF Holds, TypeOK
    <3> HIDE DEF n, t
    <3>2. ASSUME NEW j \in 1 .. n + 1 PROVE t[j] = u \/ \E i \in 1 .. n : s[i] = t[j]
      <4>1. CASE j < p
        <5>1. j \in 1 .. n /\ t[j] = s[j]
          BY <2>1, <4>1
        <5> QED BY <5>1
      <4>2. CASE j = p
        BY <2>1, <4>2
      <4>3. CASE j > p
        <5>1. j - 1 \in 1 .. n /\ t[j] = s[j - 1]
          BY <2>1, <4>3
        <5> QED BY <5>1
      <4> QED BY <2>1, <4>1, <4>2, <4>3
    <3>3. ASSUME NEW i \in 1 .. n PROVE \E j \in 1 .. n + 1 : t[j] = s[i]
      <4>1. CASE i < p
        <5>1. i \in 1 .. n + 1 /\ t[i] = s[i]
          BY <2>1, <4>1
        <5> QED BY <5>1
      <4>2. CASE ~ (i < p)
        <5>1. i + 1 \in 1 .. n + 1 /\ t[i + 1] = s[i]
          BY <2>1, <4>2
        <5> QED BY <5>1
      <4> QED BY <4>1, <4>2
    <3>4. t[p] = u
      BY <2>1
    <3> QED BY <2>1, <3>1, <3>2, <3>3, <3>4
  <2> QED BY <2>2, <2>3 DEF Holds
<1> QED BY <1>3, <1>4, <1>5

\* A pop takes the first unit, and what is left is linked.
LEMMA PopUpStep ==
  ASSUME TypeOK, NEW s \in Seq(Units), Linked(s), Holds(s), PopUp
  PROVE  /\ s # << >> /\ Tail(s) \in Seq(Units)
         /\ Linked(Tail(s))' /\ Holds(Tail(s))'
<1> DEFINE n == Len(s)
           t == Tail(s)
<1>1. n \in Nat /\ \A i \in 1 .. n : s[i] \in Units /\ s[i] # Null
  BY UnitsAssumption
<1>2. /\ head = IF n = 0 THEN Null ELSE s[1]
      /\ tail = IF n = 0 THEN Null ELSE s[n]
      /\ \A i \in 1 .. n : next[s[i]] = IF i = n THEN Null ELSE s[i + 1]
      /\ \A i \in 1 .. n : prev[s[i]] = IF i = 1 THEN Null ELSE s[i - 1]
      /\ \A i, j \in 1 .. n : s[i] = s[j] => i = j
  BY DEF Linked
<1>3. n >= 1 /\ head = s[1] /\ s # << >>
  BY <1>1, <1>2 DEF PopUp, Empty
<1>4. t \in Seq(Units) /\ Len(t) = n - 1 /\ \A i \in 1 .. n - 1 : t[i] = s[i + 1]
  BY <1>3
<1>5. n \in Nat /\ n - 1 \in Nat
  BY <1>1, <1>3
<1>6. /\ head' = IF n = 1 THEN Null ELSE s[2]
      /\ tail' = IF n = 1 THEN Null ELSE tail
      /\ next' = next
      /\ \A x \in Units : prev'[x] = IF n > 1 /\ x = s[2] THEN Null ELSE prev[x]
      /\ count' = count - 1 /\ where' = [where EXCEPT ![s[1]] = "popped"]
  <2>0. n > 1 => 2 \in 1 .. n
    BY <1>5
  <2> HIDE DEF n
  <2>1. next[head] = IF n = 1 THEN Null ELSE s[2]
    <3>1. 1 \in 1 .. n
      BY <1>3, <1>5
    <3> QED BY <1>2, <1>3, <3>1
  <2>2. n > 1 => s[2] # Null /\ s[2] \in Units
    BY <1>1, <2>0
  <2> QED BY <1>3, <1>5, <2>1, <2>2 DEF PopUp, TypeOK
<1> HIDE DEF n, t
<1>7. head' = IF n - 1 = 0 THEN Null ELSE t[1]
  BY <1>3, <1>4, <1>5, <1>6
<1>8. tail' = IF n - 1 = 0 THEN Null ELSE t[n - 1]
  BY <1>2, <1>3, <1>4, <1>5, <1>6
<1>9. ASSUME NEW j \in 1 .. n - 1
      PROVE  /\ next'[t[j]] = IF j = n - 1 THEN Null ELSE t[j + 1]
             /\ prev'[t[j]] = IF j = 1 THEN Null ELSE t[j - 1]
  <2>1. j + 1 \in 1 .. n /\ t[j] = s[j + 1] /\ s[j + 1] \in Units /\ n > 1 /\ 2 \in 1 .. n
    BY <1>1, <1>4, <1>5
  <2>2. s[j + 1] = s[2] <=> j + 1 = 2
    BY <1>2, <2>1
  <2>3. next'[t[j]] = IF j + 1 = n THEN Null ELSE s[j + 2]
    BY <1>2, <1>6, <2>1
  <2>4. prev'[t[j]] = IF j = 1 THEN Null ELSE s[j]
    BY <1>2, <1>6, <2>1, <2>2
  <2>5. (j # n - 1 => t[j + 1] = s[j + 2]) /\ (j # 1 => t[j - 1] = s[j])
    BY <1>4, <1>5
  <2> QED BY <1>5, <2>3, <2>4, <2>5
<1>10. ASSUME NEW i \in 1 .. n - 1, NEW j \in 1 .. n - 1, t[i] = t[j] PROVE i = j
  <2>1. i + 1 \in 1 .. n /\ j + 1 \in 1 .. n /\ s[i + 1] = s[j + 1]
    BY <1>4, <1>5, <1>10
  <2> QED BY <1>2, <2>1
<1>11. Linked(t)'
  BY <1>4, <1>7, <1>8, <1>9, <1>10 DEF Linked
<1>12. Holds(t)'
  <2>1. count = n /\ \A u \in Units : where[u] = "queued" <=> \E i \in 1 .. n : s[i] = u
    BY DEF Holds, n
  <2>2. ASSUME NEW u \in Units
        PROVE  where'[u] = "queued" <=> \E i \in 1 .. n - 1 : t[i] = u
    <3>1. s[1] \in Units /\ 1 \in 1 .. n
      BY <1>1, <1>3, <1>5
    <3>2. where'[u] = "queued" <=> u # s[1] /\ \E i \in 1 .. n : s[i] = u
      BY <1>6, <2>1, <3>1 DEF TypeOK
    <3>3. ASSUME NEW i \in 1 .. n, s[i] = u, u # s[1] PROVE \E j \in 1 .. n - 1 : t[j] = u
      <4>1. i - 1 \in 1 .. n - 1 /\ t[i - 1] = s[i]
        BY <1>4, <1>5, <3>3
      <4> QED BY <3>3, <4>1
    <3>4. ASSUME NEW j \in 1 .. n - 1 PROVE t[j] # s[1] /\ \E i \in 1 .. n : s[i] = t[j]
      <4>1. j + 1 \in 1 .. n /\ t[j] = s[j + 1] /\ j + 1 # 1
        BY <1>4, <1>5
      <4> QED BY <1>2, <3>1, <4>1
    <3> QED BY <3>2, <3>3, <3>4
  <2> QED BY <1>4, <1>6, <2>1, <2>2 DEF Holds
<1> QED BY <1>3, <1>4, <1>11, <1>12 DEF t

-----------------------------------------------------------------------------
\* What calloc leaves in a unit is data.
LEMMA BlankIsData == Blank \in Data
<1>1. PICK pr \in Priorities, pl \in Payloads : TRUE
  BY PrioritiesAssumption
<1>2. [priority |-> pr, payload |-> pl] \in Data
  BY DEF Data
<1> QED BY <1>2 DEF Blank

\* The neighbour FirstLessUrgent names is a unit, and the tail of a list that
\* is not empty is one.
LEMMA InsertKeepsTypes ==
  ASSUME IInv, NEW u \in Units, InsertPriority(u)
  PROVE  TypeOK'
<1>1. PICK s \in Seq(Units) : Linked(s) /\ Holds(s)
  BY DEF IInv, ListInv
<1>2. TypeOK
  BY DEF IInv
<1>3. count' \in Nat /\ data' \in [Units -> Data]
      /\ where' \in [Units -> {"free", "fresh", "queued", "popped"}]
  BY <1>2 DEF InsertPriority, TypeOK
<1>4. FirstLessUrgent(u) \in Link
  <2>1. PICK p \in 1 .. Len(s) + 1 : FirstLessUrgent(u) = IF p = Len(s) + 1 THEN Null ELSE s[p]
    BY <1>1, <1>2, FirstLessUrgentPlace
  <2>2. p = Len(s) + 1 \/ p \in 1 .. Len(s)
    BY <2>1
  <2> QED BY <2>1, <2>2 DEF Link
<1>5. CASE LinkFirst(u)
  BY <1>2, <1>3, <1>5 DEF LinkFirst, TypeOK, Link
<1>6. CASE LinkLast(u)
  BY <1>2, <1>3, <1>6 DEF LinkLast, TypeOK, Link
<1>7. ASSUME NEW t \in Units, LinkBefore(u, t)
      PROVE  TypeOK'
  BY <1>2, <1>3, <1>7 DEF LinkBefore, TypeOK, Link
<1>8. LinkFirst(u) \/ LinkLast(u) \/ \E t \in Units : LinkBefore(u, t)
  BY <1>4 DEF InsertPriority, Link
<1> QED BY <1>5, <1>6, <1>7, <1>8

\* What is popped was queued, so the count was not 0.
LEMMA PopUpKeepsTypes ==
  ASSUME IInv, PopUp
  PROVE  TypeOK'
<1>1. PICK s \in Seq(Units) : Linked(s) /\ Holds(s)
  BY DEF IInv, ListInv
<1>2. TypeOK
  BY DEF IInv
<1>3. s # << >>
  BY <1>1, <1>2, PopUpStep
<1>4. Len(s) \in Nat /\ Len(s) # 0
  BY <1>3
<1>5. count - 1 \in Nat
  BY <1>1, <1>4 DEF Holds
<1>6. head \in Units
  BY <1>2 DEF PopUp, Empty, TypeOK, Link
<1>7. head' \in Link /\ tail' \in Link /\ prev' \in [Units -> Link] /\ next' \in [Units -> Link]
  BY <1>2, <1>6 DEF PopUp, TypeOK, Link
<1>8. where' \in [Units -> {"free", "fresh", "queued", "popped"}] /\ data' \in [Units -> Data]
  BY <1>2 DEF PopUp, TypeOK
<1> QED BY <1>5, <1>7, <1>8 DEF PopUp, TypeOK

\* Every step takes a linked list to a linked list.  s is the list before the
\* step, t the one after it; what else happens to them is what the abstract
\* queue allows.
QueueStep(s, t) ==
  \/ t = s /\ \A i \in 1 .. Len(s) : data'[s[i]] = data[s[i]]
  \/ \E u \in Units, p \in 1 .. Len(s) + 1 :
       /\ t = Abstract!PutAt(s, p, u)
       /\ data' = data
       /\ \A j \in 1 .. Len(s) : j < p => data[s[j]].priority <= data[u].priority
       /\ p <= Len(s) => data[u].priority < data[s[p]].priority
  \/ s # << >> /\ t = Tail(s) /\ data' = data

\* Every step takes what is linked to what is linked as the abstract queue
\* allows.
LEMMA StepOfTheList ==
  ASSUME TypeOK, NEW s \in Seq(Units), Linked(s), Holds(s), [Next]_vars
  PROVE  \E t \in Seq(Units) : Linked(t)' /\ Holds(t)' /\ QueueStep(s, t)
<1>1. ASSUME NEW u \in Units, NEW d \in Data, Allocate(u, d)
      PROVE  Linked(s)' /\ Holds(s)' /\ QueueStep(s, s)
  BY <1>1, AllocateStep DEF QueueStep
<1>2. ASSUME NEW u \in Units, InsertPriority(u)
      PROVE  \E t \in Seq(Units) : Linked(t)' /\ Holds(t)' /\ QueueStep(s, t)
  <2>1. PICK p \in 1 .. Len(s) + 1 :
           /\ \A j \in 1 .. Len(s) : j < p => data[s[j]].priority <= data[u].priority
           /\ p <= Len(s) => data[u].priority < data[s[p]].priority
           /\ Abstract!PutAt(s, p, u) \in Seq(Units)
           /\ Linked(Abstract!PutAt(s, p, u))' /\ Holds(Abstract!PutAt(s, p, u))'
    BY <1>2, InsertStep
  <2>2. data' = data
    BY <1>2 DEF InsertPriority
  <2>3. QueueStep(s, Abstract!PutAt(s, p, u))
    BY <2>1, <2>2 DEF QueueStep
  <2> QED BY <2>1, <2>3
<1>3. ASSUME NEW u \in Units, Free(u)
      PROVE  Linked(s)' /\ Holds(s)' /\ QueueStep(s, s)
  BY <1>3, FreeStep DEF QueueStep
<1>4. ASSUME PopUp
      PROVE  \E t \in Seq(Units) : Linked(t)' /\ Holds(t)' /\ QueueStep(s, t)
  <2>1. s # << >> /\ Tail(s) \in Seq(Units) /\ Linked(Tail(s))' /\ Holds(Tail(s))'
    BY <1>4, PopUpStep
  <2>2. data' = data
    BY <1>4 DEF PopUp
  <2>3. QueueStep(s, Tail(s))
    BY <2>1, <2>2 DEF QueueStep
  <2> QED BY <2>1, <2>3
<1>5. ASSUME UNCHANGED vars
      PROVE  Linked(s)' /\ Holds(s)' /\ QueueStep(s, s)
  BY <1>5 DEF vars, Linked, Holds, QueueStep
<1> QED BY <1>1, <1>2, <1>3, <1>4, <1>5 DEF Next

\* A unit gets links when it is queued, and loses them when it is freed.
LEMMA StepKeepsUnlinked ==
  ASSUME IInv, [Next]_vars
  PROVE  Unlinked'
<1>1. PICK s \in Seq(Units) : Linked(s) /\ Holds(s)
  BY DEF IInv, ListInv
<1>2. TypeOK /\ Unlinked
  BY DEF IInv
<1>3. ASSUME NEW u \in Units, NEW d \in Data, Allocate(u, d)
      PROVE  Unlinked'
  BY <1>2, <1>3 DEF Allocate, Unlinked, TypeOK
<1>4. ASSUME NEW u \in Units, InsertPriority(u)
      PROVE  Unlinked'
  <2>1. \A i \in 1 .. Len(s) : s[i] \in Units /\ where[s[i]] = "queued" /\ s[i] # u
    BY <1>1, <1>4 DEF Holds, InsertPriority
  <2>2. PICK p \in 1 .. Len(s) + 1 : PutPointers(s, p, u)
    BY <1>1, <1>2, <1>4, <2>1, InsertPutsPointers
  <2>3. \A v \in Units : where'[v] = IF v = u THEN "queued" ELSE where[v]
    BY <1>2, <1>4 DEF InsertPriority, TypeOK
  <2>4. SUFFICES ASSUME NEW v \in Units, where'[v] \in {"free", "fresh"}
        PROVE  prev'[v] = Null /\ next'[v] = Null
    BY DEF Unlinked
  <2>5. v # u /\ where[v] \in {"free", "fresh"}
    BY <2>3, <2>4
  <2>6. p > 1 => v # s[p - 1]
    <3>1. p > 1 => p - 1 \in 1 .. Len(s)
      OBVIOUS
    <3> QED BY <2>1, <2>5, <3>1
  <2>7. p <= Len(s) => v # s[p]
    BY <2>1, <2>5
  <2>8. prev'[v] = prev[v] /\ next'[v] = next[v]
    BY <2>2, <2>5, <2>6, <2>7 DEF PutPointers
  <2> QED BY <1>2, <2>5, <2>8 DEF Unlinked
<1>5. ASSUME NEW u \in Units, Free(u)
      PROVE  Unlinked'
  BY <1>2, <1>5 DEF Free, Unlinked, TypeOK
<1>6. ASSUME PopUp
      PROVE  Unlinked'
  <2>1. /\ next' = next
        /\ \A v \in Units : prev'[v] = Null \/ prev'[v] = prev[v]
        /\ \A v \in Units : where'[v] \in {"free", "fresh"} => where[v] \in {"free", "fresh"}
    BY <1>2, <1>6 DEF PopUp, TypeOK
  <2> QED BY <1>2, <2>1 DEF Unlinked
<1>7. ASSUME UNCHANGED vars
      PROVE  Unlinked'
  BY <1>2, <1>7 DEF vars, Unlinked
<1> QED BY <1>3, <1>4, <1>5, <1>6, <1>7 DEF Next

\* An empty list is linked.
LEMMA StartOfTheQueue ==
  ASSUME Init
  PROVE  IInv /\ Linked(<< >>)
<1>1. TypeOK
  BY BlankIsData DEF Init, TypeOK, Link
<1>2. Linked(<< >>) /\ Holds(<< >>) /\ << >> \in Seq(Units)
  BY DEF Init, Linked, Holds
<1>3. Unlinked
  BY DEF Init, Unlinked
<1> QED BY <1>1, <1>2, <1>3 DEF IInv, ListInv

\* Every step keeps the invariant.
LEMMA QueueInductive ==
  ASSUME IInv, [Next]_vars
  PROVE  IInv'
<1>1. TypeOK'
  <2>1. ASSUME NEW u \in Units, NEW d \in Data, Allocate(u, d)
        PROVE  TypeOK'
    BY <2>1 DEF IInv, Allocate, TypeOK, Link
  <2>2. ASSUME NEW u \in Units, InsertPriority(u)
        PROVE  TypeOK'
    BY <2>2, InsertKeepsTypes
  <2>3. ASSUME NEW u \in Units, Free(u)
        PROVE  TypeOK'
    BY <2>3, BlankIsData DEF IInv, Free, TypeOK, Link
  <2>4. ASSUME PopUp
        PROVE  TypeOK'
    BY <2>4, PopUpKeepsTypes
  <2>5. ASSUME UNCHANGED vars
        PROVE  TypeOK'
    BY <2>5 DEF IInv, vars, TypeOK
  <2> QED BY <2>1, <2>2, <2>3, <2>4, <2>5 DEF Next
<1>2. ListInv'
  <2>1. PICK s \in Seq(Units) : Linked(s) /\ Holds(s)
    BY DEF IInv, ListInv
  <2>2. PICK t \in Seq(Units) : Linked(t)' /\ Holds(t)'
    BY <2>1, StepOfTheList DEF IInv
  <2> QED BY <2>2 DEF ListInv
<1>3. Unlinked'
  BY StepKeepsUnlinked
<1> QED BY <1>1, <1>2, <1>3 DEF IInv

\* The invariant holds in every state.
LEMMA QueueInvariant == Spec => []IInv
<1>1. Init => IInv
  BY StartOfTheQueue
<1>2. IInv /\ [Next]_vars => IInv'
  BY QueueInductive
<1> QED BY <1>1, <1>2, PTL DEF Spec

\* Every state of the queue is well formed: the links are cells or NULL, the
\* counter of q_task_count never goes below zero.
THEOREM QueueTypes == Spec => []TypeOK
<1>1. IInv => TypeOK
  BY DEF IInv
<1> QED BY <1>1, QueueInvariant, PTL

\* However many tasks are inserted, popped, freed and allocated again, the
\* cells queue_insert_priority and queue_popup link are one chain from head to
\* tail, the same in both directions, of exactly the queued units, and
\* q_task_count is its length.
THEOREM QueueLinks == Spec => []LinkedBothWays
<1>1. IInv => LinkedBothWays
  BY ListGivesLinks DEF IInv
<1> QED BY <1>1, QueueInvariant, PTL

\* queue_found recognises an equal task only when that task is alone in the
\* queue, for queues of every length.
THEOREM QueueFindsOnlyOne == Spec => []FoundOnlyWhenAlone
<1>1. IInv => FoundOnlyWhenAlone
  BY ListGivesFound DEF IInv
<1> QED BY <1>1, QueueInvariant, PTL

-----------------------------------------------------------------------------
\* What the abstract queue sees of the list s.
Tasks(s) ==
  [i \in 1 .. Len(s) |-> [unit     |-> s[i],
                          priority |-> data[s[i]].priority,
                          payload  |-> data[s[i]].payload]]

\* What the refinement mapping calls the queue is the tasks of the chain.
LEMMA QueuedIsTasks == \A s \in Seq(Units) : Linked(s) => Queued = Tasks(s)
<1> SUFFICES ASSUME NEW s \in Seq(Units), Linked(s) PROVE Queued = Tasks(s)
  OBVIOUS
<1>1. Chain = s /\ DOMAIN s = 1 .. Len(s)
  BY ChainIs
<1> QED BY <1>1 DEF Queued, Tasks

\* The same after a step.
LEMMA QueuedIsTasksNext == (\A s \in Seq(Units) : Linked(s) => Queued = Tasks(s))'
  BY QueuedIsTasks, PTL

\* The tasks of the rest of a list are the rest of its tasks.
LEMMA TailShifts ==
  ASSUME NEW S, NEW z \in Seq(S), z # << >>
  PROVE  Tail(z) = [i \in 1 .. Len(z) - 1 |-> z[i + 1]]
<1> DEFINE w == Tail(z)
<1>1. Len(z) \in Nat /\ Len(z) # 0
  OBVIOUS
<1>2. w \in Seq(S) /\ Len(w) = Len(z) - 1 /\ \A i \in 1 .. Len(z) - 1 : w[i] = z[i + 1]
  BY <1>1
<1> HIDE DEF w
<1>3. w = [i \in 1 .. Len(w) |-> w[i]]
  BY <1>2
<1>4. w = [i \in 1 .. Len(z) - 1 |-> z[i + 1]]
  BY <1>2, <1>3
<1> QED BY <1>4 DEF w

\* The list implements the priority queue: a step of the list is a step of the
\* abstract queue or leaves it as it is.
LEMMA StepIsAbstract ==
  ASSUME IInv, [Next]_vars
  PROVE  [Abstract!Next]_Queued
<1>1. PICK s \in Seq(Units) : Linked(s) /\ Holds(s)
  BY DEF IInv, ListInv
<1>2. PICK t \in Seq(Units) : Linked(t)' /\ QueueStep(s, t)
  BY <1>1, StepOfTheList DEF IInv
<1>3. Queued = Tasks(s) /\ Queued' = Tasks(t)'
  BY <1>1, <1>2, QueuedIsTasks, QueuedIsTasksNext
<1>4. CASE t = s /\ \A i \in 1 .. Len(s) : data'[s[i]] = data[s[i]]
  <2>1. Tasks(s)' = Tasks(s)
    BY <1>4 DEF Tasks
  <2> QED BY <1>3, <1>4, <2>1
<1>5. ASSUME NEW u \in Units, NEW p \in 1 .. Len(s) + 1, t = Abstract!PutAt(s, p, u), data' = data,
             \A j \in 1 .. Len(s) : j < p => data[s[j]].priority <= data[u].priority,
             p <= Len(s) => data[u].priority < data[s[p]].priority
      PROVE  Abstract!Insert
  <2> DEFINE task == [unit |-> u, priority |-> data[u].priority, payload |-> data[u].payload]
  <2>1. /\ Len(t) = Len(s) + 1
        /\ \A j \in 1 .. Len(s) + 1 : t[j] = IF j < p THEN s[j] ELSE IF j = p THEN u ELSE s[j - 1]
    BY <1>5 DEF Abstract!PutAt
  <2>2. /\ Len(Tasks(s)) = Len(s) /\ Len(s) \in Nat
        /\ \A j \in 1 .. Len(s) : Tasks(s)[j].priority = data[s[j]].priority
    BY DEF Tasks
  <2>3. Tasks(t)' = Abstract!PutAt(Tasks(s), p, task)
    <3>1. Tasks(t)' = [i \in 1 .. Len(s) + 1 |-> [unit |-> t[i], priority |-> data[t[i]].priority,
                                                 payload |-> data[t[i]].payload]]
      BY <1>5, <2>1 DEF Tasks
    <3>2. \A i \in 1 .. Len(s) + 1 :
            [unit |-> t[i], priority |-> data[t[i]].priority, payload |-> data[t[i]].payload]
            = IF i < p THEN Tasks(s)[i] ELSE IF i = p THEN task ELSE Tasks(s)[i - 1]
      <4> TAKE i \in 1 .. Len(s) + 1
      <4>1. CASE i < p
        <5>1. i \in 1 .. Len(s) /\ t[i] = s[i]
          BY <2>1, <2>2, <4>1
        <5> QED BY <4>1, <5>1 DEF Tasks
      <4>2. CASE i = p
        BY <2>1, <4>2
      <4>3. CASE i > p
        <5>1. i - 1 \in 1 .. Len(s) /\ t[i] = s[i - 1] /\ ~ (i < p) /\ i # p
          BY <2>1, <2>2, <4>3
        <5> QED BY <5>1 DEF Tasks
      <4> QED BY <2>2, <4>1, <4>2, <4>3
    <3> QED BY <2>2, <3>1, <3>2 DEF Abstract!PutAt
  <2>4. Tasks(t)'[p] = task /\ Len(Tasks(t)') = Len(s) + 1
    <3> HIDE DEF task
    <3> QED BY <2>2, <2>3 DEF Abstract!PutAt
  <2>5. task \in [unit : Units, priority : Priorities, payload : Payloads]
    BY DEF IInv, TypeOK, Data
  <2>6. Abstract!PlaceFor(Tasks(s), task, p)
    BY <1>5, <2>2 DEF Abstract!PlaceFor
  <2> HIDE DEF task
  <2> QED BY <1>3, <2>2, <2>3, <2>4, <2>5, <2>6 DEF Abstract!Insert
<1>6. CASE s # << >> /\ t = Tail(s) /\ data' = data
  <2>1. Len(s) \in Nat /\ Len(s) # 0 /\ Len(t) = Len(s) - 1
        /\ \A i \in 1 .. Len(s) - 1 : t[i] = s[i + 1]
    BY <1>6
  <2>2. Tasks(s) # << >> /\ Len(Tasks(s)) = Len(s)
    BY <2>1 DEF Tasks
  <2>3. Tail(Tasks(s)) = [i \in 1 .. Len(s) - 1 |-> Tasks(s)[i + 1]]
    <3> DEFINE z == Tasks(s)
    <3>1. z = [i \in 1 .. Len(z) |-> z[i]] /\ z \in Seq({z[i] : i \in 1 .. Len(z)})
      BY <2>1 DEF Tasks
    <3>2. Len(z) = Len(s) /\ z # << >>
      BY <2>2
    <3> HIDE DEF z
    <3>3. Tail(z) = [i \in 1 .. Len(z) - 1 |-> z[i + 1]]
      BY <3>1, <3>2, TailShifts
    <3> QED BY <3>2, <3>3 DEF z
  <2>4. Tasks(t)' = [i \in 1 .. Len(s) - 1 |-> Tasks(s)[i + 1]]
    BY <1>6, <2>1 DEF Tasks
  <2> QED BY <1>3, <2>2, <2>3, <2>4 DEF Abstract!Next, Abstract!PopUp
<1> QED BY <1>2, <1>4, <1>5, <1>6 DEF QueueStep, Abstract!Next

\* The doubly linked list implements the priority queue of TaskQueue: whatever
\* the cells and however often they are used again, queue_insert_priority puts
\* a task behind every task at least as urgent and queue_popup takes the first.
THEOREM QueueIsAbstract == Spec => ImplementsTaskQueue
<1>1. Init => Queued = << >>
  <2>1. Init => Linked(<< >>) /\ << >> \in Seq(Units)
    BY StartOfTheQueue
  <2>2. Tasks(<< >>) = << >>
    BY DEF Tasks
  <2> QED BY <2>1, <2>2, QueuedIsTasks
<1>2. IInv /\ [Next]_vars => [Abstract!Next]_Queued
  BY StepIsAbstract
<1> QED BY <1>1, <1>2, QueueInvariant, PTL DEF Spec, ImplementsTaskQueue, Abstract!Spec, Abstract!Init
=============================================================================
