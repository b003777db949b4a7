----------------------------- MODULE ProcProofs -----------------------------
(***************************************************************************)
(* Proofs about Proc, for every number of slots, CPUs and priority levels. *)
(***************************************************************************)
EXTENDS Proc, SequenceTheorems, FiniteSetTheorems, TLAPS

LEMMA SlotFacts ==
  /\ InitProc \in Slots
  /\ NoProc \notin Slots
  /\ Slots \subseteq Nat
  /\ NORM_PRIO \in Prios
  /\ Prios \subseteq Nat
  /\ 0 \in Prios
BY NPROCAssumption, PrioAssumption DEF Slots, NoProc, InitProc, Prios

-----------------------------------------------------------------------------
\* The queue operations, on any family q of queues

\* Appending a slot to one of the queues leaves a family of queues of slots.
LEMMA AppendType ==
  ASSUME NEW q \in [Prios -> Seq(Slots)], NEW i \in Prios, NEW p \in Slots
  PROVE  [q EXCEPT ![i] = Append(@, p)] \in [Prios -> Seq(Slots)]
BY AppendProperties

LEMMA TailType ==
  ASSUME NEW q \in [Prios -> Seq(Slots)], NEW i \in Prios, q[i] # << >>
  PROVE  /\ [q EXCEPT ![i] = Tail(@)] \in [Prios -> Seq(Slots)]
         /\ Head(q[i]) \in Slots
BY HeadTailProperties

\* What a batch of wakeups appends: per queue, the woken slots of that
\* priority, each one once.
LEMMA BatchFacts ==
  ASSUME NEW S, S \subseteq Slots, NEW w \in Batches(S)
  PROVE  /\ w \in [Prios -> Seq(Slots)]
         /\ \A i \in Prios :
              /\ \A k \in DOMAIN w[i] :
                   /\ w[i][k] \in S /\ priority[w[i][k]] = i
                   /\ \A j \in DOMAIN w[i] : w[i][j] = w[i][k] => j = k
              /\ \A p \in S : priority[p] = i => \E k \in DOMAIN w[i] : w[i][k] = p
<1>1. ASSUME NEW i \in Prios
      PROVE  w[i] \in InSlotOrder({p \in S : priority[p] = i})
  BY DEF Batches
<1>2. ASSUME NEW T, T \subseteq Slots, NEW s \in InSlotOrder(T)
      PROVE  /\ s \in Seq(Slots)
             /\ \A k \in DOMAIN s :
                  /\ s[k] \in T
                  /\ \A j \in DOMAIN s : s[j] = s[k] => j = k
             /\ \A p \in T : \E k \in DOMAIN s : s[k] = p
  <2>1. /\ s \in [1..Cardinality(T) -> T]
        /\ \A i, j \in DOMAIN s : i < j => s[i] < s[j]
        /\ \A p \in T : \E i \in DOMAIN s : s[i] = p
    BY <1>2 DEF InSlotOrder
  <2>0. Cardinality(T) \in Nat
    <3>1. IsFiniteSet(Slots)
      BY FS_Interval, NPROCAssumption DEF Slots
    <3>. QED
      BY <3>1, <1>2, FS_Subset, FS_CardinalityType
  <2>2. ASSUME NEW k \in DOMAIN s, NEW j \in DOMAIN s, s[j] = s[k]
        PROVE  j = k
    <3>1. j \in Int /\ k \in Int /\ s[j] \in Nat /\ s[k] \in Nat
      <4>1. s[j] \in T /\ s[k] \in T
        BY <2>1
      <4>2. j \in 1..Cardinality(T) /\ k \in 1..Cardinality(T)
        BY <2>1
      <4>3. T \subseteq Nat
        BY <1>2, SlotFacts
      <4>4. s[j] \in Nat /\ s[k] \in Nat
        BY <4>1, <4>3
      <4>5. j \in Int /\ k \in Int
        BY <4>2, <2>0
      <4>. QED BY <4>4, <4>5
    <3>2. ~(j < k) /\ ~(k < j)
      BY <2>1, <2>2, <3>1
    <3>. QED BY <3>1, <3>2
  <2>3. s \in Seq(Slots)
    BY <2>0, <2>1, <1>2
  <2>. QED BY <2>1, <2>2, <2>3
<1>3. ASSUME NEW i \in Prios
      PROVE  /\ w[i] \in Seq(Slots)
             /\ \A k \in DOMAIN w[i] :
                  /\ w[i][k] \in S /\ priority[w[i][k]] = i
                  /\ \A j \in DOMAIN w[i] : w[i][j] = w[i][k] => j = k
             /\ \A p \in S : priority[p] = i => \E k \in DOMAIN w[i] : w[i][k] = p
  <2>. DEFINE T == {p \in S : priority[p] = i}
  <2>1. T \subseteq Slots /\ w[i] \in InSlotOrder(T)
    BY <1>1
  <2>2. /\ w[i] \in Seq(Slots)
        /\ \A k \in DOMAIN w[i] :
              w[i][k] \in T /\ \A j \in DOMAIN w[i] : w[i][j] = w[i][k] => j = k
        /\ \A p \in T : \E k \in DOMAIN w[i] : w[i][k] = p
    BY <2>1, <1>2
  <2>. QED BY <2>2
<1>4. w \in [Prios -> Seq(Slots)]
  <2>1. w = [i \in Prios |-> w[i]]
    BY DEF Batches
  <2>. QED BY <2>1, <1>3
<1>. QED
  BY <1>3, <1>4

\* The queues q hold exactly the slots of R, each one once and in the queue
\* that the priorities pr give it.
Exact(q, pr, R) ==
  /\ \A i \in Prios : \A k \in DOMAIN q[i] :
       /\ q[i][k] \in R /\ pr[q[i][k]] = i
       /\ \A j \in DOMAIN q[i] : q[i][j] = q[i][k] => j = k
  /\ \A p \in R : \E k \in DOMAIN q[pr[p]] : q[pr[p]][k] = p

\* enqueue() of a slot that is in no queue adds just that slot.
LEMMA ExactAppend ==
  ASSUME NEW q \in [Prios -> Seq(Slots)], NEW pr \in [Slots -> Prios],
         NEW R, R \subseteq Slots, NEW p \in Slots, p \notin R,
         Exact(q, pr, R)
  PROVE  Exact([q EXCEPT ![pr[p]] = Append(@, p)], pr, R \cup {p})
<1>. DEFINE q2 == [q EXCEPT ![pr[p]] = Append(@, p)]
            n == pr[p]
<1>1. /\ q2[n] = Append(q[n], p)
      /\ q[n] \in Seq(Slots)
      /\ \A i \in Prios \ {n} : q2[i] = q[i]
  OBVIOUS
<1>2. /\ Len(q2[n]) = Len(q[n]) + 1
      /\ \A k \in 1..Len(q[n]) : q2[n][k] = q[n][k]
      /\ q2[n][Len(q[n]) + 1] = p
      /\ DOMAIN q2[n] = 1..(Len(q[n]) + 1)
      /\ DOMAIN q[n] = 1..Len(q[n])
      /\ Len(q[n]) \in Nat
  BY <1>1, AppendProperties, LenProperties
<1>3. ASSUME NEW i \in Prios, NEW k \in DOMAIN q2[i]
      PROVE  /\ q2[i][k] \in R \cup {p} /\ pr[q2[i][k]] = i
             /\ \A j \in DOMAIN q2[i] : q2[i][j] = q2[i][k] => j = k
  <2>1. CASE i # n
    BY <2>1, <1>1 DEF Exact
  <2>2. CASE i = n
    <3>1. \A j \in 1..Len(q[n]) : q[n][j] \in R /\ q[n][j] # p /\ pr[q[n][j]] = n
      BY <1>2 DEF Exact
    <3>2. \A j, m \in 1..Len(q[n]) : q[n][j] = q[n][m] => j = m
      <4>1. \A m \in DOMAIN q[n] : \A j \in DOMAIN q[n] : q[n][j] = q[n][m] => j = m
        BY DEF Exact
      <4>. QED BY <4>1, <1>2
    <3>3. \A j \in 1..(Len(q[n]) + 1) : j \in 1..Len(q[n]) \/ j = Len(q[n]) + 1
      BY <1>2
    <3>. QED BY <2>2, <1>2, <3>1, <3>2, <3>3
  <2>. QED BY <2>1, <2>2
<1>4. ASSUME NEW x \in R \cup {p}
      PROVE  \E k \in DOMAIN q2[pr[x]] : q2[pr[x]][k] = x
  <2>1. CASE x = p
    <3>1. Len(q[n]) + 1 \in DOMAIN q2[n]
      BY <1>2
    <3>. QED BY <2>1, <3>1, <1>2
  <2>2. CASE x # p
    <3>1. x \in R /\ x \in Slots
      BY <2>2
    <3>2. PICK k \in DOMAIN q[pr[x]] : q[pr[x]][k] = x
      BY <3>1 DEF Exact
    <3>3. CASE pr[x] = n
      <4>1. k \in 1..Len(q[n]) /\ k \in 1..(Len(q[n]) + 1)
        BY <3>2, <3>3, <1>2
      <4>. QED BY <4>1, <3>2, <3>3, <1>2
    <3>4. CASE pr[x] # n
      BY <3>1, <3>2, <3>4, <1>1
    <3>. QED BY <3>3, <3>4
  <2>. QED BY <2>1, <2>2
<1>. QED BY <1>3, <1>4 DEF Exact

\* dequeue() takes out just the slot at the head.
LEMMA ExactTail ==
  ASSUME NEW q \in [Prios -> Seq(Slots)], NEW pr \in [Slots -> Prios],
         NEW R, R \subseteq Slots, NEW n \in Prios, q[n] # << >>,
         Exact(q, pr, R)
  PROVE  Exact([q EXCEPT ![n] = Tail(@)], pr, R \ {Head(q[n])})
<1>. DEFINE q2 == [q EXCEPT ![n] = Tail(@)]
            p == Head(q[n])
<1>1. /\ q2[n] = Tail(q[n])
      /\ q[n] \in Seq(Slots)
      /\ \A i \in Prios \ {n} : q2[i] = q[i]
  OBVIOUS
<1>2. /\ Len(q[n]) \in Nat /\ Len(q[n]) >= 1
      /\ DOMAIN q[n] = 1..Len(q[n])
      /\ DOMAIN q2[n] = 1..(Len(q[n]) - 1)
      /\ \A k \in 1..(Len(q[n]) - 1) : q2[n][k] = q[n][k + 1]
      /\ p = q[n][1]
  BY <1>1, HeadTailProperties, LenProperties, EmptySeq
<1>3. p \in R /\ pr[p] = n
  BY <1>2 DEF Exact
<1>4. ASSUME NEW i \in Prios, NEW k \in DOMAIN q2[i]
      PROVE  /\ q2[i][k] \in R \ {p} /\ pr[q2[i][k]] = i
             /\ \A j \in DOMAIN q2[i] : q2[i][j] = q2[i][k] => j = k
  <2>1. CASE i # n
    BY <2>1, <1>1, <1>3 DEF Exact
  <2>2. CASE i = n
    <3>1. \A j \in 1..Len(q[n]) : q[n][j] \in R /\ pr[q[n][j]] = n
      BY <1>2 DEF Exact
    <3>2. \A j, m \in 1..Len(q[n]) : q[n][j] = q[n][m] => j = m
      <4>1. \A m \in DOMAIN q[n] : \A j \in DOMAIN q[n] : q[n][j] = q[n][m] => j = m
        BY DEF Exact
      <4>. QED BY <4>1, <1>2
    <3>3. \A j \in 1..(Len(q[n]) - 1) : j + 1 \in 1..Len(q[n]) /\ j + 1 # 1 /\ j \in Int
      BY <1>2
    <3>4. 1 \in 1..Len(q[n])
      BY <1>2
    <3>5. \A j \in 1..(Len(q[n]) - 1) : q[n][j + 1] # p
      BY <3>2, <3>3, <3>4, <1>2
    <3>. QED BY <2>2, <1>2, <3>1, <3>2, <3>3, <3>5
  <2>. QED BY <2>1, <2>2
<1>5. ASSUME NEW x \in R \ {p}
      PROVE  \E k \in DOMAIN q2[pr[x]] : q2[pr[x]][k] = x
  <2>1. PICK k \in DOMAIN q[pr[x]] : q[pr[x]][k] = x
    BY DEF Exact
  <2>2. CASE pr[x] = n
    <3>1. k \in 1..Len(q[n]) /\ k # 1
      BY <2>1, <2>2, <1>2
    <3>2. k - 1 \in 1..(Len(q[n]) - 1) /\ (k - 1) + 1 = k
      BY <3>1, <1>2
    <3>3. q2[n][k - 1] = x
      BY <3>2, <2>1, <2>2, <1>2
    <3>. QED BY <3>2, <3>3, <2>2, <1>2
  <2>3. CASE pr[x] # n
    <3>1. pr[x] \in Prios
      OBVIOUS
    <3>2. q2[pr[x]] = q[pr[x]]
      BY <2>3, <3>1, <1>1
    <3>. QED BY <2>1, <3>2
  <2>. QED BY <2>2, <2>3
<1>. QED BY <1>4, <1>5 DEF Exact

\* A batch of wakeups adds just the slots woken.
LEMMA ExactBatch ==
  ASSUME NEW q \in [Prios -> Seq(Slots)], priority \in [Slots -> Prios],
         NEW R, R \subseteq Slots, NEW S, S \subseteq Slots, R \cap S = {},
         NEW w \in Batches(S), Exact(q, priority, R)
  PROVE  Exact(AddBatch(q, w), priority, R \cup S)
<1>. DEFINE q2 == AddBatch(q, w)
<1>1. /\ w \in [Prios -> Seq(Slots)]
      /\ \A i \in Prios :
           /\ \A k \in DOMAIN w[i] :
                /\ w[i][k] \in S /\ priority[w[i][k]] = i
                /\ \A j \in DOMAIN w[i] : w[i][j] = w[i][k] => j = k
           /\ \A p \in S : priority[p] = i => \E k \in DOMAIN w[i] : w[i][k] = p
  BY BatchFacts
<1>2. ASSUME NEW i \in Prios
      PROVE  /\ q2[i] \in Seq(Slots)
             /\ Len(q[i]) \in Nat /\ Len(w[i]) \in Nat
             /\ DOMAIN q[i] = 1..Len(q[i]) /\ DOMAIN w[i] = 1..Len(w[i])
             /\ DOMAIN q2[i] = 1..(Len(q[i]) + Len(w[i]))
             /\ \A k \in 1..Len(q[i]) : q2[i][k] = q[i][k]
             /\ \A k \in 1..Len(w[i]) : q2[i][Len(q[i]) + k] = w[i][k]
  <2>1. q[i] \in Seq(Slots) /\ w[i] \in Seq(Slots)
    BY <1>1
  <2>2. q2[i] = q[i] \o w[i]
    BY DEF AddBatch
  <2>. HIDE DEF q2
  <2>3. /\ q[i] \o w[i] \in Seq(Slots)
        /\ Len(q[i]) \in Nat /\ Len(w[i]) \in Nat
        /\ Len(q[i] \o w[i]) = Len(q[i]) + Len(w[i])
        /\ \A k \in 1..(Len(q[i]) + Len(w[i])) :
             (q[i] \o w[i])[k] = IF k <= Len(q[i]) THEN q[i][k] ELSE w[i][k - Len(q[i])]
    BY <2>1, ConcatProperties, LenProperties
  <2>4. \A k \in 1..Len(q[i]) : q2[i][k] = q[i][k]
    BY <2>2, <2>3
  <2>5. ASSUME NEW k \in 1..Len(w[i])
        PROVE  q2[i][Len(q[i]) + k] = w[i][k]
    <3>1. /\ Len(q[i]) + k \in 1..(Len(q[i]) + Len(w[i]))
          /\ ~(Len(q[i]) + k <= Len(q[i])) /\ (Len(q[i]) + k) - Len(q[i]) = k
      BY <2>3
    <3>. QED BY <3>1, <2>2, <2>3
  <2>. QED BY <2>1, <2>2, <2>3, <2>4, <2>5, LenProperties
<1>3. ASSUME NEW i \in Prios, NEW k \in DOMAIN q2[i]
      PROVE  /\ q2[i][k] \in R \cup S /\ priority[q2[i][k]] = i
             /\ \A j \in DOMAIN q2[i] : q2[i][j] = q2[i][k] => j = k
  <2>. DEFINE L == Len(q[i])
              M == Len(w[i])
  <2>1. L \in Nat /\ M \in Nat
    BY <1>2
  <2>2. \A j \in 1..L : /\ q2[i][j] \in R /\ priority[q2[i][j]] = i
                        /\ \A m \in 1..L : q2[i][m] = q2[i][j] => m = j
    <3>1. \A j \in DOMAIN q[i] : /\ q[i][j] \in R /\ priority[q[i][j]] = i
                                  /\ \A m \in DOMAIN q[i] : q[i][m] = q[i][j] => m = j
      BY DEF Exact
    <3>2. DOMAIN q[i] = 1..L /\ \A j \in 1..L : q2[i][j] = q[i][j]
      BY <1>2
    <3>. HIDE DEF q2, L
    <3>. QED BY <3>1, <3>2
  <2>3. \A j \in 1..(L + M) : j \notin 1..L =>
           /\ j - L \in 1..M /\ L + (j - L) = j
    BY <2>1
  <2>4. \A j \in 1..(L + M) : j \notin 1..L =>
           q2[i][j] = w[i][j - L]
    <3>. SUFFICES ASSUME NEW j \in 1..(L + M), j \notin 1..L
                  PROVE  q2[i][j] = w[i][j - L]
      OBVIOUS
    <3>1. j - L \in 1..M /\ L + (j - L) = j
      BY <2>3
    <3>2. q2[i][L + (j - L)] = w[i][j - L]
      BY <3>1, <1>2
    <3>. QED BY <3>1, <3>2
  <2>5. \A j \in 1..(L + M) : j \notin 1..L =>
           q2[i][j] \in S /\ priority[q2[i][j]] = i
    <3>1. \A m \in DOMAIN w[i] : w[i][m] \in S /\ priority[w[i][m]] = i
      BY <1>1
    <3>2. DOMAIN w[i] = 1..M
      BY <1>2
    <3>. HIDE DEF q2, L, M
    <3>. QED BY <3>1, <3>2, <2>3, <2>4
  <2>6. ASSUME NEW j \in 1..(L + M), NEW m \in 1..(L + M),
               j \notin 1..L, m \notin 1..L, q2[i][j] = q2[i][m]
        PROVE  j = m
    <3>1. j - L \in DOMAIN w[i] /\ m - L \in DOMAIN w[i]
      BY <2>3, <2>6, <1>2
    <3>2. j - L = m - L
      BY <3>1, <2>4, <2>6, <1>1
    <3>. QED BY <3>2, <2>1
  <2>7. DOMAIN q2[i] = 1..(L + M)
    BY <1>2
  <2>8. q2[i][k] \in R \cup S /\ priority[q2[i][k]] = i
    BY <2>2, <2>5, <2>7
  <2>9. ASSUME NEW j \in DOMAIN q2[i], q2[i][j] = q2[i][k]
        PROVE  j = k
    <3>1. CASE j \in 1..L /\ k \in 1..L
      BY <3>1, <2>9, <2>2
    <3>2. CASE j \notin 1..L /\ k \notin 1..L
      BY <3>2, <2>9, <2>6, <2>7
    <3>3. CASE j \in 1..L /\ k \notin 1..L
      BY <3>3, <2>9, <2>2, <2>5, <2>7
    <3>4. CASE j \notin 1..L /\ k \in 1..L
      BY <3>4, <2>9, <2>2, <2>5, <2>7
    <3>. QED BY <3>1, <3>2, <3>3, <3>4
  <2>. QED BY <2>8, <2>9
<1>4. ASSUME NEW x \in R \cup S
      PROVE  \E k \in DOMAIN q2[priority[x]] : q2[priority[x]][k] = x
  <2>. DEFINE i == priority[x]
  <2>0. /\ i \in Prios
        /\ Len(q[i]) \in Nat /\ Len(w[i]) \in Nat
        /\ DOMAIN q[i] = 1..Len(q[i]) /\ DOMAIN w[i] = 1..Len(w[i])
        /\ DOMAIN q2[i] = 1..(Len(q[i]) + Len(w[i]))
        /\ \A k \in 1..Len(q[i]) : q2[i][k] = q[i][k]
        /\ \A k \in 1..Len(w[i]) : q2[i][Len(q[i]) + k] = w[i][k]
    <3>1. i \in Prios
      OBVIOUS
    <3>. QED BY <3>1, <1>2
  <2>. HIDE DEF q2, i
  <2>1. CASE x \in R
    <3>1. PICK k \in DOMAIN q[i] : q[i][k] = x
      BY <2>1 DEF Exact, i
    <3>2. k \in 1..Len(q[i]) /\ k \in 1..(Len(q[i]) + Len(w[i]))
      BY <3>1, <2>0
    <3>. QED BY <3>1, <3>2, <2>0 DEF i
  <2>2. CASE x \in S
    <3>1. PICK k \in DOMAIN w[i] : w[i][k] = x
      BY <2>2, <2>0, <1>1 DEF i
    <3>2. k \in 1..Len(w[i]) /\ Len(q[i]) + k \in 1..(Len(q[i]) + Len(w[i]))
      BY <3>1, <2>0
    <3>3. q2[i][Len(q[i]) + k] = x
      BY <3>1, <3>2, <2>0
    <3>. QED BY <3>2, <3>3, <2>0 DEF i
  <2>. QED BY <2>1, <2>2
<1>. QED BY <1>3, <1>4 DEF Exact

\* What RemoveAt leaves of a sequence.
LEMMA RemoveAtFacts ==
  ASSUME NEW S, NEW s \in Seq(S), NEW k \in 1..Len(s)
  PROVE  /\ RemoveAt(s, k) \in Seq(S)
         /\ Len(RemoveAt(s, k)) = Len(s) - 1
         /\ \A j \in 1..(Len(s) - 1) :
              RemoveAt(s, k)[j] = IF j < k THEN s[j] ELSE s[j + 1]
<1>. DEFINE a == SubSeq(s, 1, k - 1)
            b == SubSeq(s, k + 1, Len(s))
<1>0. Len(s) \in Nat /\ k \in Int /\ 1 <= k /\ k <= Len(s)
  BY LenProperties
<1>1. /\ a \in Seq(S) /\ Len(a) = k - 1
      /\ \A j \in 1..(k - 1) : a[j] = s[j]
  <2>1. \A j \in 1..(k - 1) : s[j] \in S
    BY <1>0, ElementOfSeq
  <2>2. /\ a \in Seq(S) /\ Len(a) = IF 1 <= k - 1 THEN (k - 1) - 1 + 1 ELSE 0
        /\ \A j \in 1..((k - 1) - 1 + 1) : a[j] = s[1 + j - 1]
    BY <1>0, <2>1, SubSeqProperties
  <2>. QED BY <1>0, <2>2
<1>2. /\ b \in Seq(S) /\ Len(b) = Len(s) - k
      /\ \A j \in 1..(Len(s) - k) : b[j] = s[k + j]
  <2>1. \A j \in (k + 1)..Len(s) : s[j] \in S
    BY <1>0, ElementOfSeq
  <2>2. /\ b \in Seq(S)
        /\ Len(b) = IF k + 1 <= Len(s) THEN Len(s) - (k + 1) + 1 ELSE 0
        /\ \A j \in 1..(Len(s) - (k + 1) + 1) : b[j] = s[(k + 1) + j - 1]
    BY <1>0, <2>1, SubSeqProperties
  <2>. QED BY <1>0, <2>2
<1>. HIDE DEF a, b
<1>3. /\ a \o b \in Seq(S)
      /\ Len(a \o b) = Len(a) + Len(b)
      /\ \A j \in 1..(Len(a) + Len(b)) :
           (a \o b)[j] = IF j <= Len(a) THEN a[j] ELSE b[j - Len(a)]
  BY <1>1, <1>2, ConcatProperties
<1>4. ASSUME NEW j \in 1..(Len(s) - 1)
      PROVE  (a \o b)[j] = IF j < k THEN s[j] ELSE s[j + 1]
  <2>1. j \in 1..(Len(a) + Len(b)) /\ j \in Int
    BY <1>0, <1>1, <1>2
  <2>2. CASE j < k
    <3>1. j \in 1..(k - 1) /\ j <= Len(a)
      BY <2>1, <2>2, <1>0, <1>1
    <3>. QED BY <2>1, <2>2, <3>1, <1>1, <1>3
  <2>3. CASE ~(j < k)
    <3>1. /\ ~(j <= Len(a)) /\ j - Len(a) \in 1..(Len(s) - k)
          /\ k + (j - Len(a)) = j + 1
      BY <2>1, <2>3, <1>0, <1>1
    <3>2. b[j - Len(a)] = s[j + 1]
      BY <3>1, <1>2
    <3>. QED BY <2>1, <2>3, <3>1, <3>2, <1>3
  <2>. QED BY <2>2, <2>3
<1>5. RemoveAt(s, k) = a \o b
  BY DEF RemoveAt, a, b
<1>6. Len(a) + Len(b) = Len(s) - 1
  BY <1>0, <1>1, <1>2
<1>. QED BY <1>3, <1>4, <1>5, <1>6

\* remove_from_queue() of a slot that is in the queue of its priority takes out
\* just that slot.
LEMMA ExactRemove ==
  ASSUME queues \in [Prios -> Seq(Slots)], priority \in [Slots -> Prios],
         NEW R, R \subseteq Slots, NEW p \in R,
         Exact(queues, priority, R)
  PROVE  /\ remove_from_queue(p, priority[p]) \in [Prios -> Seq(Slots)]
         /\ Exact(remove_from_queue(p, priority[p]), priority, R \ {p})
<1>. DEFINE n == priority[p]
            s == queues[n]
            q2 == remove_from_queue(p, n)
<1>0. n \in Prios /\ s \in Seq(Slots) /\ Len(s) \in Nat /\ DOMAIN s = 1..Len(s)
  BY LenProperties
<1>1. \A m \in DOMAIN s : \A j \in DOMAIN s : s[j] = s[m] => j = m
  BY <1>0 DEF Exact
<1>2. \E k \in DOMAIN s : s[k] = p
  BY DEF Exact
<1>3. \E k \in DOMAIN s : IsAt(p, n, k)
  <2>1. PICK k \in DOMAIN s : s[k] = p
    BY <1>2
  <2>2. \A j \in DOMAIN s : j < k => s[j] # p
    BY <2>1, <1>0, <1>1
  <2>. QED BY <2>1, <2>2 DEF IsAt
<1>4. PICK k \in DOMAIN s : IsAt(p, n, k) /\ q2 = [queues EXCEPT ![n] = RemoveAt(s, k)]
  <2>. DEFINE k0 == CHOOSE k \in DOMAIN s : IsAt(p, n, k)
  <2>1. k0 \in DOMAIN s /\ IsAt(p, n, k0)
    BY <1>3
  <2>2. q2 = [queues EXCEPT ![n] = RemoveAt(s, k0)]
    BY <1>0, <1>3 DEF remove_from_queue
  <2>. QED BY <2>1, <2>2
<1>5. s[k] = p /\ k \in 1..Len(s)
  BY <1>4, <1>0 DEF IsAt
<1>6. /\ RemoveAt(s, k) \in Seq(Slots)
      /\ Len(RemoveAt(s, k)) = Len(s) - 1
      /\ \A j \in 1..(Len(s) - 1) :
           RemoveAt(s, k)[j] = IF j < k THEN s[j] ELSE s[j + 1]
  BY <1>0, <1>5, RemoveAtFacts
<1>7. /\ q2 \in [Prios -> Seq(Slots)]
      /\ q2[n] = RemoveAt(s, k)
      /\ \A i \in Prios \ {n} : q2[i] = queues[i]
      /\ DOMAIN q2[n] = 1..(Len(s) - 1)
  BY <1>0, <1>4, <1>6, LenProperties
<1>. DEFINE Old(j) == IF j < k THEN j ELSE j + 1
<1>8. \A j \in 1..(Len(s) - 1) :
        Old(j) \in 1..Len(s) /\ Old(j) # k /\ q2[n][j] = s[Old(j)]
  <2>1. ASSUME NEW j \in 1..(Len(s) - 1)
        PROVE  Old(j) \in 1..Len(s) /\ Old(j) # k
    BY <1>0, <1>5
  <2>2. ASSUME NEW j \in 1..(Len(s) - 1)
        PROVE  q2[n][j] = s[Old(j)]
    <3>1. q2[n][j] = RemoveAt(s, k)[j]
      BY <1>7
    <3>2. CASE j < k
      BY <3>1, <3>2, <1>6
    <3>3. CASE ~(j < k)
      BY <3>1, <3>3, <1>6
    <3>. QED BY <3>2, <3>3
  <2>. QED BY <2>1, <2>2
<1>9. \A j, m \in 1..(Len(s) - 1) : Old(j) = Old(m) => j = m
  BY <1>0, <1>5
<1>. HIDE DEF Old, q2
<1>10. ASSUME NEW i \in Prios, NEW m \in DOMAIN q2[i]
       PROVE  /\ q2[i][m] \in R \ {p} /\ priority[q2[i][m]] = i
              /\ \A j \in DOMAIN q2[i] : q2[i][j] = q2[i][m] => j = m
  <2>1. CASE i # n
    BY <2>1, <1>7 DEF Exact
  <2>2. CASE i = n
    <3>1. \A j \in 1..Len(s) : s[j] \in R /\ priority[s[j]] = n
      BY <1>0 DEF Exact
    <3>2. \A j \in 1..(Len(s) - 1) : q2[n][j] # p
      BY <1>0, <1>1, <1>5, <1>8
    <3>0. m \in 1..(Len(s) - 1)
      BY <2>2, <1>7
    <3>3. q2[n][m] \in R \ {p} /\ priority[q2[n][m]] = n
      <4>1. q2[n][m] = s[Old(m)] /\ Old(m) \in 1..Len(s)
        BY <3>0, <1>8
      <4>. QED BY <4>1, <3>0, <3>1, <3>2
    <3>4. ASSUME NEW j \in 1..(Len(s) - 1), q2[n][j] = q2[n][m]
          PROVE  j = m
      <4>1. s[Old(j)] = s[Old(m)] /\ Old(j) \in 1..Len(s) /\ Old(m) \in 1..Len(s)
        BY <3>0, <3>4, <1>8
      <4>2. Old(j) = Old(m)
        BY <4>1, <1>0, <1>1
      <4>. QED BY <4>2, <3>0, <1>9
    <3>. QED BY <2>2, <3>3, <3>4, <1>7
  <2>. QED BY <2>1, <2>2
<1>11. ASSUME NEW x \in R \ {p}
       PROVE  \E m \in DOMAIN q2[priority[x]] : q2[priority[x]][m] = x
  <2>0. x \in R /\ x # p /\ priority[x] \in Prios
    OBVIOUS
  <2>1. PICK m \in DOMAIN queues[priority[x]] : queues[priority[x]][m] = x
    BY <2>0 DEF Exact
  <2>2. CASE priority[x] # n
    <3>1. q2[priority[x]] = queues[priority[x]]
      BY <2>0, <2>2, <1>7
    <3>. QED BY <2>1, <3>1
  <2>3. CASE priority[x] = n
    <3>1. m \in 1..Len(s) /\ s[m] = x /\ m # k
      BY <2>0, <2>1, <2>3, <1>0, <1>5
    <3>2. CASE m < k
      <4>1. m \in 1..(Len(s) - 1)
        BY <3>1, <3>2, <1>0, <1>5
      <4>2. Old(m) = m
        BY <3>2 DEF Old
      <4>. QED BY <4>1, <4>2, <3>1, <2>3, <1>7, <1>8
    <3>3. CASE ~(m < k)
      <4>1. m - 1 \in 1..(Len(s) - 1) /\ ~(m - 1 < k) /\ (m - 1) + 1 = m
        BY <3>1, <3>3, <1>0, <1>5
      <4>2. Old(m - 1) = m
        BY <4>1 DEF Old
      <4>. QED BY <4>1, <4>2, <3>1, <2>3, <1>7, <1>8
    <3>. QED BY <3>2, <3>3
  <2>. QED BY <2>2, <2>3
<1>12. Exact(q2, priority, R \ {p})
  BY <1>10, <1>11 DEF Exact
<1>. QED BY <1>7, <1>12 DEF q2

\* A change of the priority of slots that are in no queue is invisible to them.
LEMMA ExactFrame ==
  ASSUME NEW q, NEW pr, NEW pr2, NEW R, Exact(q, pr, R),
         \A p \in R : pr2[p] = pr[p]
  PROVE  Exact(q, pr2, R)
BY DEF Exact

-----------------------------------------------------------------------------
\* Type correctness

USE DEF States, Points

\* A batch of wakeups keeps the queues queues of slots.
LEMMA BatchType ==
  ASSUME NEW q \in [Prios -> Seq(Slots)], NEW S, S \subseteq Slots, NEW w \in Batches(S)
  PROVE  AddBatch(q, w) \in [Prios -> Seq(Slots)]
<1>1. w \in [Prios -> Seq(Slots)]
  BY BatchFacts
<1>2. ASSUME NEW i \in Prios
      PROVE  q[i] \o w[i] \in Seq(Slots)
  BY <1>1, ConcatProperties
<1>. QED BY <1>2 DEF AddBatch

\* fork() knows its embryo while it is under way.
KidType == \A p \in Slots : pc[p] \in {"fork", "forked"} => child[p] \in Slots

\* Unlinking leaves queues of slots, whether the slot is there or not.
LEMMA RemoveType ==
  ASSUME queues \in [Prios -> Seq(Slots)], NEW p \in Slots, NEW n \in Prios
  PROVE  remove_from_queue(p, n) \in [Prios -> Seq(Slots)]
<1>1. CASE \E k \in DOMAIN queues[n] : IsAt(p, n, k)
  <2>. DEFINE k == CHOOSE k \in DOMAIN queues[n] : IsAt(p, n, k)
  <2>1. k \in 1..Len(queues[n]) /\ queues[n] \in Seq(Slots)
    BY <1>1, LenProperties
  <2>2. RemoveAt(queues[n], k) \in Seq(Slots)
    BY <2>1, RemoveAtFacts
  <2>3. remove_from_queue(p, n) = [queues EXCEPT ![n] = RemoveAt(queues[n], k)]
    BY <1>1 DEF remove_from_queue
  <2>. HIDE DEF k
  <2>. QED BY <2>2, <2>3
<1>2. CASE ~(\E k \in DOMAIN queues[n] : IsAt(p, n, k))
  BY <1>2 DEF remove_from_queue
<1>. QED BY <1>1, <1>2

LEMMA SleepersType == \A ch : Sleepers(ch) \subseteq Slots
BY DEF Sleepers

LEMMA TypeInit == Init => TypeOK /\ KidType
<1>. SUFFICES ASSUME Init PROVE TypeOK /\ KidType
  OBVIOUS
<1>. USE SlotFacts DEF Init
<1>1. queues \in [Prios -> Seq(Slots)]
  <2>1. <<InitProc>> \in Seq(Slots) /\ << >> \in Seq(Slots)
    OBVIOUS
  <2>. QED BY <2>1
<1>2. nextpid \in 2..(MaxPid + 1) /\ pid \in [Slots -> 0..MaxPid]
  BY MaxPidAssumption
<1>3. /\ state \in [Slots -> States] /\ parent \in [Slots -> Slots \cup {NoProc}]
      /\ priority \in [Slots -> Prios] /\ killed \in [Slots -> BOOLEAN]
      /\ chan \in [Slots -> Slots \cup Events \cup {NoProc}]
      /\ xstate \in [Slots -> {"none", "exited", "trapped"}]
      /\ pc \in [Slots -> Points] /\ child \in [Slots -> Slots \cup {NoProc}]
      /\ cpu \in [CPUs -> Slots \cup {NoProc}] /\ lock \in CPUs \cup {Free}
  OBVIOUS
<1>. QED BY <1>1, <1>2, <1>3 DEF TypeOK, KidType

\* The variables keep their types in every step.
LEMMA TypeNext == TypeOK /\ KidType /\ [Next]_vars => TypeOK' /\ KidType'
<1>. SUFFICES ASSUME TypeOK, KidType, [Next]_vars
              PROVE  TypeOK' /\ KidType'
  OBVIOUS
<1>. USE SlotFacts DEF TypeOK, KidType
<1>1. ASSUME NEW c \in CPUs, Schedule(c)
      PROVE  TypeOK' /\ KidType'
  <2>1. PICK i \in Prios :
          /\ queues[i] # << >>
          /\ queues' = [queues EXCEPT ![i] = Tail(@)]
          /\ state' = [state EXCEPT ![Head(queues[i])] = "RUNNING"]
          /\ cpu' = [cpu EXCEPT ![c] = Head(queues[i])]
    BY <1>1 DEF Schedule, BestQueue
  <2>2. queues' \in [Prios -> Seq(Slots)] /\ Head(queues[i]) \in Slots
    BY <2>1, TailType
  <2>. QED BY <1>1, <2>1, <2>2 DEF Schedule
<1>2. ASSUME NEW c \in CPUs, Resume(c)
      PROVE  TypeOK' /\ KidType'
  BY <1>2 DEF Resume
<1>3. ASSUME NEW c \in CPUs, SwitchOut(c)
      PROVE  TypeOK' /\ KidType'
  BY <1>3 DEF SwitchOut
<1>4. ASSUME NEW p \in Slots
      PROVE  enqueue(p) \in [Prios -> Seq(Slots)]
  BY AppendType DEF enqueue
<1>5. ASSUME NEW p \in Slots, TrapStep(p)
      PROVE  TypeOK' /\ KidType'
  <2>1. CASE Yield(p)
    BY <2>1, <1>4 DEF Yield
  <2>2. CASE Syscall(p)
    BY <2>2 DEF Syscall
  <2>3. CASE SysReturn(p)
    BY <2>3 DEF SysReturn
  <2>4. CASE TrapKilled(p)
    BY <2>4 DEF TrapKilled
  <2>5. CASE Fault(p)
    BY <2>5 DEF Fault
  <2>. QED BY <1>5, <2>1, <2>2, <2>3, <2>4, <2>5 DEF TrapStep
<1>6. ASSUME NEW p \in Slots, ForkStep(p)
      PROVE  TypeOK' /\ KidType'
  <2>1. CASE ForkAlloc(p)
    <3>1. nextpid \in 0..MaxPid /\ nextpid' \in 2..(MaxPid + 1)
      BY <2>1, MaxPidAssumption DEF ForkAlloc, NextPid
    <3>2. PICK np \in Slots :
            /\ state' = [state EXCEPT ![np] = "EMBRYO"]
            /\ pid' = [pid EXCEPT ![np] = nextpid]
            /\ priority' = [priority EXCEPT ![np] = NORM_PRIO]
            /\ child' = [child EXCEPT ![p] = np]
      BY <2>1 DEF ForkAlloc
    <3>. QED BY <2>1, <3>1, <3>2 DEF ForkAlloc
  <2>2. CASE ForkAbort(p)
    BY <2>2 DEF ForkAbort
  <2>3. CASE ForkCopy(p)
    BY <2>3 DEF ForkCopy, InheritedPriority
  <2>4. CASE ForkPublish(p)
    <3>1. child[p] \in Slots
      BY <2>4 DEF ForkPublish
    <3>. QED BY <2>4, <3>1, <1>4 DEF ForkPublish
  <2>. QED BY <1>6, <2>1, <2>2, <2>3, <2>4 DEF ForkStep
<1>7. ASSUME NEW p \in Slots, ExitStep(p)
      PROVE  TypeOK' /\ KidType'
  <2>1. CASE Exit(p)
    BY <2>1 DEF Exit
  <2>2. CASE ExitZombie(p)
    <3>1. PICK w1 \in Batches(ParentWaiters(p)),
               w2 \in Batches(OrphanWaiters(p) \ ParentWaiters(p)) :
            queues' = AddBatch(AddBatch(queues, w1), w2)
      BY <2>2 DEF ExitZombie
    <3>2. AddBatch(queues, w1) \in [Prios -> Seq(Slots)]
      BY BatchType, SleepersType DEF ParentWaiters
    <3>3. OrphanWaiters(p) \ ParentWaiters(p) \subseteq Slots
      BY SleepersType DEF ParentWaiters, OrphanWaiters
    <3>4. queues' \in [Prios -> Seq(Slots)]
      BY <3>1, <3>2, <3>3, BatchType
    <3>5. state' \in [Slots -> States]
      BY <2>2 DEF ExitZombie
    <3>6. parent' \in [Slots -> Slots \cup {NoProc}]
      BY <2>2 DEF ExitZombie, Adopted
    <3>7. xstate' \in [Slots -> {"none", "exited", "trapped"}] /\ lock' \in CPUs \cup {Free}
      BY <2>2 DEF ExitZombie
    <3>8. UNCHANGED <<pid, priority, killed, chan, pc, child, nextpid, cpu>>
      BY <2>2 DEF ExitZombie
    <3>9. TypeOK'
      BY <3>4, <3>5, <3>6, <3>7, <3>8
    <3>10. KidType'
      BY <3>8
    <3>. QED BY <3>9, <3>10
  <2>. QED BY <1>7, <2>1, <2>2 DEF ExitStep
<1>8. ASSUME NEW p \in Slots, WaitStep(p)
      PROVE  TypeOK' /\ KidType'
  <2>1. CASE Wait(p)
    BY <2>1 DEF Wait
  <2>2. CASE WaitReap(p)
    <3>1. 0 \in 0..MaxPid
      BY MaxPidAssumption
    <3>2. PICK z \in Slots :
            /\ state' = [state EXCEPT ![z] = "UNUSED"]
            /\ pid' = [pid EXCEPT ![z] = 0]
            /\ parent' = [parent EXCEPT ![z] = NoProc]
            /\ killed' = [killed EXCEPT ![z] = FALSE]
      BY <2>2 DEF WaitReap
    <3>3. /\ pc' = [pc EXCEPT ![p] = "user"]
          /\ chan' = [chan EXCEPT ![p] = NoProc]
          /\ lock' = Free
          /\ UNCHANGED <<priority, xstate, child, queues, nextpid, cpu>>
      BY <2>2 DEF WaitReap
    <3>4. TypeOK'
      BY <3>1, <3>2, <3>3
    <3>5. KidType'
      BY <3>3
    <3>. QED BY <3>4, <3>5
  <2>3. CASE WaitFail(p)
    BY <2>3 DEF WaitFail
  <2>4. CASE WaitSleep(p)
    BY <2>4 DEF WaitSleep
  <2>. QED BY <1>8, <2>1, <2>2, <2>3, <2>4 DEF WaitStep
<1>9. ASSUME NEW p \in Slots, NEW k \in KillPids, Kill(p, k)
      PROVE  TypeOK' /\ KidType'
  <2>1. queues' \in [Prios -> Seq(Slots)]
    BY <1>9, <1>4 DEF Kill
  <2>2. /\ state' \in [Slots -> States] /\ killed' \in [Slots -> BOOLEAN]
        /\ pc' \in [Slots -> Points]
    BY <1>9 DEF Kill
  <2>. QED BY <1>9, <2>1, <2>2 DEF Kill
<1>10. ASSUME NEW p \in Slots, NEW k \in PrioPids, NEW n \in Prios, SetPrio(p, k, n)
       PROVE  TypeOK' /\ KidType'
  <2>1. PICK t \in Slots : /\ priority' = [priority EXCEPT ![t] = n]
                           /\ queues' = Requeued(t, n)
    BY <1>10 DEF SetPrio
  <2>2. remove_from_queue(t, priority[t]) \in [Prios -> Seq(Slots)]
    BY RemoveType
  <2>3. queues' \in [Prios -> Seq(Slots)]
    BY <2>1, <2>2, AppendType DEF Requeued
  <2>. QED BY <1>10, <2>1, <2>3 DEF SetPrio
<1>11. ASSUME NEW p \in Slots, NEW e \in Events, Sleep(p, e)
       PROVE  TypeOK' /\ KidType'
  BY <1>11 DEF Sleep
<1>12. ASSUME NEW e \in Events, Wakeup(e)
       PROVE  TypeOK' /\ KidType'
  <2>1. PICK w \in Batches(Sleepers(e)) : queues' = AddBatch(queues, w)
    BY <1>12 DEF Wakeup
  <2>2. queues' \in [Prios -> Seq(Slots)]
    BY <2>1, BatchType, SleepersType
  <2>. QED BY <1>12, <2>2 DEF Wakeup
<1>13. CASE UNCHANGED vars
  BY <1>13 DEF vars
<1>. QED
  BY <1>1, <1>2, <1>3, <1>5, <1>6, <1>7, <1>8, <1>9, <1>10, <1>11, <1>12, <1>13
     DEF Next, CpuStep

\* Every variable of the process subsystem keeps its type.
THEOREM TypeCorrect == Spec => []TypeOK
<1>1. TypeOK /\ KidType /\ [Next]_vars => (TypeOK /\ KidType)'
  BY TypeNext
<1>. QED BY TypeInit, <1>1, PTL DEF Spec

-----------------------------------------------------------------------------
(***************************************************************************)
(* The run queues and the kernel stacks.  Neither invariant is inductive   *)
(* alone: what fork() does to its embryo without the lock is harmless only *)
(* because the embryo is still one, and belongs to one fork() (KidsOK).    *)
(***************************************************************************)
Runnable == {p \in Slots : state[p] = "RUNNABLE"}

Forking(p) == pc[p] \in {"fork", "forked"}

KidsOK ==
  /\ \A p \in Slots : Forking(p) => child[p] \in Slots /\ state[child[p]] = "EMBRYO"
  /\ \A p, q \in Slots : Forking(p) /\ Forking(q) /\ child[p] = child[q] => p = q

CoreInv == TypeOK /\ KidsOK /\ RunQueuesExact /\ StacksExclusive

LEMMA QueuesAreExact ==
  ASSUME TypeOK
  PROVE  RunQueuesExact <=> Exact(queues, priority, Runnable)
<1>1. \A i \in Prios : \A k \in DOMAIN queues[i] : queues[i][k] \in Slots
  BY ElementOfSeq, LenProperties DEF TypeOK
<1>2. ASSUME RunQueuesExact PROVE Exact(queues, priority, Runnable)
  BY <1>1, <1>2 DEF RunQueuesExact, Exact, Runnable
<1>3. ASSUME Exact(queues, priority, Runnable) PROVE RunQueuesExact
  <2>1. ASSUME NEW i \in Prios, NEW k \in DOMAIN queues[i]
        PROVE  /\ state[queues[i][k]] = "RUNNABLE" /\ priority[queues[i][k]] = i
               /\ \A j \in DOMAIN queues[i] : queues[i][j] = queues[i][k] => j = k
    BY <1>3 DEF Exact, Runnable
  <2>2. ASSUME NEW p \in Slots, state[p] = "RUNNABLE"
        PROVE  \E k \in DOMAIN queues[priority[p]] : queues[priority[p]][k] = p
    BY <1>3, <2>2 DEF Exact, Runnable
  <2>. QED BY <2>1, <2>2 DEF RunQueuesExact
<1>. QED BY <1>2, <1>3

\* What CoreInv says of the processes a step acts on.
LEMMA HeadRunnable ==
  ASSUME TypeOK, RunQueuesExact, NEW i \in Prios, queues[i] # << >>
  PROVE  /\ Head(queues[i]) \in Slots
         /\ state[Head(queues[i])] = "RUNNABLE"
<1>1. queues[i] \in Seq(Slots)
  BY DEF TypeOK
<1>2. /\ Head(queues[i]) \in Slots /\ Head(queues[i]) = queues[i][1]
      /\ 1 \in DOMAIN queues[i]
  BY <1>1, HeadTailProperties, EmptySeq, LenProperties
<1>. QED BY <1>2 DEF RunQueuesExact

-----------------------------------------------------------------------------
\* fork() under way keeps its embryo to itself.
LEMMA KidsNext == CoreInv /\ [Next]_vars => KidsOK'
<1>. SUFFICES ASSUME CoreInv, [Next]_vars PROVE KidsOK'
  OBVIOUS
<1>. USE SlotFacts DEF KidsOK, CoreInv, Forking
<1>0. /\ state \in [Slots -> States] /\ pc \in [Slots -> Points]
      /\ child \in [Slots -> Slots \cup {NoProc}]
  BY DEF TypeOK
\* A step that starts no fork() and touches no embryo.
<1>a. ASSUME \A p \in Slots : Forking(p)' => Forking(p) /\ child'[p] = child[p],
             \A q \in Slots : state[q] = "EMBRYO" => state'[q] = "EMBRYO"
      PROVE  KidsOK'
  <2>1. ASSUME NEW p \in Slots, Forking(p)'
        PROVE  child'[p] \in Slots /\ state'[child'[p]] = "EMBRYO"
    BY <1>0, <1>a, <2>1
  <2>2. ASSUME NEW p \in Slots, NEW q \in Slots, Forking(p)', Forking(q)',
               child'[p] = child'[q]
        PROVE  p = q
    BY <1>a, <2>2
  <2>. QED BY <2>1, <2>2
<1>1. ASSUME NEW c \in CPUs, CpuStep(c) PROVE KidsOK'
  <2>1. CASE Schedule(c)
    <3>1. PICK i \in Prios : /\ queues[i] # << >>
                             /\ state' = [state EXCEPT ![Head(queues[i])] = "RUNNING"]
      BY <2>1 DEF Schedule, BestQueue
    <3>2. state[Head(queues[i])] = "RUNNABLE"
      BY <3>1, HeadRunnable
    <3>3. \A q \in Slots : state[q] = "EMBRYO" => state'[q] = "EMBRYO"
      BY <3>1, <3>2, <1>0
    <3>4. pc' = pc /\ child' = child
      BY <2>1 DEF Schedule
    <3>. QED BY <3>3, <3>4, <1>a
  <2>2. CASE Resume(c)
    BY <2>2, <1>a DEF Resume
  <2>3. CASE SwitchOut(c)
    BY <2>3, <1>a DEF SwitchOut
  <2>. QED BY <1>1, <2>1, <2>2, <2>3 DEF CpuStep
<1>2. ASSUME NEW p \in Slots, TrapStep(p) PROVE KidsOK'
  <2>1. state[p] = "RUNNING"
    BY <1>2 DEF TrapStep, Yield, Syscall, SysReturn, TrapKilled, Fault, Executing
  <2>2. \A q \in Slots : state[q] = "EMBRYO" => state'[q] = "EMBRYO"
    BY <1>2, <1>0, <2>1 DEF TrapStep, Yield, Syscall, SysReturn, TrapKilled, Fault
  <2>3. \A q \in Slots : Forking(q)' => Forking(q) /\ child'[q] = child[q]
    BY <1>2, <1>0 DEF TrapStep, Yield, Syscall, SysReturn, TrapKilled, Fault
  <2>. QED BY <2>2, <2>3, <1>a
<1>3. ASSUME NEW p \in Slots, ForkStep(p) PROVE KidsOK'
  <2>1. CASE ForkAlloc(p)
    <3>1. PICK np \in Slots : /\ state[np] = "UNUSED"
                              /\ state' = [state EXCEPT ![np] = "EMBRYO"]
                              /\ child' = [child EXCEPT ![p] = np]
      BY <2>1 DEF ForkAlloc, IsFirst, Unused
    <3>2. pc' = [pc EXCEPT ![p] = "fork"]
      BY <2>1 DEF ForkAlloc
    <3>3. /\ \A q \in Slots \ {p} : pc'[q] = pc[q] /\ child'[q] = child[q]
          /\ child'[p] = np /\ state'[np] = "EMBRYO"
          /\ \A q \in Slots : state[q] = "EMBRYO" => state'[q] = "EMBRYO"
      BY <3>1, <3>2, <1>0
    <3>4. \A q \in Slots : Forking(q) => child[q] # np
      BY <3>1
    <3>5. \A q \in Slots \ {p} : Forking(q)' => Forking(q)
      BY <3>3
    <3>6. ASSUME NEW q \in Slots, Forking(q)'
          PROVE  child'[q] \in Slots /\ state'[child'[q]] = "EMBRYO"
      <4>1. CASE q = p
        BY <4>1, <3>3
      <4>2. CASE q # p
        <5>1. child[q] \in Slots /\ state[child[q]] = "EMBRYO" /\ child'[q] = child[q]
          BY <4>2, <3>3, <3>5, <3>6
        <5>. QED BY <5>1, <3>3
      <4>. QED BY <4>1, <4>2
    <3>7. ASSUME NEW q \in Slots, NEW r \in Slots, Forking(q)', Forking(r)',
                 child'[q] = child'[r]
          PROVE  q = r
      BY <3>3, <3>4, <3>5, <3>7
    <3>. QED BY <3>6, <3>7
  <2>2. CASE ForkAbort(p)
    <3>1. /\ state' = [state EXCEPT ![child[p]] = "UNUSED"]
          /\ child' = [child EXCEPT ![p] = NoProc]
          /\ pc' = [pc EXCEPT ![p] = "user"]
          /\ Forking(p)
      BY <2>2 DEF ForkAbort
    <3>2. \A q \in Slots : Forking(q)' => q # p /\ Forking(q) /\ child'[q] = child[q]
      BY <3>1, <1>0
    <3>3. \A q \in Slots : q # child[p] => state'[q] = state[q]
      BY <3>1, <1>0
    <3>4. ASSUME NEW q \in Slots, Forking(q)'
          PROVE  child'[q] \in Slots /\ state'[child'[q]] = "EMBRYO"
      BY <3>1, <3>2, <3>3, <3>4
    <3>5. ASSUME NEW q \in Slots, NEW r \in Slots, Forking(q)', Forking(r)',
                 child'[q] = child'[r]
          PROVE  q = r
      BY <3>2, <3>5
    <3>. QED BY <3>4, <3>5
  <2>3. CASE ForkCopy(p)
    <3>1. /\ state' = state /\ child' = child /\ pc' = [pc EXCEPT ![p] = "forked"]
          /\ Forking(p)
      BY <2>3 DEF ForkCopy
    <3>. QED BY <3>1, <1>0, <1>a
  <2>4. CASE ForkPublish(p)
    <3>1. /\ state' = [state EXCEPT ![child[p]] = "RUNNABLE"]
          /\ child' = [child EXCEPT ![p] = NoProc]
          /\ pc' = [pc EXCEPT ![p] = "user", ![child[p]] = "user"]
          /\ Forking(p)
      BY <2>4 DEF ForkPublish
    <3>2. \A q \in Slots : Forking(q)' => q # p /\ Forking(q) /\ child'[q] = child[q]
      BY <3>1, <1>0
    <3>3. \A q \in Slots : q # child[p] => state'[q] = state[q]
      BY <3>1, <1>0
    <3>4. ASSUME NEW q \in Slots, Forking(q)'
          PROVE  child'[q] \in Slots /\ state'[child'[q]] = "EMBRYO"
      BY <3>1, <3>2, <3>3, <3>4
    <3>5. ASSUME NEW q \in Slots, NEW r \in Slots, Forking(q)', Forking(r)',
                 child'[q] = child'[r]
          PROVE  q = r
      BY <3>2, <3>5
    <3>. QED BY <3>4, <3>5
  <2>. QED BY <1>3, <2>1, <2>2, <2>3, <2>4 DEF ForkStep
<1>4. ASSUME NEW p \in Slots, ExitStep(p) PROVE KidsOK'
  <2>1. state[p] = "RUNNING"
    BY <1>4 DEF ExitStep, Exit, ExitZombie, Executing
  <2>2. CASE Exit(p)
    BY <2>2, <1>0, <1>a DEF Exit
  <2>3. CASE ExitZombie(p)
    <3>1. \A q \in Slots : state[q] = "EMBRYO" => state'[q] = "EMBRYO"
      BY <2>1, <2>3, <1>0 DEF ExitZombie, Sleepers, ParentWaiters, OrphanWaiters
    <3>2. pc' = pc /\ child' = child
      BY <2>3 DEF ExitZombie
    <3>. QED BY <3>1, <3>2, <1>a
  <2>. QED BY <1>4, <2>2, <2>3 DEF ExitStep
<1>5. ASSUME NEW p \in Slots, WaitStep(p) PROVE KidsOK'
  <2>1. CASE Wait(p)
    BY <2>1, <1>0, <1>a DEF Wait
  <2>2. CASE WaitReap(p)
    <3>1. PICK z \in Slots : state[z] = "ZOMBIE" /\ state' = [state EXCEPT ![z] = "UNUSED"]
      BY <2>2 DEF WaitReap, IsFirst, Zombies, Children
    <3>2. pc' = [pc EXCEPT ![p] = "user"] /\ child' = child
      BY <2>2 DEF WaitReap
    <3>. QED BY <3>1, <3>2, <1>0, <1>a
  <2>3. CASE WaitFail(p)
    BY <2>3, <1>0, <1>a DEF WaitFail
  <2>4. CASE WaitSleep(p)
    <3>1. state[p] = "RUNNING"
      BY <2>4 DEF WaitSleep, WaitScan, Executing
    <3>. QED BY <2>4, <3>1, <1>0, <1>a DEF WaitSleep
  <2>. QED BY <1>5, <2>1, <2>2, <2>3, <2>4 DEF WaitStep
<1>6. ASSUME NEW p \in Slots, NEW k \in KillPids, Kill(p, k) PROVE KidsOK'
  <2>1. PICK t \in Slots :
          IF KillWakes(t) THEN state' = [state EXCEPT ![t] = "RUNNABLE"]
                          ELSE state' = state
    BY <1>6 DEF Kill
  <2>2. \A q \in Slots : state[q] = "EMBRYO" => state'[q] = "EMBRYO"
    BY <2>1, <1>0 DEF KillWakes
  <2>3. pc' = [pc EXCEPT ![p] = "user"] /\ child' = child
    BY <1>6 DEF Kill
  <2>. QED BY <2>2, <2>3, <1>0, <1>a
<1>7. ASSUME NEW p \in Slots, NEW k \in PrioPids, NEW n \in Prios, SetPrio(p, k, n)
      PROVE  KidsOK'
  BY <1>7, <1>0, <1>a DEF SetPrio
<1>8. ASSUME NEW p \in Slots, NEW e \in Events, Sleep(p, e) PROVE KidsOK'
  BY <1>8, <1>0, <1>a DEF Sleep, Executing
<1>9. ASSUME NEW e \in Events, Wakeup(e) PROVE KidsOK'
  BY <1>9, <1>0, <1>a DEF Wakeup, Sleepers
<1>10. CASE UNCHANGED vars
  BY <1>10 DEF vars
<1>. QED BY <1>1, <1>2, <1>3, <1>4, <1>5, <1>6, <1>7, <1>8, <1>9, <1>10 DEF Next

-----------------------------------------------------------------------------
\* The run queues stay exact.

\* Queues, priorities and the runnable processes left alone.
LEMMA QueuesFrame ==
  ASSUME TypeOK, RunQueuesExact, TypeOK', UNCHANGED queues, Runnable' = Runnable,
         \A p \in Runnable : priority'[p] = priority[p]
  PROVE  RunQueuesExact'
<1>1. Exact(queues, priority, Runnable)
  BY QueuesAreExact
<1>2. Exact(queues, priority', Runnable)
  BY <1>1, ExactFrame
<1>3. Exact(queues, priority, Runnable)'
  BY <1>2 DEF Exact
<1>4. (RunQueuesExact <=> Exact(queues, priority, Runnable))'
  BY QueuesAreExact, PTL
<1>. QED BY <1>3, <1>4

\* A process that was not runnable becomes so and is enqueued.
LEMMA QueuesEnqueue ==
  ASSUME TypeOK, RunQueuesExact, TypeOK', NEW p \in Slots, state[p] # "RUNNABLE",
         queues' = enqueue(p), priority' = priority, Runnable' = Runnable \cup {p}
  PROVE  RunQueuesExact'
<1>1. Exact(queues, priority, Runnable)
  BY QueuesAreExact
<1>2. p \notin Runnable /\ Runnable \subseteq Slots
  BY DEF Runnable
<1>3. Exact(enqueue(p), priority, Runnable \cup {p})
  BY <1>1, <1>2, ExactAppend DEF TypeOK, enqueue
<1>4. Exact(queues, priority, Runnable)'
  BY <1>3 DEF Exact
<1>5. (RunQueuesExact <=> Exact(queues, priority, Runnable))'
  BY QueuesAreExact, PTL
<1>. QED BY <1>4, <1>5

\* A batch of sleepers is woken.
LEMMA QueuesBatch ==
  ASSUME TypeOK, RunQueuesExact, TypeOK', NEW S, S \subseteq Slots,
         \A p \in S : state[p] # "RUNNABLE", NEW w \in Batches(S),
         queues' = AddBatch(queues, w), priority' = priority,
         Runnable' = Runnable \cup S
  PROVE  RunQueuesExact'
<1>1. Exact(queues, priority, Runnable)
  BY QueuesAreExact
<1>2. Runnable \cap S = {} /\ Runnable \subseteq Slots
  BY DEF Runnable
<1>3. queues \in [Prios -> Seq(Slots)] /\ priority \in [Slots -> Prios]
  BY DEF TypeOK
<1>4. Exact(AddBatch(queues, w), priority, Runnable \cup S)
  BY <1>1, <1>2, <1>3, ExactBatch
<1>5. Exact(queues, priority, Runnable)'
  BY <1>4 DEF Exact
<1>6. (RunQueuesExact <=> Exact(queues, priority, Runnable))'
  BY QueuesAreExact, PTL
<1>. QED BY <1>5, <1>6

LEMMA RunQueuesNext == CoreInv /\ TypeOK' /\ [Next]_vars => RunQueuesExact'
<1>. SUFFICES ASSUME CoreInv, TypeOK', [Next]_vars PROVE RunQueuesExact'
  OBVIOUS
<1>. USE SlotFacts DEF CoreInv
<1>0. /\ state \in [Slots -> States] /\ priority \in [Slots -> Prios]
      /\ queues \in [Prios -> Seq(Slots)]
  BY DEF TypeOK
<1>a. ASSUME UNCHANGED <<queues, priority>>, Runnable' = Runnable
      PROVE  RunQueuesExact'
  BY <1>a, QueuesFrame
<1>1. ASSUME NEW c \in CPUs, CpuStep(c) PROVE RunQueuesExact'
  <2>1. CASE Schedule(c)
    <3>1. PICK i \in Prios : /\ queues[i] # << >>
                             /\ queues' = [queues EXCEPT ![i] = Tail(@)]
                             /\ state' = [state EXCEPT ![Head(queues[i])] = "RUNNING"]
      BY <2>1 DEF Schedule, BestQueue
    <3>2. Head(queues[i]) \in Slots /\ state[Head(queues[i])] = "RUNNABLE"
      BY <3>1, HeadRunnable
    <3>3. Runnable' = Runnable \ {Head(queues[i])}
      BY <3>1, <3>2, <1>0 DEF Runnable
    <3>4. Exact(queues, priority, Runnable) /\ Runnable \subseteq Slots
      BY QueuesAreExact DEF Runnable
    <3>5. Exact([queues EXCEPT ![i] = Tail(@)], priority, Runnable \ {Head(queues[i])})
      BY <3>1, <3>4, <1>0, ExactTail
    <3>6. priority' = priority
      BY <2>1 DEF Schedule
    <3>7. Exact(queues, priority, Runnable)'
      BY <3>1, <3>3, <3>5, <3>6 DEF Exact
    <3>8. (RunQueuesExact <=> Exact(queues, priority, Runnable))'
      BY QueuesAreExact, PTL
    <3>. QED BY <3>7, <3>8
  <2>2. CASE Resume(c)
    BY <2>2, <1>a DEF Resume, Runnable
  <2>3. CASE SwitchOut(c)
    BY <2>3, <1>a DEF SwitchOut, Runnable
  <2>. QED BY <1>1, <2>1, <2>2, <2>3 DEF CpuStep
<1>2. ASSUME NEW p \in Slots, TrapStep(p) PROVE RunQueuesExact'
  <2>1. CASE Yield(p)
    <3>1. state[p] = "RUNNING" /\ state' = [state EXCEPT ![p] = "RUNNABLE"]
      BY <2>1 DEF Yield, Executing
    <3>2. Runnable' = Runnable \cup {p}
      BY <3>1, <1>0 DEF Runnable
    <3>3. queues' = enqueue(p) /\ priority' = priority
      BY <2>1 DEF Yield
    <3>. QED BY <3>1, <3>2, <3>3, QueuesEnqueue
  <2>2. CASE Syscall(p) \/ SysReturn(p) \/ TrapKilled(p) \/ Fault(p)
    BY <2>2, <1>a DEF Syscall, SysReturn, TrapKilled, Fault, Runnable
  <2>. QED BY <1>2, <2>1, <2>2 DEF TrapStep
<1>3. ASSUME NEW p \in Slots, ForkStep(p) PROVE RunQueuesExact'
  <2>1. CASE ForkAlloc(p)
    <3>1. PICK np \in Slots : /\ state[np] = "UNUSED"
                              /\ state' = [state EXCEPT ![np] = "EMBRYO"]
                              /\ priority' = [priority EXCEPT ![np] = NORM_PRIO]
      BY <2>1 DEF ForkAlloc, IsFirst, Unused
    <3>2. Runnable' = Runnable /\ \A q \in Runnable : priority'[q] = priority[q]
      BY <3>1, <1>0 DEF Runnable
    <3>3. queues' = queues
      BY <2>1 DEF ForkAlloc
    <3>. QED BY <3>2, <3>3, QueuesFrame
  <2>2. CASE ForkAbort(p)
    <3>1. state[child[p]] = "EMBRYO"
      BY <2>2 DEF ForkAbort, KidsOK, Forking
    <3>2. Runnable' = Runnable
      BY <2>2, <3>1, <1>0 DEF ForkAbort, Runnable
    <3>. QED BY <2>2, <3>2, <1>a DEF ForkAbort
  <2>3. CASE ForkCopy(p)
    <3>1. state[child[p]] = "EMBRYO"
      BY <2>3 DEF ForkCopy, KidsOK, Forking
    <3>2. Runnable' = Runnable /\ \A q \in Runnable : priority'[q] = priority[q]
      BY <2>3, <3>1, <1>0 DEF ForkCopy, Runnable
    <3>3. queues' = queues
      BY <2>3 DEF ForkCopy
    <3>. QED BY <3>2, <3>3, QueuesFrame
  <2>4. CASE ForkPublish(p)
    <3>1. child[p] \in Slots /\ state[child[p]] = "EMBRYO"
      BY <2>4 DEF ForkPublish, KidsOK, Forking
    <3>2. Runnable' = Runnable \cup {child[p]}
      BY <2>4, <3>1, <1>0 DEF ForkPublish, Runnable
    <3>3. queues' = enqueue(child[p]) /\ priority' = priority
      BY <2>4 DEF ForkPublish
    <3>4. state[child[p]] # "RUNNABLE"
      BY <3>1
    <3>. QED BY <3>1, <3>2, <3>3, <3>4, QueuesEnqueue
  <2>. QED BY <1>3, <2>1, <2>2, <2>3, <2>4 DEF ForkStep
<1>4. ASSUME NEW p \in Slots, ExitStep(p) PROVE RunQueuesExact'
  <2>1. CASE Exit(p)
    BY <2>1, <1>a DEF Exit, Runnable
  <2>2. CASE ExitZombie(p)
    <3>. DEFINE W1 == ParentWaiters(p)
                W2 == OrphanWaiters(p) \ W1
    <3>1. state[p] = "RUNNING"
      BY <2>2 DEF ExitZombie, Executing
    <3>2. /\ W1 \subseteq Slots /\ W2 \subseteq Slots /\ W1 \cap W2 = {}
          /\ \A q \in W1 \cup W2 : state[q] = "SLEEPING"
      BY DEF ParentWaiters, OrphanWaiters, Sleepers
    <3>3. PICK w1 \in Batches(W1), w2 \in Batches(W2) :
            queues' = AddBatch(AddBatch(queues, w1), w2)
      BY <2>2 DEF ExitZombie
    <3>4. state' = [q \in Slots |-> IF q = p THEN "ZOMBIE"
                                    ELSE IF q \in W1 \cup W2 THEN "RUNNABLE"
                                    ELSE state[q]]
      BY <2>2 DEF ExitZombie
    <3>5. priority' = priority
      BY <2>2 DEF ExitZombie
    <3>. HIDE DEF W1, W2
    <3>6. Runnable' = (Runnable \cup W1) \cup W2
      BY <3>1, <3>2, <3>4, <1>0 DEF Runnable
    <3>7. Exact(queues, priority, Runnable) /\ Runnable \subseteq Slots
      BY QueuesAreExact DEF Runnable
    <3>8. Exact(AddBatch(queues, w1), priority, Runnable \cup W1)
      <4>1. Runnable \cap W1 = {}
        BY <3>2 DEF Runnable
      <4>. QED BY <4>1, <3>2, <3>7, <1>0, ExactBatch
    <3>9. AddBatch(queues, w1) \in [Prios -> Seq(Slots)]
      BY <3>2, <1>0, BatchType
    <3>10. Exact(AddBatch(AddBatch(queues, w1), w2), priority, (Runnable \cup W1) \cup W2)
      <4>1. (Runnable \cup W1) \cap W2 = {} /\ Runnable \cup W1 \subseteq Slots
        BY <3>2 DEF Runnable
      <4>. QED BY <4>1, <3>2, <3>8, <3>9, <1>0, ExactBatch
    <3>11. Exact(queues, priority, Runnable)'
      BY <3>3, <3>5, <3>6, <3>10 DEF Exact
    <3>12. (RunQueuesExact <=> Exact(queues, priority, Runnable))'
      BY QueuesAreExact, PTL
    <3>. QED BY <3>11, <3>12
  <2>. QED BY <1>4, <2>1, <2>2 DEF ExitStep
<1>5. ASSUME NEW p \in Slots, WaitStep(p) PROVE RunQueuesExact'
  <2>1. CASE Wait(p) \/ WaitFail(p)
    BY <2>1, <1>a DEF Wait, WaitFail, Runnable
  <2>2. CASE WaitReap(p)
    <3>1. PICK z \in Slots : state[z] = "ZOMBIE" /\ state' = [state EXCEPT ![z] = "UNUSED"]
      BY <2>2 DEF WaitReap, IsFirst, Zombies, Children
    <3>2. Runnable' = Runnable
      BY <3>1, <1>0 DEF Runnable
    <3>. QED BY <2>2, <3>2, <1>a DEF WaitReap
  <2>3. CASE WaitSleep(p)
    <3>1. state[p] = "RUNNING"
      BY <2>3 DEF WaitSleep, WaitScan, Executing
    <3>2. Runnable' = Runnable
      BY <2>3, <3>1, <1>0 DEF WaitSleep, Runnable
    <3>. QED BY <2>3, <3>2, <1>a DEF WaitSleep
  <2>. QED BY <1>5, <2>1, <2>2, <2>3 DEF WaitStep
<1>6. ASSUME NEW p \in Slots, NEW k \in KillPids, Kill(p, k) PROVE RunQueuesExact'
  <2>1. PICK t \in Slots :
          IF KillWakes(t) THEN /\ state' = [state EXCEPT ![t] = "RUNNABLE"]
                               /\ queues' = enqueue(t)
                          ELSE UNCHANGED <<state, queues>>
    BY <1>6 DEF Kill
  <2>2. priority' = priority
    BY <1>6 DEF Kill
  <2>3. CASE KillWakes(t)
    <3>1. state[t] = "SLEEPING"
      BY <2>3 DEF KillWakes
    <3>2. Runnable' = Runnable \cup {t}
      BY <2>1, <2>3, <3>1, <1>0 DEF Runnable
    <3>3. state[t] # "RUNNABLE"
      BY <3>1
    <3>. QED BY <2>1, <2>2, <2>3, <3>2, <3>3, QueuesEnqueue
  <2>4. CASE ~KillWakes(t)
    BY <2>1, <2>2, <2>4, <1>a DEF Runnable
  <2>. QED BY <2>3, <2>4
<1>7. ASSUME NEW p \in Slots, NEW k \in PrioPids, NEW n \in Prios, SetPrio(p, k, n)
      PROVE  RunQueuesExact'
  <2>1. PICK t \in Slots : /\ priority' = [priority EXCEPT ![t] = n]
                           /\ queues' = Requeued(t, n)
    BY <1>7 DEF SetPrio
  <2>2. Runnable' = Runnable
    BY <1>7 DEF SetPrio, Runnable
  <2>3. CASE state[t] = "RUNNABLE"
    <3>. DEFINE q == remove_from_queue(t, priority[t])
    <3>1. t \in Runnable /\ Runnable \subseteq Slots
      BY <2>3 DEF Runnable
    <3>2. Exact(queues, priority, Runnable)
      BY QueuesAreExact
    <3>3. q \in [Prios -> Seq(Slots)] /\ Exact(q, priority, Runnable \ {t})
      BY <3>1, <3>2, <1>0, ExactRemove
    <3>4. queues' = [q EXCEPT ![n] = Append(@, t)]
      BY <2>1, <2>3 DEF Requeued
    <3>. HIDE DEF q
    <3>5. /\ \A p2 \in Runnable \ {t} : priority'[p2] = priority[p2]
          /\ priority'[t] = n /\ priority' \in [Slots -> Prios]
      BY <2>1, <1>0 DEF Runnable
    <3>6. Exact(q, priority', Runnable \ {t})
      BY <3>3, <3>5, ExactFrame
    <3>7. Exact([q EXCEPT ![priority'[t]] = Append(@, t)], priority', (Runnable \ {t}) \cup {t})
      <4>1. t \notin Runnable \ {t} /\ Runnable \ {t} \subseteq Slots
        BY <3>1
      <4>. QED BY <4>1, <3>3, <3>5, <3>6, ExactAppend
    <3>8. (Runnable \ {t}) \cup {t} = Runnable
      BY <3>1
    <3>9. Exact(queues, priority, Runnable)'
      <4>1. Exact(queues', priority', Runnable')
        BY <2>2, <3>4, <3>5, <3>7, <3>8
      <4>. QED BY <4>1 DEF Exact
    <3>10. (RunQueuesExact <=> Exact(queues, priority, Runnable))'
      BY QueuesAreExact, PTL
    <3>. QED BY <3>9, <3>10
  <2>4. CASE state[t] # "RUNNABLE"
    <3>1. queues' = queues /\ \A q \in Runnable : priority'[q] = priority[q]
      BY <2>1, <2>4, <1>0 DEF Requeued, Runnable
    <3>. QED BY <2>2, <3>1, QueuesFrame
  <2>. QED BY <2>3, <2>4
<1>8. ASSUME NEW p \in Slots, NEW e \in Events, Sleep(p, e) PROVE RunQueuesExact'
  <2>1. Runnable' = Runnable
    BY <1>8, <1>0 DEF Sleep, Executing, Runnable
  <2>. QED BY <1>8, <2>1, <1>a DEF Sleep
<1>9. ASSUME NEW e \in Events, Wakeup(e) PROVE RunQueuesExact'
  <2>1. PICK w \in Batches(Sleepers(e)) : queues' = AddBatch(queues, w)
    BY <1>9 DEF Wakeup
  <2>2. Runnable' = Runnable \cup Sleepers(e) /\ priority' = priority
    BY <1>9, <1>0 DEF Wakeup, Sleepers, Runnable
  <2>3. Sleepers(e) \subseteq Slots /\ \A q \in Sleepers(e) : state[q] # "RUNNABLE"
    BY DEF Sleepers
  <2>. QED BY <2>1, <2>2, <2>3, QueuesBatch
<1>10. CASE UNCHANGED vars
  BY <1>10, <1>a DEF vars, Runnable
<1>. QED BY <1>1, <1>2, <1>3, <1>4, <1>5, <1>6, <1>7, <1>8, <1>9, <1>10 DEF Next

-----------------------------------------------------------------------------
\* A kernel stack stays with one CPU.

\* A step that moves no process on to or off a CPU.  It may release the lock,
\* if the process of the CPU that held it is running.
LEMMA StacksFrame ==
  ASSUME TypeOK, StacksExclusive, cpu' = cpu,
         \A p \in Slots : state'[p] = "RUNNING" <=> state[p] = "RUNNING",
         \A c \in CPUs : cpu[c] # NoProc => state'[cpu[c]] = state[cpu[c]],
         \/ lock' = lock
         \/ \A c \in CPUs : lock = c => state[cpu[c]] = "RUNNING"
  PROVE  StacksExclusive'
<1>1. ASSUME NEW p \in Slots, state'[p] = "RUNNING"
      PROVE  \E c \in CPUs : cpu'[c] = p
  BY <1>1 DEF StacksExclusive
<1>2. ASSUME NEW c \in CPUs, cpu'[c] # NoProc
      PROVE  /\ \A d \in CPUs : cpu'[d] = cpu'[c] => d = c
             /\ state'[cpu'[c]] \notin {"UNUSED", "EMBRYO"}
             /\ lock' # c => state'[cpu'[c]] = "RUNNING"
  BY <1>2 DEF StacksExclusive
<1>. QED BY <1>1, <1>2 DEF StacksExclusive

\* While nobody holds the lock, only running processes are on a CPU.
LEMMA FreeRunning ==
  ASSUME TypeOK, StacksExclusive, lock = Free
  PROVE  \A c \in CPUs : cpu[c] # NoProc => state[cpu[c]] = "RUNNING"
BY FreeAssumption DEF StacksExclusive

\* A running process starts to leave its CPU, with the lock held.
LEMMA StacksLeave ==
  ASSUME TypeOK, StacksExclusive, cpu' = cpu, NEW p \in Slots, state[p] = "RUNNING",
         NEW c \in CPUs, cpu[c] = p, lock' = c, lock \in {Free, c},
         state'[p] \notin {"RUNNING", "UNUSED", "EMBRYO"},
         \A q \in Slots \ {p} : state'[q] = "RUNNING" <=> state[q] = "RUNNING"
  PROVE  StacksExclusive'
<1>0. p # NoProc
  BY SlotFacts
<1>1. ASSUME NEW q \in Slots, state'[q] = "RUNNING"
      PROVE  \E d \in CPUs : cpu'[d] = q
  BY <1>1 DEF StacksExclusive
<1>2. ASSUME NEW d \in CPUs, d # c, cpu[d] # NoProc
      PROVE  cpu[d] \in Slots \ {p} /\ state[cpu[d]] = "RUNNING"
  <2>1. lock # d
    BY <1>2, FreeAssumption
  <2>2. cpu[d] # p
    BY <1>0, <1>2 DEF StacksExclusive
  <2>. QED BY <1>2, <2>1, <2>2 DEF StacksExclusive, TypeOK
<1>3. ASSUME NEW d \in CPUs, cpu'[d] # NoProc
      PROVE  /\ \A e \in CPUs : cpu'[e] = cpu'[d] => e = d
             /\ state'[cpu'[d]] \notin {"UNUSED", "EMBRYO"}
             /\ lock' # d => state'[cpu'[d]] = "RUNNING"
  <2>1. \A e \in CPUs : cpu'[e] = cpu'[d] => e = d
    BY <1>3 DEF StacksExclusive
  <2>2. CASE d = c
    BY <2>1, <2>2
  <2>3. CASE d # c
    <3>1. state'[cpu'[d]] = "RUNNING"
      BY <1>2, <1>3, <2>3
    <3>. QED BY <2>1, <3>1
  <2>. QED BY <2>2, <2>3
<1>. QED BY <1>1, <1>3 DEF StacksExclusive

LEMMA StacksNext == CoreInv /\ [Next]_vars => StacksExclusive'
<1>. SUFFICES ASSUME CoreInv, [Next]_vars PROVE StacksExclusive'
  OBVIOUS
<1>. USE SlotFacts DEF CoreInv
<1>0. /\ state \in [Slots -> States] /\ cpu \in [CPUs -> Slots \cup {NoProc}]
      /\ lock \in CPUs \cup {Free}
  BY DEF TypeOK
\* A step under the free lock that changes only processes on no CPU.
<1>a. ASSUME lock = Free, lock' = Free, cpu' = cpu,
             \A p \in Slots : state'[p] = "RUNNING" <=> state[p] = "RUNNING"
      PROVE  StacksExclusive'
  <2>1. \A c \in CPUs : cpu[c] # NoProc => cpu[c] \in Slots /\ state[cpu[c]] = "RUNNING"
    BY <1>0, <1>a, FreeRunning
  <2>2. \A c \in CPUs : cpu[c] # NoProc => state'[cpu[c]] = state[cpu[c]]
    BY <2>1, <1>a
  <2>. QED BY <1>a, <2>2, StacksFrame
<1>b. ASSUME UNCHANGED <<state, cpu, lock>>
      PROVE  StacksExclusive'
  BY <1>b, StacksFrame
<1>1. ASSUME NEW c \in CPUs, CpuStep(c) PROVE StacksExclusive'
  <2>1. CASE Schedule(c)
    <3>1. PICK i \in Prios : /\ queues[i] # << >>
                             /\ state' = [state EXCEPT ![Head(queues[i])] = "RUNNING"]
                             /\ cpu' = [cpu EXCEPT ![c] = Head(queues[i])]
      BY <2>1 DEF Schedule, BestQueue
    <3>. DEFINE p == Head(queues[i])
    <3>2. p \in Slots /\ state[p] = "RUNNABLE"
      BY <3>1, HeadRunnable
    <3>. HIDE DEF p
    <3>3. cpu[c] = NoProc /\ lock = Free /\ lock' = c
      BY <2>1 DEF Schedule
    <3>4. \A d \in CPUs : cpu[d] # NoProc => cpu[d] # p /\ state[cpu[d]] = "RUNNING"
      BY <3>2, <3>3, FreeRunning
    <3>5. /\ cpu'[c] = p /\ state'[p] = "RUNNING"
          /\ \A d \in CPUs \ {c} : cpu'[d] = cpu[d]
          /\ \A q \in Slots \ {p} : state'[q] = state[q]
      BY <3>1, <3>2, <1>0 DEF p
    <3>6. ASSUME NEW q \in Slots, state'[q] = "RUNNING"
          PROVE  \E d \in CPUs : cpu'[d] = q
      <4>1. CASE q = p
        BY <4>1, <3>5
      <4>2. CASE q # p
        <5>1. PICK d \in CPUs : cpu[d] = q
          BY <4>2, <3>5, <3>6 DEF StacksExclusive
        <5>2. d # c
          BY <5>1, <3>3
        <5>. QED BY <5>1, <5>2, <3>5
      <4>. QED BY <4>1, <4>2
    <3>7. ASSUME NEW d \in CPUs, cpu'[d] # NoProc
          PROVE  /\ \A e \in CPUs : cpu'[e] = cpu'[d] => e = d
                 /\ state'[cpu'[d]] = "RUNNING"
      <4>1. CASE d = c
        BY <4>1, <3>2, <3>4, <3>5
      <4>2. CASE d # c
        <5>1. cpu[d] \in Slots \ {p} /\ cpu'[d] = cpu[d] /\ state[cpu[d]] = "RUNNING"
          BY <4>2, <3>4, <3>5, <3>7, <1>0
        <5>2. \A e \in CPUs : cpu[e] = cpu[d] => e = d
          BY <5>1 DEF StacksExclusive
        <5>3. \A e \in CPUs : cpu'[e] = cpu'[d] => e = d
          BY <5>1, <5>2, <3>5
        <5>. QED BY <5>1, <5>3, <3>5
      <4>. QED BY <4>1, <4>2
    <3>. QED BY <3>6, <3>7 DEF StacksExclusive
  <2>2. CASE Resume(c)
    <3>1. \A d \in CPUs : lock = d => state[cpu[d]] = "RUNNING"
      BY <2>2 DEF Resume
    <3>. QED BY <2>2, <3>1, StacksFrame DEF Resume
  <2>3. CASE SwitchOut(c)
    <3>1. /\ lock = c /\ cpu[c] # NoProc /\ state[cpu[c]] # "RUNNING"
          /\ cpu' = [cpu EXCEPT ![c] = NoProc] /\ lock' = Free /\ state' = state
      BY <2>3 DEF SwitchOut
    <3>2. cpu'[c] = NoProc /\ \A d \in CPUs \ {c} : cpu'[d] = cpu[d]
      BY <3>1, <1>0
    <3>3. ASSUME NEW q \in Slots, state[q] = "RUNNING"
          PROVE  \E d \in CPUs : cpu'[d] = q
      <4>1. PICK d \in CPUs : cpu[d] = q
        BY <3>3 DEF StacksExclusive
      <4>2. d # c
        BY <4>1, <3>1, <3>3
      <4>. QED BY <4>1, <4>2, <3>2
    <3>4. ASSUME NEW d \in CPUs, cpu'[d] # NoProc
          PROVE  /\ \A e \in CPUs : cpu'[e] = cpu'[d] => e = d
                 /\ state[cpu'[d]] = "RUNNING"
      <4>1. d # c /\ cpu'[d] = cpu[d]
        BY <3>2, <3>4
      <4>2. \A e \in CPUs : cpu[e] = cpu[d] => e = d
        BY <4>1, <3>4 DEF StacksExclusive
      <4>3. \A e \in CPUs : cpu'[e] = cpu'[d] => e = d
        BY <4>1, <4>2, <3>2, <3>4
      <4>4. state[cpu[d]] = "RUNNING"
        BY <4>1, <3>1, <3>4 DEF StacksExclusive
      <4>. QED BY <4>1, <4>3, <4>4
    <3>. QED BY <3>1, <3>3, <3>4 DEF StacksExclusive
  <2>. QED BY <1>1, <2>1, <2>2, <2>3 DEF CpuStep
<1>2. ASSUME NEW p \in Slots, TrapStep(p) PROVE StacksExclusive'
  <2>1. CASE Yield(p)
    <3>1. PICK c \in CPUs : cpu[c] = p /\ lock' = c
      BY <2>1 DEF Yield
    <3>2. /\ state[p] = "RUNNING" /\ state' = [state EXCEPT ![p] = "RUNNABLE"]
          /\ lock = Free /\ cpu' = cpu
      BY <2>1 DEF Yield, Executing
    <3>. QED BY <3>1, <3>2, <1>0, StacksLeave
  <2>2. CASE Syscall(p) \/ SysReturn(p) \/ TrapKilled(p) \/ Fault(p)
    BY <2>2, <1>b DEF Syscall, SysReturn, TrapKilled, Fault
  <2>. QED BY <1>2, <2>1, <2>2 DEF TrapStep
<1>3. ASSUME NEW p \in Slots, ForkStep(p) PROVE StacksExclusive'
  <2>1. CASE ForkAlloc(p)
    <3>1. PICK np \in Slots : /\ state[np] = "UNUSED"
                              /\ state' = [state EXCEPT ![np] = "EMBRYO"]
      BY <2>1 DEF ForkAlloc, IsFirst, Unused
    <3>. QED BY <2>1, <3>1, <1>0, <1>a DEF ForkAlloc
  <2>2. CASE ForkAbort(p)
    <3>1. /\ child[p] \in Slots /\ state[child[p]] = "EMBRYO"
          /\ state' = [state EXCEPT ![child[p]] = "UNUSED"]
          /\ cpu' = cpu /\ lock' = lock
      BY <2>2 DEF ForkAbort, KidsOK, Forking
    <3>2. \A q \in Slots : state'[q] = "RUNNING" <=> state[q] = "RUNNING"
      BY <3>1, <1>0
    <3>3. \A c \in CPUs : cpu[c] # NoProc => cpu[c] # child[p] /\ cpu[c] \in Slots
      BY <3>1, <1>0 DEF StacksExclusive
    <3>4. \A c \in CPUs : cpu[c] # NoProc => state'[cpu[c]] = state[cpu[c]]
      BY <3>1, <3>3, <1>0
    <3>. QED BY <3>1, <3>2, <3>4, StacksFrame
  <2>3. CASE ForkCopy(p)
    BY <2>3, <1>b DEF ForkCopy
  <2>4. CASE ForkPublish(p)
    <3>1. child[p] \in Slots /\ state[child[p]] = "EMBRYO"
      BY <2>4 DEF ForkPublish, KidsOK, Forking
    <3>. QED BY <2>4, <3>1, <1>0, <1>a DEF ForkPublish
  <2>. QED BY <1>3, <2>1, <2>2, <2>3, <2>4 DEF ForkStep
<1>4. ASSUME NEW p \in Slots, ExitStep(p) PROVE StacksExclusive'
  <2>1. CASE Exit(p)
    BY <2>1, <1>b DEF Exit
  <2>2. CASE ExitZombie(p)
    <3>1. PICK c \in CPUs : cpu[c] = p /\ lock' = c
      BY <2>2 DEF ExitZombie
    <3>2. state[p] = "RUNNING" /\ lock = Free /\ cpu' = cpu
      BY <2>2 DEF ExitZombie, Executing
    <3>3. /\ state'[p] = "ZOMBIE"
          /\ \A q \in Slots \ {p} : state'[q] = "RUNNING" <=> state[q] = "RUNNING"
      BY <2>2, <1>0 DEF ExitZombie, Sleepers, ParentWaiters, OrphanWaiters
    <3>. QED BY <3>1, <3>2, <3>3, StacksLeave
  <2>. QED BY <1>4, <2>1, <2>2 DEF ExitStep
<1>5. ASSUME NEW p \in Slots, WaitStep(p) PROVE StacksExclusive'
  <2>0. ASSUME WaitScan(p)
        PROVE  /\ state[p] = "RUNNING"
               /\ \A c \in CPUs : lock = c => cpu[c] = p
               /\ \A c \in CPUs : cpu[c] = p => lock \in {Free, c}
    BY <2>0, FreeAssumption DEF WaitScan, Executing, StacksExclusive
  <2>1. CASE Wait(p)
    BY <2>1, <1>b DEF Wait
  <2>2. CASE WaitReap(p)
    <3>1. PICK z \in Slots : state[z] = "ZOMBIE" /\ state' = [state EXCEPT ![z] = "UNUSED"]
      BY <2>2 DEF WaitReap, IsFirst, Zombies, Children
    <3>2. \A q \in Slots : state'[q] = "RUNNING" <=> state[q] = "RUNNING"
      BY <3>1, <1>0
    <3>3. cpu' = cpu /\ WaitScan(p)
      BY <2>2 DEF WaitReap
    <3>4. \A c \in CPUs : lock = c => state[cpu[c]] = "RUNNING"
      BY <2>0, <3>3
    <3>5. \A c \in CPUs : cpu[c] # NoProc => cpu[c] \in Slots /\ cpu[c] # z
      BY <3>1, <3>4, <1>0 DEF StacksExclusive
    <3>6. \A c \in CPUs : cpu[c] # NoProc => state'[cpu[c]] = state[cpu[c]]
      BY <3>1, <3>5, <1>0
    <3>. QED BY <3>2, <3>3, <3>4, <3>6, StacksFrame
  <2>3. CASE WaitFail(p)
    <3>1. cpu' = cpu /\ state' = state /\ WaitScan(p)
      BY <2>3 DEF WaitFail
    <3>2. \A c \in CPUs : lock = c => state[cpu[c]] = "RUNNING"
      BY <2>0, <3>1
    <3>. QED BY <3>1, <3>2, StacksFrame
  <2>4. CASE WaitSleep(p)
    <3>1. PICK c \in CPUs : cpu[c] = p /\ lock' = c
      BY <2>4 DEF WaitSleep
    <3>2. /\ WaitScan(p) /\ cpu' = cpu /\ state' = [state EXCEPT ![p] = "SLEEPING"]
      BY <2>4 DEF WaitSleep
    <3>3. lock \in {Free, c} /\ state[p] = "RUNNING"
      BY <2>0, <3>1, <3>2
    <3>. QED BY <3>1, <3>2, <3>3, <1>0, StacksLeave
  <2>. QED BY <1>5, <2>1, <2>2, <2>3, <2>4 DEF WaitStep
<1>6. ASSUME NEW p \in Slots, NEW k \in KillPids, Kill(p, k) PROVE StacksExclusive'
  <2>1. PICK t \in Slots :
          IF KillWakes(t) THEN state' = [state EXCEPT ![t] = "RUNNABLE"]
                          ELSE state' = state
    BY <1>6 DEF Kill
  <2>2. \A q \in Slots : state'[q] = "RUNNING" <=> state[q] = "RUNNING"
    BY <2>1, <1>0 DEF KillWakes
  <2>. QED BY <1>6, <2>2, <1>a DEF Kill
<1>7. ASSUME NEW p \in Slots, NEW k \in PrioPids, NEW n \in Prios, SetPrio(p, k, n)
      PROVE  StacksExclusive'
  BY <1>7, <1>b DEF SetPrio
<1>8. ASSUME NEW p \in Slots, NEW e \in Events, Sleep(p, e) PROVE StacksExclusive'
  <2>1. PICK c \in CPUs : cpu[c] = p /\ lock' = c
    BY <1>8 DEF Sleep
  <2>2. /\ state[p] = "RUNNING" /\ state' = [state EXCEPT ![p] = "SLEEPING"]
        /\ lock = Free /\ cpu' = cpu
    BY <1>8 DEF Sleep, Executing
  <2>. QED BY <2>1, <2>2, <1>0, StacksLeave
<1>9. ASSUME NEW e \in Events, Wakeup(e) PROVE StacksExclusive'
  <2>1. \A q \in Slots : state'[q] = "RUNNING" <=> state[q] = "RUNNING"
    BY <1>9 DEF Wakeup, Sleepers
  <2>. QED BY <1>9, <2>1, <1>a DEF Wakeup
<1>10. CASE UNCHANGED vars
  BY <1>10, <1>b DEF vars
<1>. QED BY <1>1, <1>2, <1>3, <1>4, <1>5, <1>6, <1>7, <1>8, <1>9, <1>10 DEF Next

-----------------------------------------------------------------------------
LEMMA CoreInit == Init => CoreInv
<1>. SUFFICES ASSUME Init PROVE CoreInv
  OBVIOUS
<1>1. TypeOK
  BY TypeInit
<1>2. KidsOK
  BY DEF Init, KidsOK, Forking
<1>3. RunQueuesExact
  BY SlotFacts DEF Init, RunQueuesExact
<1>4. StacksExclusive
  BY SlotFacts DEF Init, StacksExclusive
<1>. QED BY <1>1, <1>2, <1>3, <1>4 DEF CoreInv

LEMMA CoreNext == CoreInv /\ [Next]_vars => CoreInv'
<1>. SUFFICES ASSUME CoreInv, [Next]_vars PROVE CoreInv'
  OBVIOUS
<1>1. KidType
  BY DEF CoreInv, KidsOK, KidType, Forking
<1>2. TypeOK'
  BY <1>1, TypeNext DEF CoreInv
<1>. QED BY <1>2, KidsNext, RunQueuesNext, StacksNext DEF CoreInv

LEMMA CoreCorrect == Spec => []CoreInv
  BY CoreInit, CoreNext, PTL DEF Spec

\* The run queues hold the runnable processes and nothing else, each once and
\* at its priority, whatever kill, setprio, wakeup, exit and fork do.
THEOREM RunQueuesCorrect == Spec => []RunQueuesExact
<1>1. CoreInv => RunQueuesExact
  BY DEF CoreInv
<1>. QED BY <1>1, CoreCorrect, PTL

\* No kernel stack is ever used by two CPUs, or reused while a CPU is on it.
THEOREM StacksCorrect == Spec => []StacksExclusive
<1>1. CoreInv => StacksExclusive
  BY DEF CoreInv
<1>. QED BY <1>1, CoreCorrect, PTL

-----------------------------------------------------------------------------
(* Parents and children.                                                   *)

LiveStates == {"SLEEPING", "RUNNABLE", "RUNNING"}

\* init lives for ever and has no parent.
InitOK == /\ state[InitProc] \in LiveStates
          /\ pc[InitProc] \notin {"exit", "die"}
          /\ parent[InitProc] = NoProc

\* Nobody is the parent of a free slot or of himself.  Whoever is inside fork() is
\* alive, and the parent of the embryo is filled in between the two halves of it.
ParentsOK ==
  /\ \A p \in Slots : state[p] = "UNUSED" => parent[p] = NoProc
  /\ \A p \in Slots : parent[p] # p
  /\ \A p \in Slots : pc[p] = "fork" => state[p] \in LiveStates /\ parent[child[p]] = NoProc
  /\ \A p \in Slots : pc[p] = "forked" => state[p] \in LiveStates /\ parent[child[p]] = p

FamilyOK == InitOK /\ ParentsOK /\ ParentsAlive /\ NoLostExit

LEMMA LiveIs == Live = {p \in Slots : state[p] \in LiveStates}
BY DEF Live, LiveStates

LEMMA FamilyInit == Init => FamilyOK
<1>. SUFFICES ASSUME Init PROVE FamilyOK
  OBVIOUS
<1>. USE SlotFacts
<1>1. InitOK
  BY DEF Init, InitOK, LiveStates
<1>2. ParentsOK
  BY DEF Init, ParentsOK
<1>3. ParentsAlive
  BY DEF Init, ParentsAlive, Live
<1>4. NoLostExit
  BY DEF Init, NoLostExit
<1>. QED BY <1>1, <1>2, <1>3, <1>4 DEF FamilyOK

-----------------------------------------------------------------------------
\* A step that makes, reaps and adopts nobody, and puts nobody to sleep in wait().
LEMMA FamilyFrame ==
  ASSUME TypeOK, FamilyOK, UNCHANGED <<parent, child>>,
         \A q \in Slots : state'[q] \in LiveStates <=> state[q] \in LiveStates,
         \A q \in Slots : state'[q] = "ZOMBIE" <=> state[q] = "ZOMBIE",
         \A q \in Slots : state'[q] = "UNUSED" <=> state[q] = "UNUSED",
         \A q \in Slots : state'[q] = "SLEEPING" =>
            \/ chan'[q] # q
            \/ state[q] = "SLEEPING" /\ chan[q] = q /\ (killed'[q] => killed[q]),
         \A q \in Slots : pc'[q] = "fork" <=> pc[q] = "fork",
         \A q \in Slots : pc'[q] = "forked" <=> pc[q] = "forked",
         pc'[InitProc] \notin {"exit", "die"}
  PROVE  FamilyOK'
<1>. USE SlotFacts DEF FamilyOK
<1>1. InitOK'
  BY DEF InitOK
<1>2. ParentsOK'
  BY DEF ParentsOK
<1>3. ParentsAlive'
  BY LiveIs DEF ParentsAlive, Live, LiveStates
<1>4. NoLostExit'
  <2>1. ASSUME NEW p \in Slots, state'[p] = "SLEEPING", chan'[p] = p
        PROVE  Children(p)' # {} /\ Zombies(p)' = {} /\ ~killed'[p]
    <3>1. state[p] = "SLEEPING" /\ chan[p] = p /\ (killed'[p] => killed[p])
      BY <2>1
    <3>2. Children(p) # {} /\ Zombies(p) = {} /\ ~killed[p]
      BY <3>1 DEF NoLostExit
    <3>3. Children(p)' = Children(p) /\ Zombies(p)' = Zombies(p)
      <4>1. Children(p)' = Children(p)
        BY DEF Children
      <4>2. Children(p) \subseteq Slots
        BY DEF Children
      <4>3. \A q \in Children(p) : state'[q] = "ZOMBIE" <=> state[q] = "ZOMBIE"
        BY <4>2
      <4>4. Zombies(p)' = {q \in Children(p)' : state'[q] = "ZOMBIE"}
        BY DEF Zombies
      <4>. QED BY <4>1, <4>3, <4>4 DEF Zombies
    <3>. QED BY <3>1, <3>2, <3>3
  <2>. QED BY <2>1 DEF NoLostExit
<1>. QED BY <1>1, <1>2, <1>3, <1>4

LEMMA CpuFamily ==
  ASSUME CoreInv, FamilyOK, NEW c \in CPUs, CpuStep(c)
  PROVE  FamilyOK'
<1>. USE SlotFacts DEF CoreInv
<1>0. state \in [Slots -> States] /\ chan \in [Slots -> Slots \cup Events \cup {NoProc}]
  BY DEF TypeOK
<1>i. pc[InitProc] \notin {"exit", "die"}
  BY DEF FamilyOK, InitOK
<1>1. CASE Schedule(c)
  <2>1. PICK i \in Prios : /\ queues[i] # << >>
                           /\ state' = [state EXCEPT ![Head(queues[i])] = "RUNNING"]
    BY <1>1 DEF Schedule, BestQueue
  <2>2. state[Head(queues[i])] = "RUNNABLE"
    BY <2>1, HeadRunnable
  <2>3. UNCHANGED <<parent, child, chan, killed, pc>>
    BY <1>1 DEF Schedule
  <2>4. \A q \in Slots : state'[q] = state[q] \/ (state[q] = "RUNNABLE" /\ state'[q] = "RUNNING")
    BY <2>1, <2>2, <1>0
  <2>. QED BY <2>3, <2>4, <1>i, FamilyFrame DEF LiveStates
<1>2. CASE Resume(c)
  <2>1. UNCHANGED <<parent, child, state, killed, pc>>
    BY <1>2 DEF Resume
  <2>2. \A q \in Slots : chan'[q] = chan[q] \/ chan'[q] # q
    BY <1>2, <1>0 DEF Resume
  <2>. QED BY <2>1, <2>2, <1>i, FamilyFrame
<1>3. CASE SwitchOut(c)
  BY <1>3, <1>i, FamilyFrame DEF SwitchOut
<1>. QED BY <1>1, <1>2, <1>3 DEF CpuStep

LEMMA TrapFamily ==
  ASSUME CoreInv, FamilyOK, NEW p \in Slots, TrapStep(p)
  PROVE  FamilyOK'
<1>. USE SlotFacts DEF CoreInv
<1>0. state \in [Slots -> States] /\ pc \in [Slots -> Points] /\ killed \in [Slots -> BOOLEAN]
  BY DEF TypeOK
<1>i. pc[InitProc] \notin {"exit", "die"}
  BY DEF FamilyOK, InitOK
<1>r. state[p] = "RUNNING" /\ UNCHANGED <<parent, child, chan>>
  BY DEF TrapStep, Syscall, SysReturn, TrapKilled, Fault, Yield, Executing
<1>1. CASE Yield(p)
  <2>1. state' = [state EXCEPT ![p] = "RUNNABLE"] /\ UNCHANGED <<killed, pc>>
    BY <1>1 DEF Yield
  <2>. QED BY <2>1, <1>0, <1>i, <1>r, FamilyFrame DEF LiveStates
<1>2. CASE Syscall(p) \/ SysReturn(p) \/ TrapKilled(p) \/ Fault(p)
  <2>1. state' = state /\ \A q \in Slots : q # p => killed'[q] = killed[q]
    BY <1>2, <1>0 DEF Syscall, SysReturn, TrapKilled, Fault
  <2>2. /\ \A q \in Slots : pc'[q] = "fork" <=> pc[q] = "fork"
        /\ \A q \in Slots : pc'[q] = "forked" <=> pc[q] = "forked"
        /\ pc'[InitProc] \notin {"exit", "die"}
    BY <1>2, <1>0, <1>i DEF Syscall, SysReturn, TrapKilled, Fault
  <2>3. \A q \in Slots : state'[q] = "SLEEPING" => q # p
    BY <2>1, <1>r
  <2>. QED BY <2>1, <2>2, <2>3, <1>r, FamilyFrame
<1>. QED BY <1>1, <1>2 DEF TrapStep

LEMMA CallFamily ==
  ASSUME CoreInv, FamilyOK, NEW p \in Slots,
         \/ \E k \in KillPids : Kill(p, k)
         \/ \E k \in PrioPids, n \in Prios : SetPrio(p, k, n)
         \/ \E e \in Events : Sleep(p, e) \/ Wakeup(e)
         \/ Exit(p) \/ Wait(p) \/ WaitFail(p)
  PROVE  FamilyOK'
<1>. USE SlotFacts DEF CoreInv
<1>0. /\ state \in [Slots -> States] /\ pc \in [Slots -> Points] /\ killed \in [Slots -> BOOLEAN]
      /\ chan \in [Slots -> Slots \cup Events \cup {NoProc}]
  BY DEF TypeOK
<1>i. pc[InitProc] \notin {"exit", "die"}
  BY DEF FamilyOK, InitOK
<1>1. ASSUME NEW k \in KillPids, Kill(p, k) PROVE FamilyOK'
  <2>1. PICK t \in Slots :
          /\ killed' = [killed EXCEPT ![t] = TRUE]
          /\ IF state[t] = "SLEEPING" THEN state' = [state EXCEPT ![t] = "RUNNABLE"] ELSE state' = state
    BY <1>1 DEF Kill, KillWakes
  <2>2. /\ UNCHANGED <<parent, child, chan>> /\ pc' = [pc EXCEPT ![p] = "user"] /\ pc[p] = "sys"
    BY <1>1 DEF Kill
  <2>3. \A q \in Slots : /\ state'[q] = state[q] \/ (state[q] = "SLEEPING" /\ state'[q] = "RUNNABLE")
                         /\ state'[q] = "SLEEPING" => killed'[q] = killed[q]
    BY <2>1, <1>0
  <2>4. /\ \A q \in Slots : pc'[q] = "fork" <=> pc[q] = "fork"
        /\ \A q \in Slots : pc'[q] = "forked" <=> pc[q] = "forked"
        /\ pc'[InitProc] \notin {"exit", "die"}
    BY <2>2, <1>0, <1>i
  <2>. QED BY <2>2, <2>3, <2>4, FamilyFrame DEF LiveStates
<1>2. ASSUME NEW k \in PrioPids, NEW n \in Prios, SetPrio(p, k, n) PROVE FamilyOK'
  <2>2. /\ UNCHANGED <<parent, child, chan, state, killed>> /\ pc' = [pc EXCEPT ![p] = "user"] /\ pc[p] = "sys"
    BY <1>2 DEF SetPrio
  <2>4. /\ \A q \in Slots : pc'[q] = "fork" <=> pc[q] = "fork"
        /\ \A q \in Slots : pc'[q] = "forked" <=> pc[q] = "forked"
        /\ pc'[InitProc] \notin {"exit", "die"}
    BY <2>2, <1>0, <1>i
  <2>. QED BY <2>2, <2>4, FamilyFrame
<1>3. ASSUME NEW e \in Events, Sleep(p, e) PROVE FamilyOK'
  <2>1. /\ state' = [state EXCEPT ![p] = "SLEEPING"] /\ state[p] = "RUNNING"
        /\ chan' = [chan EXCEPT ![p] = e] /\ UNCHANGED <<parent, child, killed, pc>>
    BY <1>3 DEF Sleep, Executing
  <2>2. e # p
    BY EventAssumption
  <2>3. \A q \in Slots : /\ q # p => state'[q] = state[q] /\ chan'[q] = chan[q]
                         /\ q = p => state'[q] = "SLEEPING" /\ chan'[q] # q
    BY <2>1, <2>2, <1>0
  <2>. QED BY <2>1, <2>3, <1>i, FamilyFrame DEF LiveStates
<1>4. ASSUME NEW e \in Events, Wakeup(e) PROVE FamilyOK'
  <2>1. /\ UNCHANGED <<parent, child, killed, pc, chan>>
        /\ \A q \in Slots : state'[q] = state[q] \/ (state[q] = "SLEEPING" /\ state'[q] = "RUNNABLE")
    BY <1>4 DEF Wakeup, Sleepers
  <2>. QED BY <2>1, <1>i, FamilyFrame DEF LiveStates
<1>5. CASE Exit(p)
  <2>1. /\ UNCHANGED <<parent, child, killed, state, chan>> /\ pc' = [pc EXCEPT ![p] = "exit"]
        /\ pc[p] = "sys" /\ p # InitProc
    BY <1>5 DEF Exit
  <2>2. /\ \A q \in Slots : pc'[q] = "fork" <=> pc[q] = "fork"
        /\ \A q \in Slots : pc'[q] = "forked" <=> pc[q] = "forked"
        /\ pc'[InitProc] \notin {"exit", "die"}
    BY <2>1, <1>0, <1>i
  <2>. QED BY <2>1, <2>2, FamilyFrame
<1>6. CASE Wait(p)
  <2>1. /\ UNCHANGED <<parent, child, killed, state, chan>> /\ pc' = [pc EXCEPT ![p] = "wait"]
        /\ pc[p] = "sys"
    BY <1>6 DEF Wait
  <2>2. /\ \A q \in Slots : pc'[q] = "fork" <=> pc[q] = "fork"
        /\ \A q \in Slots : pc'[q] = "forked" <=> pc[q] = "forked"
        /\ pc'[InitProc] \notin {"exit", "die"}
    BY <2>1, <1>0, <1>i
  <2>. QED BY <2>1, <2>2, FamilyFrame
<1>7. CASE WaitFail(p)
  <2>1. /\ UNCHANGED <<parent, child, killed, state>> /\ pc' = [pc EXCEPT ![p] = "user"]
        /\ pc[p] \in {"wait", "waiting"} /\ state[p] = "RUNNING" /\ chan' = [chan EXCEPT ![p] = NoProc]
    BY <1>7 DEF WaitFail, WaitScan, Executing
  <2>2. /\ \A q \in Slots : pc'[q] = "fork" <=> pc[q] = "fork"
        /\ \A q \in Slots : pc'[q] = "forked" <=> pc[q] = "forked"
        /\ pc'[InitProc] \notin {"exit", "die"}
    BY <2>1, <1>0, <1>i
  <2>3. \A q \in Slots : chan'[q] = chan[q] \/ chan'[q] # q
    BY <2>1, <1>0
  <2>. QED BY <2>1, <2>2, <2>3, FamilyFrame
<1>. QED BY <1>1, <1>2, <1>3, <1>4, <1>5, <1>6, <1>7

-----------------------------------------------------------------------------
LEMMA ForkFamily ==
  ASSUME CoreInv, FamilyOK, NEW p \in Slots, ForkStep(p)
  PROVE  FamilyOK'
<1>. USE SlotFacts DEF CoreInv, LiveStates
<1>0. /\ state \in [Slots -> States] /\ pc \in [Slots -> Points] /\ killed \in [Slots -> BOOLEAN]
      /\ parent \in [Slots -> Slots \cup {NoProc}] /\ child \in [Slots -> Slots \cup {NoProc}]
  BY DEF TypeOK
<1>i. InitOK /\ ParentsOK /\ ParentsAlive /\ NoLostExit
  BY DEF FamilyOK
<1>r. state[p] = "RUNNING"
  BY DEF ForkStep, ForkAlloc, ForkAbort, ForkCopy, ForkPublish, Executing
\* The slot that changes, and what it may change to.
<1>1. CASE ForkAlloc(p)
  <2>1. PICK np \in Slots : /\ state[np] = "UNUSED" /\ state' = [state EXCEPT ![np] = "EMBRYO"]
                            /\ child' = [child EXCEPT ![p] = np]
    BY <1>1 DEF ForkAlloc, IsFirst, Unused
  <2>2. pc' = [pc EXCEPT ![p] = "fork"] /\ pc[p] = "sys" /\ UNCHANGED <<parent, killed, chan>>
    BY <1>1 DEF ForkAlloc
  <2>3. parent[np] = NoProc /\ np # p /\ np # InitProc
    BY <2>1, <1>i, <1>r DEF ParentsOK, InitOK
  <2>4. InitOK'
    BY <2>1, <2>2, <2>3, <1>0, <1>i DEF InitOK
  <2>5. ParentsOK'
    BY <2>1, <2>2, <2>3, <1>0, <1>i, <1>r DEF ParentsOK
  <2>6. ParentsAlive'
    BY <2>1, <2>2, <2>3, <1>0, <1>i DEF ParentsAlive, Live
  <2>7. NoLostExit'
    BY <2>1, <2>2, <2>3, <1>0, <1>i DEF NoLostExit, Children, Zombies
  <2>. QED BY <2>4, <2>5, <2>6, <2>7 DEF FamilyOK
<1>2. CASE ForkAbort(p)
  <2>1. /\ state' = [state EXCEPT ![child[p]] = "UNUSED"] /\ child' = [child EXCEPT ![p] = NoProc]
        /\ pc' = [pc EXCEPT ![p] = "user"] /\ pc[p] = "fork" /\ UNCHANGED <<parent, killed, chan>>
    BY <1>2 DEF ForkAbort
  <2>2. /\ child[p] \in Slots /\ state[child[p]] = "EMBRYO" /\ parent[child[p]] = NoProc
    BY <2>1, <1>i DEF KidsOK, Forking, ParentsOK
  <2>3. child[p] # p /\ child[p] # InitProc
    BY <2>2, <1>i, <1>r DEF InitOK
  <2>4. InitOK'
    BY <2>1, <2>2, <2>3, <1>0, <1>i DEF InitOK
  <2>5. ParentsOK'
    BY <2>1, <2>2, <2>3, <1>0, <1>i, <1>r DEF ParentsOK
  <2>6. ParentsAlive'
    BY <2>1, <2>2, <2>3, <1>0, <1>i DEF ParentsAlive, Live
  <2>7. NoLostExit'
    BY <2>1, <2>2, <2>3, <1>0, <1>i DEF NoLostExit, Children, Zombies
  <2>. QED BY <2>4, <2>5, <2>6, <2>7 DEF FamilyOK
<1>3. CASE ForkCopy(p)
  <2>1. /\ parent' = [parent EXCEPT ![child[p]] = p] /\ pc' = [pc EXCEPT ![p] = "forked"]
        /\ pc[p] = "fork" /\ UNCHANGED <<state, killed, chan, child>>
    BY <1>3 DEF ForkCopy
  <2>2. /\ child[p] \in Slots /\ state[child[p]] = "EMBRYO" /\ parent[child[p]] = NoProc
        /\ \A q \in Slots : pc[q] \in {"fork", "forked"} /\ q # p => child[q] # child[p]
    BY <2>1, <1>i DEF KidsOK, Forking, ParentsOK
  <2>3. child[p] # p /\ child[p] # InitProc
    BY <2>2, <1>i, <1>r DEF InitOK
  <2>4. InitOK'
    BY <2>1, <2>2, <2>3, <1>0, <1>i DEF InitOK
  <2>5. ParentsOK'
    BY <2>1, <2>2, <2>3, <1>0, <1>i, <1>r DEF ParentsOK, KidsOK, Forking
  <2>6. ParentsAlive'
    BY <2>1, <2>2, <2>3, <1>0, <1>i DEF ParentsAlive, Live
  <2>7. NoLostExit'
    <3>1. ASSUME NEW q \in Slots, state[q] = "SLEEPING", chan[q] = q
          PROVE  Children(q)' = Children(q)
      BY <3>1, <2>1, <2>2, <1>0, <1>r DEF Children
    <3>. QED BY <3>1, <2>1, <1>i DEF NoLostExit, Zombies
  <2>. QED BY <2>4, <2>5, <2>6, <2>7 DEF FamilyOK
<1>4. CASE ForkPublish(p)
  <2>1. /\ state' = [state EXCEPT ![child[p]] = "RUNNABLE"] /\ child' = [child EXCEPT ![p] = NoProc]
        /\ pc' = [pc EXCEPT ![p] = "user", ![child[p]] = "user"]
        /\ pc[p] = "forked" /\ UNCHANGED <<parent, killed, chan>>
    BY <1>4 DEF ForkPublish
  <2>2. /\ child[p] \in Slots /\ state[child[p]] = "EMBRYO" /\ parent[child[p]] = p
    BY <2>1, <1>i DEF KidsOK, Forking, ParentsOK
  <2>3. child[p] # p /\ child[p] # InitProc
    BY <2>2, <1>i, <1>r DEF InitOK
  <2>4. InitOK'
    BY <2>1, <2>2, <2>3, <1>0, <1>i DEF InitOK
  <2>5. ParentsOK'
    BY <2>1, <2>2, <2>3, <1>0, <1>i, <1>r DEF ParentsOK
  <2>6. ParentsAlive'
    BY <2>1, <2>2, <2>3, <1>0, <1>i, <1>r DEF ParentsAlive, Live
  <2>7. NoLostExit'
    BY <2>1, <2>2, <2>3, <1>0, <1>i DEF NoLostExit, Children, Zombies
  <2>. QED BY <2>4, <2>5, <2>6, <2>7 DEF FamilyOK
<1>. QED BY <1>1, <1>2, <1>3, <1>4 DEF ForkStep

-----------------------------------------------------------------------------
\* What exit() does to the states.
LEMMA ExitStates ==
  ASSUME CoreInv, NEW p \in Slots, ExitZombie(p)
  PROVE  /\ state[p] = "RUNNING" /\ state'[p] = "ZOMBIE"
         /\ \A q \in Slots \ {p} :
              state'[q] = state[q] \/ (state[q] = "SLEEPING" /\ state'[q] = "RUNNABLE")
         /\ \A q \in Slots : state[q] = "SLEEPING" /\ chan[q] = parent[p] => state'[q] = "RUNNABLE"
         /\ (\E q \in Children(p) : state[q] = "ZOMBIE") =>
              \A q \in Slots : state[q] = "SLEEPING" /\ chan[q] = InitProc => state'[q] = "RUNNABLE"
<1>. DEFINE woken1 == ParentWaiters(p)
            woken2 == OrphanWaiters(p) \ woken1
<1>1. state[p] = "RUNNING"
  BY DEF ExitZombie, Executing
<1>2. state' = [q \in Slots |-> IF q = p THEN "ZOMBIE"
                               ELSE IF q \in woken1 \cup woken2 THEN "RUNNABLE" ELSE state[q]]
  BY DEF ExitZombie
<1>3. woken1 = Sleepers(parent[p]) /\ woken1 \cup woken2 = woken1 \cup OrphanWaiters(p)
  BY DEF ParentWaiters
<1>4. \A q \in woken1 \cup woken2 : q \in Slots /\ state[q] = "SLEEPING"
  BY DEF ParentWaiters, OrphanWaiters, Sleepers
<1>. HIDE DEF woken1, woken2
<1>5. \A q \in Slots : state[q] = "SLEEPING" /\ chan[q] = parent[p] => q \in woken1
  BY <1>3 DEF Sleepers
<1>6. (\E q \in Children(p) : state[q] = "ZOMBIE") =>
         \A q \in Slots : state[q] = "SLEEPING" /\ chan[q] = InitProc => q \in woken1 \cup woken2
  BY <1>3 DEF OrphanWaiters, Sleepers
<1>. QED BY <1>1, <1>2, <1>4, <1>5, <1>6

LEMMA ExitFamily ==
  ASSUME CoreInv, FamilyOK, NEW p \in Slots, ExitZombie(p)
  PROVE  FamilyOK'
<1>. USE SlotFacts DEF CoreInv, LiveStates
<1>0. /\ state \in [Slots -> States] /\ pc \in [Slots -> Points] /\ killed \in [Slots -> BOOLEAN]
      /\ parent \in [Slots -> Slots \cup {NoProc}] /\ child \in [Slots -> Slots \cup {NoProc}]
  BY DEF TypeOK
<1>i. InitOK /\ ParentsOK /\ ParentsAlive /\ NoLostExit
  BY DEF FamilyOK
<1>1. /\ pc[p] \in {"exit", "die"} /\ UNCHANGED <<pc, child, killed, chan>>
      /\ parent' = [q \in Slots |-> IF parent[q] = p THEN InitProc ELSE parent[q]]
  BY DEF ExitZombie, Adopted, Children
<1>2. p # InitProc
  BY <1>1, <1>i DEF InitOK
<1>3. /\ state[p] = "RUNNING" /\ state'[p] = "ZOMBIE"
      /\ \A q \in Slots \ {p} :
           state'[q] = state[q] \/ (state[q] = "SLEEPING" /\ state'[q] = "RUNNABLE")
  BY ExitStates
<1>4. InitOK'
  BY <1>0, <1>1, <1>2, <1>3, <1>i DEF InitOK
<1>5. ParentsOK'
  <2>1. ASSUME NEW q \in Slots, pc[q] \in {"fork", "forked"}
        PROVE  q # p /\ child[q] \in Slots /\ parent[child[q]] # p /\ parent[child[q]] = parent'[child[q]]
    <3>1. q # p
      BY <2>1, <1>1
    <3>2. child[q] \in Slots
      BY <2>1 DEF KidsOK, Forking
    <3>3. parent[child[q]] \in {q, NoProc}
      BY <2>1, <1>i DEF ParentsOK
    <3>. QED BY <3>1, <3>2, <3>3, <1>1
  <2>2. \A q \in Slots : state'[q] = "UNUSED" => state[q] = "UNUSED" /\ parent[q] # p
    BY <1>3, <1>i DEF ParentsOK
  <2>3. \A q \in Slots : parent'[q] # q
    BY <1>1, <1>2, <1>i DEF ParentsOK, InitOK
  <2>4. \A q \in Slots : state'[q] = "UNUSED" => parent'[q] = NoProc
    BY <2>2, <1>1, <1>i DEF ParentsOK
  <2>5. \A q \in Slots : pc[q] \in {"fork", "forked"} => state'[q] \in LiveStates
    BY <2>1, <1>3, <1>i DEF ParentsOK
  <2>. QED BY <2>1, <2>3, <2>4, <2>5, <1>1, <1>i DEF ParentsOK
<1>6. ParentsAlive'
  <2>1. ASSUME NEW q \in Slots \ {InitProc}, q \in Live' \/ state'[q] = "ZOMBIE"
        PROVE  parent'[q] \in Live'
    <3>1. q \in Live \/ state[q] = "ZOMBIE"
      BY <2>1, <1>3 DEF Live
    <3>2. parent[q] \in Live
      BY <3>1, <1>i DEF ParentsAlive
    <3>3. CASE parent[q] = p
      BY <3>3, <1>1, <1>4 DEF InitOK, Live
    <3>4. CASE parent[q] # p
      BY <3>2, <3>4, <1>1, <1>3 DEF Live
    <3>. QED BY <3>3, <3>4
  <2>. QED BY <2>1 DEF ParentsAlive
<1>7. NoLostExit'
  <2>1. ASSUME NEW q \in Slots, state'[q] = "SLEEPING", chan'[q] = q
        PROVE  Children(q)' # {} /\ Zombies(q)' = {} /\ ~killed'[q]
    <3>1. q # p /\ state[q] = "SLEEPING" /\ chan[q] = q
      BY <2>1, <1>1, <1>3
    <3>2. Children(q) # {} /\ Zombies(q) = {} /\ ~killed[q]
      BY <3>1, <1>i DEF NoLostExit
    <3>3. parent[p] # q
      BY <3>1, <2>1, ExitStates
    <3>4. PICK r \in Slots : parent[r] = q
      BY <3>2 DEF Children
    <3>5. r \in Children(q)'
      BY <3>1, <3>4, <1>1 DEF Children
    <3>6. ASSUME NEW z \in Slots, parent'[z] = q, state'[z] = "ZOMBIE" PROVE FALSE
      <4>1. CASE z = p
        <5>1. parent[p] # p
          BY <1>i DEF ParentsOK
        <5>. QED BY <5>1, <4>1, <3>6, <3>3, <1>1
      <4>2. CASE z # p
        <5>1. state[z] = "ZOMBIE"
          BY <4>2, <3>6, <1>3
        <5>2. CASE parent[z] = p
          <6>1. q = InitProc
            BY <5>2, <3>6, <1>1
          <6>2. \E y \in Children(p) : state[y] = "ZOMBIE"
            BY <5>1, <5>2 DEF Children
          <6>3. state'[q] = "RUNNABLE"
            BY <6>1, <6>2, <3>1, ExitStates
          <6>. QED BY <6>3, <2>1
        <5>3. CASE parent[z] # p
          <6>1. parent[z] = q
            BY <5>3, <3>6, <1>1
          <6>. QED BY <6>1, <5>1, <3>2 DEF Zombies, Children
        <5>. QED BY <5>2, <5>3
      <4>. QED BY <4>1, <4>2
    <3>7. Zombies(q)' = {}
      BY <3>6 DEF Zombies, Children
    <3>. QED BY <3>2, <3>5, <3>7, <1>1
  <2>. QED BY <2>1 DEF NoLostExit
<1>. QED BY <1>4, <1>5, <1>6, <1>7 DEF FamilyOK

-----------------------------------------------------------------------------
LEMMA WaitFamily ==
  ASSUME CoreInv, FamilyOK, NEW p \in Slots, WaitReap(p) \/ WaitSleep(p)
  PROVE  FamilyOK'
<1>. USE SlotFacts DEF CoreInv, LiveStates
<1>0. /\ state \in [Slots -> States] /\ pc \in [Slots -> Points] /\ killed \in [Slots -> BOOLEAN]
      /\ parent \in [Slots -> Slots \cup {NoProc}] /\ child \in [Slots -> Slots \cup {NoProc}]
      /\ chan \in [Slots -> Slots \cup Events \cup {NoProc}]
  BY DEF TypeOK
<1>i. InitOK /\ ParentsOK /\ ParentsAlive /\ NoLostExit
  BY DEF FamilyOK
<1>r. state[p] = "RUNNING" /\ pc[p] \in {"wait", "waiting"}
  BY DEF WaitReap, WaitSleep, WaitScan, Executing
<1>1. CASE WaitReap(p)
  <2>1. PICK z \in Slots : /\ parent[z] = p /\ state[z] = "ZOMBIE"
                           /\ state'  = [state EXCEPT ![z] = "UNUSED"]
                           /\ parent' = [parent EXCEPT ![z] = NoProc]
                           /\ killed' = [killed EXCEPT ![z] = FALSE]
    BY <1>1 DEF WaitReap, IsFirst, Zombies, Children
  <2>2. pc' = [pc EXCEPT ![p] = "user"] /\ chan' = [chan EXCEPT ![p] = NoProc] /\ child' = child
    BY <1>1 DEF WaitReap
  <2>3. z # p /\ z # InitProc
    BY <2>1, <1>r, <1>i DEF InitOK
  <2>4. InitOK'
    BY <2>1, <2>2, <2>3, <1>0, <1>i DEF InitOK
  <2>5. ParentsOK'
    <3>1. \A q \in Slots : pc[q] \in {"fork", "forked"} => child[q] \in Slots /\ child[q] # z
      BY <2>1 DEF KidsOK, Forking
    <3>. QED BY <2>1, <2>2, <3>1, <1>0, <1>i, <1>r DEF ParentsOK
  <2>6. ParentsAlive'
    BY <2>1, <2>2, <2>3, <1>0, <1>i DEF ParentsAlive, Live
  <2>7. NoLostExit'
    <3>1. ASSUME NEW q \in Slots, state'[q] = "SLEEPING", chan'[q] = q
          PROVE  Children(q)' # {} /\ Zombies(q)' = {} /\ ~killed'[q]
      <4>1. q # p /\ q # z /\ state[q] = "SLEEPING" /\ chan[q] = q
        BY <3>1, <2>1, <2>2, <1>0, <1>r
      <4>2. Children(q) # {} /\ Zombies(q) = {} /\ ~killed[q]
        BY <4>1, <1>i DEF NoLostExit
      <4>3. Children(q)' = Children(q)
        BY <4>1, <2>1, <1>0 DEF Children
      <4>4. Zombies(q)' = Zombies(q)
        BY <4>1, <4>3, <2>1, <1>0 DEF Zombies, Children
      <4>. QED BY <4>1, <4>2, <4>3, <4>4, <2>1, <1>0
    <3>. QED BY <3>1 DEF NoLostExit
  <2>. QED BY <2>4, <2>5, <2>6, <2>7 DEF FamilyOK
<1>2. CASE WaitSleep(p)
  <2>1. /\ state' = [state EXCEPT ![p] = "SLEEPING"] /\ chan' = [chan EXCEPT ![p] = p]
        /\ pc' = [pc EXCEPT ![p] = "waiting"] /\ UNCHANGED <<parent, killed, child>>
        /\ Zombies(p) = {} /\ Children(p) # {} /\ ~killed[p]
    BY <1>2 DEF WaitSleep
  <2>4. InitOK'
    BY <2>1, <1>0, <1>i DEF InitOK
  <2>5. ParentsOK'
    BY <2>1, <1>0, <1>i, <1>r DEF ParentsOK
  <2>6. ParentsAlive'
    BY <2>1, <1>0, <1>i, <1>r DEF ParentsAlive, Live
  <2>7. NoLostExit'
    <3>1. \A q \in Slots : Children(q)' = Children(q) /\ Zombies(q)' = Zombies(q)
      BY <2>1, <1>0, <1>r DEF Children, Zombies
    <3>. QED BY <3>1, <2>1, <1>0, <1>i DEF NoLostExit
  <2>. QED BY <2>4, <2>5, <2>6, <2>7 DEF FamilyOK
<1>. QED BY <1>1, <1>2

-----------------------------------------------------------------------------
FamilyInv == CoreInv /\ FamilyOK

LEMMA FamilyNext == FamilyInv /\ [Next]_vars => FamilyInv'
<1>. SUFFICES ASSUME CoreInv, FamilyOK, [Next]_vars PROVE FamilyInv'
  BY DEF FamilyInv
<1>1. FamilyOK'
  <2>1. ASSUME NEW c \in CPUs, CpuStep(c) PROVE FamilyOK'
    BY <2>1, CpuFamily
  <2>2. ASSUME NEW p \in Slots, TrapStep(p) \/ ForkStep(p) \/ ExitStep(p) \/ WaitStep(p)
        PROVE  FamilyOK'
    BY <2>2, TrapFamily, ForkFamily, ExitFamily, WaitFamily, CallFamily DEF ExitStep, WaitStep
  <2>3. ASSUME NEW p \in Slots, NEW k \in KillPids, Kill(p, k) PROVE FamilyOK'
    BY <2>3, CallFamily
  <2>4. ASSUME NEW p \in Slots, NEW k \in PrioPids, NEW n \in Prios, SetPrio(p, k, n) PROVE FamilyOK'
    BY <2>4, CallFamily
  <2>5. ASSUME NEW p \in Slots, NEW e \in Events, Sleep(p, e) PROVE FamilyOK'
    BY <2>5, CallFamily
  <2>6. ASSUME NEW e \in Events, Wakeup(e) PROVE FamilyOK'
    BY <2>6, SlotFacts, CallFamily
  <2>7. CASE UNCHANGED vars
    <3>1. pc[InitProc] \notin {"exit", "die"}
      BY DEF FamilyOK, InitOK
    <3>. QED BY <2>7, <3>1, FamilyFrame DEF vars, CoreInv
  <2>. QED BY <2>1, <2>2, <2>3, <2>4, <2>5, <2>6, <2>7 DEF Next
<1>. QED BY <1>1, CoreNext DEF FamilyInv

LEMMA FamilyCorrect == Spec => []FamilyInv
<1>1. Init => FamilyInv
  BY FamilyInit, CoreInit DEF FamilyInv
<1>. QED BY <1>1, FamilyNext, PTL DEF Spec

\* No wakeup of wait() is lost: exit() by a child, the adoption of a zombie and
\* kill() all reach whoever sleeps there (proc.c:326-348, 389, 519).
THEOREM NoExitLost == Spec => []NoLostExit
<1>1. FamilyInv => NoLostExit
  BY DEF FamilyInv, FamilyOK
<1>. QED BY <1>1, FamilyCorrect, PTL

\* Whoever has begun to run has a parent that is alive, in whatever order
\* parents and children are born, die and are waited for.
THEOREM ParentsLive == Spec => []ParentsAlive
<1>1. FamilyInv => ParentsAlive
  BY DEF FamilyInv, FamilyOK
<1>. QED BY <1>1, FamilyCorrect, PTL

-----------------------------------------------------------------------------
(* Zombies.                                                                *)

StaysZombie(z) == state'[z] = "ZOMBIE" /\ xstate'[z] = xstate[z] /\ pid'[z] = pid[z]

IsReaped(z) == /\ state'[z] = "UNUSED" /\ state[parent[z]] = "RUNNING"
               /\ pc[parent[z]] \in {"wait", "waiting"}

LEMMA ZombieNext ==
  ASSUME CoreInv, Next, NEW z \in Slots, state[z] = "ZOMBIE"
  PROVE  StaysZombie(z) \/ IsReaped(z)
<1>. USE DEF CoreInv, StaysZombie
<1>0. /\ state \in [Slots -> States] /\ pid \in [Slots -> 0..MaxPid]
      /\ xstate \in [Slots -> {"none", "exited", "trapped"}]
  BY DEF TypeOK
<1>1. ASSUME NEW c \in CPUs, CpuStep(c) PROVE StaysZombie(z)
  <2>1. UNCHANGED <<xstate, pid>>
    BY <1>1 DEF CpuStep, Schedule, Resume, SwitchOut
  <2>2. CASE Schedule(c)
    <3>1. PICK i \in Prios : /\ queues[i] # << >>
                             /\ state' = [state EXCEPT ![Head(queues[i])] = "RUNNING"]
      BY <2>2 DEF Schedule, BestQueue
    <3>2. state[Head(queues[i])] = "RUNNABLE"
      BY <3>1, HeadRunnable
    <3>. QED BY <2>1, <3>1, <3>2, <1>0
  <2>3. CASE Resume(c) \/ SwitchOut(c)
    BY <2>1, <2>3 DEF Resume, SwitchOut
  <2>. QED BY <1>1, <2>2, <2>3 DEF CpuStep
<1>2. ASSUME NEW p \in Slots, TrapStep(p) PROVE StaysZombie(z)
  BY <1>2, <1>0 DEF TrapStep, Syscall, SysReturn, TrapKilled, Fault, Yield, Executing
<1>3. ASSUME NEW p \in Slots, ForkStep(p) PROVE StaysZombie(z)
  <2>1. CASE ForkAlloc(p)
    BY <2>1, <1>0 DEF ForkAlloc, IsFirst, Unused
  <2>2. CASE ForkAbort(p) \/ ForkCopy(p) \/ ForkPublish(p)
    <3>1. child[p] \in Slots /\ state[child[p]] = "EMBRYO"
      BY <2>2 DEF ForkAbort, ForkCopy, ForkPublish, KidsOK, Forking
    <3>. QED BY <2>2, <3>1, <1>0 DEF ForkAbort, ForkCopy, ForkPublish
  <2>. QED BY <1>3, <2>1, <2>2 DEF ForkStep
<1>4. ASSUME NEW p \in Slots, ExitStep(p) PROVE StaysZombie(z)
  <2>1. CASE Exit(p)
    BY <2>1 DEF Exit
  <2>2. CASE ExitZombie(p)
    <3>1. xstate'[z] = xstate[z] \/ z = p
      BY <2>2, <1>0 DEF ExitZombie
    <3>2. pid' = pid
      BY <2>2 DEF ExitZombie
    <3>. QED BY <2>2, <3>1, <3>2, ExitStates
  <2>. QED BY <1>4, <2>1, <2>2 DEF ExitStep
<1>5. ASSUME NEW p \in Slots, WaitStep(p) PROVE StaysZombie(z) \/ IsReaped(z)
  <2>1. CASE WaitReap(p)
    <3>1. PICK y \in Slots : /\ parent[y] = p
                             /\ state' = [state EXCEPT ![y] = "UNUSED"] /\ pid' = [pid EXCEPT ![y] = 0]
      BY <2>1 DEF WaitReap, IsFirst, Zombies, Children
    <3>2. state[p] = "RUNNING" /\ pc[p] \in {"wait", "waiting"} /\ xstate' = xstate
      BY <2>1 DEF WaitReap, WaitScan, Executing
    <3>. QED BY <3>1, <3>2, <1>0 DEF IsReaped
  <2>2. CASE Wait(p) \/ WaitFail(p) \/ WaitSleep(p)
    BY <2>2, <1>0 DEF Wait, WaitFail, WaitSleep, WaitScan, Executing
  <2>. QED BY <1>5, <2>1, <2>2 DEF WaitStep
<1>6. ASSUME NEW p \in Slots, NEW k \in KillPids, Kill(p, k) PROVE StaysZombie(z)
  <2>1. state'[z] = state[z]
    BY <1>6, <1>0 DEF Kill, KillWakes
  <2>. QED BY <1>6, <2>1 DEF Kill
<1>7. ASSUME NEW p \in Slots, NEW k \in PrioPids, NEW n \in Prios, SetPrio(p, k, n) PROVE StaysZombie(z)
  BY <1>7 DEF SetPrio
<1>8. ASSUME NEW p \in Slots, NEW e \in Events, Sleep(p, e) PROVE StaysZombie(z)
  BY <1>8, <1>0 DEF Sleep, Executing
<1>9. ASSUME NEW e \in Events, Wakeup(e) PROVE StaysZombie(z)
  BY <1>9, <1>0 DEF Wakeup, Sleepers
<1>. QED BY <1>1, <1>2, <1>3, <1>4, <1>5, <1>6, <1>7, <1>8, <1>9 DEF Next

\* A zombie keeps its exit status until its own parent, running in wait(), takes it:
\* kill(), wakeup() and setprio() never bring it back (proc.c:355-390, 510-530).
THEOREM ZombiesKept == Spec => ZombiesOnlyReaped
<1>1. CoreInv /\ [Next]_vars =>
        [\A p \in Slots : state[p] = "ZOMBIE" =>
           \/ state'[p] = "ZOMBIE" /\ xstate'[p] = xstate[p] /\ pid'[p] = pid[p]
           \/ /\ state'[p] = "UNUSED" /\ state[parent[p]] = "RUNNING"
              /\ pc[parent[p]] \in {"wait", "waiting"}]_vars
  BY ZombieNext DEF StaysZombie, IsReaped
<1>. QED BY <1>1, CoreCorrect, PTL DEF Spec, ZombiesOnlyReaped

=============================================================================
