---------------------------- MODULE NotebookProofs ----------------------------
(***************************************************************************)
(* Proofs about Search, for problems of any size, and about Learning, for  *)
(* any grids.                                                              *)
(***************************************************************************)
EXTENDS Search, Learning, SequenceTheorems, FiniteSetTheorems, NaturalsInduction, WellFoundedInduction, TLAPS

Points == {"loop", "look", "deep", "done"}

TypeOK ==
  /\ prob \in DOMAIN Problems /\ alg \in Algs /\ pc \in Points
  /\ time \in Nat /\ qlen \in Int /\ act \in Nat /\ act < P.actions
  /\ explored \in SUBSET P.states
  /\ dict \in [P.states -> 0..time] /\ removed \in SUBSET (0..time)
  /\ IsFiniteSet(fringe)
  /\ \A n \in fringe : n.id \in 1..time /\ n.path \in Seq(P.states)
  /\ cur.path \in Seq(P.states)

\* A node is known by its number.
IdsUnique == \A m, n \in fringe : m.id = n.id => m = n

QueueInv == TypeOK /\ IdsUnique /\ QueueExact

-----------------------------------------------------------------------------

LEMMA Problem ==
  ASSUME prob \in DOMAIN Problems
  PROVE  /\ P.actions \in Nat \ {0} /\ P.start \in P.states /\ P.goal \in P.states
         /\ P.sample \in [P.states \X (0..P.actions - 1) -> (SUBSET P.states) \ {{}}]
         /\ P.l1 \in [P.states -> Nat] /\ P.l2 \in [P.states -> Nat]
BY SearchAssumption DEF P, ProblemType

LEMMA Algorithms == ASSUME alg \in Algs PROVE alg \in Queued \cup Deepening
BY SearchAssumption

LEMMA SampleType ==
  ASSUME prob \in DOMAIN Problems, NEW s \in P.states, NEW a \in 0..P.actions - 1
  PROVE  Sample(P, s, a) \in SUBSET P.states
<1>1. <<s, a>> \in P.states \X (0..P.actions - 1)
  OBVIOUS
<1>. QED BY <1>1, Problem DEF Sample

LEMMA StateType == ASSUME prob \in DOMAIN Problems, NEW b \in Seq(P.states) PROVE StateOf(b) \in P.states
BY Problem DEF StateOf

\* The state of a node whose path has one more step.
LEMMA StateOfAppend ==
  ASSUME NEW S, NEW b \in Seq(S), NEW s \in S
  PROVE  StateOf(Append(b, s)) = s /\ Append(b, s) \in Seq(S) /\ Append(b, s) # <<>>
BY DEF StateOf

LEMMA LiveFinite == ASSUME TypeOK PROVE IsFiniteSet(Live) /\ Cardinality(Live) \in Nat
<1>1. Live \subseteq fringe
  BY DEF Live
<1>. QED BY <1>1, FS_Subset, FS_CardinalityType DEF TypeOK

LEMMA QueueInit == Init => QueueInv
<1>. SUFFICES ASSUME Init PROVE QueueInv
  OBVIOUS
<1>. USE DEF Init
<1>0. /\ P.actions \in Nat /\ P.actions > 0 /\ P.start \in P.states
  BY Problem
<1>1. fringe = {} \/ fringe = {Root}
  OBVIOUS
<1>2. IsFiniteSet(fringe) /\ Cardinality(fringe) = qlen
  BY FS_EmptySet, FS_Singleton
<1>3. TypeOK
  <2>1. <<>> \in Seq(P.states)
    OBVIOUS
  <2>2. dict \in [P.states -> 0..time] /\ time \in Nat /\ removed \in SUBSET (0..time)
    OBVIOUS
  <2>3. \A n \in fringe : n.id \in 1..time /\ n.path \in Seq(P.states)
    <3>. SUFFICES ASSUME NEW n \in fringe PROVE n.id \in 1..time /\ n.path \in Seq(P.states)
      OBVIOUS
    <3>1. n = Root /\ time = 1
      OBVIOUS
    <3>2. n.id = 1 /\ n.path = <<>>
      BY <3>1 DEF Root
    <3>. QED BY <2>1, <3>1, <3>2
  <2>4. pc \in Points /\ act \in Nat /\ act < P.actions /\ qlen \in Int
    BY <1>0 DEF Points
  <2>. QED BY <1>2, <2>1, <2>2, <2>3, <2>4 DEF TypeOK, Root
<1>4. IdsUnique
  BY <1>1 DEF IdsUnique
<1>5. Live = fringe
  BY DEF Live
<1>6. QueueExact
  <2>1. alg \in GraphSearch => alg \in Queued
    BY DEF GraphSearch, Queued
  <2>2. StateOf(<<>>) = P.start
    BY DEF StateOf
  <2>3. alg \in Queued => fringe = {Root} /\ Root.id = 1 /\ Root.path = <<>>
    BY DEF Root
  <2>4. alg \in Queued => \A n \in Live : dict[StateOf(n.path)] = n.id /\ StateOf(n.path) \notin explored
    BY <1>0, <1>5, <2>2, <2>3
  <2>5. alg \in Queued => \A s \in P.states : InQueue(s) => \E n \in Live : n.id = dict[s] /\ StateOf(n.path) = s
    BY <1>0, <1>5, <2>2, <2>3 DEF InQueue
  <2>. QED BY <1>2, <1>5, <2>1, <2>4, <2>5 DEF QueueExact
<1>. QED BY <1>3, <1>4, <1>6 DEF QueueInv

-----------------------------------------------------------------------------
\* The effect of the queue operations on the live nodes.

\* A node is taken: those dropped with it were dead.
LEMMA RemoveLive ==
  ASSUME TypeOK, NEW n \in fringe, Remove(n)
  PROVE  /\ n \in Live /\ Live' = Live \ {n} /\ fringe' \subseteq fringe
         /\ Cardinality(Live') = Cardinality(Live) - 1
<1>1. n \in Live /\ Live' = Live \ {n} /\ fringe' \subseteq fringe
  BY DEF Remove, Live
<1>. QED BY <1>1, LiveFinite, FS_RemoveElement

LEMMA AddLive ==
  ASSUME TypeOK, IdsUnique, NEW n, n.id = time + 1, Add(n)
  PROVE  /\ Live' = Live \cup {n} /\ n \notin fringe /\ fringe' = fringe \cup {n}
         /\ Cardinality(Live') = Cardinality(Live) + 1 /\ IdsUnique'
<1>1. n \notin fringe /\ \A m \in fringe : m.id # n.id
  BY DEF TypeOK
<1>2. n.id \notin removed
  BY DEF TypeOK
<1>3. Live' = Live \cup {n} /\ n \notin Live /\ fringe' = fringe \cup {n}
  BY <1>1, <1>2 DEF Add, Live
<1>4. Cardinality(Live') = Cardinality(Live) + 1
  BY <1>3, LiveFinite, FS_AddElement
<1>. QED BY <1>1, <1>3, <1>4 DEF IdsUnique

\* A node takes the place of the one of its state.
LEMMA ReplaceLive ==
  ASSUME TypeOK, IdsUnique, NEW n, n.id = time + 1, Replace(n),
         NEW m \in Live, m.id = dict[StateOf(n.path)]
  PROVE  /\ Live' = (Live \ {m}) \cup {n} /\ n \notin fringe /\ fringe' = fringe \cup {n}
         /\ Cardinality(Live') = Cardinality(Live) /\ IdsUnique'
<1>1. n \notin fringe /\ \A x \in fringe : x.id # n.id
  BY DEF TypeOK
<1>2. n.id \notin removed /\ n.id # m.id /\ m \in fringe
  BY <1>1 DEF TypeOK, Live
<1>3. /\ fringe' = fringe \cup {n} /\ removed' = removed \cup {m.id}
  BY DEF Replace
<1>4. Live' = (Live \ {m}) \cup {n}
  BY <1>1, <1>2, <1>3 DEF Live, IdsUnique
<1>5. IsFiniteSet(Live \ {m}) /\ Cardinality(Live \ {m}) = Cardinality(Live) - 1
  BY LiveFinite, FS_RemoveElement
<1>6. n \notin Live \ {m}
  BY <1>1 DEF Live
<1>7. Cardinality(Live') = Cardinality(Live) - 1 + 1
  BY <1>4, <1>5, <1>6, FS_AddElement
<1>. QED BY <1>1, <1>3, <1>4, <1>7, LiveFinite DEF IdsUnique

-----------------------------------------------------------------------------
\* One lemma per action.

\* The queue stays as it is.
LEMMA SameQueue ==
  ASSUME QueueInv, UNCHANGED <<prob, alg, queuevars, explored>>, TypeOK'
  PROVE  QueueInv'
<1>1. UNCHANGED <<fringe, removed, dict, qlen>>
  BY DEF queuevars
<1>2. Live' = Live /\ P' = P /\ \A b : StateOf(b)' = StateOf(b)
  BY <1>1 DEF Live, P, StateOf
<1>3. IdsUnique'
  BY <1>1 DEF QueueInv, IdsUnique
<1>4. QueueExact'
  BY <1>1, <1>2 DEF QueueInv, QueueExact, InQueue
<1>. QED BY <1>3, <1>4 DEF QueueInv

LEMMA GiveUpQueue == ASSUME QueueInv, GiveUp PROVE QueueInv'
<1>1. UNCHANGED <<prob, alg, queuevars, explored, cur, act, time>> /\ pc' = "done"
  BY DEF GiveUp, Return
<1>2. TypeOK'
  BY <1>1 DEF QueueInv, TypeOK, queuevars, P, Points
<1>. QED BY <1>1, <1>2, SameQueue

LEMMA DeepQueue == ASSUME QueueInv, DeepRoot \/ DeepLook \/ DeepReturn PROVE QueueInv'
<1>1. /\ UNCHANGED <<prob, alg, queuevars, explored, cur, act>>
      /\ time' \in Nat /\ time <= time' /\ pc' \in {pc, "done"}
  BY DEF QueueInv, TypeOK, DeepRoot, DeepLook, DeepReturn, Visit, CutOff, Return
<1>2. TypeOK'
  <2>1. UNCHANGED <<fringe, removed, dict, qlen>> /\ P' = P /\ time \in Nat
    BY <1>1 DEF queuevars, P, QueueInv, TypeOK
  <2>2. 1..time \subseteq 1..time' /\ 0..time \subseteq 0..time'
    BY <1>1, <2>1
  <2>. QED BY <1>1, <2>1, <2>2 DEF QueueInv, TypeOK, Points
<1>. QED BY <1>1, <1>2, SameQueue

LEMMA TakeQueue == ASSUME QueueInv, NEW n \in fringe, Take(n) PROVE QueueInv'
<1>. DEFINE s == StateOf(n.path)
<1>0. /\ prob' = prob /\ alg' = alg /\ time' = time /\ P' = P
      /\ n.path \in Seq(P.states) /\ s \in P.states
      /\ dict' = [dict EXCEPT ![s] = 0] /\ qlen' = qlen - 1 /\ removed' = removed
  BY StateType DEF QueueInv, TypeOK, Take, Remove, P
<1>1. /\ n \in Live /\ Live' = Live \ {n} /\ fringe' \subseteq fringe
      /\ Cardinality(Live') = Cardinality(Live) - 1
  BY RemoveLive DEF QueueInv, Take
<1>2. \/ pc' = "done" /\ UNCHANGED <<explored, cur, act>>
      \/ /\ cur' = n /\ act' = 0 /\ pc' = "look"
         /\ explored' = IF alg \in GraphSearch THEN explored \cup {s} ELSE explored
  BY DEF Take, Return
<1>3. TypeOK'
  <2>1. IsFiniteSet(fringe')
    BY <1>1, FS_Subset DEF QueueInv, TypeOK
  <2>2. P.actions \in Nat /\ P.actions > 0
    BY Problem DEF QueueInv, TypeOK
  <2>3. explored' \in SUBSET P.states /\ cur'.path \in Seq(P.states) /\ pc' \in Points /\ act' \in Nat /\ act' < P.actions
    BY <1>0, <1>2, <2>2 DEF QueueInv, TypeOK, Points
  <2>4. dict' \in [P.states -> 0..time] /\ qlen' \in Int
    BY <1>0 DEF QueueInv, TypeOK
  <2>. QED BY <1>0, <1>1, <2>1, <2>3, <2>4 DEF QueueInv, TypeOK
<1>4. IdsUnique'
  BY <1>1 DEF QueueInv, IdsUnique
<1>5. QueueExact'
  <2>1. qlen' = Cardinality(Live')
    BY <1>0, <1>1 DEF QueueInv, QueueExact
  <2>2. ASSUME alg \in GraphSearch, NEW m \in Live'
        PROVE  dict'[StateOf(m.path)] = m.id /\ StateOf(m.path) \notin explored'
    <3>1. m \in Live /\ m # n /\ m \in fringe /\ StateOf(m.path) \in P.states
      BY <1>1, StateType DEF QueueInv, TypeOK, Live
    <3>2. StateOf(m.path) # s
      BY <1>1, <2>2, <3>1 DEF QueueInv, QueueExact, IdsUnique
    <3>. QED BY <1>0, <1>2, <2>2, <3>1, <3>2 DEF QueueInv, QueueExact, TypeOK
  <2>3. ASSUME alg \in GraphSearch, NEW t \in P.states, dict'[t] # 0
        PROVE  \E m \in Live' : m.id = dict'[t] /\ StateOf(m.path) = t
    <3>1. t # s /\ dict'[t] = dict[t]
      BY <1>0, <2>3 DEF QueueInv, TypeOK
    <3>2. PICK m \in Live : m.id = dict[t] /\ StateOf(m.path) = t
      BY <2>3, <3>1 DEF QueueInv, QueueExact, InQueue
    <3>. QED BY <1>1, <3>1, <3>2
  <2>4. \A m \in Live' : StateOf(m.path)' = StateOf(m.path)
    BY <1>0 DEF StateOf
  <2>. QED BY <1>0, <2>1, <2>2, <2>3 DEF QueueExact, InQueue, StateOf
<1>. QED BY <1>3, <1>4, <1>5 DEF QueueInv

\* The node of a state that is in the queue.
LEMMA LiveEntry ==
  ASSUME QueueInv, alg \in GraphSearch, NEW s \in P.states, InQueue(s)
  PROVE  \E m \in Live : m.id = dict[s] /\ StateOf(m.path) = s /\ m = Entry(s)
<1>1. PICK m \in Live : m.id = dict[s] /\ StateOf(m.path) = s
  BY DEF QueueInv, QueueExact
<1>2. m \in fringe
  BY DEF Live
<1>3. Entry(s) \in fringe /\ Entry(s).id = dict[s]
  BY <1>1, <1>2 DEF Entry
<1>4. m = Entry(s)
  BY <1>1, <1>2, <1>3 DEF QueueInv, IdsUnique
<1>. QED BY <1>1, <1>4

LEMMA BetterIsQueued == \A n : Better(n) => alg \in GraphSearch /\ InQueue(StateOf(n.path))
BY DEF Better, HigherCost, HigherValue, GraphSearch

LEMMA LookQueue == ASSUME QueueInv, NEW s \in P.states, Look(s) PROVE QueueInv'
<1>. DEFINE child == Node(Append(cur.path, s))
<1>0. /\ prob' = prob /\ alg' = alg /\ time' = time + 1 /\ P' = P /\ explored' = explored /\ cur' = cur
      /\ child.id = time + 1 /\ child.path = Append(cur.path, s)
      /\ \A b : StateOf(b)' = StateOf(b)
  BY DEF Look, P, Node, StateOf
<1>1. StateOf(child.path) = s /\ child.path \in Seq(P.states)
  <2>1. cur.path \in Seq(P.states)
    BY DEF QueueInv, TypeOK
  <2>2. StateOf(Append(cur.path, s)) = s /\ Append(cur.path, s) \in Seq(P.states)
    BY <2>1, StateOfAppend, Zenon
  <2>. QED BY <1>0, <2>2
<1>2. /\ act' \in Nat /\ act' < P.actions /\ pc' \in Points
      /\ \/ UNCHANGED queuevars
         \/ Fresh(s) /\ Add(child)
         \/ ~Fresh(s) /\ Better(child) /\ Replace(child)
  <2>1. P.actions \in Nat /\ P.actions > 0 /\ act \in Nat /\ act < P.actions
    BY Problem DEF QueueInv, TypeOK
  <2>. QED BY <2>1 DEF Look, EndLook, Return, Points
<1>. HIDE DEF child
<1>3. CASE UNCHANGED queuevars
  <2>1. TypeOK'
    <3>1. UNCHANGED <<fringe, removed, dict, qlen>> /\ time \in Nat
      BY <1>3 DEF queuevars, QueueInv, TypeOK
    <3>2. 1..time \subseteq 1..(time + 1) /\ 0..time \subseteq 0..(time + 1)
      BY <3>1
    <3>. QED BY <1>0, <1>2, <3>1, <3>2 DEF QueueInv, TypeOK
  <2>. QED BY <1>0, <1>3, <2>1, SameQueue
<1>4. ASSUME dict' = [dict EXCEPT ![s] = time + 1], qlen' \in Int, removed' \in SUBSET (0..time),
             fringe' = fringe \cup {child}
      PROVE  TypeOK'
  <2>1. time \in Nat /\ 1..time \subseteq 1..(time + 1) /\ 0..time \subseteq 0..(time + 1)
    BY DEF QueueInv, TypeOK
  <2>2. IsFiniteSet(fringe')
    BY <1>4, FS_AddElement DEF QueueInv, TypeOK
  <2>3. dict' \in [P.states -> 0..(time + 1)]
    BY <1>4, <2>1 DEF QueueInv, TypeOK
  <2>4. \A n \in fringe' : n.id \in 1..(time + 1) /\ n.path \in Seq(P.states)
    <3>1. \A n \in fringe : n.id \in 1..time /\ n.path \in Seq(P.states)
      BY DEF QueueInv, TypeOK
    <3>2. child.id \in 1..(time + 1) /\ child.path \in Seq(P.states)
      BY <1>0, <1>1, <2>1
    <3>. QED BY <1>4, <2>1, <3>1, <3>2
  <2>. QED BY <1>0, <1>2, <1>4, <2>1, <2>2, <2>3, <2>4 DEF QueueInv, TypeOK
<1>5. CASE Fresh(s) /\ Add(child)
  <2>1. /\ dict' = [dict EXCEPT ![s] = time + 1] /\ qlen' = qlen + 1 /\ removed' = removed
    BY <1>0, <1>1, <1>5 DEF Add
  <2>2. /\ Live' = Live \cup {child} /\ fringe' = fringe \cup {child}
        /\ Cardinality(Live') = Cardinality(Live) + 1 /\ IdsUnique'
    BY <1>0, <1>5, AddLive DEF QueueInv
  <2>3. TypeOK'
    BY <1>4, <2>1, <2>2 DEF QueueInv, TypeOK
  <2>4. alg \in GraphSearch => dict[s] = 0 /\ s \notin explored
    BY <1>5 DEF Fresh, InQueue
  <2>5. qlen' = Cardinality(Live')
    BY <2>1, <2>2 DEF QueueInv, QueueExact
  <2>6. ASSUME alg \in GraphSearch, NEW m \in Live'
        PROVE  dict'[StateOf(m.path)] = m.id /\ StateOf(m.path) \notin explored
    <3>1. CASE m = child
      BY <1>0, <1>1, <2>1, <2>4, <2>6, <3>1 DEF QueueInv, TypeOK
    <3>2. CASE m \in Live
      <4>1. StateOf(m.path) \in P.states /\ m.id # 0
        BY <3>2, StateType DEF QueueInv, TypeOK, Live
      <4>. QED BY <2>1, <2>4, <2>6, <3>2, <4>1 DEF QueueInv, QueueExact, TypeOK
    <3>. QED BY <2>2, <3>1, <3>2
  <2>7. ASSUME alg \in GraphSearch, NEW t \in P.states, dict'[t] # 0
        PROVE  \E m \in Live' : m.id = dict'[t] /\ StateOf(m.path) = t
    <3>1. CASE t = s
      BY <1>0, <1>1, <2>1, <2>2, <3>1 DEF QueueInv, TypeOK
    <3>2. CASE t # s
      <4>1. dict'[t] = dict[t]
        BY <2>1, <3>2 DEF QueueInv, TypeOK
      <4>2. PICK m \in Live : m.id = dict[t] /\ StateOf(m.path) = t
        BY <2>7, <4>1 DEF QueueInv, QueueExact, InQueue
      <4>. QED BY <2>2, <4>1, <4>2
    <3>. QED BY <3>1, <3>2
  <2>8. QueueExact'
    BY <1>0, <2>5, <2>6, <2>7 DEF QueueExact, InQueue
  <2>. QED BY <2>2, <2>3, <2>8 DEF QueueInv
<1>6. CASE Better(child) /\ Replace(child)
  <2>1. alg \in GraphSearch /\ InQueue(s)
    BY <1>1, <1>6, BetterIsQueued
  <2>2. PICK m \in Live : m.id = dict[s] /\ StateOf(m.path) = s
    BY <2>1, LiveEntry
  <2>3. /\ dict' = [dict EXCEPT ![s] = time + 1] /\ qlen' = qlen - 1 + 1 /\ removed' = removed \cup {dict[s]}
    BY <1>0, <1>1, <1>6 DEF Replace
  <2>4. /\ Live' = (Live \ {m}) \cup {child} /\ fringe' = fringe \cup {child}
        /\ Cardinality(Live') = Cardinality(Live) /\ IdsUnique'
    BY <1>0, <1>1, <1>6, <2>2, ReplaceLive DEF QueueInv
  <2>5. TypeOK'
    <3>1. removed \in SUBSET (0..time) /\ dict[s] \in 0..time /\ qlen \in Int
      BY DEF QueueInv, TypeOK
    <3>2. qlen' \in Int
      BY <2>3, <3>1
    <3>3. removed' \in SUBSET (0..time)
      BY <2>3, <3>1, Zenon
    <3>. QED BY <1>4, <2>3, <2>4, <3>2, <3>3
  <2>6. qlen' = Cardinality(Live')
    BY <2>3, <2>4 DEF QueueInv, QueueExact, TypeOK
  <2>7. s \notin explored
    BY <2>1, <2>2 DEF QueueInv, QueueExact
  <2>8. ASSUME NEW x \in Live'
        PROVE  dict'[StateOf(x.path)] = x.id /\ StateOf(x.path) \notin explored
    <3>1. CASE x = child
      BY <1>0, <1>1, <2>3, <2>7, <3>1 DEF QueueInv, TypeOK
    <3>2. CASE x \in Live /\ x # m
      <4>1. StateOf(x.path) \in P.states /\ x \in fringe /\ m \in fringe
        BY <3>2, StateType DEF QueueInv, TypeOK, Live
      <4>2. StateOf(x.path) # s
        BY <2>1, <2>2, <3>2, <4>1 DEF QueueInv, QueueExact, IdsUnique
      <4>. QED BY <2>1, <2>3, <3>2, <4>1, <4>2 DEF QueueInv, QueueExact, TypeOK
    <3>. QED BY <2>4, <3>1, <3>2
  <2>9. ASSUME NEW t \in P.states, dict'[t] # 0
        PROVE  \E x \in Live' : x.id = dict'[t] /\ StateOf(x.path) = t
    <3>1. CASE t = s
      BY <1>0, <1>1, <2>3, <2>4, <3>1 DEF QueueInv, TypeOK
    <3>2. CASE t # s
      <4>1. dict'[t] = dict[t]
        BY <2>3, <3>2 DEF QueueInv, TypeOK
      <4>2. PICK x \in Live : x.id = dict[t] /\ StateOf(x.path) = t
        BY <2>1, <2>9, <4>1 DEF QueueInv, QueueExact, InQueue
      <4>. QED BY <2>2, <2>4, <3>2, <4>1, <4>2
    <3>. QED BY <3>1, <3>2
  <2>10. QueueExact'
    BY <1>0, <2>6, <2>8, <2>9 DEF QueueExact, InQueue
  <2>. QED BY <2>4, <2>5, <2>10 DEF QueueInv
<1>. QED BY <1>2, <1>3, <1>5, <1>6

LEMMA QueueStep == QueueInv /\ [Next]_vars => QueueInv'
<1>. SUFFICES ASSUME QueueInv, [Next]_vars PROVE QueueInv'
  OBVIOUS
<1>1. CASE UNCHANGED vars
  <2>1. UNCHANGED <<prob, alg, pc, queuevars, explored, cur, act, time>>
    BY <1>1 DEF vars
  <2>2. TypeOK'
    BY <2>1 DEF QueueInv, TypeOK, queuevars, P
  <2>. QED BY <2>1, <2>2, SameQueue
<1>. QED BY <1>1, GiveUpQueue, DeepQueue, TakeQueue, LookQueue DEF Next

LEMMA QueueInvHolds == Spec => []QueueInv
BY QueueInit, QueueStep, PTL DEF Spec

\* The queue of every search agrees with itself, whatever nodes are replaced and in
\* whatever order equal values come out: its length counts the live nodes, the
\* dictionary has the live node of each state, and no state is expanded twice, for any
\* problem (NodeQueue and PriorityQueue, ai_lab_functions.py).
THEOREM QueueCorrect == Spec => []QueueExact
<1>1. QueueInv => QueueExact
  BY DEF QueueInv
<1>. QED BY <1>1, QueueInvHolds, PTL

-----------------------------------------------------------------------------
(* The answers are right.  Ordered says in which order the queue gives its *)
(* nodes.  Three invariants say where a way to the goal, of those there    *)
(* are, continues: TreeInv and GraphInv in the queue of a tree or a graph  *)
(* search, DeepInv in the frames of iterative deepening.  Together they    *)
(* give Answered, and from it the answer.  Facts about paths are shown at  *)
(* a least counterexample.                                                 *)

\* Where the actions lead from a state.
Succ(s) == UNION {Sample(P, s, a) : a \in 0..P.actions - 1}
Prefix(p, b) == Len(p) <= Len(b) /\ \A i \in 1..Len(p) : p[i] = b[i]
\* The state of a path after its first i steps.
At(b, i) == IF i = 0 THEN P.start ELSE b[i]

Walks == {b \in Seq(P.states) : Walk(b)}
Routes == {b \in Walks : StateOf(b) = P.goal}

-----------------------------------------------------------------------------
\* Walks.

\* A set of numbers that is not empty has a least one.
LEMMA LeastNumber ==
  ASSUME NEW T \in SUBSET Nat, T # {}
  PROVE  \E n \in T : \A m \in T : n <= m
<1>1. IsWellFoundedOn(OpToRel(<, Nat), Nat)
  BY NatLessThanWellFounded
<1>2. PICK n \in T : \A m \in T : ~(<<m, n>> \in OpToRel(<, Nat))
  BY <1>1, WFMin
<1>3. \A m \in T : m < n => <<m, n>> \in OpToRel(<, Nat)
  BY DEF OpToRel
<1>4. \A m \in T : ~(m < n)
  BY <1>2, <1>3
<1>. QED BY <1>4

LEMMA SuccType == ASSUME prob \in DOMAIN Problems, NEW s \in P.states PROVE Succ(s) \in SUBSET P.states
BY SampleType DEF Succ

LEMMA StateOfAt == ASSUME NEW b \in Seq(P.states) PROVE StateOf(b) = At(b, Len(b))
BY DEF StateOf, At

LEMMA AtType ==
  ASSUME prob \in DOMAIN Problems, NEW b \in Seq(P.states), NEW i \in 0..Len(b)
  PROVE  At(b, i) \in P.states
BY Problem DEF At

LEMMA FrontOf ==
  ASSUME NEW S, NEW b \in Seq(S), NEW i \in 0..Len(b)
  PROVE  /\ SubSeq(b, 1, i) \in Seq(S) /\ Len(SubSeq(b, 1, i)) = i
         /\ \A j \in 1..i : SubSeq(b, 1, i)[j] = b[j]
<1>1. i \in Int /\ 1 \in Int /\ \A j \in 1..i : b[j] \in S
  OBVIOUS
<1>2. /\ SubSeq(b, 1, i) \in Seq(S)
      /\ Len(SubSeq(b, 1, i)) = IF 1 <= i THEN i - 1 + 1 ELSE 0
      /\ \A j \in 1..i - 1 + 1 : SubSeq(b, 1, i)[j] = b[1 + j - 1]
  BY <1>1, SubSeqProperties
<1>. QED BY <1>2

LEMMA AtSubSeq ==
  ASSUME NEW b \in Seq(P.states), NEW i \in 0..Len(b)
  PROVE  StateOf(SubSeq(b, 1, i)) = At(b, i)
<1>1. CASE i = 0
  <2>1. SubSeq(b, 1, i) = <<>>
    BY <1>1
  <2>. QED BY <1>1, <2>1 DEF StateOf, At
<1>2. CASE i > 0
  <2>1. SubSeq(b, 1, i) \in Seq(P.states) /\ Len(SubSeq(b, 1, i)) = i /\ SubSeq(b, 1, i)[i] = b[i]
    <3>1. i \in 1..i /\ i \in 0..Len(b)
      BY <1>2
    <3>. QED BY <3>1, FrontOf
  <2>2. SubSeq(b, 1, i) # <<>>
    BY <1>2, <2>1
  <2>. QED BY <1>2, <2>1, <2>2 DEF StateOf, At
<1>. QED BY <1>1, <1>2

\* A walk, step by step.
LEMMA WalkSteps ==
  ASSUME NEW b \in Seq(P.states)
  PROVE  Walk(b) <=> \A i \in 1..Len(b) : b[i] \in Succ(At(b, i - 1))
<1>1. DOMAIN b = 1..Len(b)
  OBVIOUS
<1>2. ASSUME NEW i \in 1..Len(b)
      PROVE  (\E a \in 0..P.actions - 1 : b[i] \in Sample(P, StateOf(SubSeq(b, 1, i - 1)), a))
               <=> b[i] \in Succ(At(b, i - 1))
  <2>1. i - 1 \in 0..Len(b)
    OBVIOUS
  <2>2. StateOf(SubSeq(b, 1, i - 1)) = At(b, i - 1)
    BY <2>1, AtSubSeq
  <2>. QED BY <2>2 DEF Succ
<1>. QED BY <1>1, <1>2 DEF Walk

LEMMA WalkEmpty == Walk(<<>>)
BY DEF Walk

LEMMA WalkAppend ==
  ASSUME NEW b \in Seq(P.states), NEW t \in P.states
  PROVE  Walk(Append(b, t)) <=> Walk(b) /\ t \in Succ(StateOf(b))
<1>. DEFINE r == Append(b, t)
<1>1. r \in Seq(P.states) /\ Len(r) = Len(b) + 1 /\ Len(b) \in Nat
  OBVIOUS
<1>2. r[Len(b) + 1] = t /\ \A i \in 1..Len(b) : r[i] = b[i]
  OBVIOUS
<1>3. \A i \in 0..Len(b) : At(r, i) = At(b, i)
  BY <1>2 DEF At
<1>4. At(r, Len(b)) = StateOf(b)
  BY <1>1, <1>3, StateOfAt
<1>5. Walk(r) <=> \A i \in 1..Len(b) + 1 : r[i] \in Succ(At(r, i - 1))
  BY <1>1, WalkSteps
<1>6. \A i \in 1..Len(b) : r[i] \in Succ(At(r, i - 1)) <=> b[i] \in Succ(At(b, i - 1))
  <2>. TAKE i \in 1..Len(b)
  <2>1. i - 1 \in 0..Len(b)
    OBVIOUS
  <2>. QED BY <1>2, <1>3, <2>1
<1>7. r[Len(b) + 1] \in Succ(At(r, Len(b) + 1 - 1)) <=> t \in Succ(StateOf(b))
  BY <1>1, <1>2, <1>4
<1>8. 1..Len(b) + 1 = 1..Len(b) \cup {Len(b) + 1}
  BY <1>1
<1>. HIDE DEF r
<1>9. Walk(r) <=> (\A i \in 1..Len(b) : r[i] \in Succ(At(r, i - 1))) /\ t \in Succ(StateOf(b))
  BY <1>5, <1>7, <1>8
<1>. QED BY <1>6, <1>9, WalkSteps DEF r

\* The part of a walk before its last step, or any part.
LEMMA WalkFront ==
  ASSUME NEW b \in Seq(P.states), Walk(b), NEW i \in 0..Len(b)
  PROVE  /\ SubSeq(b, 1, i) \in Walks /\ Len(SubSeq(b, 1, i)) = i
         /\ \A j \in 0..i : At(SubSeq(b, 1, i), j) = At(b, j)
<1>. DEFINE r == SubSeq(b, 1, i)
<1>1. r \in Seq(P.states) /\ Len(r) = i /\ \A j \in 1..i : r[j] = b[j]
  BY FrontOf
<1>2. \A j \in 0..i : At(r, j) = At(b, j)
  BY <1>1 DEF At
<1>3. \A j \in 1..i : r[j] \in Succ(At(r, j - 1))
  <2>. TAKE j \in 1..i
  <2>1. j \in 1..Len(b) /\ j - 1 \in 0..i
    OBVIOUS
  <2>. QED BY <1>1, <1>2, <2>1, WalkSteps
<1>. HIDE DEF r
<1>4. Walk(r)
  BY <1>1, <1>3, WalkSteps
<1>. QED BY <1>1, <1>2, <1>4 DEF r, Walks

-----------------------------------------------------------------------------
\* Prefixes.

LEMMA PrefixState ==
  ASSUME NEW p \in Seq(P.states), NEW b \in Seq(P.states), Prefix(p, b)
  PROVE  StateOf(p) = At(b, Len(p)) /\ (Len(p) = Len(b) => StateOf(p) = StateOf(b))
BY StateOfAt DEF Prefix, At

\* A prefix that is not all of a walk goes on.
LEMMA PrefixNext ==
  ASSUME NEW p \in Seq(P.states), NEW b \in Walks, Prefix(p, b), StateOf(p) # StateOf(b)
  PROVE  /\ Len(p) < Len(b)
         /\ \E t \in P.states : t \in Succ(StateOf(p)) /\ Prefix(Append(p, t), b)
<1>. USE DEF Walks
<1>1. Len(p) < Len(b) /\ Len(p) \in Nat /\ Len(b) \in Nat
  BY PrefixState DEF Prefix
<1>. DEFINE t == b[Len(p) + 1]
<1>2. Len(p) + 1 \in 1..Len(b)
  BY <1>1
<1>3. t \in P.states
  BY <1>2
<1>4. t \in Succ(At(b, Len(p) + 1 - 1))
  BY <1>2, WalkSteps
<1>5. t \in Succ(StateOf(p))
  BY <1>1, <1>4, PrefixState
<1>6. Prefix(Append(p, t), b)
  BY <1>1 DEF Prefix
<1>. QED BY <1>1, <1>3, <1>5, <1>6

LEMMA PrefixEmpty == \A b \in Seq(P.states) : Prefix(<<>>, b)
BY DEF Prefix
-----------------------------------------------------------------------------
\* Distances.

\* The states where walks of at most n steps end.
EndsWithin == [n \in Nat |-> {StateOf(b) : b \in {w \in Walks : Len(w) <= n}}]

Grow(Q, near) == near \cup UNION {Sample(Q, s, a) : s \in near, a \in 0..Q.actions - 1}
Nearer(W, Q) ==
  [n \in Nat |-> IF n = 0 THEN {Q.start}
                 ELSE Grow(Q, W[n - 1])]

LEMMA WithinChoice == \A Q : WithinOf(Q) = CHOOSE W : W = Nearer(W, Q)
BY DEF WithinOf, Nearer, Grow

LEMMA NearerAt ==
  ASSUME NEW W, NEW Q, NEW n \in Nat
  PROVE  Nearer(W, Q)[n] = IF n = 0 THEN {Q.start}
                           ELSE Grow(Q, W[n - 1])
BY DEF Nearer

LEMMA EndsNearer == ASSUME prob \in DOMAIN Problems PROVE EndsWithin = Nearer(EndsWithin, P)
<1>. DEFINE E == EndsWithin
<1>1. ASSUME NEW n \in Nat, n # 0
      PROVE  E[n] = Grow(P, E[n - 1])
  <2>1. n - 1 \in Nat
    BY <1>1
  <2>2. \A s : s \in E[n - 1] <=> \E b \in Walks : Len(b) <= n - 1 /\ s = StateOf(b)
    BY <2>1 DEF EndsWithin
  <2>3. \A s : s \in E[n] <=> \E b \in Walks : Len(b) <= n /\ s = StateOf(b)
    BY DEF EndsWithin
  <2>4. ASSUME NEW t \in E[n]
        PROVE  t \in E[n - 1] \/ \E s \in E[n - 1] : t \in Succ(s)
    <3>1. PICK b \in Walks : Len(b) <= n /\ t = StateOf(b)
      BY <2>3, <2>4
    <3>2. b \in Seq(P.states) /\ Walk(b) /\ Len(b) \in Nat
      BY DEF Walks
    <3>3. CASE Len(b) <= n - 1
      BY <2>2, <3>1, <3>3
    <3>4. CASE Len(b) = n
      <4>. DEFINE r == SubSeq(b, 1, n - 1)
      <4>1. n - 1 \in 0..Len(b) /\ n \in 1..Len(b)
        BY <1>1, <3>4
      <4>2. r \in Walks /\ Len(r) = n - 1 /\ StateOf(r) = At(b, n - 1)
        BY <3>2, <4>1, WalkFront, AtSubSeq
      <4>3. t = b[n] /\ b[n] \in Succ(At(b, n - 1))
        BY <3>1, <3>2, <3>4, <4>1, WalkSteps, StateOfAt, <1>1 DEF At
      <4>. HIDE DEF r
      <4>. QED BY <2>1, <2>2, <4>2, <4>3
    <3>. QED BY <3>1, <3>2, <3>3, <3>4
  <2>5. ASSUME NEW t \in E[n - 1]
        PROVE  t \in E[n]
    <3>1. PICK b \in Walks : Len(b) <= n - 1 /\ t = StateOf(b)
      BY <2>2, <2>5
    <3>2. Len(b) \in Nat
      BY DEF Walks
    <3>3. Len(b) <= n
      BY <3>1, <3>2
    <3>. QED BY <2>3, <3>1, <3>3, Zenon
  <2>6. ASSUME NEW s \in E[n - 1], NEW t \in Succ(s)
        PROVE  t \in E[n]
    <3>1. PICK b \in Walks : Len(b) <= n - 1 /\ s = StateOf(b)
      BY <2>2
    <3>2. b \in Seq(P.states) /\ Walk(b) /\ Len(b) \in Nat
      BY DEF Walks
    <3>3. t \in P.states
      BY <3>1, <3>2, StateType, SuccType
    <3>4. Append(b, t) \in Seq(P.states) /\ Walk(Append(b, t)) /\ Len(Append(b, t)) = Len(b) + 1
      BY <3>1, <3>2, <3>3, WalkAppend
    <3>5. StateOf(Append(b, t)) = t
      BY <3>2, <3>3, StateOfAppend, Zenon
    <3>6. Append(b, t) \in Walks /\ Len(Append(b, t)) <= n
      BY <3>1, <3>2, <3>4 DEF Walks
    <3>. QED BY <2>3, <3>5, <3>6, Zenon
  <2>. HIDE DEF E
  <2>7. \A t : t \in UNION {Sample(P, s, a) : s \in E[n - 1], a \in 0..P.actions - 1} <=> \E s \in E[n - 1] : t \in Succ(s)
    BY DEF Succ
  <2>. QED BY <2>4, <2>5, <2>6, <2>7 DEF Grow
<1>2. E[0] = {P.start}
  <2>1. \A b \in Walks : Len(b) <= 0 <=> b = <<>>
    BY DEF Walks
  <2>2. <<>> \in Walks /\ StateOf(<<>>) = P.start
    BY WalkEmpty DEF Walks, StateOf
  <2>. QED BY <2>1, <2>2 DEF EndsWithin
<1>3. \A n \in Nat : E[n] = Nearer(E, P)[n]
  <2>. HIDE DEF E
  <2>. TAKE n \in Nat
  <2>1. CASE n = 0
    BY <1>2, <2>1, NearerAt
  <2>2. CASE n # 0
    BY <1>1, <2>2, NearerAt
  <2>. QED BY <2>1, <2>2
<1>4. E = [n \in Nat |-> E[n]]
  BY DEF EndsWithin
<1>5. Nearer(E, P) = [n \in Nat |-> Nearer(E, P)[n]]
  BY DEF Nearer
<1>. HIDE DEF E
<1>6. E = Nearer(E, P)
  BY <1>3, <1>4, <1>5
<1>. QED BY <1>6 DEF E

\* Where two functions that grow in the same way differ, they differ one step before.
LEMMA WithinIsEnds == ASSUME prob \in DOMAIN Problems PROVE WithinOf(P) = EndsWithin
<1>. DEFINE W == WithinOf(P)  E == EndsWithin
<1>1. W = Nearer(W, P)
  BY WithinChoice, EndsNearer
<1>2. E = Nearer(E, P)
  BY EndsNearer
<1>. HIDE DEF W, E
<1>3. /\ \A n \in Nat : W[n] = IF n = 0 THEN {P.start} ELSE Grow(P, W[n - 1])
      /\ \A n \in Nat : E[n] = IF n = 0 THEN {P.start} ELSE Grow(P, E[n - 1])
  BY <1>1, <1>2 DEF Nearer
<1>. DEFINE T == {n \in Nat : W[n] # E[n]}
<1>4. SUFFICES ASSUME T # {} PROVE FALSE
  <2>1. W = [n \in Nat |-> W[n]] /\ E = [n \in Nat |-> E[n]]
    BY <1>1, <1>2 DEF Nearer
  <2>2. T = {} => \A n \in Nat : W[n] = E[n]
    OBVIOUS
  <2>3. T = {} => W = E
    BY <2>1, <2>2
  <2>. QED BY <2>3 DEF W, E
<1>5. PICK n \in T : \A m \in T : n <= m
  <2>1. T \in SUBSET Nat
    OBVIOUS
  <2>. HIDE DEF T
  <2>. QED BY <1>4, <2>1, LeastNumber
<1>6. n # 0
  BY <1>3, <1>5
<1>7. n - 1 \in Nat /\ ~(n <= n - 1)
  BY <1>5, <1>6
<1>8. W[n - 1] = E[n - 1]
  BY <1>5, <1>7
<1>9. W[n] = E[n]
  BY <1>3, <1>5, <1>6, <1>8
<1>. QED BY <1>5, <1>9

\* The distance of the goal is the length of a shortest way to it.
LEMMA DistanceOf ==
  ASSUME prob \in DOMAIN Problems
  PROVE  /\ Routes = {} => ~Reachable
         /\ Reachable => Routes # {}
         /\ \A r \in Routes : (\A b \in Routes : Len(r) <= Len(b)) /\ Reachable => Len(r) = Distances[prob]
<1>. DEFINE C == Cardinality(P.states)
            Near == {n \in 0..C : P.goal \in EndsWithin[n]}
<1>1. C \in Nat
  BY SearchAssumption, FS_CardinalityType DEF ProblemType, P
<1>2. Distances[prob] = IF Near = {} THEN -1 ELSE CHOOSE n \in Near : \A m \in Near : n <= m
  BY WithinIsEnds DEF Distances, P
<1>. HIDE DEF C
<1>3. \A n \in Near : \E b \in Routes : Len(b) <= n
  BY <1>1 DEF EndsWithin, Routes
<1>4. \A b \in Routes : Len(b) <= C => Len(b) \in Near
  <2>. TAKE b \in Routes
  <2>1. b \in Walks /\ StateOf(b) = P.goal /\ Len(b) \in Nat
    BY DEF Routes, Walks
  <2>2. P.goal \in EndsWithin[Len(b)]
    BY <2>1 DEF EndsWithin
  <2>. QED BY <1>1, <2>1, <2>2
<1>5. Near # {} => \E n \in Near : \A m \in Near : n <= m
  <2>1. Near \in SUBSET Nat
    BY <1>1
  <2>. HIDE DEF Near
  <2>. QED BY <2>1, LeastNumber
<1>6. Near \subseteq Nat /\ \A n \in Near : n <= C
  BY <1>1
<1>. HIDE DEF Near
<1>7. /\ Reachable <=> Near # {}
      /\ Near # {} => Distances[prob] \in Near /\ \A m \in Near : Distances[prob] <= m
  <2>1. Near # {} => Distances[prob] \in Near /\ \A m \in Near : Distances[prob] <= m
    BY <1>2, <1>5
  <2>2. -1 \notin Near
    BY <1>6
  <2>3. Near = {} => Distances[prob] = -1
    BY <1>2
  <2>. QED BY <2>1, <2>2, <2>3 DEF Reachable
<1>8. ASSUME NEW r \in Routes, \A b \in Routes : Len(r) <= Len(b), Reachable
      PROVE  Len(r) = Distances[prob]
  <2>. DEFINE D == Distances[prob]
  <2>1. D \in Near /\ \A m \in Near : D <= m
    BY <1>7, <1>8
  <2>. HIDE DEF D
  <2>2. PICK b \in Routes : Len(b) <= D
    BY <1>3, <2>1
  <2>3. Len(r) \in Nat /\ Len(b) \in Nat
    BY DEF Routes, Walks
  <2>4. Len(r) <= D
    BY <1>6, <1>8, <2>1, <2>2, <2>3
  <2>5. Len(r) \in Near
    BY <1>1, <1>4, <1>6, <2>1, <2>3, <2>4
  <2>6. D <= Len(r)
    BY <2>1, <2>5
  <2>7. D \in Nat
    BY <1>6, <2>1
  <2>8. Len(r) = D
    BY <2>3, <2>4, <2>6, <2>7
  <2>. QED BY <2>8 DEF D
<1>. QED BY <1>3, <1>7, <1>8
-----------------------------------------------------------------------------
\* What the two steps of a search with a queue change.

FrameType == [state : P.states, act : 0..P.actions, cut : BOOLEAN]

\* The stack holds a walk: each state is next to the one below it.
FramesOK(frames) ==
  /\ frames \in Seq(FrameType)
  /\ Len(frames) <= limit
  /\ frames # <<>> => frames[1].state = P.start
  /\ \A i \in 1..Len(frames) - 1 : frames[i + 1].state \in Succ(frames[i].state)

Sound ==
  /\ QueueInv
  /\ pc # "done" => result = Other("running")
  /\ alg \in Queued => pc # "deep"
  /\ alg \in Deepening => pc \in {"deep", "done"}
  /\ cur.path \in Walks
  /\ \A n \in fringe : n.path \in Walks
  /\ limit \in Nat /\ FramesOK(stack)
  /\ result.kind = "path" => result.path \in Walks /\ (alg \notin BFS => StateOf(result.path) = P.goal)

\* Nothing about the problem changes.
LEMMA SameProblem ==
  ASSUME UNCHANGED prob
  PROVE  /\ P' = P /\ Walks' = Walks /\ Routes' = Routes /\ FrameType' = FrameType
         /\ \A b : StateOf(b)' = StateOf(b)
         /\ \A s : Succ(s)' = Succ(s)
<1>1. P' = P
  BY DEF P
<1>2. \A b : StateOf(b)' = StateOf(b)
  BY <1>1 DEF StateOf
<1>3. \A b : Walk(b)' <=> Walk(b)
  BY <1>1, <1>2 DEF Walk, Sample
<1>4. Walks' = Walks
  BY <1>1, <1>3 DEF Walks
<1>5. Routes' = Routes
  BY <1>1, <1>2, <1>4 DEF Routes
<1>6. \A s : Succ(s)' = Succ(s)
  BY <1>1 DEF Succ
<1>7. FrameType' = FrameType
  BY <1>1 DEF FrameType
<1>. QED BY <1>1, <1>2, <1>4, <1>5, <1>6, <1>7

LEMMA TakeEffect ==
  ASSUME QueueInv, NEW n \in fringe, Take(n)
  PROVE  /\ UNCHANGED <<prob, alg, stack, limit, time>>
         /\ pc = "loop" /\ n \in Live /\ Live' = Live \ {n} /\ fringe' \subseteq fringe
         /\ \A x \in Live : ~Before(x, n)
         /\ \/ /\ alg \notin BFS /\ StateOf(n.path) = P.goal
               /\ pc' = "done" /\ result' = Found(n.path) /\ UNCHANGED <<explored, cur, act>>
            \/ /\ alg \in BFS \/ StateOf(n.path) # P.goal
               /\ cur' = n /\ act' = 0 /\ pc' = "look" /\ result' = result
               /\ explored' = IF alg \in GraphSearch THEN explored \cup {StateOf(n.path)} ELSE explored
<1>1. n \in Live /\ Live' = Live \ {n} /\ fringe' \subseteq fringe
  BY RemoveLive DEF QueueInv, Take
<1>. QED BY <1>1 DEF Take, Remove, Return

\* The loop over the actions goes on or starts again.
Goes == /\ result' = result
        /\ \/ act + 1 < P.actions /\ act' = act + 1 /\ pc' = "look"
           \/ act + 1 = P.actions /\ act' = 0 /\ pc' = "loop"

LEMMA LookEffect ==
  ASSUME QueueInv, NEW s \in P.states, Look(s), NEW child, child = Node(Append(cur.path, s))
  PROVE  /\ UNCHANGED <<prob, alg, explored, cur, stack, limit>>
         /\ pc = "look" /\ s \in Sample(P, StateOf(cur.path), act)
         /\ child.path = Append(cur.path, s) /\ child.path \in Seq(P.states) /\ StateOf(child.path) = s
         /\ Len(child.path) = Len(cur.path) + 1 /\ child.value = Value(child.path)
         /\ child.id = time + 1 /\ \A x \in fringe : x.id < child.id
         /\ \/ /\ Fresh(s) /\ alg \in BFS /\ s = P.goal
               /\ pc' = "done" /\ result' = Found(child.path) /\ Live' = Live /\ fringe' = fringe
            \/ /\ Fresh(s) /\ ~(alg \in BFS /\ s = P.goal) /\ Goes
               /\ Live' = Live \cup {child} /\ fringe' = fringe \cup {child}
            \/ /\ ~Fresh(s) /\ Better(child) /\ Goes /\ fringe' = fringe \cup {child}
               /\ \E m \in Live : m = Entry(s) /\ StateOf(m.path) = s /\ Live' = (Live \ {m}) \cup {child}
            \/ ~Fresh(s) /\ ~Better(child) /\ Goes /\ Live' = Live /\ fringe' = fringe
<1>1. cur.path \in Seq(P.states) /\ time \in Nat /\ act \in Nat /\ P.actions \in Nat /\ act < P.actions
  BY Problem DEF QueueInv, TypeOK
<1>2. /\ child.path = Append(cur.path, s) /\ child.value = Value(child.path) /\ child.id = time + 1
      /\ Len(child.path) = Len(cur.path) + 1
  BY <1>1 DEF Node
<1>3. StateOf(Append(cur.path, s)) = s /\ Append(cur.path, s) \in Seq(P.states)
  BY <1>1, StateOfAppend, Zenon
<1>4. \A x \in fringe : x.id < child.id
  BY <1>1, <1>2 DEF QueueInv, TypeOK
<1>5. pc = "look" /\ EndLook /\ UNCHANGED result => Goes
  BY <1>1 DEF EndLook, Goes
<1>6. UNCHANGED queuevars => Live' = Live /\ fringe' = fringe
  BY DEF queuevars, Live
<1>7. Add(child) => Live' = Live \cup {child} /\ fringe' = fringe \cup {child}
  BY <1>2, AddLive DEF QueueInv
<1>8. ASSUME Better(child), Replace(child)
      PROVE  /\ fringe' = fringe \cup {child}
             /\ \E m \in Live : m = Entry(s) /\ StateOf(m.path) = s /\ Live' = (Live \ {m}) \cup {child}
  <2>1. alg \in GraphSearch /\ InQueue(s)
    BY <1>2, <1>3, <1>8, BetterIsQueued
  <2>2. PICK m \in Live : m.id = dict[s] /\ StateOf(m.path) = s /\ m = Entry(s)
    BY <2>1, LiveEntry
  <2>3. Live' = (Live \ {m}) \cup {child} /\ fringe' = fringe \cup {child}
    BY <1>2, <1>3, <1>8, <2>2, ReplaceLive DEF QueueInv
  <2>. QED BY <2>2, <2>3
<1>9. /\ UNCHANGED <<prob, alg, explored, cur, stack, limit>>
      /\ pc = "look" /\ s \in Sample(P, StateOf(cur.path), act)
  BY DEF Look
<1>10. \/ Fresh(s) /\ alg \in BFS /\ s = P.goal /\ Return(Found(child.path)) /\ UNCHANGED queuevars
       \/ Fresh(s) /\ ~(alg \in BFS /\ s = P.goal) /\ Add(child) /\ EndLook /\ UNCHANGED result
       \/ ~Fresh(s) /\ Better(child) /\ Replace(child) /\ EndLook /\ UNCHANGED result
       \/ ~Fresh(s) /\ ~Better(child) /\ UNCHANGED queuevars /\ EndLook /\ UNCHANGED result
  BY DEF Look
<1>11. Return(Found(child.path)) => pc' = "done" /\ result' = Found(child.path)
  BY DEF Return
<1>. QED BY <1>2, <1>3, <1>4, <1>5, <1>6, <1>7, <1>8, <1>9, <1>10, <1>11

-----------------------------------------------------------------------------
\* Paths are walks.

LEMMA SoundInit == Init => Sound
<1>. SUFFICES ASSUME Init PROVE Sound
  OBVIOUS
<1>1. QueueInv /\ prob \in DOMAIN Problems
  BY QueueInit DEF Init
<1>2. <<>> \in Walks
  BY WalkEmpty DEF Walks
<1>3. /\ cur = Root /\ stack = <<>> /\ \A n \in fringe : n = Root
      /\ limit = IF alg = "dls" THEN Limit ELSE 0
      /\ \/ alg \in BFS /\ P.start = P.goal /\ pc = "done" /\ result = Found(<<>>)
         \/ pc = (IF alg \in Queued THEN "loop" ELSE "deep") /\ result = Other("running")
  BY DEF Init
<1>4. limit \in Nat /\ FramesOK(stack)
  BY <1>3, SearchAssumption DEF FramesOK
<1>5. result.kind = "path" => result.path \in Walks /\ (alg \notin BFS => StateOf(result.path) = P.goal)
  BY <1>2, <1>3 DEF Found, Other
<1>6. /\ alg \in Queued => pc # "deep"
      /\ alg \in Deepening => pc \in {"deep", "done"}
      /\ pc # "done" => result = Other("running")
  BY <1>3, Algorithms DEF Queued, Deepening, BFS
<1>. QED BY <1>1, <1>2, <1>3, <1>4, <1>5, <1>6 DEF Sound, Root

LEMMA GiveUpSound == ASSUME Sound, GiveUp PROVE Sound'
<1>1. QueueInv'
  BY GiveUpQueue DEF Sound
<1>2. UNCHANGED <<prob, alg, fringe, cur, stack, limit>> /\ pc = "loop" /\ pc' = "done"
  BY DEF GiveUp, Return, queuevars
<1>3. result' \in {Other("time-out"), Other("None")} \/ (alg \in BFS /\ result' = Found(cur.path))
  BY DEF GiveUp, Return
<1>4. result'.kind = "path" => result'.path \in Walks /\ alg \in BFS
  BY <1>3 DEF Sound, Found, Other
<1>. QED BY <1>1, <1>2, <1>4, SameProblem DEF Sound, FramesOK

LEMMA TakeSound == ASSUME Sound, NEW n \in fringe, Take(n) PROVE Sound'
<1>1. QueueInv'
  BY TakeQueue DEF Sound
<1>2. n.path \in Walks /\ pc = "loop"
  BY DEF Sound, Take
<1>3. UNCHANGED <<prob, alg, stack, limit>> /\ fringe' \subseteq fringe /\ cur' \in {cur, n}
  BY TakeEffect DEF Sound
<1>4. \/ pc' = "done" /\ result' = Found(n.path) /\ StateOf(n.path) = P.goal
      \/ pc' = "look" /\ result' = result
  BY TakeEffect DEF Sound
<1>5. result'.kind = "path" => result'.path \in Walks /\ (alg \notin BFS => StateOf(result'.path) = P.goal)
  BY <1>2, <1>4 DEF Found, Sound
<1>6. cur'.path \in Walks /\ \A m \in fringe' : m.path \in Walks
  BY <1>2, <1>3 DEF Sound
<1>7. alg \notin Deepening
  BY <1>2 DEF Sound
<1>. QED BY <1>1, <1>2, <1>3, <1>4, <1>5, <1>6, <1>7, SameProblem DEF Sound, FramesOK

LEMMA LookSound == ASSUME Sound, NEW s \in P.states, Look(s) PROVE Sound'
<1>. DEFINE child == Node(Append(cur.path, s))
<1>1. QueueInv'
  BY LookQueue DEF Sound
<1>2. child.path = Append(cur.path, s) /\ child.path \in Seq(P.states)
  BY LookEffect DEF Sound
<1>3. s \in Succ(StateOf(cur.path))
  <2>1. act \in 0..P.actions - 1
    BY Problem DEF Sound, QueueInv, TypeOK
  <2>. QED BY <2>1 DEF Look, Succ
<1>4. child.path \in Walks
  BY <1>2, <1>3, WalkAppend DEF Sound, Walks
<1>5. UNCHANGED <<prob, alg, cur, stack, limit>> /\ pc = "look" /\ fringe' \subseteq fringe \cup {child}
  BY LookEffect DEF Sound
<1>6. \/ pc' = "done" /\ result' = Found(child.path) /\ alg \in BFS
      \/ pc' \in {"look", "loop"} /\ result' = result
  BY LookEffect DEF Sound, Goes
<1>. HIDE DEF child
<1>7. result'.kind = "path" => result'.path \in Walks /\ (alg \notin BFS => StateOf(result'.path) = P.goal)
  BY <1>4, <1>6 DEF Found, Sound
<1>. QED BY <1>1, <1>4, <1>5, <1>6, <1>7, SameProblem DEF Sound, FramesOK

LEMMA PathToWalk ==
  ASSUME Sound, stack # <<>>, NEW s \in Succ(Top.state)
  PROVE  PathTo(s) \in Walks /\ StateOf(PathTo(s)) = s /\ Len(PathTo(s)) = Len(stack)
<1>. DEFINE n == Len(stack)  b == PathTo(s)
<1>1. /\ prob \in DOMAIN Problems /\ n \in Nat /\ n > 0
      /\ \A i \in 1..n : stack[i].state \in P.states
      /\ \A i \in 1..n - 1 : stack[i + 1].state \in Succ(stack[i].state)
      /\ stack[1].state = P.start
  <2>1. stack \in Seq(FrameType)
    BY DEF Sound, FramesOK
  <2>2. \A i \in 1..n : stack[i] \in FrameType
    BY <2>1, ElementOfSeq
  <2>3. prob \in DOMAIN Problems /\ n \in Nat /\ n > 0
    BY <2>1 DEF Sound, QueueInv, TypeOK
  <2>4. \A i \in 1..n : stack[i].state \in P.states
    BY <2>2 DEF FrameType
  <2>. QED BY <2>3, <2>4 DEF Sound, FramesOK
<1>2. s \in P.states
  BY <1>1, SuccType DEF Top
<1>. HIDE DEF n
<1>3. b = [i \in 1..n |-> IF i < n THEN stack[i + 1].state ELSE s]
  BY DEF PathTo, n
<1>4. \A i \in 1..n : b[i] = IF i < n THEN stack[i + 1].state ELSE s
  BY <1>3
<1>5. \A i \in 1..n : b[i] \in P.states
  <2>. TAKE i \in 1..n
  <2>1. i < n => i + 1 \in 1..n
    BY <1>1
  <2>. QED BY <1>1, <1>2, <1>4, <2>1
<1>6. b \in Seq(P.states) /\ Len(b) = n
  <2>1. b = [i \in 1..n |-> b[i]]
    BY <1>3
  <2>. HIDE DEF b
  <2>2. b \in [1..n -> P.states]
    BY <1>5, <2>1
  <2>. QED BY <1>1, <2>2
<1>7. b[n] = s /\ \A i \in 1..n - 1 : b[i] = stack[i + 1].state
  BY <1>1, <1>4
<1>. HIDE DEF b
<1>8. \A i \in 1..n : At(b, i - 1) = stack[i].state
  <2>. TAKE i \in 1..n
  <2>1. CASE i = 1
    BY <1>1, <2>1 DEF At
  <2>2. CASE i > 1
    <3>1. i - 1 \in 1..n - 1 /\ i - 1 # 0 /\ i - 1 + 1 = i
      BY <1>1, <2>2
    <3>2. b[i - 1] = stack[i - 1 + 1].state
      BY <1>7, <3>1
    <3>. QED BY <3>1, <3>2 DEF At
  <2>. QED BY <2>1, <2>2
<1>9. \A i \in 1..n : b[i] \in Succ(At(b, i - 1))
  <2>. TAKE i \in 1..n
  <2>1. CASE i = n
    BY <1>1, <1>7, <1>8, <2>1 DEF Top, n
  <2>2. CASE i < n
    <3>1. i \in 1..n - 1
      BY <1>1, <2>2
    <3>. QED BY <1>1, <1>7, <1>8, <3>1
  <2>. QED BY <1>1, <2>1, <2>2
<1>10. Walk(b)
  BY <1>6, <1>9, WalkSteps
<1>11. StateOf(b) = s
  BY <1>1, <1>6, <1>7 DEF StateOf
<1>. QED BY <1>6, <1>10, <1>11 DEF b, n, Walks

\* What a step of a depth-limited search leaves sound.
LEMMA DeepSteady ==
  ASSUME Sound, QueueInv', UNCHANGED <<prob, alg, queuevars, explored, cur, act>>,
         pc = "deep", pc' \in {"deep", "done"}, limit' \in Nat, FramesOK(stack)',
         pc' = "deep" => result' = result,
         result'.kind = "path" => result'.path \in Walks /\ StateOf(result'.path) = P.goal
  PROVE  Sound'
BY SameProblem DEF Sound, queuevars

\* The frames below the last, and those with a note.
LEMMA FramesBelow ==
  ASSUME limit \in Nat, FramesOK(stack), stack # <<>>
  PROVE  /\ FramesOK(SubSeq(stack, 1, Len(stack) - 1))
         /\ Len(SubSeq(stack, 1, Len(stack) - 1)) = Len(stack) - 1
         /\ \A i \in 1..Len(stack) - 1 : SubSeq(stack, 1, Len(stack) - 1)[i] = stack[i]
<1>. DEFINE n == Len(stack) - 1
            frames == SubSeq(stack, 1, n)
<1>1. stack \in Seq(FrameType) /\ n \in 0..Len(stack) /\ Len(stack) = n + 1
  BY DEF FramesOK
<1>2. frames \in Seq(FrameType) /\ Len(frames) = n /\ \A i \in 1..n : frames[i] = stack[i]
  BY <1>1, FrontOf
<1>. HIDE DEF frames, n
<1>3. Len(stack) <= limit /\ stack[1].state = P.start
      /\ \A i \in 1..Len(stack) - 1 : stack[i + 1].state \in Succ(stack[i].state)
  BY DEF FramesOK
<1>4. n \in Nat /\ n <= limit
  BY <1>1, <1>3
<1>5. frames # <<>> => frames[1].state = P.start
  <2>. SUFFICES ASSUME frames # <<>> PROVE frames[1].state = P.start
    OBVIOUS
  <2>1. 1 \in 1..n
    BY <1>2, <1>4
  <2>. QED BY <1>2, <1>3, <2>1
<1>6. \A i \in 1..Len(frames) - 1 : frames[i + 1].state \in Succ(frames[i].state)
  <2>. TAKE i \in 1..Len(frames) - 1
  <2>1. i \in 1..n /\ i + 1 \in 1..n /\ i \in 1..Len(stack) - 1
    BY <1>1, <1>2, <1>4
  <2>2. frames[i] = stack[i] /\ frames[i + 1] = stack[i + 1]
    BY <1>2, <2>1
  <2>. QED BY <1>3, <2>1, <2>2
<1>7. FramesOK(frames)
  BY <1>2, <1>4, <1>5, <1>6 DEF FramesOK
<1>8. n = Len(stack) - 1
  BY DEF n
<1>. QED BY <1>2, <1>7, <1>8 DEF frames

LEMMA FramesStay ==
  ASSUME UNCHANGED prob, limit \in Nat, limit' \in Nat, limit <= limit',
         NEW frames, FramesOK(frames), stack' = frames
  PROVE  FramesOK(stack)'
<1>1. P' = P /\ FrameType' = FrameType /\ \A s : Succ(s)' = Succ(s)
  BY SameProblem
<1>2. Len(frames) \in Nat
  BY DEF FramesOK
<1>. QED BY <1>1, <1>2 DEF FramesOK

\* A change to the last frame that leaves its state.
LEMMA FramesChanged ==
  ASSUME NEW frames, FramesOK(frames), frames # <<>>, limit \in Nat,
         NEW h \in Seq(FrameType), Len(h) = Len(frames),
         \A i \in 1..Len(frames) - 1 : h[i] = frames[i], h[Len(frames)].state = frames[Len(frames)].state
  PROVE  /\ FramesOK(h) /\ h # <<>>
         /\ \A i \in 1..Len(frames) : h[i].state = frames[i].state
<1>. DEFINE n == Len(frames)
<1>1. frames \in Seq(FrameType) /\ n \in Nat /\ n > 0 /\ DOMAIN frames = 1..n
  BY DEF FramesOK
<1>4. Len(h) = n /\ h[n].state = frames[n].state /\ \A i \in 1..n - 1 : h[i] = frames[i]
  OBVIOUS
<1>. HIDE DEF n
<1>5. \A i \in 1..n : h[i].state = frames[i].state
  <2>. TAKE i \in 1..n
  <2>1. CASE i = n
    BY <1>4, <2>1
  <2>2. CASE i < n
    <3>1. i \in 1..n - 1
      BY <1>1, <2>2
    <3>. QED BY <1>4, <3>1
  <2>. QED BY <1>1, <2>1, <2>2
<1>6. h[1].state = P.start
  <2>1. 1 \in 1..n
    BY <1>1
  <2>. QED BY <1>5, <2>1 DEF FramesOK
<1>7. \A i \in 1..n - 1 : h[i + 1].state \in Succ(h[i].state)
  <2>. TAKE i \in 1..n - 1
  <2>1. i \in 1..n /\ i + 1 \in 1..n
    BY <1>1
  <2>2. frames[i + 1].state \in Succ(frames[i].state)
    BY DEF FramesOK, n
  <2>. QED BY <1>5, <2>1, <2>2
<1>8. n <= limit
  BY DEF FramesOK, n
<1>9. FramesOK(h)
  BY <1>4, <1>6, <1>7, <1>8 DEF FramesOK
<1>10. h # <<>>
  BY <1>1, <1>4
<1>. QED BY <1>5, <1>9, <1>10 DEF n

LEMMA FramesPushed ==
  ASSUME prob \in DOMAIN Problems, limit \in Nat, NEW frames, FramesOK(frames), Len(frames) < limit, NEW s \in P.states,
         frames = <<>> => s = P.start, frames # <<>> => s \in Succ(frames[Len(frames)].state)
  PROVE  /\ FramesOK(Append(frames, Frame(s))) /\ Len(Append(frames, Frame(s))) = Len(frames) + 1
         /\ Append(frames, Frame(s))[Len(frames) + 1] = Frame(s)
         /\ \A i \in 1..Len(frames) : Append(frames, Frame(s))[i] = frames[i]
<1>. DEFINE n == Len(frames)
            top == Frame(s)
            h == Append(frames, top)
<1>1. frames \in Seq(FrameType) /\ n \in Nat /\ n + 1 <= limit
  BY DEF FramesOK
<1>2. top \in FrameType /\ top.state = s
  <2>1. 0 \in 0..P.actions
    BY Problem
  <2>. QED BY <2>1 DEF Frame, FrameType
<1>. HIDE DEF top
<1>3. h \in Seq(FrameType) /\ Len(h) = n + 1 /\ h[n + 1] = top /\ \A i \in 1..n : h[i] = frames[i]
  BY <1>1, <1>2
<1>4. frames = <<>> <=> n = 0
  BY <1>1
<1>. HIDE DEF h
<1>5. h[1].state = P.start
  <2>1. CASE n = 0
    BY <1>2, <1>3, <1>4, <2>1
  <2>2. CASE n > 0
    <3>1. 1 \in 1..n /\ frames # <<>>
      BY <1>1, <1>4, <2>2
    <3>. QED BY <1>3, <3>1 DEF FramesOK
  <2>. QED BY <1>1, <2>1, <2>2
<1>6. \A i \in 1..n + 1 - 1 : h[i + 1].state \in Succ(h[i].state)
  <2>. TAKE i \in 1..n + 1 - 1
  <2>1. CASE i = n
    <3>1. frames # <<>> /\ n \in 1..n
      BY <1>1, <1>4, <2>1
    <3>. QED BY <1>2, <1>3, <2>1, <3>1
  <2>2. CASE i < n
    <3>1. i \in 1..n - 1 /\ i \in 1..n /\ i + 1 \in 1..n
      BY <1>1, <2>2
    <3>2. frames[i + 1].state \in Succ(frames[i].state)
      BY <3>1 DEF FramesOK
    <3>. QED BY <1>3, <3>1, <3>2
  <2>. QED BY <1>1, <2>1, <2>2
<1>7. FramesOK(h)
  BY <1>1, <1>3, <1>5, <1>6 DEF FramesOK
<1>. QED BY <1>3, <1>7 DEF h, top

LEMMA CutOffEffect ==
  ASSUME Sound, UNCHANGED prob, NEW frames, FramesOK(frames), CutOff(frames)
  PROVE  /\ FramesOK(stack)' /\ limit' \in Nat
         /\ \/ /\ frames # <<>> /\ UNCHANGED <<pc, result, limit>>
               /\ Len(stack') = Len(frames)
               /\ \A i \in 1..Len(frames) : stack'[i].state = frames[i].state /\ stack'[i].act = frames[i].act
               /\ \A i \in 1..Len(frames) - 1 : stack'[i] = frames[i]
               /\ stack'[Len(frames)].cut
            \/ /\ frames = <<>> /\ stack' = <<>>
               /\ alg = "ids" /\ limit' = limit + 1 /\ UNCHANGED <<pc, result>>
            \/ /\ frames = <<>> /\ stack' = <<>>
               /\ alg # "ids" /\ pc' = "done" /\ result' = Other("cut_off") /\ UNCHANGED limit
<1>0. limit \in Nat
  BY DEF Sound
<1>1. CASE frames # <<>>
  <2>. DEFINE n == Len(frames)
              f == frames[n]
              top == [f EXCEPT !.cut = TRUE]
              h == [frames EXCEPT ![n] = top]
  <2>1. frames \in Seq(FrameType) /\ n \in Nat /\ n > 0 /\ n \in 1..n /\ DOMAIN frames = 1..n
    BY <1>1 DEF FramesOK
  <2>2. f \in FrameType
    BY <2>1, ElementOfSeq
  <2>5. stack' = h /\ UNCHANGED <<pc, result, limit>>
    BY <1>1 DEF CutOff
  <2>. HIDE DEF f
  <2>3. top \in FrameType /\ top.state = f.state /\ top.act = f.act /\ top.cut
    BY <2>2 DEF FrameType
  <2>. HIDE DEF n, top
  <2>6. h \in Seq(FrameType) /\ Len(h) = n /\ h[n] = top /\ \A i \in 1..n - 1 : h[i] = frames[i]
    BY <2>1, <2>3
  <2>12. h[n].state = frames[n].state
    BY <2>3, <2>6 DEF f
  <2>. HIDE DEF h
  <2>7. FramesOK(h) /\ \A i \in 1..n : h[i].state = frames[i].state
    BY <1>0, <1>1, <2>6, <2>12, FramesChanged DEF n
  <2>10. h[n].act = frames[n].act /\ h[n].cut
    BY <2>3, <2>6 DEF f
  <2>8. \A i \in 1..n : h[i].act = frames[i].act
    <3>. TAKE i \in 1..n
    <3>1. i = n \/ i \in 1..n - 1
      BY <2>1
    <3>. QED BY <2>6, <2>10, <3>1
  <2>11. limit' \in Nat /\ limit <= limit'
    BY <1>0, <2>5
  <2>9. FramesOK(stack)'
    BY <1>0, <2>5, <2>7, <2>11, FramesStay
  <2>. QED BY <1>0, <1>1, <2>5, <2>6, <2>7, <2>8, <2>9, <2>10, <2>11 DEF n
<1>2. CASE frames = <<>>
  <2>1. /\ stack' = <<>>
        /\ \/ alg = "ids" /\ limit' = limit + 1 /\ UNCHANGED <<pc, result>>
           \/ alg # "ids" /\ pc' = "done" /\ result' = Other("cut_off") /\ UNCHANGED limit
    BY <1>2 DEF CutOff, Return
  <2>2. limit' \in Nat /\ limit <= limit'
    BY <1>0, <2>1
  <2>3. FramesOK(stack)'
    BY <1>0, <1>2, <2>1, <2>2, FramesStay
  <2>. QED BY <1>2, <2>1, <2>2, <2>3
<1>. QED BY <1>1, <1>2

LEMMA VisitEffect ==
  ASSUME Sound, UNCHANGED prob, NEW frames, FramesOK(frames), NEW s \in P.states, Visit(s, frames),
         frames = <<>> => s = P.start, frames # <<>> => s \in Succ(frames[Len(frames)].state),
         frames # <<>> => stack # <<>> /\ Len(frames) = Len(stack) /\ Top.state = frames[Len(frames)].state
  PROVE  /\ FramesOK(stack)' /\ limit' \in Nat
         /\ \/ /\ pc' = "done" /\ stack' = frames /\ UNCHANGED limit
               /\ \E b \in Routes : result' = Found(b) /\ Len(b) = Len(frames)
            \/ s # P.goal /\ limit = Len(frames) /\ CutOff(frames)
            \/ s # P.goal /\ stack' = Append(frames, Frame(s)) /\ UNCHANGED <<pc, result, limit>>
<1>0. limit \in Nat /\ prob \in DOMAIN Problems /\ Len(frames) <= limit /\ Len(frames) \in Nat
  BY DEF Sound, FramesOK, QueueInv, TypeOK
<1>1. CASE s = P.goal
  <2>1. /\ pc' = "done" /\ stack' = frames /\ limit' = limit
        /\ result' = Found(IF frames = <<>> THEN <<>> ELSE PathTo(s))
    BY <1>1 DEF Visit, Return
  <2>2. \E b \in Routes : result' = Found(b) /\ Len(b) = Len(frames)
    <3>1. CASE frames = <<>>
      <4>1. <<>> \in Routes
        BY <1>1, <3>1, WalkEmpty DEF Routes, Walks, StateOf
      <4>. QED BY <2>1, <3>1, <4>1
    <3>2. CASE frames # <<>>
      <4>1. s \in Succ(Top.state) /\ stack # <<>> /\ Len(frames) = Len(stack)
        BY <3>2
      <4>2. PathTo(s) \in Walks /\ StateOf(PathTo(s)) = s /\ Len(PathTo(s)) = Len(stack)
        BY <4>1, PathToWalk
      <4>3. PathTo(s) \in Routes
        BY <1>1, <4>2 DEF Routes
      <4>4. result' = Found(PathTo(s))
        BY <2>1, <3>2
      <4>. QED BY <4>1, <4>2, <4>3, <4>4
    <3>. QED BY <3>1, <3>2
  <2>3. FramesOK(stack)'
    BY <1>0, <2>1, FramesStay
  <2>. QED BY <1>0, <2>1, <2>2, <2>3
<1>2. CASE s # P.goal /\ limit = Len(frames)
  <2>1. CutOff(frames)
    BY <1>2 DEF Visit
  <2>. QED BY <1>2, <2>1, CutOffEffect
<1>3. CASE s # P.goal /\ limit # Len(frames)
  <2>1. stack' = Append(frames, Frame(s)) /\ UNCHANGED <<pc, result, limit>>
    BY <1>3 DEF Visit
  <2>2. Len(frames) < limit
    BY <1>0, <1>3
  <2>3. FramesOK(Append(frames, Frame(s)))
    BY <1>0, <2>2, FramesPushed
  <2>. DEFINE h == Append(frames, Frame(s))
  <2>5. FramesOK(h) /\ stack' = h /\ limit' \in Nat /\ limit <= limit'
    BY <1>0, <2>1, <2>3
  <2>. HIDE DEF h
  <2>4. FramesOK(stack)'
    BY <1>0, <2>5, FramesStay
  <2>. QED BY <1>0, <1>3, <2>1, <2>4
<1>. QED BY <1>1, <1>2, <1>3

\* The frames of a node that tries its next action.
LEMMA LookFrames ==
  ASSUME Sound, stack # <<>>, Top.act < P.actions,
         NEW frames, frames = [stack EXCEPT ![Len(stack)].act = @ + 1]
  PROVE  /\ FramesOK(frames) /\ Len(frames) = Len(stack) /\ frames # <<>> /\ Len(stack) \in Nat
         /\ \A i \in 1..Len(stack) : frames[i].state = stack[i].state
         /\ \A i \in 1..Len(stack) - 1 : frames[i] = stack[i]
         /\ frames[Len(stack)] = [state |-> Top.state, act |-> Top.act + 1, cut |-> Top.cut]
         /\ Top.act \in 0..P.actions - 1 /\ Top.state \in P.states
<1>. DEFINE n == Len(stack)
<1>1. stack \in Seq(FrameType) /\ n \in Nat /\ n \in 1..n /\ FramesOK(stack) /\ limit \in Nat /\ prob \in DOMAIN Problems
  BY DEF Sound, FramesOK, QueueInv, TypeOK
<1>. DEFINE f == stack[n]
            top == [f EXCEPT !.act = @ + 1]
<1>2. f \in FrameType /\ f = Top
  BY <1>1, ElementOfSeq DEF Top
<1>3. P.actions \in Nat /\ f.act < P.actions
  BY <1>1, <1>2, Problem DEF FrameType
<1>4. frames = [stack EXCEPT ![n] = top] /\ stack # <<>> /\ DOMAIN stack = 1..n
  BY <1>1
<1>. HIDE DEF f
<1>5. /\ f.act \in 0..P.actions - 1 /\ f.state \in P.states
      /\ top = [state |-> f.state, act |-> f.act + 1, cut |-> f.cut] /\ top \in FrameType /\ top.state = f.state
  BY <1>2, <1>3 DEF FrameType
<1>. HIDE DEF top, n
<1>6. frames \in Seq(FrameType) /\ Len(frames) = n /\ frames[n] = top /\ \A i \in 1..n - 1 : frames[i] = stack[i]
  <2>. DEFINE h == [stack EXCEPT ![n] = top]
  <2>1. top \in FrameType /\ stack \in Seq(FrameType) /\ n \in Nat /\ n \in 1..n /\ DOMAIN stack = 1..n
    BY <1>1, <1>4, <1>5
  <2>2. h \in Seq(FrameType) /\ Len(h) = n /\ h[n] = top /\ \A i \in 1..n - 1 : h[i] = stack[i]
    BY <2>1
  <2>. QED BY <1>4, <2>2
<1>7. frames[n].state = stack[n].state
  BY <1>5, <1>6 DEF f
<1>8. /\ FramesOK(frames) /\ frames # <<>>
      /\ \A i \in 1..n : frames[i].state = stack[i].state
  BY <1>1, <1>4, <1>6, <1>7, FramesChanged DEF n
<1>. QED BY <1>1, <1>2, <1>4, <1>5, <1>6, <1>8 DEF n

LEMMA CutOffSound ==
  ASSUME Sound, pc = "deep", QueueInv', UNCHANGED <<prob, alg, queuevars, explored, cur, act>>,
         NEW frames, FramesOK(frames), CutOff(frames)
  PROVE  Sound'
<1>1. FramesOK(stack)' /\ limit' \in Nat
  BY CutOffEffect
<1>2. UNCHANGED <<pc, result>> \/ (pc' = "done" /\ result' = Other("cut_off"))
  BY CutOffEffect
<1>3. result'.kind = "path" => result'.path \in Walks /\ StateOf(result'.path) = P.goal
  BY <1>2 DEF Sound, Other, Queued, BFS, Deepening
<1>. QED BY <1>1, <1>2, <1>3, DeepSteady

LEMMA DeepSound == ASSUME Sound, DeepRoot \/ DeepLook \/ DeepReturn PROVE Sound'
<1>1. QueueInv' /\ UNCHANGED <<prob, alg, queuevars, explored, cur, act>> /\ pc = "deep" /\ result = Other("running")
  BY DeepQueue DEF Sound, DeepRoot, DeepLook, DeepReturn, Visit
<1>2. result.kind # "path"
  BY <1>1 DEF Other
<1>3. ASSUME NEW frames, FramesOK(frames), NEW s \in P.states, Visit(s, frames),
             frames = <<>> => s = P.start, frames # <<>> => s \in Succ(frames[Len(frames)].state),
             frames # <<>> => stack # <<>> /\ Len(frames) = Len(stack) /\ Top.state = frames[Len(frames)].state
      PROVE  Sound'
  <2>1. /\ FramesOK(stack)' /\ limit' \in Nat
        /\ \/ pc' = "done" /\ \E b \in Routes : result' = Found(b)
           \/ CutOff(frames)
           \/ UNCHANGED <<pc, result>>
    BY <1>1, <1>3, VisitEffect
  <2>2. CASE CutOff(frames)
    BY <1>1, <1>3, <2>2, CutOffSound
  <2>3. CASE UNCHANGED <<pc, result>>
    BY <1>1, <1>2, <2>1, <2>3, DeepSteady
  <2>4. CASE pc' = "done" /\ \E b \in Routes : result' = Found(b)
    <3>1. result'.path \in Walks /\ StateOf(result'.path) = P.goal
      BY <2>4 DEF Routes, Found
    <3>. QED BY <1>1, <2>1, <2>4, <3>1, DeepSteady
  <2>. QED BY <2>1, <2>2, <2>3, <2>4
<1>4. limit \in Nat /\ FramesOK(stack) /\ prob \in DOMAIN Problems
  BY DEF Sound, QueueInv, TypeOK
<1>5. CASE DeepRoot
  <2>1. FramesOK(<<>>) /\ Visit(P.start, <<>>) /\ P.start \in P.states
    BY <1>4, <1>5, Problem DEF DeepRoot
  <2>. QED BY <1>3, <2>1
<1>6. CASE DeepLook
  <2>. DEFINE frames == [stack EXCEPT ![Len(stack)].act = @ + 1]
  <2>1. PICK s \in Sample(P, Top.state, Top.act) : Visit(s, frames)
    BY <1>6 DEF DeepLook
  <2>2. stack # <<>> /\ Top.act < P.actions
    BY <1>6 DEF DeepLook
  <2>3. /\ FramesOK(frames) /\ Len(frames) = Len(stack) /\ frames # <<>>
        /\ frames[Len(stack)].state = Top.state
        /\ Top.act \in 0..P.actions - 1 /\ Top.state \in P.states
    BY <2>2, LookFrames
  <2>. HIDE DEF frames
  <2>4. s \in Succ(Top.state) /\ s \in P.states
    BY <1>4, <2>1, <2>3, SuccType DEF Succ
  <2>. QED BY <1>3, <2>1, <2>2, <2>3, <2>4
<1>7. CASE DeepReturn
  <2>. DEFINE frames == SubSeq(stack, 1, Len(stack) - 1)
  <2>1. stack # <<>> /\ (CutOff(frames) \/ (stack' = frames /\ UNCHANGED limit /\
           (Return(Other("failure")) \/ UNCHANGED <<pc, result>>)))
    BY <1>7 DEF DeepReturn
  <2>2. FramesOK(frames)
    BY <1>4, <2>1, FramesBelow
  <2>. HIDE DEF frames
  <2>3. CASE CutOff(frames)
    BY <1>1, <2>2, <2>3, CutOffSound
  <2>4. CASE stack' = frames /\ UNCHANGED limit /\ (Return(Other("failure")) \/ UNCHANGED <<pc, result>>)
    <3>1. FramesOK(stack)'
      BY <1>1, <1>4, <2>2, <2>4, FramesStay
    <3>2. pc' \in {"deep", "done"} /\ (pc' = "deep" => result' = result) /\ result'.kind # "path"
      BY <1>1, <1>2, <2>4 DEF Return, Other
    <3>. QED BY <1>1, <1>4, <2>4, <3>1, <3>2, DeepSteady
  <2>. QED BY <2>1, <2>3, <2>4
<1>. QED BY <1>5, <1>6, <1>7

LEMMA SoundStep == Sound /\ [Next]_vars => Sound'
<1>. SUFFICES ASSUME Sound, [Next]_vars PROVE Sound'
  OBVIOUS
<1>1. CASE UNCHANGED vars
  <2>1. QueueInv'
    BY <1>1, QueueStep DEF Sound
  <2>2. UNCHANGED <<prob, alg, pc, fringe, cur, stack, limit, result>>
    BY <1>1 DEF vars, queuevars
  <2>. QED BY <2>1, <2>2, SameProblem DEF Sound, FramesOK
<1>. QED BY <1>1, GiveUpSound, TakeSound, LookSound, DeepSound DEF Next

-----------------------------------------------------------------------------
\* The order of the queue.

\* The part of the value that is not the cost of the path, and the whole value.
H(s) == IF alg \in {"astar_ts", "astar_gs"} THEN P.l1[s] ELSE 0
Key(n) == Len(n.path) + H(StateOf(n.path))
Greedy == {"greedy_ts", "greedy_gs"}

\* Breadth-first: the nodes in the queue are one step at most further than the
\* one looked at, the older the nearer, and the goal is not among them.
BreadthFirst ==
  /\ StateOf(cur.path) # P.goal
  /\ \A m \in Live : /\ Len(cur.path) <= Len(m.path) /\ Len(m.path) <= Len(cur.path) + 1
                     /\ StateOf(m.path) # P.goal
  /\ \A m, n \in Live : m.id < n.id => Len(m.path) <= Len(n.path)

\* The value of the root is not computed.
Valued == (\A x \in Live : x.value = Value(x.path)) \/ (pc = "loop" /\ Live = {Root})

Ordered ==
  /\ Sound
  /\ alg \in BFS /\ pc # "done" => BreadthFirst
  /\ alg \in GraphSearch /\ pc # "done" => P.goal \notin explored
  /\ alg \in Queued \ BFS /\ pc # "done" => Valued

LEMMA LiveType ==
  ASSUME Sound, NEW n \in Live
  PROVE  /\ n \in fringe /\ n.path \in Walks /\ n.path \in Seq(P.states) /\ Len(n.path) \in Nat
         /\ StateOf(n.path) \in P.states /\ n.id \in Nat /\ n.id <= time
<1>1. n \in fringe /\ n.id \in 1..time /\ time \in Nat /\ n.path \in Seq(P.states) /\ prob \in DOMAIN Problems
  BY DEF Sound, QueueInv, TypeOK, Live
<1>. QED BY <1>1, StateType DEF Sound

LEMMA CurType ==
  ASSUME Sound
  PROVE  /\ cur.path \in Walks /\ cur.path \in Seq(P.states) /\ Len(cur.path) \in Nat /\ Walk(cur.path)
         /\ StateOf(cur.path) \in P.states /\ prob \in DOMAIN Problems /\ time \in Nat
         /\ act \in 0..P.actions - 1 /\ P.actions \in Nat
<1>1. cur.path \in Seq(P.states) /\ prob \in DOMAIN Problems /\ time \in Nat /\ act \in Nat /\ act < P.actions
  BY DEF Sound, QueueInv, TypeOK
<1>. QED BY <1>1, StateType, Problem DEF Sound, Walks

LEMMA SameOrder ==
  ASSUME UNCHANGED <<prob, alg>>
  PROVE  /\ \A b : Value(b)' = Value(b) /\ \A s : H(s)' = H(s)
         /\ P' = P /\ \A b : StateOf(b)' = StateOf(b)
<1>1. P' = P /\ \A b : StateOf(b)' = StateOf(b)
  BY SameProblem
<1>2. \A s : H(s)' = H(s)
  BY <1>1 DEF H
<1>3. \A b : Value(b)' = Value(b)
  BY <1>1 DEF Value
<1>. QED BY <1>1, <1>2, <1>3

LEMMA OrderedInit == Init => Ordered
<1>. SUFFICES ASSUME Init PROVE Ordered
  OBVIOUS
<1>1. Sound
  BY SoundInit
<1>2. alg \in Queued => Live = {Root}
  BY DEF Init, Live
<1>3. BFS \subseteq Queued /\ GraphSearch \subseteq Queued
  BY DEF BFS, Queued, GraphSearch
<1>4. explored = {} /\ cur = Root /\ cur.path = <<>> /\ Root.path = <<>> /\ Root.id = 1
  BY DEF Init, Root
<1>5. alg \in BFS /\ pc # "done" => BreadthFirst
  <2>1. StateOf(<<>>) = P.start
    BY DEF StateOf
  <2>2. alg \in BFS /\ pc # "done" => P.start # P.goal
    BY DEF Init
  <2>. QED BY <1>2, <1>3, <1>4, <2>1, <2>2 DEF BreadthFirst
<1>6. alg \in Queued \ BFS => pc = "loop"
  BY DEF Init
<1>. QED BY <1>1, <1>2, <1>4, <1>5, <1>6 DEF Ordered, Valued

LEMMA GiveUpOrdered == ASSUME Ordered, GiveUp PROVE Ordered'
<1>1. Sound'
  BY GiveUpSound DEF Ordered
<1>2. pc' = "done"
  BY DEF GiveUp, Return
<1>. QED BY <1>1, <1>2 DEF Ordered

\* The node that a search with a queue takes is one of least key.
LEMMA TakenIsLeast ==
  ASSUME Ordered, pc = "loop", alg \in Queued \ Greedy, NEW n \in Live, \A x \in Live : ~Before(x, n)
  PROVE  \A x \in Live : Key(n) <= Key(x)
<1>. TAKE x \in Live
<1>0. Sound
  BY DEF Ordered
<1>1. /\ Len(n.path) \in Nat /\ StateOf(n.path) \in P.states /\ n \in fringe /\ n.id \in Nat
      /\ Len(x.path) \in Nat /\ StateOf(x.path) \in P.states /\ x \in fringe /\ x.id \in Nat
  BY <1>0, LiveType
<1>2. H(StateOf(n.path)) \in Nat /\ H(StateOf(x.path)) \in Nat
  BY <1>0, <1>1, Problem, CurType DEF H
<1>3. ~Before(x, n)
  OBVIOUS
<1>4. CASE alg \in BFS
  <2>1. ~(x.id < n.id)
    BY <1>3, <1>4 DEF Before
  <2>2. x = n \/ n.id < x.id
    <3>1. x.id = n.id => x = n
      BY <1>0, <1>1 DEF Sound, QueueInv, IdsUnique
    <3>. QED BY <1>1, <2>1, <3>1
  <2>3. Len(n.path) <= Len(x.path)
    BY <1>1, <1>4, <2>2 DEF Ordered, BreadthFirst
  <2>4. H(StateOf(n.path)) = 0 /\ H(StateOf(x.path)) = 0
    BY <1>4 DEF H, BFS
  <2>. QED BY <1>1, <2>3, <2>4 DEF Key
<1>5. CASE alg \notin BFS
  <2>1. Valued
    BY <1>5 DEF Ordered
  <2>2. CASE Live = {Root}
    BY <1>1, <1>2, <2>2 DEF Key
  <2>3. CASE \A y \in Live : y.value = Value(y.path)
    <3>1. ~(Value(x.path) < Value(n.path))
      BY <1>3, <1>5, <2>3 DEF Before
    <3>2. alg = "ucs" \/ alg \in {"astar_ts", "astar_gs"}
      BY <1>5 DEF Queued, Greedy, BFS
    <3>3. Value(x.path) = Key(x) /\ Value(n.path) = Key(n)
      BY <1>1, <3>2 DEF Value, Key, H, BFS
    <3>. QED BY <1>1, <1>2, <3>1, <3>3 DEF Key
  <2>. QED BY <2>1, <2>2, <2>3 DEF Valued
<1>. QED BY <1>4, <1>5

LEMMA TakeOrdered == ASSUME Ordered, NEW n \in fringe, Take(n) PROVE Ordered'
<1>1. Sound' /\ Sound /\ QueueInv
  BY TakeSound DEF Ordered, Sound
<1>2. /\ UNCHANGED <<prob, alg>> /\ pc = "loop" /\ n \in Live /\ Live' = Live \ {n}
      /\ \A x \in Live : ~Before(x, n)
      /\ \/ pc' = "done"
         \/ /\ alg \in BFS \/ StateOf(n.path) # P.goal
            /\ cur' = n /\ pc' = "look"
            /\ explored' = IF alg \in GraphSearch THEN explored \cup {StateOf(n.path)} ELSE explored
  BY <1>1, TakeEffect
<1>. SUFFICES ASSUME pc' # "done" PROVE Ordered'
  BY <1>1 DEF Ordered
<1>3. cur' = n /\ pc' = "look" /\ (alg \in BFS \/ StateOf(n.path) # P.goal)
      /\ explored' = IF alg \in GraphSearch THEN explored \cup {StateOf(n.path)} ELSE explored
  BY <1>2
<1>4. alg \in BFS => StateOf(n.path) # P.goal
  BY <1>2 DEF Ordered, BreadthFirst
<1>5. ASSUME alg \in BFS
      PROVE  BreadthFirst'
  <2>1. BreadthFirst
    BY <1>2, <1>5 DEF Ordered
  <2>2. \A m \in Live : m.id < n.id \/ m = n \/ n.id < m.id
    <3>. TAKE m \in Live
    <3>1. m.id \in Nat /\ n.id \in Nat /\ m \in fringe /\ n \in fringe
      BY <1>1, <1>2, LiveType
    <3>2. m.id = n.id => m = n
      BY <1>1, <3>1 DEF QueueInv, IdsUnique
    <3>. QED BY <3>1, <3>2
  <2>3. \A m \in Live : m # n => Len(n.path) <= Len(m.path) /\ Len(m.path) <= Len(n.path) + 1 /\ StateOf(m.path) # P.goal
    <3>. SUFFICES ASSUME NEW m \in Live, m # n
                  PROVE  Len(n.path) <= Len(m.path) /\ Len(m.path) <= Len(n.path) + 1 /\ StateOf(m.path) # P.goal
      OBVIOUS
    <3>1. ~(m.id < n.id)
      BY <1>2, <1>5 DEF Before
    <3>2. Len(n.path) <= Len(m.path)
      BY <1>2, <2>1, <2>2, <3>1 DEF BreadthFirst
    <3>3. Len(cur.path) <= Len(n.path) /\ Len(m.path) <= Len(cur.path) + 1 /\ StateOf(m.path) # P.goal
      BY <1>2, <2>1 DEF BreadthFirst
    <3>4. Len(cur.path) \in Nat /\ Len(n.path) \in Nat /\ Len(m.path) \in Nat
      BY <1>1, <1>2, LiveType, CurType
    <3>. QED BY <3>2, <3>3, <3>4
  <2>4. \A m, x \in Live : m.id < x.id => Len(m.path) <= Len(x.path)
    BY <2>1 DEF BreadthFirst
  <2>. QED BY <1>2, <1>3, <1>4, <2>3, <2>4, SameOrder DEF BreadthFirst
<1>6. ASSUME alg \in GraphSearch
      PROVE  P.goal \notin explored'
  BY <1>2, <1>3, <1>4, <1>6 DEF Ordered
<1>7. ASSUME alg \in Queued \ BFS
      PROVE  Valued'
  <2>1. Valued
    BY <1>2, <1>7 DEF Ordered
  <2>2. \A x \in Live' : x.value = Value(x.path)
    BY <1>2, <2>1 DEF Valued
  <2>. QED BY <1>2, <2>2, SameOrder DEF Valued
<1>. QED BY <1>1, <1>2, <1>5, <1>6, <1>7, SameOrder DEF Ordered

LEMMA LookOrdered == ASSUME Ordered, NEW s \in P.states, Look(s) PROVE Ordered'
<1>. DEFINE child == Node(Append(cur.path, s))
<1>0. Sound' /\ Sound /\ QueueInv
  BY LookSound DEF Ordered, Sound
<1>1. /\ UNCHANGED <<prob, alg, explored, cur>> /\ pc = "look"
      /\ StateOf(child.path) = s /\ Len(child.path) = Len(cur.path) + 1 /\ child.value = Value(child.path)
      /\ child.id = time + 1
      /\ \/ pc' = "done"
         \/ Live' \subseteq Live \cup {child} /\ (child \in Live' => ~(alg \in BFS /\ s = P.goal))
  <2>1. Better(child) => alg \notin BFS
    BY BetterIsQueued DEF Better, BFS
  <2>2. child \notin Live
    <3>1. \A x \in fringe : x.id < child.id
      BY <1>0, LookEffect
    <3>2. ~(child.id < child.id)
      <4>1. child.id = time + 1 /\ time \in Nat
        BY <1>0, CurType DEF Node
      <4>. QED BY <4>1
    <3>. QED BY <3>1, <3>2 DEF Live
  <2>3. /\ UNCHANGED <<prob, alg, explored, cur>> /\ pc = "look"
        /\ StateOf(child.path) = s /\ Len(child.path) = Len(cur.path) + 1 /\ child.value = Value(child.path)
        /\ child.id = time + 1
    BY <1>0, LookEffect
  <2>4. \/ pc' = "done"
        \/ ~(alg \in BFS /\ s = P.goal) /\ Live' = Live \cup {child}
        \/ Better(child) /\ \E m \in Live : Live' = (Live \ {m}) \cup {child}
        \/ Live' = Live
    BY <1>0, LookEffect
  <2>. QED BY <2>1, <2>2, <2>3, <2>4
<1>. HIDE DEF child
<1>. SUFFICES ASSUME pc' # "done" PROVE Ordered'
  BY <1>0 DEF Ordered
<1>2. Live' \subseteq Live \cup {child} /\ (child \in Live' => ~(alg \in BFS /\ s = P.goal))
  BY <1>1
<1>3. Len(cur.path) \in Nat /\ \A m \in Live : Len(m.path) \in Nat /\ m.id \in Nat /\ m.id <= time
  BY <1>0, LiveType, CurType
<1>4. time \in Nat
  BY <1>0, CurType
<1>5. ASSUME alg \in BFS
      PROVE  BreadthFirst'
  <2>1. BreadthFirst
    BY <1>1, <1>5 DEF Ordered
  <2>2. \A m \in Live' : /\ Len(cur.path) <= Len(m.path) /\ Len(m.path) <= Len(cur.path) + 1
                         /\ StateOf(m.path) # P.goal
    <3>. SUFFICES ASSUME NEW m \in Live'
                  PROVE  /\ Len(cur.path) <= Len(m.path) /\ Len(m.path) <= Len(cur.path) + 1
                         /\ StateOf(m.path) # P.goal
      OBVIOUS
    <3>1. CASE m \in Live
      BY <2>1, <3>1 DEF BreadthFirst
    <3>2. CASE m = child
      BY <1>1, <1>2, <1>3, <1>5, <3>2
    <3>. QED BY <1>2, <3>1, <3>2
  <2>3. \A m, n \in Live' : m.id < n.id => Len(m.path) <= Len(n.path)
    <3>. SUFFICES ASSUME NEW m \in Live', NEW n \in Live', m.id < n.id
                  PROVE  Len(m.path) <= Len(n.path)
      OBVIOUS
    <3>1. CASE n \in Live
      <4>1. m # child
        BY <1>1, <1>3, <1>4, <3>1
      <4>. QED BY <1>2, <2>1, <3>1, <4>1 DEF BreadthFirst
    <3>2. CASE n = child
      <4>1. Len(n.path) = Len(cur.path) + 1
        BY <1>1, <3>2
      <4>. QED BY <2>2, <4>1
    <3>. QED BY <1>2, <3>1, <3>2
  <2>. QED BY <1>1, <2>1, <2>2, <2>3, SameOrder DEF BreadthFirst
<1>6. ASSUME alg \in Queued \ BFS
      PROVE  Valued'
  <2>1. \A x \in Live : x.value = Value(x.path)
    BY <1>1, <1>6 DEF Ordered, Valued
  <2>2. \A x \in Live' : x.value = Value(x.path)
    BY <1>1, <1>2, <2>1
  <2>. QED BY <1>1, <2>2, SameOrder DEF Valued
<1>. QED BY <1>0, <1>1, <1>5, <1>6, SameOrder DEF Ordered

LEMMA DeepOrdered == ASSUME Ordered, DeepRoot \/ DeepLook \/ DeepReturn PROVE Ordered'
<1>1. Sound' /\ alg' = alg /\ pc = "deep"
  BY DeepSound DEF Ordered, DeepRoot, DeepLook, DeepReturn, Visit
<1>2. alg \notin Queued
  BY <1>1 DEF Ordered, Sound
<1>. QED BY <1>1, <1>2 DEF Ordered, Queued, BFS, GraphSearch

LEMMA OrderedStep == Ordered /\ [Next]_vars => Ordered'
<1>. SUFFICES ASSUME Ordered, [Next]_vars PROVE Ordered'
  OBVIOUS
<1>1. CASE UNCHANGED vars
  <2>1. UNCHANGED <<prob, alg, pc, fringe, removed, explored, cur>>
    BY <1>1 DEF vars, queuevars
  <2>2. Sound'
    BY <1>1, SoundStep DEF Ordered
  <2>3. Live' = Live
    BY <2>1 DEF Live
  <2>. QED BY <2>1, <2>2, <2>3, SameOrder DEF Ordered, BreadthFirst, Valued
<1>. QED BY <1>1, GiveUpOrdered, TakeOrdered, LookOrdered, DeepOrdered DEF Next

-----------------------------------------------------------------------------
\* The problems of the theorem: no chance, and a distance to the goal that is
\* never too large and changes by one with a move at most.
NoChance == \A s \in P.states, a \in 0..P.actions - 1 : \E t : Sample(P, s, a) = {t}
Consistent == P.l1[P.goal] = 0 /\ \A s \in P.states : \A t \in Succ(s) : P.l1[s] <= P.l1[t] + 1

\* The searches that promise a shortest way.
Promising == {"bfs_ts", "bfs_gs", "ucs", "astar_ts", "astar_gs", "ids"}

Shortest(b) == b \in Routes /\ \A r \in Routes : Len(b) <= Len(r)
Answered ==
  pc = "done" =>
    /\ alg \in BFS => result.kind = "path" /\ (StateOf(result.path) = P.goal \/ Routes = {})
    /\ alg \in Promising => Routes = {} \/ (result.kind = "path" /\ Shortest(result.path))

LEMMA RouteType ==
  ASSUME NEW b \in Routes
  PROVE  b \in Walks /\ b \in Seq(P.states) /\ Walk(b) /\ StateOf(b) = P.goal /\ Len(b) \in Nat
BY DEF Routes, Walks

LEMMA FoundShortest ==
  ASSUME UNCHANGED <<prob, alg>>, NEW b, Shortest(b), result' = Found(b)
  PROVE  Answered'
<1>1. Routes' = Routes /\ P' = P /\ \A r : StateOf(r)' = StateOf(r)
  BY SameProblem
<1>2. Shortest(b)' /\ StateOf(b)' = P.goal
  BY <1>1 DEF Shortest, Routes
<1>3. result'.kind = "path" /\ result'.path = b
  BY DEF Found
<1>4. Shortest(result.path)' /\ StateOf(result.path)' = P'.goal
  BY <1>1, <1>2, <1>3 DEF Shortest
<1>. QED BY <1>3, <1>4 DEF Answered

\* A search that finds no way where there is none.
LEMMA NoneFound ==
  ASSUME UNCHANGED <<prob, alg>>, Routes = {}, alg \in BFS => result'.kind = "path"
  PROVE  Answered'
BY SameProblem DEF Answered

\* An action with one outcome leads to it.
LEMMA OnlyOutcome ==
  ASSUME NoChance, NEW s \in P.states, NEW a \in 0..P.actions - 1,
         NEW t \in Sample(P, s, a), NEW u \in Sample(P, s, a)
  PROVE  t = u
BY DEF NoChance

\* The heuristic does not exceed what is left of a way to the goal.
LEMMA Admissible ==
  ASSUME prob \in DOMAIN Problems, Consistent, NEW b \in Routes, NEW i \in 0..Len(b)
  PROVE  P.l1[At(b, i)] <= Len(b) - i
<1>. DEFINE T == {k \in 0..Len(b) : ~(P.l1[At(b, Len(b) - k)] <= k)}
<1>0. b \in Seq(P.states) /\ Walk(b) /\ StateOf(b) = P.goal /\ Len(b) \in Nat
  BY RouteType
<1>1. \A j \in 0..Len(b) : At(b, j) \in P.states /\ P.l1[At(b, j)] \in Nat
  BY <1>0, AtType, Problem
<1>2. T = {}
  <2>. SUFFICES ASSUME T # {} PROVE FALSE
    OBVIOUS
  <2>1. PICK k \in T : \A m \in T : k <= m
    <3>1. T \in SUBSET Nat
      BY <1>0
    <3>. HIDE DEF T
    <3>. QED BY <3>1, LeastNumber
  <2>2. k # 0
    <3>1. P.l1[At(b, Len(b) - 0)] = 0
      BY <1>0, StateOfAt DEF Consistent
    <3>. QED BY <2>1, <3>1
  <2>. DEFINE j == Len(b) - k
  <2>3. /\ j \in 0..Len(b) /\ j + 1 \in 1..Len(b) /\ j + 1 \in 0..Len(b) /\ k - 1 \in 0..Len(b)
        /\ Len(b) - (k - 1) = j + 1 /\ k \in Nat /\ j + 1 - 1 = j /\ j + 1 # 0
    BY <1>0, <2>1, <2>2
  <2>4. k - 1 \notin T
    BY <2>1, <2>3
  <2>5. P.l1[At(b, j + 1)] <= k - 1
    BY <2>3, <2>4
  <2>6. At(b, j + 1) \in Succ(At(b, j))
    <3>1. b[j + 1] \in Succ(At(b, j + 1 - 1))
      BY <1>0, <2>3, WalkSteps
    <3>2. At(b, j + 1) = b[j + 1]
      BY <2>3 DEF At
    <3>. QED BY <2>3, <3>1, <3>2
  <2>7. P.l1[At(b, j)] <= P.l1[At(b, j + 1)] + 1
    BY <1>1, <2>3, <2>6 DEF Consistent
  <2>8. P.l1[At(b, j)] \in Nat /\ P.l1[At(b, j + 1)] \in Nat
    BY <1>1, <2>3
  <2>9. P.l1[At(b, j)] <= k
    <3>. DEFINE u == P.l1[At(b, j)]  v == P.l1[At(b, j + 1)]
    <3>1. u \in Nat /\ v \in Nat /\ v <= k - 1 /\ u <= v + 1 /\ k \in Nat
      BY <2>3, <2>5, <2>7, <2>8
    <3>. HIDE DEF u, v
    <3>2. u <= k
      BY <3>1
    <3>. QED BY <3>2 DEF u
  <2>. QED BY <2>1, <2>9
<1>3. Len(b) - i \in 0..Len(b) /\ Len(b) - (Len(b) - i) = i
  BY <1>0
<1>. QED BY <1>2, <1>3

\* A node on a way to the goal has a key that is not larger than its length.
LEMMA OnTheWay ==
  ASSUME Sound, Consistent, NEW b \in Routes, NEW x \in Live, Prefix(x.path, b)
  PROVE  Key(x) <= Len(b)
<1>1. x.path \in Seq(P.states) /\ Len(x.path) \in Nat /\ StateOf(x.path) \in P.states /\ prob \in DOMAIN Problems
  BY LiveType, CurType
<1>2. Len(x.path) \in 0..Len(b) /\ Len(b) \in Nat /\ b \in Seq(P.states)
  BY <1>1, RouteType DEF Prefix
<1>3. StateOf(x.path) = At(b, Len(x.path))
  BY <1>1, <1>2, PrefixState
<1>4. P.l1[StateOf(x.path)] <= Len(b) - Len(x.path)
  BY <1>1, <1>2, <1>3, Admissible
<1>5. P.l1[StateOf(x.path)] \in Nat
  BY <1>1, Problem
<1>6. H(StateOf(x.path)) \in Nat /\ H(StateOf(x.path)) <= Len(b) - Len(x.path)
  BY <1>1, <1>2, <1>4, <1>5 DEF H
<1>. QED BY <1>1, <1>2, <1>6 DEF Key

-----------------------------------------------------------------------------
\* Tree searches: every way to the goal goes through a node of the queue, or
\* through an action that the node looked at has still to try.

TreeSearch == {"bfs_ts", "astar_ts"}
ToTry(b) == pc = "look" /\ \E a \in act..P.actions - 1 : \E t \in Sample(P, StateOf(cur.path), a) :
              Prefix(Append(cur.path, t), b)
Ahead(b) == (\E x \in Live : Prefix(x.path, b)) \/ ToTry(b)
TreeInv == alg \in TreeSearch /\ pc # "done" => \A b \in Routes : Ahead(b)

LEMMA TreeInit == Init => TreeInv
<1>. SUFFICES ASSUME Init, alg \in TreeSearch, NEW b \in Routes PROVE Ahead(b)
  BY DEF TreeInv
<1>1. Live = {Root} /\ Root.path = <<>>
  BY DEF Init, Live, Root, TreeSearch, Queued
<1>. QED BY <1>1, RouteType, PrefixEmpty DEF Ahead

LEMMA NothingLeft == ASSUME QueueInv, qlen = 0 PROVE Live = {}
<1>1. Cardinality(Live) = 0 /\ IsFiniteSet(Live)
  BY LiveFinite DEF QueueInv, QueueExact
<1>. QED BY <1>1, FS_EmptySet

LEMMA GiveUpTree ==
  ASSUME Ordered, TreeInv, alg \in TreeSearch, GiveUp
  PROVE  Answered'
<1>1. pc = "loop" /\ qlen = 0 /\ UNCHANGED <<prob, alg>> /\ result' = IF alg \in BFS THEN Found(cur.path) ELSE Other("None")
  BY DEF GiveUp, TimedOut, TreeSearch, Return
<1>2. Live = {}
  BY <1>1, NothingLeft DEF Ordered, Sound
<1>3. Routes = {}
  BY <1>1, <1>2 DEF TreeInv, Ahead, ToTry
<1>. QED BY <1>1, <1>3, NoneFound DEF Found

LEMMA TakeTree ==
  ASSUME Ordered, Consistent, TreeInv, alg \in TreeSearch, NEW n \in fringe, Take(n)
  PROVE  TreeInv' /\ Answered'
<1>0. Sound /\ QueueInv /\ alg \in Queued \ Greedy /\ alg \notin GraphSearch
  BY DEF Ordered, Sound, TreeSearch, Queued, Greedy, GraphSearch
<1>1. /\ UNCHANGED <<prob, alg>> /\ pc = "loop" /\ n \in Live /\ Live' = Live \ {n}
      /\ \A x \in Live : ~Before(x, n)
      /\ \/ /\ alg \notin BFS /\ StateOf(n.path) = P.goal
            /\ pc' = "done" /\ result' = Found(n.path)
         \/ /\ alg \in BFS \/ StateOf(n.path) # P.goal
            /\ cur' = n /\ act' = 0 /\ pc' = "look"
  BY <1>0, TakeEffect
<1>2. \A b \in Routes : \E x \in Live : Prefix(x.path, b)
  BY <1>1 DEF TreeInv, Ahead, ToTry
<1>3. n.path \in Walks /\ n.path \in Seq(P.states) /\ StateOf(n.path) \in P.states /\ Len(n.path) \in Nat /\ prob \in DOMAIN Problems
  BY <1>0, <1>1, LiveType, CurType
<1>4. CASE alg \notin BFS /\ StateOf(n.path) = P.goal /\ pc' = "done" /\ result' = Found(n.path)
  <2>1. Key(n) = Len(n.path)
    BY <1>3, <1>4 DEF Key, H, Consistent
  <2>2. \A b \in Routes : Len(n.path) <= Len(b)
    <3>. TAKE b \in Routes
    <3>1. PICK x \in Live : Prefix(x.path, b)
      BY <1>2
    <3>2. Key(x) <= Len(b) /\ Len(b) \in Nat
      BY <1>0, <3>1, OnTheWay, RouteType
    <3>3. Key(n) <= Key(x)
      BY <1>0, <1>1, TakenIsLeast
    <3>4. Key(x) \in Int
      <4>1. Len(x.path) \in Nat /\ StateOf(x.path) \in P.states
        BY <1>0, LiveType
      <4>. QED BY <1>3, <4>1, Problem DEF Key, H
    <3>. QED BY <1>3, <2>1, <3>2, <3>3, <3>4
  <2>3. Shortest(n.path)
    BY <1>3, <1>4, <2>2 DEF Shortest, Routes
  <2>. QED BY <1>1, <1>4, <2>3, FoundShortest DEF TreeInv
<1>5. CASE (alg \in BFS \/ StateOf(n.path) # P.goal) /\ cur' = n /\ act' = 0 /\ pc' = "look"
  <2>1. StateOf(n.path) # P.goal
    BY <1>1, <1>5 DEF Ordered, BreadthFirst
  <2>2. ASSUME NEW b \in Routes
        PROVE  \/ \E x \in Live' : Prefix(x.path, b)
               \/ \E a \in 0..P.actions - 1 : \E t \in Sample(P, StateOf(n.path), a) : Prefix(Append(n.path, t), b)
    <3>1. PICK x \in Live : Prefix(x.path, b)
      BY <1>2
    <3>2. CASE x # n
      BY <1>1, <3>1, <3>2
    <3>3. CASE x = n
      <4>1. \E t \in P.states : t \in Succ(StateOf(n.path)) /\ Prefix(Append(n.path, t), b)
        BY <1>3, <2>1, <3>1, <3>3, PrefixNext, RouteType
      <4>. QED BY <4>1 DEF Succ
    <3>. QED BY <3>2, <3>3
  <2>3. Routes' = Routes /\ P' = P /\ \A b : StateOf(b)' = StateOf(b)
    BY <1>1, SameProblem
  <2>. QED BY <1>5, <2>2, <2>3 DEF TreeInv, Ahead, ToTry, Answered
<1>. QED BY <1>1, <1>4, <1>5

LEMMA LookTree ==
  ASSUME Ordered, NoChance, TreeInv, alg \in TreeSearch, NEW s \in P.states, Look(s)
  PROVE  TreeInv' /\ Answered'
<1>. DEFINE child == Node(Append(cur.path, s))
<1>0. Sound /\ QueueInv /\ alg \notin GraphSearch /\ Fresh(s) /\ P' = P
  BY SameProblem DEF Ordered, Sound, TreeSearch, GraphSearch, Fresh, Look
<1>1. /\ UNCHANGED <<prob, alg, cur>> /\ pc = "look" /\ s \in Sample(P, StateOf(cur.path), act)
      /\ child.path = Append(cur.path, s) /\ StateOf(child.path) = s /\ Len(child.path) = Len(cur.path) + 1
      /\ \/ alg \in BFS /\ s = P.goal /\ pc' = "done" /\ result' = Found(child.path)
         \/ Goes /\ Live' = Live \cup {child}
  BY <1>0, LookEffect
<1>2. Sound'
  BY LookSound DEF Ordered
<1>. HIDE DEF child
<1>3. \A b \in Routes : Ahead(b)
  BY <1>1 DEF TreeInv
<1>4. StateOf(cur.path) \in P.states /\ act \in 0..P.actions - 1 /\ Len(cur.path) \in Nat /\ cur.path \in Seq(P.states) /\ P.actions \in Nat
  BY <1>0, CurType
<1>5. CASE alg \in BFS /\ s = P.goal /\ pc' = "done" /\ result' = Found(child.path)
  <2>1. child.path \in Routes
    <3>1. result'.kind = "path" /\ result'.path = child.path
      BY <1>5 DEF Found
    <3>2. child.path \in Walks
      BY <1>1, <1>2, <3>1, SameProblem DEF Sound
    <3>. QED BY <1>1, <1>5, <3>2 DEF Routes
  <2>2. \A b \in Routes : Len(child.path) <= Len(b)
    <3>. TAKE b \in Routes
    <3>0. b \in Walks /\ StateOf(b) = P.goal /\ Len(b) \in Nat
      BY RouteType
    <3>1. CASE \E x \in Live : Prefix(x.path, b)
      <4>1. PICK x \in Live : Prefix(x.path, b)
        BY <3>1
      <4>2. Len(cur.path) <= Len(x.path) /\ StateOf(x.path) # P.goal
        BY <1>1, <1>5 DEF Ordered, BreadthFirst
      <4>3. x.path \in Seq(P.states) /\ Len(x.path) \in Nat
        BY <1>0, LiveType
      <4>4. Len(x.path) < Len(b)
        BY <3>0, <4>1, <4>2, <4>3, PrefixNext
      <4>. QED BY <1>1, <1>4, <3>0, <4>2, <4>3, <4>4
    <3>2. CASE ToTry(b)
      <4>0. PICK a \in act..P.actions - 1 : \E t \in Sample(P, StateOf(cur.path), a) : Prefix(Append(cur.path, t), b)
        BY <3>2 DEF ToTry
      <4>1. PICK t \in Sample(P, StateOf(cur.path), a) : Prefix(Append(cur.path, t), b)
        BY <4>0
      <4>2. a \in 0..P.actions - 1 /\ prob \in DOMAIN Problems
        BY <1>0, <1>4, CurType
      <4>3. t \in P.states
        BY <1>4, <4>2, SampleType
      <4>4. Len(Append(cur.path, t)) = Len(cur.path) + 1
        BY <1>4, <4>3
      <4>. QED BY <1>1, <4>1, <4>4 DEF Prefix
    <3>. QED BY <1>3, <3>1, <3>2 DEF Ahead
  <2>3. Shortest(child.path)
    BY <2>1, <2>2 DEF Shortest
  <2>. QED BY <1>1, <1>5, <2>3, FoundShortest DEF TreeInv
<1>6. CASE Goes /\ Live' = Live \cup {child}
  <2>1. pc' # "done" /\ ((act + 1 < P.actions /\ act' = act + 1 /\ pc' = "look") \/ (act + 1 = P.actions /\ act' = 0 /\ pc' = "loop"))
    BY <1>6 DEF Goes
  <2>2. ASSUME NEW b \in Routes
        PROVE  \/ \E x \in Live' : Prefix(x.path, b)
               \/ pc' = "look" /\ \E a \in act'..P.actions - 1 : \E t \in Sample(P, StateOf(cur.path), a) : Prefix(Append(cur.path, t), b)
    <3>1. CASE \E x \in Live : Prefix(x.path, b)
      BY <1>6, <3>1
    <3>2. CASE ToTry(b)
      <4>0. PICK a \in act..P.actions - 1 : \E t \in Sample(P, StateOf(cur.path), a) : Prefix(Append(cur.path, t), b)
        BY <3>2 DEF ToTry
      <4>1. PICK t \in Sample(P, StateOf(cur.path), a) : Prefix(Append(cur.path, t), b)
        BY <4>0
      <4>2. CASE a = act
        <5>1. t = s
          BY <1>1, <1>4, <4>1, <4>2, OnlyOutcome
        <5>. QED BY <1>1, <1>6, <4>1, <5>1
      <4>3. CASE a # act
        <5>1. a \in act + 1..P.actions - 1 /\ act + 1 < P.actions
          BY <1>4, <4>3
        <5>2. pc' = "look" /\ a \in act'..P.actions - 1
          BY <1>4, <2>1, <5>1
        <5>. QED BY <4>1, <5>2
      <4>. QED BY <4>2, <4>3
    <3>. QED BY <1>3, <3>1, <3>2 DEF Ahead
  <2>3. Routes' = Routes /\ P' = P /\ \A b : StateOf(b)' = StateOf(b)
    BY <1>1, SameProblem
  <2>. QED BY <1>1, <2>1, <2>2, <2>3 DEF TreeInv, Ahead, ToTry, Answered
<1>. QED BY <1>1, <1>5, <1>6

-----------------------------------------------------------------------------
\* Graph searches: what is next to an explored state is explored, or is in the
\* queue at no more than a step from it, or is still to be tried.

GraphBest == {"bfs_gs", "ucs", "astar_gs"}
Reached(t, k) == t \in explored \/ \E x \in Live : StateOf(x.path) = t /\ Len(x.path) <= k
Closed ==
  \A b \in Walks : StateOf(b) \in explored =>
    \A a \in 0..P.actions - 1 : \A t \in Sample(P, StateOf(b), a) :
      Reached(t, Len(b) + 1) \/ (pc = "look" /\ StateOf(b) = StateOf(cur.path) /\ act <= a)
\* No walk to the state looked at is shorter than the path found.
CurNearest ==
  pc = "look" => /\ StateOf(cur.path) \in explored
                 /\ \A b \in Walks : StateOf(b) = StateOf(cur.path) => Len(cur.path) <= Len(b)
GraphInv == alg \in GraphBest /\ pc # "done" => Reached(P.start, 0) /\ Closed /\ CurNearest

LEMMA GraphInit == Init => GraphInv
<1>. SUFFICES ASSUME Init, alg \in GraphBest, pc # "done" PROVE Reached(P.start, 0) /\ Closed /\ CurNearest
  BY DEF GraphInv
<1>1. Live = {Root} /\ Root.path = <<>> /\ explored = {} /\ pc # "look"
  BY DEF Init, Live, Root, GraphBest, Queued
<1>2. Reached(P.start, 0)
  BY <1>1 DEF Reached, StateOf
<1>. QED BY <1>1, <1>2 DEF Closed, CurNearest

\* Whatever walk leads to a state, the state is explored or a node not further
\* than that walk waits.
LEMMA Frontier ==
  ASSUME Sound, Consistent, GraphInv, alg \in GraphBest, pc # "done", NEW b \in Walks
  PROVE  \/ StateOf(b) \in explored
         \/ \E x \in Live : Key(x) <= Len(b) + H(StateOf(b))
         \/ pc = "look" /\ Key(cur) <= Len(b) + H(StateOf(b))
<1>. DEFINE Met(i) == \/ At(b, i) \in explored
                      \/ \E x \in Live : Key(x) <= i + H(At(b, i))
                      \/ pc = "look" /\ Key(cur) <= i + H(At(b, i))
            T == {i \in 0..Len(b) : ~Met(i)}
<1>0. b \in Seq(P.states) /\ Walk(b) /\ Len(b) \in Nat /\ prob \in DOMAIN Problems
  BY CurType DEF Walks
<1>1. \A j \in 0..Len(b) : At(b, j) \in P.states
  BY <1>0, AtType
<1>2. \A u \in P.states : H(u) \in Nat
  BY <1>0, Problem DEF H
<1>3. \A x \in Live : Len(x.path) \in Nat /\ StateOf(x.path) \in P.states /\ Key(x) \in Nat
  BY <1>2, LiveType DEF Key
<1>4. Len(cur.path) \in Nat /\ StateOf(cur.path) \in P.states /\ Key(cur) \in Nat
  BY <1>2, CurType DEF Key
<1>5. Reached(P.start, 0) /\ Closed /\ CurNearest
  BY DEF GraphInv
<1>6. Met(0)
  <2>1. At(b, 0) = P.start /\ P.start \in P.states
    BY <1>0, Problem DEF At
  <2>2. CASE P.start \in explored
    BY <2>1, <2>2
  <2>3. CASE \E x \in Live : StateOf(x.path) = P.start /\ Len(x.path) <= 0
    <3>1. PICK x \in Live : StateOf(x.path) = P.start /\ Len(x.path) <= 0
      BY <2>3
    <3>2. Key(x) <= 0 + H(At(b, 0))
      BY <1>2, <1>3, <2>1, <3>1 DEF Key
    <3>. QED BY <3>2
  <2>. QED BY <1>5, <2>2, <2>3 DEF Reached
<1>7. ASSUME NEW i \in 1..Len(b), Met(i - 1)
      PROVE  Met(i)
  <2>. DEFINE u == At(b, i - 1)  t == At(b, i)  p == SubSeq(b, 1, i - 1)
  <2>0. i - 1 \in 0..Len(b) /\ i \in 0..Len(b) /\ i # 0 /\ i \in Nat /\ i - 1 \in Nat /\ i - 1 + 1 = i
    BY <1>0
  <2>1. u \in P.states /\ t \in P.states /\ t \in Succ(u)
    <3>1. b[i] \in Succ(At(b, i - 1))
      BY <1>0, WalkSteps
    <3>. QED BY <1>1, <2>0, <3>1 DEF At
  <2>2. H(u) <= H(t) + 1 /\ H(u) \in Nat /\ H(t) \in Nat
    <3>1. P.l1[u] <= P.l1[t] + 1
      BY <2>1 DEF Consistent
    <3>. QED BY <1>2, <2>1, <3>1 DEF H
  <2>3. p \in Walks /\ Len(p) = i - 1 /\ StateOf(p) = u
    BY <1>0, <2>0, WalkFront, AtSubSeq
  <2>. HIDE DEF u, t, p
  <2>4. CASE u \in explored
    <3>1. PICK a \in 0..P.actions - 1 : t \in Sample(P, u, a)
      BY <2>1 DEF Succ
    <3>2. Reached(t, i) \/ (pc = "look" /\ u = StateOf(cur.path) /\ act <= a)
      BY <1>5, <2>0, <2>3, <2>4, <3>1 DEF Closed
    <3>3. CASE pc = "look" /\ u = StateOf(cur.path)
      <4>1. Len(cur.path) <= i - 1
        BY <1>5, <2>3, <3>3 DEF CurNearest
      <4>2. Key(cur) <= i + H(t)
        BY <1>4, <2>0, <2>2, <3>3, <4>1 DEF Key
      <4>. QED BY <3>3, <4>2 DEF t
    <3>4. CASE t \in explored
      BY <3>4 DEF t
    <3>5. CASE \E x \in Live : StateOf(x.path) = t /\ Len(x.path) <= i
      <4>1. PICK x \in Live : StateOf(x.path) = t /\ Len(x.path) <= i
        BY <3>5
      <4>2. Key(x) <= i + H(t)
        BY <1>3, <2>0, <2>2, <4>1 DEF Key
      <4>. QED BY <4>2 DEF t
    <3>. QED BY <3>2, <3>3, <3>4, <3>5 DEF Reached
  <2>5. CASE \E x \in Live : Key(x) <= i - 1 + H(u)
    <3>1. PICK x \in Live : Key(x) <= i - 1 + H(u)
      BY <2>5
    <3>2. Key(x) <= i + H(t)
      BY <1>3, <2>0, <2>2, <3>1
    <3>. QED BY <3>2 DEF t
  <2>6. CASE pc = "look" /\ Key(cur) <= i - 1 + H(u)
    <3>1. Key(cur) <= i + H(t)
      BY <1>4, <2>0, <2>2, <2>6
    <3>. QED BY <2>6, <3>1 DEF t
  <2>. QED BY <1>7, <2>4, <2>5, <2>6 DEF u
<1>. HIDE DEF Met
<1>8. T = {}
  <2>. SUFFICES ASSUME T # {} PROVE FALSE
    OBVIOUS
  <2>1. PICK i \in T : \A m \in T : i <= m
    <3>1. T \in SUBSET Nat
      BY <1>0
    <3>. HIDE DEF T
    <3>. QED BY <3>1, LeastNumber
  <2>2. i # 0
    BY <1>6, <2>1
  <2>3. i \in 1..Len(b) /\ i - 1 \in 0..Len(b) /\ ~(i <= i - 1)
    BY <1>0, <2>1, <2>2
  <2>4. Met(i - 1)
    BY <2>1, <2>3
  <2>. QED BY <1>7, <2>1, <2>3, <2>4
<1>9. Met(Len(b))
  <2>1. Len(b) \in 0..Len(b)
    BY <1>0
  <2>. QED BY <1>8, <2>1
<1>. QED BY <1>0, <1>9, StateOfAt DEF Met

LEMMA GiveUpGraph ==
  ASSUME Ordered, Consistent, GraphInv, alg \in GraphBest, GiveUp
  PROVE  Answered'
<1>1. pc = "loop" /\ qlen = 0 /\ UNCHANGED <<prob, alg>> /\ result' = IF alg \in BFS THEN Found(cur.path) ELSE Other("None")
  BY DEF GiveUp, TimedOut, GraphBest, Return
<1>2. Live = {} /\ Sound
  BY <1>1, NothingLeft DEF Ordered, Sound
<1>3. Routes = {}
  <2>. SUFFICES ASSUME NEW b \in Routes PROVE FALSE
    OBVIOUS
  <2>1. P.goal \in explored
    BY <1>1, <1>2, Frontier, RouteType
  <2>. QED BY <1>1, <2>1 DEF Ordered, GraphBest, GraphSearch
<1>. QED BY <1>1, <1>3, NoneFound DEF Found

LEMMA TakeGraph ==
  ASSUME Ordered, Consistent, GraphInv, alg \in GraphBest, NEW n \in fringe, Take(n)
  PROVE  GraphInv' /\ Answered'
<1>0. Sound /\ QueueInv /\ alg \in Queued \ Greedy /\ alg \in GraphSearch
  BY DEF Ordered, Sound, GraphBest, Queued, Greedy, GraphSearch
<1>1. /\ UNCHANGED <<prob, alg>> /\ pc = "loop" /\ n \in Live /\ Live' = Live \ {n}
      /\ \A x \in Live : ~Before(x, n)
      /\ \/ /\ StateOf(n.path) = P.goal
            /\ pc' = "done" /\ result' = Found(n.path)
         \/ /\ cur' = n /\ act' = 0 /\ pc' = "look"
            /\ explored' = explored \cup {StateOf(n.path)}
  BY <1>0, TakeEffect
<1>. DEFINE u == StateOf(n.path)
<1>2. n.path \in Walks /\ u \in P.states /\ Len(n.path) \in Nat /\ prob \in DOMAIN Problems
  BY <1>0, <1>1, LiveType, CurType
<1>3. u \notin explored
  BY <1>0, <1>1 DEF QueueInv, QueueExact
\* The path to n is a shortest one.
<1>4. \A b \in Walks : StateOf(b) = u => Len(n.path) <= Len(b)
  <2>. SUFFICES ASSUME NEW b \in Walks, StateOf(b) = u PROVE Len(n.path) <= Len(b)
    OBVIOUS
  <2>1. PICK x \in Live : Key(x) <= Len(b) + H(u)
    BY <1>0, <1>1, <1>3, Frontier
  <2>2. Key(n) <= Key(x)
    BY <1>0, <1>1, TakenIsLeast
  <2>3. H(u) \in Nat /\ Len(b) \in Nat
    BY <1>2, Problem DEF H, Walks
  <2>4. Key(x) \in Int
    <3>1. Len(x.path) \in Nat /\ StateOf(x.path) \in P.states
      BY <1>0, LiveType
    <3>. QED BY <1>2, <3>1, Problem DEF Key, H
  <2>. QED BY <1>2, <2>1, <2>2, <2>3, <2>4 DEF Key
<1>5. CASE u = P.goal /\ pc' = "done" /\ result' = Found(n.path)
  <2>1. Shortest(n.path)
    BY <1>2, <1>4, <1>5, RouteType DEF Shortest, Routes
  <2>. QED BY <1>1, <1>5, <2>1, FoundShortest DEF GraphInv
<1>6. CASE cur' = n /\ act' = 0 /\ pc' = "look" /\ explored' = explored \cup {u}
  <2>0. Walks' = Walks /\ P' = P /\ \A b : StateOf(b)' = StateOf(b)
    BY <1>1, SameProblem
  <2>. HIDE DEF u
  <2>1. \A t, k : Reached(t, k) => Reached(t, k)'
    BY <1>1, <1>6, <2>0 DEF Reached, u
  <2>2. Reached(P.start, 0) /\ Closed
    BY <1>1 DEF GraphInv
  <2>3. Reached(P.start, 0)'
    BY <2>0, <2>1, <2>2
  <2>4. Closed'
    <3>1. ASSUME NEW b \in Walks, StateOf(b) \in explored', NEW a \in 0..P.actions - 1, NEW t \in Sample(P, StateOf(b), a)
          PROVE  Reached(t, Len(b) + 1)' \/ (StateOf(b) = u /\ 0 <= a)
      <4>1. CASE StateOf(b) \in explored
        <5>1. Reached(t, Len(b) + 1)
          BY <1>1, <2>2, <3>1, <4>1 DEF Closed
        <5>. QED BY <2>1, <5>1
      <4>2. CASE StateOf(b) = u
        BY <4>2
      <4>. QED BY <1>6, <3>1, <4>1, <4>2
    <3>. QED BY <1>6, <2>0, <3>1 DEF Closed, u
  <2>5. CurNearest'
    BY <1>4, <1>6, <2>0 DEF CurNearest, u
  <2>. QED BY <1>6, <2>3, <2>4, <2>5 DEF GraphInv, Answered
<1>. QED BY <1>1, <1>5, <1>6

\* What is not fresh is explored or already in the queue, not further away.
LEMMA KnownBefore ==
  ASSUME Ordered, alg \in GraphBest, pc = "look", NEW s \in P.states, ~Fresh(s),
         NEW child, child.path = Append(cur.path, s), StateOf(child.path) = s, child.value = Value(child.path)
  PROVE  /\ ~Better(child) => Reached(s, Len(cur.path) + 1)
         /\ Better(child) => \A m \in Live : m = Entry(s) /\ StateOf(m.path) = s => Len(cur.path) + 1 <= Len(m.path)
<1>0. Sound /\ QueueInv /\ alg \in GraphSearch /\ alg \in Queued
  BY DEF Ordered, Sound, GraphBest, GraphSearch, Queued
<1>1. Len(child.path) = Len(cur.path) + 1 /\ Len(cur.path) \in Nat /\ prob \in DOMAIN Problems
  BY <1>0, CurType
<1>2. ASSUME NEW m \in Live, StateOf(m.path) = s
      PROVE  /\ Len(m.path) \in Nat /\ P.l1[s] \in Nat
             /\ alg # "bfs_gs" => m.value = Value(m.path)
             /\ alg = "astar_gs" => Value(m.path) = Len(m.path) + P.l1[s]
             /\ alg = "bfs_gs" => Len(m.path) <= Len(cur.path) + 1
  <2>1. Len(m.path) \in Nat /\ P.l1[s] \in Nat
    BY <1>0, <1>1, LiveType, Problem
  <2>2. alg # "bfs_gs" => m.value = Value(m.path)
    BY <1>0 DEF Ordered, Valued, GraphBest, BFS
  <2>3. alg = "astar_gs" => Value(m.path) = Len(m.path) + P.l1[s]
    BY <1>2 DEF Value, BFS
  <2>4. alg = "bfs_gs" => Len(m.path) <= Len(cur.path) + 1
    BY DEF Ordered, BreadthFirst, BFS
  <2>. QED BY <2>1, <2>2, <2>3, <2>4
<1>3. alg = "astar_gs" => child.value = Len(cur.path) + 1 + P.l1[s]
  BY <1>1 DEF Value, BFS
<1>4. ASSUME Better(child), NEW m \in Live, m = Entry(s), StateOf(m.path) = s
      PROVE  Len(cur.path) + 1 <= Len(m.path)
  <2>1. CASE alg = "ucs"
    <3>1. Len(m.path) > Len(child.path)
      BY <1>4, <2>1 DEF Better, HigherCost
    <3>. QED BY <1>1, <1>2, <1>4, <3>1
  <2>2. CASE alg = "astar_gs"
    <3>1. m.value > child.value
      BY <1>4, <2>2 DEF Better, HigherValue
    <3>. QED BY <1>1, <1>2, <1>3, <1>4, <2>2, <3>1
  <2>. QED BY <1>4, <2>1, <2>2 DEF GraphBest, Better
<1>5. ASSUME ~Better(child)
      PROVE  Reached(s, Len(cur.path) + 1)
  <2>1. CASE s \in explored
    BY <2>1 DEF Reached
  <2>2. CASE InQueue(s)
    <3>1. PICK m \in Live : StateOf(m.path) = s /\ m = Entry(s)
      BY <1>0, <2>2, LiveEntry
    <3>2. Len(m.path) <= Len(cur.path) + 1
      <4>1. CASE alg = "ucs"
        <5>1. ~(Len(m.path) > Len(child.path))
          BY <1>5, <2>2, <3>1, <4>1 DEF Better, HigherCost
        <5>. QED BY <1>1, <1>2, <3>1, <5>1
      <4>2. CASE alg = "astar_gs"
        <5>1. ~(m.value > child.value)
          BY <1>5, <2>2, <3>1, <4>2 DEF Better, HigherValue
        <5>. QED BY <1>1, <1>2, <1>3, <3>1, <4>2, <5>1
      <4>3. CASE alg = "bfs_gs"
        BY <1>2, <3>1, <4>3
      <4>. QED BY <4>1, <4>2, <4>3 DEF GraphBest
    <3>. QED BY <3>1, <3>2 DEF Reached
  <2>. QED BY <2>1, <2>2 DEF Fresh
<1>. QED BY <1>4, <1>5

LEMMA LookGraph ==
  ASSUME Ordered, NoChance, Consistent, GraphInv, alg \in GraphBest, NEW s \in P.states, Look(s)
  PROVE  GraphInv' /\ Answered'
<1>. DEFINE child == Node(Append(cur.path, s))
            far == Len(cur.path) + 1
<1>0. Sound /\ QueueInv /\ alg \in GraphSearch
  BY DEF Ordered, Sound, GraphBest, GraphSearch
<1>1. /\ UNCHANGED <<prob, alg, cur, explored>> /\ pc = "look" /\ s \in Sample(P, StateOf(cur.path), act)
      /\ child.path = Append(cur.path, s) /\ StateOf(child.path) = s /\ Len(child.path) = far /\ child.value = Value(child.path)
      /\ \/ alg \in BFS /\ s = P.goal /\ pc' = "done" /\ result' = Found(child.path)
         \/ Goes /\ Live' = Live \cup {child}
         \/ /\ ~Fresh(s) /\ Better(child) /\ Goes
            /\ \E m \in Live : m = Entry(s) /\ StateOf(m.path) = s /\ Live' = (Live \ {m}) \cup {child}
         \/ ~Fresh(s) /\ ~Better(child) /\ Goes /\ Live' = Live
  BY <1>0, LookEffect
<1>2. Sound'
  BY LookSound DEF Ordered
<1>. HIDE DEF child
<1>3. Reached(P.start, 0) /\ Closed /\ StateOf(cur.path) \in explored
      /\ \A b \in Walks : StateOf(b) = StateOf(cur.path) => Len(cur.path) <= Len(b)
  BY <1>1 DEF GraphInv, CurNearest
<1>4. StateOf(cur.path) \in P.states /\ act \in 0..P.actions - 1 /\ Len(cur.path) \in Nat /\ P.actions \in Nat /\ prob \in DOMAIN Problems
  BY <1>0, CurType
<1>5. CASE alg \in BFS /\ s = P.goal /\ pc' = "done" /\ result' = Found(child.path)
  <2>0. BreadthFirst /\ P.goal \notin explored
    BY <1>0, <1>1, <1>5 DEF Ordered
  <2>1. child.path \in Routes
    <3>1. result'.kind = "path" /\ result'.path = child.path
      BY <1>5 DEF Found
    <3>2. child.path \in Walks
      BY <1>1, <1>2, <3>1, SameProblem DEF Sound
    <3>. QED BY <1>1, <1>5, <3>2 DEF Routes
  <2>2. P.start # P.goal
    BY <1>3, <2>0 DEF Reached, BreadthFirst
  <2>3. ASSUME NEW b \in Routes
        PROVE  Len(child.path) <= Len(b)
    <3>0. b \in Walks /\ b \in Seq(P.states) /\ Walk(b) /\ StateOf(b) = P.goal /\ Len(b) \in Nat
      BY RouteType
    <3>1. b # <<>>
      BY <2>2, <3>0 DEF StateOf
    <3>. DEFINE k == Len(b) - 1  p == SubSeq(b, 1, k)
    <3>2. k \in 0..Len(b) /\ Len(b) \in 1..Len(b) /\ k \in Nat /\ Len(b) = k + 1
      BY <3>0, <3>1
    <3>3. p \in Walks /\ Len(p) = k /\ StateOf(p) = At(b, k)
      BY <3>0, <3>2, WalkFront, AtSubSeq
    <3>4. P.goal \in Succ(StateOf(p))
      <4>1. b[Len(b)] \in Succ(At(b, k))
        BY <3>0, <3>2, WalkSteps
      <4>2. b[Len(b)] = P.goal
        BY <3>0, <3>1 DEF StateOf
      <4>. QED BY <3>3, <4>1, <4>2
    <3>. HIDE DEF k, p
    <3>5. Len(cur.path) <= k
      <4>1. CASE StateOf(p) \in explored
        <5>1. PICK a \in 0..P.actions - 1 : P.goal \in Sample(P, StateOf(p), a)
          BY <3>4 DEF Succ
        <5>2. ~Reached(P.goal, Len(p) + 1)
          BY <2>0 DEF Reached, BreadthFirst
        <5>3. StateOf(p) = StateOf(cur.path)
          BY <1>3, <3>3, <4>1, <5>1, <5>2 DEF Closed
        <5>. QED BY <1>3, <3>3, <5>3
      <4>2. CASE StateOf(p) \notin explored
        <5>1. \A u : H(u) = 0
          BY <1>5 DEF H, BFS
        <5>2. (\E x \in Live : Key(x) <= k + 0) \/ Key(cur) <= k + 0
          BY <1>0, <1>1, <3>3, <4>2, <5>1, Frontier
        <5>3. \A x \in Live : Len(cur.path) <= Len(x.path) /\ Len(x.path) \in Nat
          BY <1>0, <2>0, LiveType DEF BreadthFirst
        <5>. QED BY <1>4, <3>2, <5>1, <5>2, <5>3 DEF Key
      <4>. QED BY <4>1, <4>2
    <3>. QED BY <1>1, <1>4, <3>2, <3>5
  <2>4. Shortest(child.path)
    BY <2>1, <2>3 DEF Shortest
  <2>. QED BY <1>1, <1>5, <2>4, FoundShortest DEF GraphInv
<1>6. CASE Goes
  <2>0. Walks' = Walks /\ P' = P /\ \A b : StateOf(b)' = StateOf(b)
    BY <1>1, SameProblem
  <2>1. /\ pc' # "done"
        /\ (act + 1 < P.actions /\ act' = act + 1 /\ pc' = "look") \/ (act + 1 = P.actions /\ act' = 0 /\ pc' = "loop")
    BY <1>6 DEF Goes
  <2>2. \/ child \in Live' /\ Live \subseteq Live'
        \/ /\ child \in Live'
           /\ \E m \in Live : Live \ {m} \subseteq Live' /\ StateOf(m.path) = s /\ far <= Len(m.path)
        \/ Live' = Live /\ Reached(s, far)
    <3>1. ~Fresh(s) /\ ~Better(child) => Reached(s, far)
      BY <1>1, KnownBefore
    <3>2. ~Fresh(s) /\ Better(child) => \A m \in Live : m = Entry(s) /\ StateOf(m.path) = s => far <= Len(m.path)
      BY <1>1, KnownBefore
    <3>3. pc' # "done"
      BY <2>1
    <3>. HIDE DEF far
    <3>. QED BY <1>1, <3>1, <3>2, <3>3
  <2>. DEFINE Close(t, k) == t \in explored \/ \E x \in Live' : StateOf(x.path) = t /\ Len(x.path) <= k
  <2>3. ASSUME NEW t, NEW k \in Int, Reached(t, k)
        PROVE  Close(t, k)
    <3>1. CASE t \in explored
      BY <3>1
    <3>2. ASSUME NEW x \in Live, StateOf(x.path) = t, Len(x.path) <= k
          PROVE  Close(t, k)
      <4>1. CASE x \in Live'
        BY <3>2, <4>1
      <4>2. CASE x \notin Live'
        <5>1. child \in Live' /\ StateOf(x.path) = s /\ far <= Len(x.path)
          BY <2>2, <4>2
        <5>2. Len(x.path) \in Nat
          BY <1>0, LiveType
        <5>3. Len(child.path) <= k
          BY <1>1, <1>4, <3>2, <5>1, <5>2
        <5>. QED BY <1>1, <3>2, <5>1, <5>3
      <4>. QED BY <4>1, <4>2
    <3>. QED BY <2>3, <3>1, <3>2 DEF Reached
  <2>4. Close(s, far)
    <3>1. CASE child \in Live'
      <4>1. far \in Int /\ StateOf(child.path) = s /\ Len(child.path) = far
        BY <1>1, <1>4
      <4>. HIDE DEF far
      <4>2. Len(child.path) <= far
        BY <4>1
      <4>. QED BY <3>1, <4>1, <4>2
    <3>2. CASE Reached(s, far)
      <4>1. far \in Int
        BY <1>4
      <4>. HIDE DEF Close, far
      <4>. QED BY <2>3, <3>2, <4>1
    <3>. QED BY <2>2, <3>1, <3>2
  <2>5. ASSUME NEW b \in Walks, StateOf(b) \in explored, NEW a \in 0..P.actions - 1, NEW t \in Sample(P, StateOf(b), a)
        PROVE  Close(t, Len(b) + 1) \/ (pc' = "look" /\ StateOf(b) = StateOf(cur.path) /\ act' <= a)
    <3>0. Len(b) \in Nat
      BY DEF Walks
    <3>1. CASE Reached(t, Len(b) + 1)
      BY <2>3, <3>0, <3>1
    <3>2. CASE StateOf(b) = StateOf(cur.path) /\ act <= a
      <4>1. CASE a = act
        <5>1. t = s
          BY <1>1, <1>4, <3>2, <4>1, OnlyOutcome
        <5>2. Len(cur.path) <= Len(b)
          BY <1>3, <3>2
        <5>3. s \in explored \/ \E x \in Live' : StateOf(x.path) = s /\ Len(x.path) <= Len(b) + 1
          <6>1. CASE s \in explored
            BY <6>1
          <6>2. ASSUME NEW x \in Live', StateOf(x.path) = s, Len(x.path) <= far
                PROVE  Len(x.path) <= Len(b) + 1
            <7>1. Len(x.path) \in Nat
              <8>1. x \in fringe'
                BY DEF Live
              <8>2. x.path \in Walks'
                BY <1>2, <8>1 DEF Sound
              <8>. QED BY <2>0, <8>2 DEF Walks
            <7>. QED BY <1>4, <3>0, <5>2, <6>2, <7>1
          <6>. QED BY <2>4, <6>1, <6>2
        <5>. QED BY <5>1, <5>3
      <4>2. CASE a # act
        <5>1. act + 1 <= a /\ act + 1 < P.actions
          BY <1>4, <3>2, <4>2
        <5>2. pc' = "look" /\ act' <= a
          BY <1>4, <2>1, <5>1
        <5>. QED BY <3>2, <5>2
      <4>. QED BY <4>1, <4>2
    <3>. QED BY <1>3, <2>5, <3>1, <3>2 DEF Closed
  <2>6. \A t, k : Reached(t, k)' <=> Close(t, k)
    BY <1>1, <2>0 DEF Reached
  <2>. HIDE DEF Close
  <2>7. Reached(P.start, 0)'
    BY <1>3, <2>0, <2>3, <2>6
  <2>8. Closed'
    BY <1>1, <2>0, <2>5, <2>6 DEF Closed
  <2>9. CurNearest'
    BY <1>1, <1>3, <2>0 DEF CurNearest
  <2>. QED BY <2>1, <2>7, <2>8, <2>9 DEF GraphInv, Answered
<1>. QED BY <1>1, <1>5, <1>6

-----------------------------------------------------------------------------
\* Iterative deepening: every way to the goal is at least as long as the limit
\* and goes on through an action that some frame has yet to try, or was cut off
\* and is longer than the limit.

\* A frame has yet to try an action that may lead to t.
Tries(frame, t) == \E a \in frame.act..P.actions - 1 : t \in Sample(P, frame.state, a)

PendingIn(fr, b) ==
  \E d \in DOMAIN fr : /\ d <= Len(b)
                       /\ \A i \in 1..d - 1 : b[i] = fr[i + 1].state
                       /\ Tries(fr[d], b[d])
NotedIn(fr) == \E d \in DOMAIN fr : fr[d].cut
TodoIn(fr, b) == PendingIn(fr, b) \/ (limit < Len(b) /\ NotedIn(fr))
DeepInv == alg = "ids" /\ pc # "done" => \A b \in Routes : limit <= Len(b) /\ (stack = <<>> \/ TodoIn(stack, b))

\* A way to the goal that passes through s, called by these frames.
Through(fr, s, b) == /\ Len(fr) <= Len(b)
                     /\ \A i \in 1..Len(fr) - 1 : b[i] = fr[i + 1].state
                     /\ fr # <<>> => b[Len(fr)] = s

LEMMA DeepInit == Init => DeepInv
<1>. SUFFICES ASSUME Init, alg = "ids", NEW b \in Routes PROVE limit <= Len(b) /\ stack = <<>>
  BY DEF DeepInv
<1>1. limit = 0 /\ stack = <<>>
  BY DEF Init
<1>. QED BY <1>1, RouteType

\* Frames that agree on states and next actions have the same pending ways.
LEMMA PendingSame ==
  ASSUME NEW S, NEW T, NEW f \in Seq(S), NEW h \in Seq(T), Len(f) = Len(h), NEW b,
         \A i \in 1..Len(f) : f[i].state = h[i].state /\ f[i].act = h[i].act,
         PendingIn(f, b)
  PROVE  PendingIn(h, b)
<1>1. DOMAIN f = 1..Len(f) /\ DOMAIN h = 1..Len(f) /\ Len(f) \in Nat
  OBVIOUS
<1>2. PICK d \in 1..Len(f) : /\ d <= Len(b)
                             /\ \A i \in 1..d - 1 : b[i] = f[i + 1].state
                             /\ Tries(f[d], b[d])
  BY <1>1 DEF PendingIn
<1>3. \A i \in 1..d - 1 : i + 1 \in 1..Len(f)
  BY <1>1
<1>4. \A i \in 1..d - 1 : b[i] = h[i + 1].state
  BY <1>2, <1>3
<1>5. f[d].state = h[d].state /\ f[d].act = h[d].act
  OBVIOUS
<1>6. Tries(h[d], b[d])
  BY <1>2, <1>5 DEF Tries
<1>. QED BY <1>1, <1>2, <1>4, <1>6 DEF PendingIn

\* More frames on top leave the pending ways and the notes.
LEMMA PendingKept ==
  ASSUME NEW S, NEW T, NEW f \in Seq(S), NEW h \in Seq(T), Len(f) <= Len(h), NEW b,
         \A i \in 1..Len(f) : h[i] = f[i]
  PROVE  (PendingIn(f, b) => PendingIn(h, b)) /\ (NotedIn(f) => NotedIn(h))
<1>1. DOMAIN f = 1..Len(f) /\ DOMAIN h = 1..Len(h) /\ Len(f) \in Nat /\ Len(h) \in Nat
  OBVIOUS
<1>2. 1..Len(f) \subseteq 1..Len(h)
  BY <1>1
<1>3. NotedIn(f) => NotedIn(h)
  BY <1>1, <1>2 DEF NotedIn
<1>4. ASSUME PendingIn(f, b) PROVE PendingIn(h, b)
  <2>1. PICK d \in 1..Len(f) : /\ d <= Len(b)
                               /\ \A i \in 1..d - 1 : b[i] = f[i + 1].state
                               /\ Tries(f[d], b[d])
    BY <1>1, <1>4 DEF PendingIn
  <2>2. \A i \in 1..d - 1 : i + 1 \in 1..Len(f)
    BY <1>1
  <2>3. \A i \in 1..d - 1 : b[i] = h[i + 1].state
    BY <2>1, <2>2
  <2>4. h[d] = f[d]
    BY <2>1
  <2>5. Tries(h[d], b[d])
    BY <2>1, <2>4
  <2>. QED BY <1>1, <1>2, <2>1, <2>3, <2>5 DEF PendingIn
<1>. QED BY <1>3, <1>4

LEMMA DeepPrime ==
  ASSUME UNCHANGED <<prob, alg>>, NEW fr, stack' = fr,
         \A b \in Routes : limit' <= Len(b) /\ (fr = <<>> \/ PendingIn(fr, b) \/ (limit' < Len(b) /\ NotedIn(fr)))
  PROVE  DeepInv'
<1>1. P' = P /\ Routes' = Routes
  BY SameProblem
<1>2. \A b : PendingIn(stack, b)' <=> PendingIn(fr, b)
  BY <1>1 DEF PendingIn, Tries, Sample
<1>3. NotedIn(stack)' <=> NotedIn(fr)
  BY DEF NotedIn
<1>. QED BY <1>1, <1>2, <1>3 DEF DeepInv, TodoIn

\* A cut_off that the last frame takes note of, or that starts another round:
\* a way to the goal longer than the limit is still to come.
LEMMA CutOffDeep ==
  ASSUME Sound, UNCHANGED <<prob, alg>>, alg = "ids", NEW frames, FramesOK(frames), CutOff(frames),
         \A b \in Routes : limit <= Len(b) /\ (PendingIn(frames, b) \/ limit < Len(b))
  PROVE  DeepInv' /\ pc' = pc
<1>. DEFINE h == stack'
<1>0. /\ limit \in Nat /\ frames \in Seq(FrameType) /\ P' = P
      /\ \A b \in Routes : Len(b) \in Nat
  BY SameProblem, RouteType DEF Sound, FramesOK
<1>1. /\ FramesOK(stack)'
      /\ \/ /\ frames # <<>> /\ UNCHANGED <<pc, limit>> /\ Len(h) = Len(frames)
            /\ \A i \in 1..Len(frames) : h[i].state = frames[i].state /\ h[i].act = frames[i].act
            /\ h[Len(frames)].cut
         \/ frames = <<>> /\ h = <<>> /\ limit' = limit + 1 /\ UNCHANGED pc
  BY CutOffEffect
<1>2. h \in Seq(FrameType')
  BY <1>1 DEF FramesOK
<1>. HIDE DEF h
<1>3. CASE frames = <<>> /\ h = <<>> /\ limit' = limit + 1
  <2>1. \A b \in Routes : limit' <= Len(b)
    <3>1. \A b : ~PendingIn(frames, b)
      BY <1>3 DEF PendingIn
    <3>. QED BY <1>0, <1>3, <3>1
  <2>. QED BY <1>1, <1>3, <2>1, DeepPrime DEF h
<1>4. CASE /\ frames # <<>> /\ UNCHANGED limit /\ Len(h) = Len(frames)
           /\ \A i \in 1..Len(frames) : h[i].state = frames[i].state /\ h[i].act = frames[i].act
           /\ h[Len(frames)].cut
  <2>1. NotedIn(h)
    <3>1. Len(frames) \in DOMAIN h
      BY <1>0, <1>2, <1>4
    <3>. QED BY <1>4, <3>1 DEF NotedIn
  <2>2. \A b : PendingIn(frames, b) => PendingIn(h, b)
    BY <1>0, <1>2, <1>4, PendingSame
  <2>3. \A b \in Routes : limit' <= Len(b) /\ (PendingIn(h, b) \/ (limit' < Len(b) /\ NotedIn(h)))
    BY <1>4, <2>1, <2>2
  <2>. QED BY <1>1, <1>4, <2>3, DeepPrime DEF h
<1>. QED BY <1>1, <1>3, <1>4

\* A way through a state that is not the goal goes on.
LEMMA ThroughGoesOn ==
  ASSUME Sound, NEW fr \in Seq(FrameType), NEW s \in P.states, s # P.goal, NEW b \in Routes, Through(fr, s, b),
         fr = <<>> => s = P.start
  PROVE  Len(fr) < Len(b) /\ Len(fr) \in Nat /\ b[Len(fr) + 1] \in Succ(s)
<1>1. b \in Seq(P.states) /\ Walk(b) /\ StateOf(b) = P.goal /\ Len(b) \in Nat
  BY RouteType
<1>2. Len(fr) \in Nat /\ Len(fr) <= Len(b) /\ (fr = <<>> <=> Len(fr) = 0)
  BY DEF Through
<1>3. At(b, Len(fr)) = s
  BY <1>2 DEF Through, At
<1>4. Len(fr) # Len(b)
  BY <1>1, <1>3, StateOfAt
<1>5. Len(fr) + 1 \in 1..Len(b) /\ Len(fr) + 1 - 1 = Len(fr)
  BY <1>1, <1>2, <1>4
<1>6. b[Len(fr) + 1] \in Succ(At(b, Len(fr) + 1 - 1))
  BY <1>1, <1>5, WalkSteps
<1>. QED BY <1>1, <1>2, <1>3, <1>4, <1>5, <1>6

LEMMA VisitDeep ==
  ASSUME Sound, alg = "ids", pc = "deep", UNCHANGED <<prob, alg>>,
         NEW frames, FramesOK(frames), NEW s \in P.states, Visit(s, frames),
         frames = <<>> => s = P.start, frames # <<>> => s \in Succ(frames[Len(frames)].state),
         frames # <<>> => stack # <<>> /\ Len(frames) = Len(stack) /\ Top.state = frames[Len(frames)].state,
         \A b \in Routes : limit <= Len(b) /\ (TodoIn(frames, b) \/ Through(frames, s, b))
  PROVE  DeepInv' /\ Answered'
<1>. DEFINE h == Append(frames, Frame(s))
<1>0. /\ limit \in Nat /\ prob \in DOMAIN Problems /\ frames \in Seq(FrameType)
      /\ Len(frames) \in Nat /\ Len(frames) <= limit
      /\ \A b \in Routes : Len(b) \in Nat
  BY RouteType DEF Sound, FramesOK, QueueInv, TypeOK
<1>1. \/ pc' = "done" /\ \E b \in Routes : result' = Found(b) /\ Len(b) = Len(frames)
      \/ s # P.goal /\ limit = Len(frames) /\ CutOff(frames)
      \/ s # P.goal /\ stack' = h /\ UNCHANGED <<pc, limit>>
  BY VisitEffect
<1>. HIDE DEF h
<1>2. CASE pc' = "done" /\ \E b \in Routes : result' = Found(b) /\ Len(b) = Len(frames)
  <2>1. PICK b \in Routes : result' = Found(b) /\ Len(b) = Len(frames)
    BY <1>2
  <2>2. Shortest(b)
    BY <1>0, <2>1 DEF Shortest
  <2>. QED BY <1>2, <2>1, <2>2, FoundShortest DEF DeepInv
<1>3. CASE s # P.goal /\ limit = Len(frames) /\ CutOff(frames)
  <2>1. \A b \in Routes : Through(frames, s, b) => limit < Len(b)
    BY <1>0, <1>3, ThroughGoesOn
  <2>2. DeepInv' /\ pc' = pc
    BY <1>3, <2>1, CutOffDeep DEF TodoIn
  <2>. QED BY <2>2 DEF Answered
<1>4. CASE s # P.goal /\ stack' = h /\ UNCHANGED <<pc, limit>>
  <2>1. /\ h \in Seq(FrameType \cup {Frame(s)}) /\ Len(h) = Len(frames) + 1 /\ h[Len(frames) + 1] = Frame(s)
        /\ \A i \in 1..Len(frames) : h[i] = frames[i]
    BY <1>0 DEF h
  <2>2. Frame(s).state = s /\ Frame(s).act = 0
    BY DEF Frame
  <2>3. ASSUME NEW b \in Routes
        PROVE  PendingIn(h, b) \/ (limit < Len(b) /\ NotedIn(h))
    <3>1. CASE TodoIn(frames, b)
      <4>1. (PendingIn(frames, b) => PendingIn(h, b)) /\ (NotedIn(frames) => NotedIn(h))
        <5>1. Len(frames) <= Len(h)
          BY <1>0, <2>1
        <5>. QED BY <1>0, <2>1, <5>1, PendingKept
      <4>. QED BY <3>1, <4>1 DEF TodoIn
    <3>2. CASE Through(frames, s, b)
      <4>. DEFINE d == Len(frames) + 1
      <4>1. Len(frames) < Len(b) /\ b[d] \in Succ(s)
        BY <1>0, <1>4, <3>2, ThroughGoesOn
      <4>2. d \in DOMAIN h /\ d <= Len(b) /\ d \in 1..d /\ d - 1 = Len(frames)
        BY <1>0, <2>1, <4>1
      <4>3. \A i \in 1..d - 1 : b[i] = h[i + 1].state
        <5>. SUFFICES ASSUME NEW i \in 1..Len(frames) PROVE b[i] = h[i + 1].state
          BY <4>2
        <5>1. CASE i = Len(frames)
          <6>1. frames # <<>>
            BY <5>1
          <6>. QED BY <2>1, <2>2, <3>2, <5>1, <6>1 DEF Through
        <5>2. CASE i # Len(frames)
          <6>1. i \in 1..Len(frames) - 1 /\ i + 1 \in 1..Len(frames)
            BY <1>0, <5>2
          <6>. QED BY <2>1, <3>2, <6>1 DEF Through
        <5>. QED BY <5>1, <5>2
      <4>4. PICK a \in 0..P.actions - 1 : b[d] \in Sample(P, s, a)
        BY <4>1 DEF Succ
      <4>5. h[d].act = 0 /\ h[d].state = s
        BY <2>1, <2>2
      <4>. HIDE DEF d
      <4>6. PendingIn(h, b)
        BY <4>2, <4>3, <4>4, <4>5 DEF PendingIn, Tries
      <4>. QED BY <4>6
    <3>. QED BY <3>1, <3>2
  <2>4. DeepInv'
    BY <1>4, <2>3, DeepPrime
  <2>. QED BY <1>4, <2>4 DEF Answered
<1>. QED BY <1>1, <1>2, <1>3, <1>4

LEMMA RootDeep ==
  ASSUME Ordered, alg = "ids", DeepInv, DeepRoot
  PROVE  DeepInv' /\ Answered'
<1>1. /\ Sound /\ pc = "deep" /\ stack = <<>> /\ UNCHANGED <<prob, alg>> /\ Visit(P.start, <<>>)
      /\ P.start \in P.states /\ prob \in DOMAIN Problems /\ limit \in Nat
  BY Problem DEF Ordered, DeepRoot, Visit, Sound, QueueInv, TypeOK
<1>2. FramesOK(<<>>)
  BY <1>1 DEF FramesOK
<1>3. \A b \in Routes : limit <= Len(b) /\ Through(<<>>, P.start, b)
  BY <1>1, RouteType DEF DeepInv, Through
<1>. QED BY <1>1, <1>2, <1>3, VisitDeep

LEMMA LookDeep ==
  ASSUME Ordered, NoChance, alg = "ids", DeepInv, DeepLook
  PROVE  DeepInv' /\ Answered'
<1>. DEFINE frames == [stack EXCEPT ![Len(stack)].act = @ + 1]
            n == Len(stack)
<1>1. /\ Sound /\ pc = "deep" /\ stack # <<>> /\ Top.act < P.actions /\ UNCHANGED <<prob, alg>>
      /\ prob \in DOMAIN Problems /\ limit \in Nat /\ FramesOK(stack)
  BY DEF Ordered, DeepLook, Visit, Sound, QueueInv, TypeOK
<1>2. PICK s \in Sample(P, Top.state, Top.act) : Visit(s, frames)
  BY DEF DeepLook
<1>3. /\ FramesOK(frames) /\ Len(frames) = n /\ frames # <<>> /\ n \in Nat
      /\ \A i \in 1..n : frames[i].state = stack[i].state
      /\ \A i \in 1..n - 1 : frames[i] = stack[i]
      /\ frames[n] = [state |-> Top.state, act |-> Top.act + 1, cut |-> Top.cut]
      /\ Top.act \in 0..P.actions - 1 /\ Top.state \in P.states
  BY <1>1, LookFrames
<1>4. n > 0 /\ stack[n] = Top /\ DOMAIN stack = 1..n /\ n \in 1..n
  BY <1>1, <1>3 DEF Top, FramesOK
<1>. HIDE DEF frames, n
<1>5. frames \in Seq(FrameType) /\ DOMAIN frames = 1..n
  BY <1>3 DEF FramesOK
<1>6. s \in P.states /\ s \in Succ(Top.state) /\ frames[n].state = Top.state
  BY <1>1, <1>2, <1>3, SampleType DEF Succ
<1>7. ASSUME NEW b \in Routes
      PROVE  limit <= Len(b) /\ (TodoIn(frames, b) \/ Through(frames, s, b))
  <2>0. limit <= Len(b) /\ TodoIn(stack, b)
    BY <1>1 DEF DeepInv
  <2>1. NotedIn(stack) => NotedIn(frames)
    <3>. SUFFICES ASSUME NEW d \in 1..n, stack[d].cut PROVE frames[d].cut
      BY <1>4, <1>5 DEF NotedIn
    <3>1. CASE d = n
      BY <1>3, <1>4, <3>1
    <3>2. CASE d # n
      <4>1. d \in 1..n - 1
        BY <1>3, <3>2
      <4>. QED BY <1>3, <4>1
    <3>. QED BY <3>1, <3>2
  <2>2. ASSUME PendingIn(stack, b)
        PROVE  PendingIn(frames, b) \/ Through(frames, s, b)
    <3>1. PICK d \in 1..n : /\ d <= Len(b)
                            /\ \A i \in 1..d - 1 : b[i] = stack[i + 1].state
                            /\ Tries(stack[d], b[d])
      BY <1>4, <2>2 DEF PendingIn
    <3>2. PICK a \in stack[d].act..P.actions - 1 : b[d] \in Sample(P, stack[d].state, a)
      BY <3>1 DEF Tries
    <3>3. \A i \in 1..d - 1 : b[i] = frames[i + 1].state
      <4>1. \A i \in 1..d - 1 : i + 1 \in 1..n
        BY <1>3
      <4>. QED BY <1>3, <3>1, <4>1
    <3>4. CASE d # n
      <4>1. d \in 1..n - 1
        BY <1>3, <3>4
      <4>2. frames[d] = stack[d]
        BY <1>3, <4>1
      <4>. QED BY <1>5, <3>1, <3>3, <4>2 DEF PendingIn
    <3>5. CASE d = n /\ a = Top.act
      <4>1. b[n] = s
        BY <1>1, <1>2, <1>3, <1>4, <3>2, <3>5, OnlyOutcome
      <4>. QED BY <1>3, <3>1, <3>3, <3>5, <4>1 DEF Through
    <3>6. CASE d = n /\ a # Top.act
      <4>1. a \in Top.act + 1..P.actions - 1
        BY <1>3, <1>4, <3>2, <3>6
      <4>2. frames[d].act = Top.act + 1 /\ frames[d].state = Top.state /\ stack[d] = Top
        BY <1>3, <1>4, <3>6
      <4>3. a \in frames[d].act..P.actions - 1 /\ b[d] \in Sample(P, frames[d].state, a)
        BY <3>2, <4>1, <4>2
      <4>. QED BY <1>5, <3>1, <3>3, <4>3 DEF PendingIn, Tries
    <3>. QED BY <3>4, <3>5, <3>6
  <2>. QED BY <2>0, <2>1, <2>2 DEF TodoIn
<1>. QED BY <1>1, <1>2, <1>3, <1>6, <1>7, VisitDeep DEF n

LEMMA ReturnDeep ==
  ASSUME Ordered, alg = "ids", DeepInv, DeepReturn
  PROVE  DeepInv' /\ Answered'
<1>. DEFINE n == Len(stack)
            frames == SubSeq(stack, 1, n - 1)
<1>1. /\ Sound /\ pc = "deep" /\ stack # <<>> /\ Top.act = P.actions /\ UNCHANGED <<prob, alg>>
      /\ \/ Top.cut /\ CutOff(frames)
         \/ /\ ~Top.cut /\ stack' = frames /\ UNCHANGED limit
            /\ IF frames = <<>> THEN Return(Other("failure")) ELSE UNCHANGED <<pc, result>>
      /\ prob \in DOMAIN Problems /\ limit \in Nat /\ FramesOK(stack)
  BY DEF Ordered, DeepReturn, Sound, QueueInv, TypeOK
<1>2. /\ FramesOK(frames) /\ Len(frames) = n - 1
      /\ \A i \in 1..n - 1 : frames[i] = stack[i]
  BY <1>1, FramesBelow
<1>. HIDE DEF frames
<1>3. /\ n \in Nat /\ n > 0 /\ stack[n] = Top /\ DOMAIN stack = 1..n /\ n \in 1..n
      /\ frames \in Seq(FrameType) /\ DOMAIN frames = 1..n - 1
  BY <1>1, <1>2 DEF Top, FramesOK
<1>. HIDE DEF n
<1>4. P.actions \in Nat
  BY <1>1, Problem
<1>5. ASSUME NEW b \in Routes
      PROVE  /\ limit <= Len(b)
             /\ PendingIn(frames, b) \/ (limit < Len(b) /\ (Top.cut \/ NotedIn(frames)))
  <2>0. limit <= Len(b) /\ TodoIn(stack, b)
    BY <1>1 DEF DeepInv
  <2>1. NotedIn(stack) => Top.cut \/ NotedIn(frames)
    <3>. SUFFICES ASSUME NEW d \in 1..n, stack[d].cut PROVE Top.cut \/ NotedIn(frames)
      BY <1>3 DEF NotedIn
    <3>1. CASE d = n
      BY <1>3, <3>1
    <3>2. CASE d # n
      <4>1. d \in 1..n - 1
        BY <1>3, <3>2
      <4>. QED BY <1>2, <1>3, <4>1 DEF NotedIn
    <3>. QED BY <3>1, <3>2
  <2>2. ASSUME PendingIn(stack, b)
        PROVE  PendingIn(frames, b)
    <3>1. PICK d \in 1..n : /\ d <= Len(b)
                            /\ \A i \in 1..d - 1 : b[i] = stack[i + 1].state
                            /\ Tries(stack[d], b[d])
      BY <1>3, <2>2 DEF PendingIn
    <3>2. d # n
      BY <1>1, <1>3, <1>4, <3>1 DEF Tries
    <3>3. d \in 1..n - 1
      BY <1>3, <3>2
    <3>4. \A i \in 1..d - 1 : b[i] = frames[i + 1].state
      <4>1. \A i \in 1..d - 1 : i + 1 \in 1..n - 1
        BY <1>3, <3>3
      <4>. QED BY <1>2, <3>1, <4>1
    <3>5. frames[d] = stack[d]
      BY <1>2, <3>3
    <3>. QED BY <1>3, <3>1, <3>3, <3>4, <3>5 DEF PendingIn
  <2>. QED BY <2>0, <2>1, <2>2 DEF TodoIn
<1>6. CASE Top.cut /\ CutOff(frames)
  <2>1. DeepInv' /\ pc' = pc
    BY <1>1, <1>2, <1>5, <1>6, CutOffDeep
  <2>. QED BY <1>1, <2>1 DEF Answered
<1>7. CASE /\ ~Top.cut /\ stack' = frames /\ UNCHANGED limit
           /\ IF frames = <<>> THEN Return(Other("failure")) ELSE UNCHANGED <<pc, result>>
  <2>1. CASE frames = <<>>
    <3>1. \A b : ~PendingIn(frames, b) /\ ~NotedIn(frames)
      BY <2>1 DEF PendingIn, NotedIn
    <3>2. Routes = {}
      BY <1>5, <1>7, <3>1
    <3>3. pc' = "done"
      BY <1>7, <2>1 DEF Return
    <3>4. alg \notin BFS
      BY DEF BFS
    <3>. QED BY <1>1, <3>2, <3>3, <3>4, NoneFound DEF DeepInv
  <2>2. CASE frames # <<>>
    <3>1. DeepInv'
      BY <1>1, <1>5, <1>7, DeepPrime
    <3>. QED BY <1>1, <1>7, <2>2, <3>1 DEF Answered
  <2>. QED BY <2>1, <2>2
<1>. QED BY <1>1, <1>6, <1>7

-----------------------------------------------------------------------------
\* The answer.

Right == /\ Ordered
         /\ NoChance /\ Consistent => TreeInv /\ GraphInv /\ DeepInv /\ Answered

LEMMA SameMaze == ASSUME UNCHANGED prob PROVE (NoChance' <=> NoChance) /\ (Consistent' <=> Consistent)
BY SameProblem DEF NoChance, Consistent, Sample

LEMMA RightInit == Init => Right
<1>. SUFFICES ASSUME Init PROVE Right
  OBVIOUS
<1>1. Ordered /\ TreeInv /\ GraphInv /\ DeepInv
  BY OrderedInit, TreeInit, GraphInit, DeepInit
<1>2. Answered
  <2>. SUFFICES ASSUME pc = "done" PROVE Answered
    BY DEF Answered
  <2>1. alg \in BFS /\ P.start = P.goal /\ result = Found(<<>>)
    BY DEF Init
  <2>2. <<>> \in Routes /\ StateOf(<<>>) = P.goal
    BY <2>1, WalkEmpty DEF Routes, Walks, StateOf
  <2>3. Shortest(<<>>)
    BY <2>2, RouteType DEF Shortest
  <2>. QED BY <2>1, <2>2, <2>3 DEF Answered, Found
<1>. QED BY <1>1, <1>2 DEF Right

\* Each algorithm is in one of the families.
LEMMA Families ==
  /\ Promising = TreeSearch \cup GraphBest \cup {"ids"}
  /\ BFS \subseteq Promising
  /\ "ids" \notin TreeSearch \cup GraphBest /\ TreeSearch \cap GraphBest = {}
  /\ TreeSearch \cup GraphBest \subseteq Queued /\ "ids" \in Deepening
BY DEF Promising, TreeSearch, GraphBest, BFS, Queued, Deepening

LEMMA RightStep == Right /\ [Next]_vars => Right'
<1>. SUFFICES ASSUME Right, [Next]_vars PROVE Right'
  OBVIOUS
<1>0. Ordered' /\ Ordered
  BY OrderedStep DEF Right
<1>1. CASE UNCHANGED vars
  <2>1. UNCHANGED <<prob, alg, pc, fringe, removed, explored, cur, act, stack, limit, result>>
    BY <1>1 DEF vars, queuevars
  <2>2. P' = P /\ Walks' = Walks /\ Routes' = Routes /\ Live' = Live /\ \A b : StateOf(b)' = StateOf(b)
    BY <2>1, SameProblem DEF Live
  <2>3. (NoChance' <=> NoChance) /\ (Consistent' <=> Consistent)
    BY <2>1, SameMaze
  <2>4. TreeInv => TreeInv'
    BY <2>1, <2>2 DEF TreeInv, Ahead, ToTry, Sample
  <2>5. GraphInv => GraphInv'
    BY <2>1, <2>2 DEF GraphInv, Closed, CurNearest, Reached, Sample
  <2>6. DeepInv => DeepInv'
    BY <2>1, <2>2 DEF DeepInv, TodoIn, PendingIn, NotedIn, Tries, Sample
  <2>7. Answered => Answered'
    BY <2>1, <2>2 DEF Answered, Shortest
  <2>. QED BY <1>0, <2>3, <2>4, <2>5, <2>6, <2>7 DEF Right
<1>2. ASSUME Next, NoChance, Consistent, TreeInv, GraphInv, DeepInv, Answered
      PROVE  TreeInv' /\ GraphInv' /\ DeepInv' /\ Answered'
  <2>0. alg' = alg /\ pc # "done" /\ prob' = prob
    BY <1>2 DEF Next, GiveUp, Take, Look, DeepRoot, DeepLook, DeepReturn, Visit
  <2>1. CASE alg \notin Promising
    BY <2>0, <2>1, Families DEF TreeInv, GraphInv, DeepInv, Answered
  <2>2. CASE alg \in TreeSearch
    <3>1. ~DeepRoot /\ ~DeepLook /\ ~DeepReturn
      BY <1>0, <2>2, Families DEF Ordered, Sound, DeepRoot, DeepLook, DeepReturn
    <3>2. TreeInv' /\ Answered'
      <4>1. GiveUp => pc' = "done"
        BY DEF GiveUp, Return
      <4>2. GiveUp => TreeInv' /\ Answered'
        BY <1>0, <1>2, <2>2, <4>1, GiveUpTree DEF TreeInv
      <4>. QED BY <1>0, <1>2, <2>2, <3>1, <4>2, TakeTree, LookTree DEF Next
    <3>. QED BY <2>0, <2>2, <3>2, Families DEF GraphInv, DeepInv
  <2>3. CASE alg \in GraphBest
    <3>1. ~DeepRoot /\ ~DeepLook /\ ~DeepReturn
      BY <1>0, <2>3, Families DEF Ordered, Sound, DeepRoot, DeepLook, DeepReturn
    <3>2. GraphInv' /\ Answered'
      <4>1. GiveUp => pc' = "done"
        BY DEF GiveUp, Return
      <4>2. GiveUp => GraphInv' /\ Answered'
        BY <1>0, <1>2, <2>3, <4>1, GiveUpGraph DEF GraphInv
      <4>. QED BY <1>0, <1>2, <2>3, <3>1, <4>2, TakeGraph, LookGraph DEF Next
    <3>. QED BY <2>0, <2>3, <3>2, Families DEF TreeInv, DeepInv
  <2>4. CASE alg = "ids"
    <3>1. pc = "deep"
      BY <1>0, <2>0, <2>4, Families DEF Ordered, Sound
    <3>2. DeepRoot \/ DeepLook \/ DeepReturn
      BY <1>2, <3>1 DEF Next, GiveUp, Take, Look
    <3>3. DeepInv' /\ Answered'
      BY <1>0, <1>2, <2>4, <3>2, RootDeep, LookDeep, ReturnDeep
    <3>. QED BY <2>0, <2>4, <3>3, Families DEF TreeInv, GraphInv
  <2>. QED BY <2>1, <2>2, <2>3, <2>4, Families
<1>3. CASE Next
  <2>1. prob' = prob
    BY <1>3 DEF Next, GiveUp, Take, Look, DeepRoot, DeepLook, DeepReturn, Visit
  <2>. QED BY <1>0, <1>2, <1>3, <2>1, SameMaze DEF Right
<1>. QED BY <1>1, <1>3

\* What Right says of an answer, with the distances of the module.
LEMMA RightAnswer == Right /\ NoChance /\ Consistent => AnswersRight
<1>. SUFFICES ASSUME Right, NoChance, Consistent PROVE AnswersRight
  OBVIOUS
<1>1. Sound /\ Answered /\ prob \in DOMAIN Problems /\ alg \in Queued \cup Deepening
  BY Algorithms DEF Right, Ordered, Sound, QueueInv, TypeOK
<1>2. result.kind = "path" => pc = "done"
  BY <1>1 DEF Sound, Other
<1>3. Routes = {} => ~Reachable
  BY <1>1, DistanceOf
<1>4. \A r \in Routes : (\A b \in Routes : Len(r) <= Len(b)) /\ Reachable => Len(r) = Distances[prob]
  BY <1>1, DistanceOf
<1>5. PathSound
  <2>. SUFFICES ASSUME result.kind = "path"
                PROVE  Walk(result.path) /\ (StateOf(result.path) = P.goal \/ (alg \in BFS /\ ~Reachable))
    BY DEF PathSound, PathToNowhere
  <2>1. Walk(result.path) /\ (alg \notin BFS => StateOf(result.path) = P.goal)
    BY <1>1 DEF Sound, Walks
  <2>. QED BY <1>1, <1>2, <1>3, <2>1 DEF Answered
<1>6. ShortestFound
  <2>. SUFFICES ASSUME alg \notin {"greedy_ts", "greedy_gs", "dls"}, pc = "done", Reachable
                PROVE  result.kind = "path" /\ Len(result.path) = Distances[prob]
    BY DEF ShortestFound
  <2>1. alg \in Promising
    BY <1>1 DEF Promising, Queued, Deepening
  <2>2. result.kind = "path" /\ Shortest(result.path)
    BY <1>1, <1>3, <2>1 DEF Answered
  <2>. QED BY <1>4, <2>2 DEF Shortest
<1>. QED BY <1>5, <1>6 DEF AnswersRight

\* Where moves have no chance and the l1 norm is a consistent heuristic, as in
\* the mazes of the notebooks: a path that a search returns is made of moves the
\* environment allows and leads to the goal, except the one that breadth-first
\* search returns, in place of None, when no way leads there; and the searches that
\* promise a shortest path return one whenever the goal can be reached.
THEOREM AnswersHold == Spec => [](NoChance /\ Consistent => AnswersRight)
<1>1. Init => Right
  BY RightInit
<1>2. Right /\ [Next]_vars => Right'
  BY RightStep
<1>3. Right => (NoChance /\ Consistent => AnswersRight)
  BY RightAnswer
<1>. QED BY <1>1, <1>2, <1>3, PTL DEF Spec

\* With chance too, and for any heuristic: a path returned is a walk from the
\* start, and ends at the goal unless the search is breadth-first, which returns
\* the path to its last node when it runs out of them.
THEOREM PathsAreWalks ==
  Spec => [](result.kind = "path" => Walk(result.path) /\ (alg \in BFS \/ StateOf(result.path) = P.goal))
<1>1. Sound => (result.kind = "path" => Walk(result.path) /\ (alg \in BFS \/ StateOf(result.path) = P.goal))
  BY DEF Sound, Walks
<1>. QED BY <1>1, SoundInit, SoundStep, PTL DEF Spec

-----------------------------------------------------------------------------
(* Learning.                                                               *)

\* A cell that ends an episode.
Over(s) == L!Cell(g, s) \in {"G", "P", "R"}

\* A value of the table is zero or what some walk of the steps made earns, and a
\* cell that ends an episode has learnt nothing.
LearnInv ==
  /\ world \in DOMAIN Grids
  /\ steps \in 0..MaxSteps
  /\ phase = "learn" => state \in States /\ ~Over(state) /\ action \in Acts
  /\ q \in [States -> [Acts -> Int]]
  /\ \A s \in States, a \in Acts : Over(s) => q[s][a] = 0
  /\ \A s \in States, a \in Acts : q[s][a] = 0 \/ <<<<world, s, a>>, q[s][a]>> \in Earned[steps]

LEMMA FromZero ==
  ASSUME NEW N \in SUBSET Nat, 0 \in N, \A n \in N : n + 1 \in N
  PROVE  N = Nat
<1>. SUFFICES ASSUME Nat \ N # {} PROVE FALSE
  OBVIOUS
<1>1. IsWellFoundedOn(OpToRel(<, Nat), Nat)
  BY NatLessThanWellFounded
<1>2. PICK n \in Nat \ N : \A m \in Nat \ N : ~(<<m, n>> \in OpToRel(<, Nat))
  BY <1>1, WFMin
<1>3. n # 0 /\ n - 1 \in Nat /\ n - 1 < n
  OBVIOUS
<1>4. <<n - 1, n>> \in OpToRel(<, Nat)
  BY <1>3 DEF OpToRel
<1>5. n - 1 \in N
  BY <1>2, <1>3, <1>4
<1>6. n \in Nat /\ n \notin N /\ (n - 1) + 1 = n
  OBVIOUS
<1>. QED BY <1>5, <1>6

LEMMA LearningFacts ==
  /\ MaxSteps \in Nat
  /\ \A w \in DOMAIN Grids : GridType(Grids[w])
BY LearningAssumption

-----------------------------------------------------------------------------
(* What walks earn.                                                        *)

\* One step more than the walks of B.
Longer(B) ==
  UNION {{<<m[1], m[2].reward + x>> :
            x \in {0} \cup {e[2] : e \in {d \in B : ~m[2].done /\ d[1][1] = m[1][1] /\ d[1][2] = m[2].state}}} :
         m \in Moves}
Earns(n, f) == f = [i \in 0..n |-> IF i = 0 THEN {} ELSE Longer(f[i - 1])]

LEMMA EarnsExist == ASSUME NEW n \in Nat PROVE \E f : Earns(n, f)
<1>. DEFINE N == {m \in Nat : \E f : Earns(m, f)}
<1>1. 0 \in N
  <2>. DEFINE f == [i \in 0..0 |-> {}]
  <2>1. Earns(0, f)
    <3>1. 0..0 = {0}
      OBVIOUS
    <3>. QED BY <3>1 DEF Earns
  <2>. QED BY <2>1
<1>2. ASSUME NEW m \in N PROVE m + 1 \in N
  <2>1. PICK f : Earns(m, f)
    OBVIOUS
  <2>2. m \in Nat /\ m + 1 \in Nat
    OBVIOUS
  <2>3. f = [i \in 0..m |-> IF i = 0 THEN {} ELSE Longer(f[i - 1])]
    BY <2>1 DEF Earns
  <2>. DEFINE h == [i \in 0..(m + 1) |-> IF i = 0 THEN {} ELSE Longer(f[i - 1])]
  <2>4. \A i \in 0..m : h[i] = f[i]
    <3>. SUFFICES ASSUME NEW i \in 0..m PROVE h[i] = f[i]
      OBVIOUS
    <3>1. f[i] = IF i = 0 THEN {} ELSE Longer(f[i - 1])
      BY <2>3
    <3>2. i \in 0..(m + 1)
      BY <2>2
    <3>. QED BY <3>1, <3>2
  <2>5. \A i \in 0..(m + 1) : i = 0 \/ i - 1 \in 0..m
    BY <2>2
  <2>6. h = [i \in 0..(m + 1) |-> IF i = 0 THEN {} ELSE Longer(h[i - 1])]
    <3>1. \A i \in 0..(m + 1) : h[i] = IF i = 0 THEN {} ELSE Longer(h[i - 1])
      BY <2>4, <2>5
    <3>2. h = [i \in 0..(m + 1) |-> h[i]]
      OBVIOUS
    <3>. HIDE DEF h
    <3>. QED BY <3>1, <3>2
  <2>. HIDE DEF h
  <2>7. Earns(m + 1, h)
    BY <2>6 DEF Earns
  <2>. QED BY <2>2, <2>7
<1>3. N = Nat
  <2>. HIDE DEF N
  <2>1. N \in SUBSET Nat
    BY DEF N
  <2>. QED BY <1>1, <1>2, <2>1, FromZero
<1>. QED BY <1>3

LEMMA EarnedIs == \A n \in 0..MaxSteps : Earned[n] = IF n = 0 THEN {} ELSE Longer(Earned[n - 1])
<1>1. Earned = CHOOSE f : Earns(MaxSteps, f)
  <2>1. Earned = CHOOSE f : f = [n \in 0..MaxSteps |-> IF n = 0 THEN {} ELSE Longer(IF n = 0 THEN {} ELSE f[n - 1])]
    BY DEF Earned, Longer
  <2>. QED BY <2>1 DEF Earns
<1>. QED BY <1>1, EarnsExist, LearningFacts DEF Earns


LEMMA LongerGrows == ASSUME NEW B, NEW C, B \subseteq C PROVE Longer(B) \subseteq Longer(C)
BY DEF Longer

LEMMA EarnedGrows == \A n \in Nat : n + 1 <= MaxSteps => Earned[n] \subseteq Earned[n + 1]
<1>. DEFINE N == {n \in Nat : n + 1 <= MaxSteps => Earned[n] \subseteq Earned[n + 1]}
<1>1. 0 \in N
  <2>1. Earned[0] = {}
    BY EarnedIs, LearningFacts
  <2>. QED BY <2>1
<1>2. ASSUME NEW n \in N PROVE n + 1 \in N
  <2>. SUFFICES ASSUME (n + 1) + 1 <= MaxSteps PROVE Earned[n + 1] \subseteq Earned[(n + 1) + 1]
    OBVIOUS
  <2>1. /\ n \in Nat /\ n + 1 \in 0..MaxSteps /\ (n + 1) + 1 \in 0..MaxSteps /\ n + 1 # 0 /\ (n + 1) + 1 # 0
        /\ (n + 1) - 1 = n /\ ((n + 1) + 1) - 1 = n + 1 /\ n + 1 <= MaxSteps
    BY LearningFacts
  <2>2. Earned[n + 1] = Longer(Earned[n]) /\ Earned[(n + 1) + 1] = Longer(Earned[n + 1])
    BY <2>1, EarnedIs
  <2>. QED BY <2>1, <2>2, LongerGrows
<1>3. N = Nat
  <2>. HIDE DEF N
  <2>1. N \in SUBSET Nat
    BY DEF N
  <2>. QED BY <1>1, <1>2, <2>1, FromZero
<1>. QED BY <1>3

LEMMA EarnedLast == ASSUME NEW n \in 0..MaxSteps PROVE Earned[n] \subseteq Earned[MaxSteps]
<1>. DEFINE N == {k \in Nat : n + k <= MaxSteps => Earned[n] \subseteq Earned[n + k]}
<1>1. n \in Nat /\ MaxSteps \in Nat /\ MaxSteps - n \in Nat /\ n + (MaxSteps - n) = MaxSteps
  BY LearningFacts
<1>2. 0 \in N
  BY <1>1
<1>3. ASSUME NEW k \in N PROVE k + 1 \in N
  <2>. SUFFICES ASSUME n + (k + 1) <= MaxSteps PROVE Earned[n] \subseteq Earned[n + (k + 1)]
    OBVIOUS
  <2>1. n + k \in Nat /\ (n + k) + 1 <= MaxSteps /\ n + k <= MaxSteps /\ n + (k + 1) = (n + k) + 1
    BY <1>1
  <2>2. Earned[n + k] \subseteq Earned[(n + k) + 1]
    BY <2>1, EarnedGrows
  <2>. QED BY <2>1, <2>2
<1>4. N = Nat
  <2>. HIDE DEF N
  <2>1. N \in SUBSET Nat
    BY DEF N
  <2>. QED BY <1>2, <1>3, <2>1, FromZero
<1>5. MaxSteps - n \in N
  BY <1>1, <1>4
<1>. QED BY <1>1, <1>5

\* A step and then what a walk of n steps earns, or nothing more.
LEMMA EarnedStep ==
  ASSUME NEW w \in DOMAIN Grids, NEW s \in L!StatesOf(Grids[w]), NEW a \in Acts,
         NEW r \in L!StepResults(Grids[w], s, a), NEW n \in 0..MaxSteps, n + 1 <= MaxSteps, NEW b, NEW x,
         x = 0 \/ (~r.done /\ <<<<w, r.state, b>>, x>> \in Earned[n])
  PROVE  <<<<w, s, a>>, r.reward + x>> \in Earned[n + 1]
<1>. DEFINE c == <<w, s, a>>
            m == <<c, r>>
<1>1. c \in Starts /\ c[1] = w /\ c[2] = s /\ c[3] = a
  BY DEF Starts
<1>2. m \in Moves /\ m[1] = c /\ m[2] = r
  <2>. HIDE DEF c
  <2>1. <<c, r>> \in {<<c, p>> : p \in L!StepResults(Grids[c[1]], c[2], c[3])}
    BY <1>1
  <2>. QED BY <1>1, <2>1 DEF Moves
<1>3. Earned[n + 1] = Longer(Earned[n])
  <2>1. n + 1 \in 0..MaxSteps /\ n + 1 # 0 /\ (n + 1) - 1 = n
    BY LearningFacts
  <2>. QED BY <2>1, EarnedIs
<1>. DEFINE rest == {e[2] : e \in {d \in Earned[n] : ~m[2].done /\ d[1][1] = m[1][1] /\ d[1][2] = m[2].state}}
<1>4. x \in {0} \cup rest
  <2>1. CASE x = 0
    BY <2>1
  <2>2. CASE ~r.done /\ <<<<w, r.state, b>>, x>> \in Earned[n]
    <3>. DEFINE e == <<<<w, r.state, b>>, x>>
    <3>1. e[1][1] = w /\ e[1][2] = r.state /\ e[2] = x
      OBVIOUS
    <3>2. e \in {d \in Earned[n] : ~m[2].done /\ d[1][1] = m[1][1] /\ d[1][2] = m[2].state}
      BY <1>1, <1>2, <2>2, <3>1
    <3>. QED BY <3>1, <3>2
  <2>. QED BY <2>1, <2>2
<1>5. <<c, r.reward + x>> \in Longer(Earned[n])
  <2>. HIDE DEF c, m
  <2>1. <<m[1], m[2].reward + x>> \in {<<m[1], m[2].reward + y>> : y \in {0} \cup rest}
    BY <1>4
  <2>2. {<<m[1], m[2].reward + y>> : y \in {0} \cup rest} \subseteq Longer(Earned[n])
    BY <1>2 DEF Longer
  <2>. QED BY <1>2, <2>1, <2>2
<1>. QED BY <1>3, <1>5

-----------------------------------------------------------------------------
(* The grid and the choice of actions.                                     *)

LEMMA ArgMaxIs ==
  ASSUME NEW f \in [Acts -> Int]
  PROVE  ArgMax(f) \in Acts /\ MaxOf(f) = f[ArgMax(f)] /\ MaxOf(f) \in Int
<1>1. Acts = {0, 1, 2, 3}
  BY DEF Acts, L!Dirs
<1>2. f[0] \in Int /\ f[1] \in Int /\ f[2] \in Int /\ f[3] \in Int
  BY <1>1
<1>. DEFINE Wins(a) == f[a] >= f[0] /\ f[a] >= f[1] /\ f[a] >= f[2] /\ f[a] >= f[3]
            First(a) == (f[0] = f[a] => a <= 0) /\ (f[1] = f[a] => a <= 1) /\ (f[2] = f[a] => a <= 2) /\ (f[3] = f[a] => a <= 3)
<1>3. (Wins(0) /\ First(0)) \/ (Wins(1) /\ First(1)) \/ (Wins(2) /\ First(2)) \/ (Wins(3) /\ First(3))
  BY <1>2
<1>4. \A a \in Acts : (\A b \in Acts : f[a] >= f[b]) <=> Wins(a)
  BY <1>1
<1>5. \A a \in Acts : (\A b \in Acts : f[b] = f[a] => a <= b) <=> First(a)
  BY <1>1
<1>. HIDE DEF Wins, First
<1>6. \E a \in Acts : Wins(a) /\ First(a)
  BY <1>1, <1>3
<1>7. \E a \in Acts : (\A b \in Acts : f[a] >= f[b]) /\ \A b \in Acts : f[b] = f[a] => a <= b
  BY <1>4, <1>5, <1>6
<1>8. ArgMax(f) \in Acts
  BY <1>7 DEF ArgMax
<1>. QED BY <1>8 DEF MaxOf

LEMMA ExploreIs == ASSUME NEW f \in [Acts -> Int] PROVE Explore(f) \subseteq Acts
BY ArgMaxIs DEF Explore

LEMMA StartIs ==
  ASSUME world \in DOMAIN Grids
  PROVE  L!StartState(g) \in States /\ ~Over(L!StartState(g))
<1>1. GridType(g)
  BY LearningFacts DEF g
<1>2. States \subseteq Nat
  <2>1. g.rows * g.cols - 1 \in Int
    BY <1>1 DEF GridType
  <2>. QED BY <2>1 DEF States, L!StatesOf
<1>. DEFINE S == {s \in States : L!Cell(g, s) = "S"}
<1>3. S # {}
  BY <1>1 DEF GridType, States
<1>4. PICK n \in S : \A m \in S : ~(<<m, n>> \in OpToRel(<, Nat))
  BY <1>2, <1>3, NatLessThanWellFounded, WFMin
<1>5. ASSUME NEW m \in S PROVE n <= m
  <2>1. m \in Nat /\ n \in Nat /\ ~(<<m, n>> \in OpToRel(<, Nat))
    BY <1>2, <1>4
  <2>2. m < n => <<m, n>> \in OpToRel(<, Nat)
    BY <2>1 DEF OpToRel
  <2>3. ~(m < n)
    BY <2>1, <2>2
  <2>4. m \in Nat /\ n \in Nat
    BY <2>1
  <2>. QED BY <2>3, <2>4
<1>6. \E s \in States : L!Cell(g, s) = "S" /\ \A t \in States : L!Cell(g, t) = "S" => s <= t
  BY <1>5
<1>7. L!StartState(g) \in States /\ L!Cell(g, L!StartState(g)) = "S"
  BY <1>6 DEF L!StartState, L!FirstState, States
<1>. QED BY <1>7 DEF Over

LEMMA ResultIs ==
  ASSUME world \in DOMAIN Grids, NEW s \in States, NEW a, NEW r \in L!StepResults(g, s, a)
  PROVE  r.state \in States /\ (r.done <=> Over(r.state)) /\ r.reward \in Int
<1>1. PICK ns \in L!Sample(g, s, a) :
        r = [state |-> ns, reward |-> L!R(g, s, a, ns), done |-> L!Cell(g, ns) \in {"G", "P", "R"}]
  BY DEF L!StepResults
<1>2. ns \in States
  BY DEF L!Sample, States
<1>3. r.state = ns /\ r.reward = L!R(g, s, a, ns) /\ (r.done <=> Over(ns))
  BY <1>1 DEF Over
<1>4. L!R(g, s, a, ns) \in Int
  <2>1. CASE L!Cell(g, s) \in {"W", "G", "P"} \/ \A d \in L!Dirs : L!Lands(g, s, d) # ns
    BY <2>1 DEF L!R
  <2>2. CASE L!Cell(g, s) # "W" /\ \E d \in L!Dirs : L!Lands(g, s, d) = ns
    <3>1. L!Cell(g, ns) # "W"
      BY <2>2 DEF L!Lands
    <3>2. g.rewards[L!Cell(g, ns)] \in Int
      BY <1>2, <3>1, LearningFacts DEF GridType, States, g
    <3>. QED BY <3>2 DEF L!R
  <2>. QED BY <2>1, <2>2
<1>. QED BY <1>2, <1>3, <1>4

-----------------------------------------------------------------------------
(* The invariant.                                                          *)

LEMMA LearnInitInv == LearnInit => LearnInv
<1>. SUFFICES ASSUME LearnInit PROVE LearnInv
  OBVIOUS
<1>1. world \in DOMAIN Grids /\ steps = 0 /\ q = [s \in States |-> [a \in Acts |-> 0]] /\ state = L!StartState(g)
  BY DEF LearnInit
<1>2. 0 \in 0..MaxSteps
  BY LearningFacts
<1>3. state \in States /\ ~Over(state)
  BY <1>1, StartIs
<1>4. q \in [States -> [Acts -> Int]] /\ \A s \in States, a \in Acts : q[s][a] = 0
  BY <1>1
<1>5. action \in Acts
  <2>1. action \in IF method = "sarsa" THEN Explore(q[L!StartState(g)]) ELSE {0}
    BY DEF LearnInit
  <2>2. 0 \in Acts
    BY DEF Acts, L!Dirs
  <2>3. q[L!StartState(g)] \in [Acts -> Int]
    BY <1>1, <1>3, <1>4
  <2>. QED BY <2>1, <2>2, <2>3, ExploreIs
<1>. QED BY <1>1, <1>2, <1>3, <1>4, <1>5 DEF LearnInv

Updates(table, a, r, b) == table = [q EXCEPT ![state][a] = r.reward + q[r.state][b]]

\* What one update writes in the table: the reward of the step and, if the episode
\* goes on, what the table had for some action of the next state.
LEMMA UpdateEarns ==
  ASSUME LearnInv, phase = "learn", steps < MaxSteps, NEW a \in Acts, NEW r \in L!StepResults(g, state, a),
         NEW b \in Acts, NEW table, Updates(table, a, r, b)
  PROVE  /\ table \in [States -> [Acts -> Int]]
         /\ \A s \in States, c \in Acts : Over(s) => table[s][c] = 0
         /\ \A s \in States, c \in Acts : table[s][c] = 0 \/ <<<<world, s, c>>, table[s][c]>> \in Earned[steps + 1]
<1>1. /\ world \in DOMAIN Grids /\ steps \in 0..MaxSteps /\ steps \in Nat /\ steps + 1 <= MaxSteps
      /\ state \in States /\ ~Over(state) /\ q \in [States -> [Acts -> Int]]
  BY LearningFacts DEF LearnInv
<1>2. r.state \in States /\ (r.done <=> Over(r.state)) /\ r.reward \in Int
  BY <1>1, ResultIs
<1>. DEFINE x == q[r.state][b]
<1>3. x \in Int /\ (r.done => x = 0) /\ (x = 0 \/ <<<<world, r.state, b>>, x>> \in Earned[steps])
  BY <1>1, <1>2 DEF LearnInv
<1>4. <<<<world, state, a>>, r.reward + x>> \in Earned[steps + 1]
  <2>1. state \in L!StatesOf(Grids[world]) /\ r \in L!StepResults(Grids[world], state, a)
    BY <1>1 DEF States, g
  <2>2. x = 0 \/ (~r.done /\ <<<<world, r.state, b>>, x>> \in Earned[steps])
    BY <1>3
  <2>. HIDE DEF x
  <2>. QED BY <1>1, <2>1, <2>2, EarnedStep
<1>5. /\ table \in [States -> [Acts -> Int]]
      /\ table[state][a] = r.reward + x
      /\ \A s \in States, c \in Acts : s # state \/ c # a => table[s][c] = q[s][c]
  <2>1. r.reward + x \in Int
    BY <1>2, <1>3
  <2>. HIDE DEF x
  <2>2. table = [q EXCEPT ![state][a] = r.reward + x]
    BY DEF x, Updates
  <2>. QED BY <1>1, <2>1, <2>2
<1>6. Earned[steps] \subseteq Earned[steps + 1]
  BY <1>1, EarnedGrows
<1>. HIDE DEF x
<1>7. ASSUME NEW s \in States, NEW c \in Acts
      PROVE  /\ Over(s) => table[s][c] = 0
             /\ table[s][c] = 0 \/ <<<<world, s, c>>, table[s][c]>> \in Earned[steps + 1]
  <2>1. CASE s = state /\ c = a
    BY <1>1, <1>4, <1>5, <2>1
  <2>2. CASE s # state \/ c # a
    BY <1>5, <1>6, <2>2 DEF LearnInv
  <2>. QED BY <2>1, <2>2
<1>. QED BY <1>5, <1>7

LEMMA LearnsInv ==
  ASSUME LearnInv, phase = "learn", NEW a \in Acts, NEW r \in L!StepResults(g, state, a),
         NEW b \in Acts, NEW table, Updates(table, a, r, b),
         NEW next \in Acts, Learns(r, table, next)
  PROVE  LearnInv'
<1>1. /\ steps < MaxSteps /\ steps' = steps + 1 /\ q' = table /\ world' = world /\ method' = method
  BY DEF Learns
<1>2. /\ table \in [States -> [Acts -> Int]]
      /\ \A s \in States, c \in Acts : Over(s) => table[s][c] = 0
      /\ \A s \in States, c \in Acts : table[s][c] = 0 \/ <<<<world, s, c>>, table[s][c]>> \in Earned[steps + 1]
  <2>1. steps < MaxSteps
    BY <1>1
  <2>. QED BY <2>1, UpdateEarns
<1>3. world \in DOMAIN Grids /\ steps \in Nat /\ steps + 1 \in 0..MaxSteps /\ state \in States
  BY <1>1, LearningFacts DEF LearnInv
<1>4. r.state \in States /\ (r.done <=> Over(r.state))
  BY <1>3, ResultIs
<1>5. phase' = "learn" => state' \in States /\ ~Over(state') /\ action' \in Acts
  <2>1. CASE ~r.done
    BY <1>4, <2>1 DEF Learns
  <2>2. CASE r.done /\ episode + 1 = Episodes
    BY <2>2 DEF Learns, NextEpisode
  <2>3. CASE r.done /\ episode + 1 # Episodes
    <3>1. state' = L!StartState(g) /\ action' \in IF method = "sarsa" THEN Explore(table[L!StartState(g)]) ELSE {0}
      BY <2>3 DEF Learns, NextEpisode
    <3>2. state' \in States /\ ~Over(state')
      BY <1>3, <3>1, StartIs
    <3>3. Explore(table[L!StartState(g)]) \subseteq Acts
      BY <1>2, <3>1, <3>2, ExploreIs
    <3>4. 0 \in Acts
      BY DEF Acts, L!Dirs
    <3>. QED BY <3>1, <3>2, <3>3, <3>4
  <2>. QED BY <2>1, <2>2, <2>3
<1>6. States' = States /\ g' = g
  BY <1>1 DEF States, g
<1>7. \A s : Over(s)' <=> Over(s)
  BY <1>6 DEF Over
<1>. QED BY <1>1, <1>2, <1>3, <1>5, <1>6, <1>7 DEF LearnInv, Over, Acts

LEMMA LearnInvSame ==
  ASSUME LearnInv, UNCHANGED <<world, q, steps>>, phase' # "learn" \/ UNCHANGED <<phase, state, action>>
  PROVE  LearnInv'
BY DEF LearnInv, Over, States, g, Acts

LEMMA LearnNextInv == ASSUME LearnInv, [LearnNext]_learnvars PROVE LearnInv'
<1>1. CASE Iterate
  <2>1. UNCHANGED <<world, q, steps, state, action>> /\ (phase' = "run" \/ phase' = phase)
    BY <1>1 DEF Iterate, agent
  <2>. QED BY <2>1, LearnInvSame
<1>2. CASE PolicyIteration
  BY <1>2, LearnInvSame DEF PolicyIteration
<1>3. CASE RunStep
  BY <1>3, LearnInvSame DEF RunStep
<1>4. CASE RunEnd
  BY <1>4, LearnInvSame DEF RunEnd
<1>5. phase = "learn" => q[state] \in [Acts -> Int]
  BY DEF LearnInv
<1>6. ASSUME phase = "learn", NEW a \in Acts, NEW r \in L!StepResults(g, state, a)
      PROVE  q[r.state] \in [Acts -> Int]
  BY <1>6, ResultIs DEF LearnInv
<1>7. CASE QLearn
  <2>1. phase = "learn"
    BY <1>7 DEF QLearn
  <2>2. PICK a \in Explore(q[state]) : \E r \in L!StepResults(g, state, a) :
          Learns(r, [q EXCEPT ![state][a] = QTarget(r)], 0)
    BY <1>7 DEF QLearn
  <2>3. PICK r \in L!StepResults(g, state, a) : Learns(r, [q EXCEPT ![state][a] = QTarget(r)], 0)
    BY <2>2
  <2>4. a \in Acts /\ 0 \in Acts
    BY <1>5, <2>1, ExploreIs DEF Acts, L!Dirs
  <2>5. ArgMax(q[r.state]) \in Acts /\ QTarget(r) = r.reward + q[r.state][ArgMax(q[r.state])]
    BY <1>6, <2>1, <2>4, ArgMaxIs DEF QTarget
  <2>. QED BY <2>1, <2>3, <2>4, <2>5, LearnsInv DEF Updates
<1>8. CASE Sarsa
  <2>1. phase = "learn" /\ action \in Acts
    BY <1>8 DEF Sarsa, LearnInv
  <2>2. PICK r \in L!StepResults(g, state, action) : \E next \in Explore(q[r.state]) :
          Learns(r, [q EXCEPT ![state][action] = SarsaTarget(r, next)], next)
    BY <1>8 DEF Sarsa
  <2>3. PICK next \in Explore(q[r.state]) : Learns(r, [q EXCEPT ![state][action] = SarsaTarget(r, next)], next)
    BY <2>2
  <2>4. next \in Acts
    BY <1>6, <2>1, ExploreIs
  <2>5. Learns(r, [q EXCEPT ![state][action] = r.reward + q[r.state][next]], next)
    BY <2>3 DEF SarsaTarget
  <2>. QED BY <2>1, <2>4, <2>5, LearnsInv DEF Updates
<1>9. CASE UNCHANGED learnvars
  BY <1>9, LearnInvSame DEF learnvars, agent
<1>. QED BY <1>1, <1>2, <1>3, <1>4, <1>7, <1>8, <1>9 DEF LearnNext

\* Whatever Q-learning and SARSA explore, on any mazes and in any number of
\* episodes, a value of the table is what some walk from that state and action
\* earns: the learners may look ahead into the table even when the episode has ended.
THEOREM LearnedIsAttainable == LearnSpec => []Attainable
<1>1. LearnInv => Attainable
  <2>. SUFFICES ASSUME LearnInv PROVE Attainable
    OBVIOUS
  <2>1. Earned[steps] \subseteq WalkReturns
    BY EarnedLast DEF LearnInv, WalkReturns
  <2>. QED BY <2>1 DEF LearnInv, Attainable
<1>. QED BY <1>1, LearnInitInv, LearnNextInv, PTL DEF LearnSpec
=============================================================================
