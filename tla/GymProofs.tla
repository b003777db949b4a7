------------------------------ MODULE GymProofs ------------------------------
(***************************************************************************)
(* Proofs about Gym, for any sessions whose arguments the constructors are *)
(* made for.                                                               *)
(***************************************************************************)
EXTENDS Gym, SequenceTheorems, FiniteSetTheorems, NaturalsInduction, WellFoundedInduction, TLAPS

-----------------------------------------------------------------------------
(* Sequences and pairs of numbers.                                         *)

IsSeq(s) == s \in Seq({s[i] : i \in DOMAIN s})

LEMMA SeqFacts ==
  ASSUME NEW s, IsSeq(s)
  PROVE  Len(s) \in Nat /\ DOMAIN s = 1..Len(s)
BY DEF IsSeq

LEMMA AnySeq == ASSUME NEW T, NEW s \in Seq(T) PROVE IsSeq(s)
<1>1. s \in [1..Len(s) -> {s[i] : i \in DOMAIN s}] /\ Len(s) \in Nat
  BY LenProperties
<1>. QED BY <1>1 DEF IsSeq

LEMMA AppendFacts ==
  ASSUME NEW s, IsSeq(s), NEW x
  PROVE  /\ IsSeq(Append(s, x)) /\ Len(Append(s, x)) = Len(s) + 1
         /\ \A i \in 1..Len(s) : Append(s, x)[i] = s[i]
         /\ Append(s, x)[Len(s) + 1] = x
<1>. DEFINE T == {s[i] : i \in DOMAIN s} \cup {x}
            u == Append(s, x)
<1>1. s \in Seq(T)
  BY SeqMonotonic DEF IsSeq
<1>2. x \in T
  OBVIOUS
<1>. HIDE DEF T
<1>3. /\ u \in Seq(T) /\ Len(u) = Len(s) + 1
      /\ \A i \in 1..Len(s) : u[i] = s[i]
      /\ u[Len(s) + 1] = x
  BY <1>1, <1>2, AppendProperties
<1>. HIDE DEF u
<1>4. IsSeq(u)
  BY <1>3, AnySeq
<1>. QED BY <1>3, <1>4 DEF u

LEMMA MaxPair ==
  ASSUME NEW a \in Int, NEW b \in Int
  PROVE  Toy!Max({a, b}) = (IF a >= b THEN a ELSE b) /\ Unit!Max({a, b}) = (IF a >= b THEN a ELSE b)
<1>. DEFINE m == IF a >= b THEN a ELSE b
<1>1. m \in {a, b} /\ \A y \in {a, b} : m >= y
  OBVIOUS
<1>2. \A x \in {a, b} : (\A y \in {a, b} : x >= y) => x = m
  OBVIOUS
<1>. HIDE DEF m
<1>. QED BY <1>1, <1>2 DEF Toy!Max, Unit!Max, m

LEMMA MinPair ==
  ASSUME NEW a \in Int, NEW b \in Int
  PROVE  Toy!Min({a, b}) = (IF a <= b THEN a ELSE b) /\ Unit!Min({a, b}) = (IF a <= b THEN a ELSE b)
<1>. DEFINE m == IF a <= b THEN a ELSE b
<1>1. m \in {a, b} /\ \A y \in {a, b} : m <= y
  OBVIOUS
<1>2. \A x \in {a, b} : (\A y \in {a, b} : x <= y) => x = m
  OBVIOUS
<1>. HIDE DEF m
<1>. QED BY <1>1, <1>2 DEF Toy!Min, Unit!Min, m

LEMMA DivModIs ==
  ASSUME NEW x \in Int, NEW p \in Nat \ {0}
  PROVE  x = p * (x \div p) + (x % p) /\ x \div p \in Int /\ x % p \in 0..(p - 1)
OBVIOUS

-----------------------------------------------------------------------------
(* The invariant of an environment, class by class: that of the runs and   *)
(* what a step needs to know.                                              *)

LakeInv(e) == LakeSound(e) /\ Shown(e) /\ e.st \in Toy!LakeStates(e.kw)
CliffInv(e) == CliffSound(e) /\ Shown(e) /\ e.st \in 0..47
TaxiInv(e) == TaxiSound(e) /\ Shown(e) /\ e.st \in 0..499

Hands == [sum : 2..31, ace : BOOLEAN, natural : BOOLEAN]
BlackjackInv(e) == /\ BlackjackSound(e) /\ Shown(e)
                   /\ e.st \in [player : Hands, dealer : Hands, up : 1..10]

NChainInv(e) == Shown(e) /\ e.st \in 0..(e.kw.n - 1)
GuessInv(e) == Shown(e) /\ e.st \in [number : Int, count : Nat]

KellyInv(e) == /\ KellySound(e) /\ Shown(e)
               /\ e.st \in [wealth : Nat, rounds : Nat] /\ e.st.rounds <= e.kw.max_rounds
               /\ ~e.done => e.st.rounds > 0
GeneralStates == [wealth : Nat, max_wealth : Nat, max_rounds : Nat, rounds : Nat, elapsed : Nat,
                  wins : Nat, losses : Nat, ever : Nat]
GeneralInv(e) == /\ GeneralSound(e) /\ Shown(e) /\ e.st \in GeneralStates
                 /\ e.st.ever <= Toy!Penny * e.st.max_wealth
                 /\ e.st.max_wealth \in e.kw.caps /\ e.st.max_wealth \in DOMAIN Float32
                 /\ ~e.done => e.st.rounds > 0

CubeInv(e) == /\ CubeSound(e) /\ Shown(e)
              /\ e.st \in [x : Int, y : Int, hole : Int, potential : Int]
              /\ e.st.potential = Unit!Dist(e.st.x, e.st.hole)
DigitsInv(e) == Shown(e) /\ e.st \in [digit : 0..9, step_n : Nat]
CartInv(e) == /\ CartSound(e) /\ Shown(e)
              /\ e.st \in [x : Int, theta : Int, steps_beyond_done : {"None", "0", "more"}]
              /\ ~e.done => e.st.steps_beyond_done = "None" /\ ~Unit!CartDone(e.st)
CarInv(e) == /\ Shown(e) /\ e.st.position \in Int /\ -24 <= e.st.position /\ e.st.position <= 12
             /\ e.st.velocity \in Int /\ -2 <= e.st.velocity /\ e.st.velocity <= 2
PendulumInv(e) == Shown(e) /\ e.st.thdot \in Int
AcrobotInv(e) == Shown(e) /\ e.st.theta1 \in Int /\ e.st.theta2 \in Int

\* What reset() and step() leave of an environment.
Fresh(e, r) == /\ e.st = r[1] /\ e.obs = r[2] /\ e.rew = 0 /\ e.elapsed = 0
               /\ e.done = FALSE /\ e.begun \in BOOLEAN
After(d, e, o) == /\ e.cls = d.cls /\ e.kw = d.kw /\ d.begun = TRUE /\ e.begun = TRUE /\ ~d.done
                  /\ e.st = o.st /\ e.obs = o.obs /\ e.rew = o.reward /\ e.done = o.done
                  /\ d.elapsed \in Nat /\ e.elapsed = Elapsed(d)
                  /\ e.max_episode_steps = d.max_episode_steps

-----------------------------------------------------------------------------
(* The classes and their spaces.                                           *)

LEMMA ClassesApart ==
  /\ Alg!AlgorithmicClasses \cap ToyClasses = {} /\ Alg!AlgorithmicClasses \cap UnitClasses = {}
  /\ Alg!AlgorithmicClasses \cap BoxClasses = {} /\ ToyClasses \cap UnitClasses = {}
  /\ ToyClasses \cap BoxClasses = {} /\ UnitClasses \cap BoxClasses = {}
BY DEF Alg!AlgorithmicClasses, ToyClasses, UnitClasses, BoxClasses

LEMMA OfToy ==
  ASSUME NEW e, e.cls \in ToyClasses
  PROVE  /\ ~IsAlg(e)
         /\ ObsSpace(e) = Toy!ToyObsSpace(e.cls, e.kw, e.st)
         /\ ActionSpace(e) = Toy!ToyActions(e.cls, e.kw, e.st)
         /\ \A sh : Resets(e.cls, e.kw, sh) = Toy!ToyReset(e.cls, e.kw)
         /\ \A a : Steps(e, a) = Toy!ToyStep(e.cls, e.kw, e.st, a)
<1>1. e.cls \notin Alg!AlgorithmicClasses /\ e.cls \notin UnitClasses /\ e.cls \notin BoxClasses
  BY ClassesApart
<1>. HIDE DEF ToyClasses, UnitClasses, BoxClasses
<1>. QED BY <1>1 DEF IsAlg, ObsSpace, ActionSpace, Resets, Steps

LEMMA OfUnit ==
  ASSUME NEW e, e.cls \in UnitClasses
  PROVE  /\ ~IsAlg(e)
         /\ ObsSpace(e) = Unit!UnitObsSpace(e.cls)
         /\ ActionSpace(e) = Unit!UnitActions(e.cls)
         /\ \A sh : Resets(e.cls, e.kw, sh) = Unit!UnitReset(e.cls, e.kw)
         /\ \A a : Steps(e, a) = Unit!UnitStep(e.cls, e.kw, e.st, a)
<1>1. e.cls \notin Alg!AlgorithmicClasses /\ e.cls \notin ToyClasses /\ e.cls \notin BoxClasses
  BY ClassesApart
<1>. QED BY <1>1 DEF IsAlg, ObsSpace, ActionSpace, Resets, Steps

LEMMA OfBox ==
  ASSUME NEW e, e.cls \in BoxClasses
  PROVE  /\ ~IsAlg(e)
         /\ ObsSpace(e) = Physics!BoxObsSpace(e.cls)
         /\ ActionSpace(e) = Physics!BoxActions(e.cls, e.kw)
         /\ \A sh : Resets(e.cls, e.kw, sh) = Physics!BoxReset(e.cls, e.kw)
         /\ \A a : Steps(e, a) = Physics!BoxStep(e.cls, e.kw, e.st, a)
<1>1. e.cls \notin Alg!AlgorithmicClasses /\ e.cls \notin ToyClasses /\ e.cls \notin UnitClasses
  BY ClassesApart
<1>. QED BY <1>1 DEF IsAlg, ObsSpace, ActionSpace, Resets, Steps

LEMMA OfAlg ==
  ASSUME NEW e, e.cls \in Alg!AlgorithmicClasses
  PROVE  /\ IsAlg(e)
         /\ ObsSpace(e) = Alg!AlgObsSpace(e.kw)
         /\ ActionSpace(e) = Alg!AlgActions(e.cls, e.kw)
         /\ \A sh : Resets(e.cls, e.kw, sh) = {<<s, Alg!AlgObs(e.cls, e.kw, s)>> : s \in Alg!AlgReset(e.cls, e.kw, sh)}
         /\ \A a : Steps(e, a) = Alg!AlgStep(e.cls, e.kw, e.st, a)
<1>1. e.cls \notin BoxClasses /\ e.cls \notin ToyClasses /\ e.cls \notin UnitClasses
  BY ClassesApart
<1>. QED BY <1>1 DEF IsAlg, ObsSpace, ActionSpace, Resets, Steps

LEMMA LakeKw ==
  ASSUME NEW cls, cls = "FrozenLake", NEW kw, KwOK(cls, kw)
  PROVE  kw.nrow \in Positive /\ kw.ncol \in Positive /\ WayToGoal(kw)
BY DEF KwOK

LEMMA DiscreteIs ==
  ASSUME NEW n, NEW x
  PROVE  S!Contains(Toy!Discrete(n), x) <=> x \in Int /\ x >= 0 /\ x < n
BY DEF S!Contains, S!ContainsPlain, Toy!Discrete

LEMMA FromZero ==
  ASSUME NEW N \in SUBSET Nat, 0 \in N, \A n \in N : n + 1 \in N
  PROVE  N = Nat
<1>. SUFFICES ASSUME Nat \ N # {} PROVE FALSE
  OBVIOUS
<1>1. IsWellFoundedOn(OpToRel(<, Nat), Nat)
  BY NatLessThanWellFounded
<1>2. PICK n \in Nat \ N : \A m \in Nat \ N : ~(<<m, n>> \in OpToRel(<, Nat))
  BY <1>1, WFMin
<1>3. n # 0 /\ n - 1 \in Nat /\ n - 1 < n
  OBVIOUS
<1>4. <<n - 1, n>> \in OpToRel(<, Nat)
  BY <1>3 DEF OpToRel
<1>5. n - 1 \in N
  BY <1>2, <1>3, <1>4
<1>6. n \in Nat /\ n \notin N /\ (n - 1) + 1 = n
  OBVIOUS
<1>. QED BY <1>5, <1>6

\* f is the recursion over 0..n that starts with x0 and goes on by F.
Recurs(f, T, x0, F, n) == f \in [0..n -> T] /\ f[0] = x0 /\ \A i \in 1..n : f[i] = F[i][f[i - 1]]

LEMMA Iterates ==
  ASSUME NEW T, NEW x0 \in T, NEW F \in [Nat -> [T -> T]], NEW n \in Nat
  PROVE  \E f : Recurs(f, T, x0, F, n)
<1>. DEFINE Goes(m, f) == Recurs(f, T, x0, F, m)
            N == {m \in Nat : \E f : Goes(m, f)}
<1>1. 0 \in N
  <2>. DEFINE f == [i \in 0..0 |-> x0]
  <2>1. Goes(0, f)
    BY DEF Recurs
  <2>. QED BY <2>1
<1>2. ASSUME NEW m \in N PROVE m + 1 \in N
  <2>1. PICK f : Goes(m, f)
    OBVIOUS
  <2>2. m \in Nat /\ m + 1 \in Nat /\ m + 1 # 0 /\ f[m] \in T /\ F[m + 1] \in [T -> T]
    BY <2>1 DEF Recurs
  <2>. DEFINE g == [i \in 0..(m + 1) |-> IF i = m + 1 THEN F[m + 1][f[m]] ELSE f[i]]
  <2>3. g \in [0..(m + 1) -> T]
    <3>1. F[m + 1][f[m]] \in T
      BY <2>2
    <3>2. \A i \in 0..(m + 1) : i # m + 1 => f[i] \in T
      BY <2>1, <2>2 DEF Recurs
    <3>. QED BY <3>1, <3>2
  <2>4. \A i \in 0..m : g[i] = f[i]
    BY <2>2
  <2>5. g[m + 1] = F[m + 1][f[m]] /\ (m + 1) - 1 = m
    BY <2>2
  <2>6. 0 \in 0..m /\ m \in 0..m /\ \A i \in 1..(m + 1) : i = m + 1 \/ (i \in 1..m /\ i \in 0..m /\ i - 1 \in 0..m)
    BY <2>2
  <2>. HIDE DEF g
  <2>7. Goes(m + 1, g)
    <3>1. f[0] = x0 /\ \A i \in 1..m : f[i] = F[i][f[i - 1]]
      BY <2>1 DEF Recurs
    <3>2. g[0] = x0
      BY <2>4, <2>6, <3>1
    <3>3. ASSUME NEW i \in 1..(m + 1) PROVE g[i] = F[i][g[i - 1]]
      <4>1. CASE i = m + 1
        <5>1. g[i - 1] = f[m]
          BY <2>4, <2>5, <2>6, <4>1
        <5>. QED BY <2>5, <4>1, <5>1
      <4>2. CASE i \in 1..m /\ i \in 0..m /\ i - 1 \in 0..m
        BY <2>4, <3>1, <4>2
      <4>. QED BY <2>6, <4>1, <4>2
    <3>. QED BY <2>3, <3>2, <3>3 DEF Recurs
  <2>. QED BY <2>2, <2>7
<1>3. N = Nat
  <2>. HIDE DEF N
  <2>1. N \in SUBSET Nat
    BY DEF N
  <2>. QED BY <1>1, <1>2, <2>1, FromZero
<1>. QED BY <1>3

LEMMA IntervalIs ==
  ASSUME NEW l \in Int, NEW h \in Int, NEW x \in Int, l <= x, x <= h
  PROVE  S!ContainsPlain(Toy!Interval(l, h), <<x>>)
<1>. DEFINE sp == Toy!Interval(l, h)
<1>1. sp.kind = "Box" /\ sp.low = <<l>> /\ sp.high = <<h>>
  BY DEF Toy!Interval, Toy!Box
<1>. HIDE DEF sp
<1>2. S!BoxContains(sp, <<x>>)
  BY <1>1 DEF S!BoxContains
<1>3. S!ContainsPlain(sp, <<x>>)
  BY <1>1, <1>2 DEF S!ContainsPlain
<1>. QED BY <1>3 DEF sp

LEMMA PlainDiscrete ==
  ASSUME NEW n \in Int, NEW x \in Int, 0 <= x, x < n
  PROVE  S!ContainsPlain(Toy!Discrete(n), x)
BY DEF S!ContainsPlain, Toy!Discrete

LEMMA BoxIs ==
  ASSUME NEW low, NEW high, NEW f, NEW x, DOMAIN x = DOMAIN low,
         \A i \in DOMAIN x : low[i] <= x[i] /\ x[i] <= high[i]
  PROVE  S!Contains(S!Box(low, high, f), x)
<1>. DEFINE sp == S!Box(low, high, f)
<1>1. sp.kind = "Box" /\ sp.low = low /\ sp.high = high
  BY DEF S!Box
<1>. HIDE DEF sp
<1>2. S!BoxContains(sp, x)
  BY <1>1 DEF S!BoxContains
<1>3. S!Contains(sp, x)
  BY <1>1, <1>2 DEF S!Contains, S!ContainsPlain
<1>. QED BY <1>3 DEF sp

LEMMA BoxOfTwo ==
  ASSUME NEW a \in Int, NEW b \in Int, NEW c \in Int, NEW d \in Int, NEW x \in Int, NEW y \in Int, NEW f,
         a <= x, x <= b, c <= y, y <= d
  PROVE  S!Contains(S!Box(<<a, c>>, <<b, d>>, f), <<x, y>>)
<1>1. DOMAIN <<x, y>> = DOMAIN <<a, c>>
  OBVIOUS
<1>2. \A i \in DOMAIN <<x, y>> : <<a, c>>[i] <= <<x, y>>[i] /\ <<x, y>>[i] <= <<b, d>>[i]
  OBVIOUS
<1>. QED BY <1>1, <1>2, BoxIs

LEMMA LakeSpaces ==
  ASSUME NEW e, e.cls = "FrozenLake"
  PROVE  ObsSpace(e) = Toy!Discrete(e.kw.nrow * e.kw.ncol) /\ ActionSpace(e) = Toy!Discrete(4)
<1>1. e.cls \in ToyClasses
  BY DEF ToyClasses
<1>2. ObsSpace(e) = Toy!Discrete(e.kw.nrow * e.kw.ncol)
  BY <1>1, OfToy DEF Toy!ToyObsSpace
<1>3. ActionSpace(e) = Toy!Discrete(4)
  BY <1>1, OfToy DEF Toy!ToyActions
<1>. QED BY <1>2, <1>3

LEMMA LakeReset ==
  ASSUME NEW e, e.cls = "FrozenLake", KwOK(e.cls, e.kw),
         NEW r \in Toy!ToyReset(e.cls, e.kw), Fresh(e, r)
  PROVE  LakeInv(e)
<1>1. PICK s \in Toy!LakeStart(e.kw) : r = <<s, s>>
  BY DEF Toy!ToyReset
<1>2. s \in Toy!LakeStates(e.kw) /\ e.kw.desc[s + 1] = "S" /\ e.st = s /\ e.obs = s
  BY <1>1 DEF Toy!LakeStart, Fresh
<1>3. WayToGoal(e.kw) /\ e.kw.nrow \in Positive /\ e.kw.ncol \in Positive
  BY LakeKw
<1>4. LakeSound(e)
  BY <1>2, <1>3 DEF LakeSound, Fresh
<1>5. Shown(e)
  <2>1. ObsSpace(e) = Toy!Discrete(e.kw.nrow * e.kw.ncol)
    BY LakeSpaces
  <2>2. e.kw.nrow * e.kw.ncol \in Nat
    BY <1>3 DEF Positive
  <2>3. s \in Int /\ s >= 0 /\ s < e.kw.nrow * e.kw.ncol
    BY <1>2, <2>2 DEF Toy!LakeStates
  <2>. QED BY <1>2, <2>1, <2>3, DiscreteIs DEF Shown
<1>. QED BY <1>2, <1>4, <1>5 DEF LakeInv

\* A cell is where it should be, row after row.
LEMMA CellIs ==
  ASSUME NEW rows \in Positive, NEW cols \in Positive, NEW r \in 0..(rows - 1), NEW c \in 0..(cols - 1)
  PROVE  r * cols + c \in 0..(rows * cols - 1)
<1>1. r * cols \in Nat /\ rows * cols \in Nat /\ (rows - 1) * cols = rows * cols - cols
  BY DEF Positive
<1>2. r * cols <= (rows - 1) * cols
  BY DEF Positive
<1>. QED BY <1>1, <1>2 DEF Positive

LEMMA RowIs ==
  ASSUME NEW rows \in Positive, NEW cols \in Positive, NEW s \in 0..(rows * cols - 1)
  PROVE  s \div cols \in 0..(rows - 1) /\ s % cols \in 0..(cols - 1)
<1>. DEFINE q == s \div cols
            m == s % cols
<1>1. rows * cols \in Nat /\ s \in Nat
  BY DEF Positive
<1>2. s = cols * q + m /\ q \in Int /\ m \in 0..(cols - 1)
  BY <1>1, DivModIs DEF Positive
<1>. HIDE DEF q, m
<1>3. q >= 0
  <2>1. q < 0 => cols * q <= -cols
    BY <1>2 DEF Positive
  <2>. QED BY <1>1, <1>2, <2>1 DEF Positive
<1>4. q < rows
  <2>1. q >= rows => cols * q >= cols * rows
    BY <1>2 DEF Positive
  <2>2. cols * rows = rows * cols /\ s < rows * cols
    BY <1>1 DEF Positive
  <2>. QED BY <1>1, <1>2, <2>1, <2>2 DEF Positive
<1>. QED BY <1>2, <1>3, <1>4 DEF q, m, Positive

LEMMA LakeIncIs ==
  ASSUME NEW kw, kw.nrow \in Positive, kw.ncol \in Positive, NEW s \in Toy!LakeStates(kw), NEW a \in 0..3
  PROVE  Toy!LakeInc(kw, s, a) \in Toy!LakeStates(kw)
<1>. DEFINE rows == kw.nrow
            cols == kw.ncol
            row == s \div cols
            col == s % cols
<1>1. row \in 0..(rows - 1) /\ col \in 0..(cols - 1)
  BY RowIs DEF Toy!LakeStates
<1>2. /\ Toy!Max({col - 1, 0}) = (IF col - 1 >= 0 THEN col - 1 ELSE 0)
      /\ Toy!Max({row - 1, 0}) = (IF row - 1 >= 0 THEN row - 1 ELSE 0)
      /\ Toy!Min({row + 1, rows - 1}) = (IF row + 1 <= rows - 1 THEN row + 1 ELSE rows - 1)
      /\ Toy!Min({col + 1, cols - 1}) = (IF col + 1 <= cols - 1 THEN col + 1 ELSE cols - 1)
  <2>. HIDE DEF row, col
  <2>1. {row, col, rows, cols} \subseteq Int
    BY <1>1 DEF Positive
  <2>. QED BY <2>1, MaxPair, MinPair
<1>3. PICK r \in 0..(rows - 1), c \in 0..(cols - 1) : Toy!LakeInc(kw, s, a) = r * cols + c
  <2>1. Toy!LakeInc(kw, s, a) =
          CASE a = 0 -> row * cols + Toy!Max({col - 1, 0})
            [] a = 1 -> Toy!Min({row + 1, rows - 1}) * cols + col
            [] a = 2 -> row * cols + Toy!Min({col + 1, cols - 1})
            [] a = 3 -> Toy!Max({row - 1, 0}) * cols + col
    BY DEF Toy!LakeInc
  <2>. HIDE DEF row, col
  <2>2. /\ Toy!Max({col - 1, 0}) \in 0..(cols - 1) /\ Toy!Max({row - 1, 0}) \in 0..(rows - 1)
        /\ Toy!Min({row + 1, rows - 1}) \in 0..(rows - 1) /\ Toy!Min({col + 1, cols - 1}) \in 0..(cols - 1)
    BY <1>1, <1>2 DEF Positive
  <2>3. a = 0 \/ a = 1 \/ a = 2 \/ a = 3
    OBVIOUS
  <2>. QED BY <1>1, <2>1, <2>2, <2>3
<1>. QED BY <1>3, CellIs DEF Toy!LakeStates

LEMMA LakeStep ==
  ASSUME NEW d, NEW e, e.cls = "FrozenLake", KwOK(e.cls, e.kw), LakeInv(d), NEW a \in 0..3,
         NEW o \in Toy!ToyStep(d.cls, d.kw, d.st, a), After(d, e, o)
  PROVE  LakeInv(e)
<1>. DEFINE kw == e.kw
            goes == IF kw.slippery THEN {(a - 1) % 4, a, (a + 1) % 4} ELSE {a}
<1>1. d.cls = "FrozenLake" /\ d.kw = kw /\ d.st \in Toy!LakeStates(kw) /\ ~d.done /\ d.begun
  BY DEF After, LakeInv
<1>2. kw.nrow \in Positive /\ kw.ncol \in Positive
  BY LakeKw
<1>3. PICK t \in Toy!LakeTransitions(kw, d.st, a) : o = Toy!Out(t[1], t[1], t[2], t[3])
  BY <1>1 DEF Toy!ToyStep, Toy!DiscreteStep
<1>4. kw.desc[d.st + 1] \notin {"G", "H"}
  BY <1>1 DEF LakeInv, LakeSound
<1>5. PICK b \in goes : t = <<Toy!LakeInc(kw, d.st, b),
                               IF kw.desc[Toy!LakeInc(kw, d.st, b) + 1] = "G" THEN 1 ELSE 0,
                               kw.desc[Toy!LakeInc(kw, d.st, b) + 1] \in {"G", "H"}>>
  BY <1>3, <1>4 DEF Toy!LakeTransitions
<1>6. b \in 0..3
  BY <1>5
<1>. DEFINE s == Toy!LakeInc(kw, d.st, b)
<1>7. s \in Toy!LakeStates(kw)
  BY <1>1, <1>2, <1>6, LakeIncIs
<1>. HIDE DEF s
<1>8. /\ e.st = s /\ e.obs = s /\ e.rew = (IF kw.desc[s + 1] = "G" THEN 1 ELSE 0)
      /\ e.done = (kw.desc[s + 1] \in {"G", "H"}) /\ e.begun = TRUE
  BY <1>3, <1>5 DEF After, Toy!Out, s
<1>9. LakeSound(e)
  <2>. DEFINE letter == kw.desc[s + 1]
  <2>1. LakeSound(e) <=> (e.done <=> letter \in {"G", "H"}) /\ (e.rew = 1 <=> letter = "G")
    BY <1>8 DEF LakeSound
  <2>2. e.done = (letter \in {"G", "H"}) /\ e.rew = (IF letter = "G" THEN 1 ELSE 0)
    BY <1>8
  <2>. HIDE DEF letter
  <2>3. CASE letter \in {"G", "H"}
    <3>1. e.done = TRUE
      BY <2>2, <2>3
    <3>. QED BY <2>1, <2>2, <2>3, <3>1
  <2>4. CASE letter \notin {"G", "H"}
    <3>1. (letter \in {"G", "H"}) = FALSE
      BY <2>4
    <3>2. e.done = FALSE
      BY <2>2, <3>1
    <3>. QED BY <2>1, <2>2, <2>4, <3>2
  <2>. QED BY <2>3, <2>4
<1>10. Shown(e)
  <2>1. ObsSpace(e) = Toy!Discrete(kw.nrow * kw.ncol)
    BY LakeSpaces
  <2>2. kw.nrow * kw.ncol \in Nat
    BY <1>2 DEF Positive
  <2>3. s \in Int /\ s >= 0 /\ s < kw.nrow * kw.ncol
    BY <1>7, <2>2 DEF Toy!LakeStates
  <2>. QED BY <1>8, <2>1, <2>3, DiscreteIs DEF Shown
<1>. QED BY <1>7, <1>8, <1>9, <1>10 DEF LakeInv

\* CliffWalking.
LEMMA CliffSpaces ==
  ASSUME NEW e, e.cls = "CliffWalking"
  PROVE  ObsSpace(e) = Toy!Discrete(48) /\ ActionSpace(e) = Toy!Discrete(4)
<1>1. e.cls \in ToyClasses
  BY DEF ToyClasses
<1>2. ObsSpace(e) = Toy!Discrete(48)
  BY <1>1, OfToy DEF Toy!ToyObsSpace
<1>3. ActionSpace(e) = Toy!Discrete(4)
  BY <1>1, OfToy DEF Toy!ToyActions
<1>. QED BY <1>2, <1>3

LEMMA CliffReset ==
  ASSUME NEW e, e.cls = "CliffWalking", NEW r \in Toy!ToyReset(e.cls, e.kw), Fresh(e, r)
  PROVE  CliffInv(e)
<1>1. r = <<36, 36>>
  BY DEF Toy!ToyReset, Toy!CliffStart
<1>2. e.st = 36 /\ e.obs = 36 /\ e.done = FALSE
  BY <1>1 DEF Fresh
<1>3. CliffSound(e)
  BY <1>2 DEF CliffSound, Toy!Cliff
<1>4. Shown(e)
  BY <1>2, CliffSpaces, DiscreteIs DEF Shown
<1>. QED BY <1>2, <1>3, <1>4 DEF CliffInv

LEMMA CliffMoves ==
  ASSUME NEW s \in 0..47, NEW a \in 0..3, NEW t \in Toy!CliffTransitions(s, a)
  PROVE  /\ t[1] \in (0..47) \ Toy!Cliff /\ t[3] \in BOOLEAN /\ (t[3] <=> t[1] = 47)
<1>. DEFINE delta == <<<<-1, 0>>, <<0, 1>>, <<1, 0>>, <<0, -1>>>>[a + 1]
            row == Toy!CliffLimit(s \div 12 + delta[1], 4)
            col == Toy!CliffLimit((s % 12) + delta[2], 12)
            new == row * 12 + col
<1>1. \A x, y \in Int : y > 0 => Toy!CliffLimit(x, y) \in 0..(y - 1)
  <2>. SUFFICES ASSUME NEW x \in Int, NEW y \in Int, y > 0 PROVE Toy!CliffLimit(x, y) \in 0..(y - 1)
    OBVIOUS
  <2>. DEFINE m == Toy!Min({x, y - 1})
  <2>1. m = IF x <= y - 1 THEN x ELSE y - 1
    BY MinPair
  <2>2. m \in Int /\ m <= y - 1
    BY <2>1
  <2>3. Toy!CliffLimit(x, y) = Toy!Max({m, 0})
    BY DEF Toy!CliffLimit
  <2>. HIDE DEF m
  <2>4. Toy!Max({m, 0}) = IF m >= 0 THEN m ELSE 0
    BY <2>2, MaxPair
  <2>. QED BY <2>2, <2>3, <2>4
<1>2. delta[1] \in Int /\ delta[2] \in Int
  <2>1. a = 0 \/ a = 1 \/ a = 2 \/ a = 3
    OBVIOUS
  <2>. QED BY <2>1
<1>. HIDE DEF delta
<1>3. row \in 0..3 /\ col \in 0..11
  <2>. DEFINE x == s \div 12 + delta[1]
              y == (s % 12) + delta[2]
  <2>1. x \in Int /\ y \in Int
    BY <1>2
  <2>. HIDE DEF x, y
  <2>3. Toy!CliffLimit(x, 4) \in 0..(4 - 1)
    BY <1>1, <2>1, 4 \in Int /\ 4 > 0
  <2>4. Toy!CliffLimit(y, 12) \in 0..(12 - 1)
    BY <1>1, <2>1, 12 \in Int /\ 12 > 0
  <2>2. Toy!CliffLimit(x, 4) \in 0..(4 - 1) /\ Toy!CliffLimit(y, 12) \in 0..(12 - 1)
    BY <2>3, <2>4
  <2>. QED BY <2>2 DEF x, y
<1>4. t = IF new \in Toy!Cliff THEN <<36, -100, FALSE>> ELSE <<new, -1, new = 47>>
  <2>1. t \in IF new \in Toy!Cliff THEN {<<Toy!CliffStart, -100, FALSE>>} ELSE {<<new, -1, new = 3 * 12 + 11>>}
    BY DEF Toy!CliffTransitions, delta
  <2>2. Toy!CliffStart = 36 /\ 3 * 12 + 11 = 47
    BY DEF Toy!CliffStart
  <2>. HIDE DEF new
  <2>. QED BY <2>1, <2>2
<1>. HIDE DEF row, col
<1>5. new \in 0..47
  BY <1>3
<1>6. CASE new \in Toy!Cliff
  <2>. HIDE DEF new
  <2>1. t = <<36, -100, FALSE>>
    BY <1>4, <1>6
  <2>2. t[1] = 36 /\ ~t[3] /\ t[3] \in BOOLEAN
    BY <2>1
  <2>3. 36 \in 0..47 /\ 36 \notin Toy!Cliff
    BY DEF Toy!Cliff
  <2>. QED BY <2>2, <2>3
<1>7. CASE new \notin Toy!Cliff
  <2>. HIDE DEF new
  <2>1. t = <<new, -1, new = 47>>
    BY <1>4, <1>7
  <2>2. t[1] = new /\ t[3] = (new = 47)
    BY <2>1
  <2>3. CASE new = 47
    <3>1. (new = 47) = TRUE
      BY <2>3
    <3>. QED BY <1>5, <1>7, <2>2, <2>3, <3>1
  <2>4. CASE new # 47
    <3>1. (new = 47) = FALSE
      BY <2>4
    <3>. QED BY <1>5, <1>7, <2>2, <2>4, <3>1
  <2>. QED BY <2>3, <2>4
<1>. QED BY <1>6, <1>7

LEMMA CliffStep ==
  ASSUME NEW d, NEW e, e.cls = "CliffWalking", CliffInv(d), NEW a \in 0..3,
         NEW o \in Toy!ToyStep(d.cls, d.kw, d.st, a), After(d, e, o)
  PROVE  CliffInv(e)
<1>1. d.cls = "CliffWalking" /\ d.st \in 0..47
  BY DEF After, CliffInv
<1>2. PICK t \in Toy!CliffTransitions(d.st, a) : o = Toy!Out(t[1], t[1], t[2], t[3])
  BY <1>1 DEF Toy!ToyStep, Toy!DiscreteStep
<1>3. e.st = t[1] /\ e.obs = t[1] /\ e.done = t[3]
  BY <1>2, SMTT(60) DEF After, Toy!Out
<1>4. t[1] \in (0..47) \ Toy!Cliff /\ (t[3] <=> t[1] = 47)
  BY <1>1, CliffMoves
<1>5. CliffSound(e)
  BY <1>3, <1>4 DEF CliffSound
<1>6. Shown(e)
  BY <1>3, <1>4, CliffSpaces, DiscreteIs DEF Shown
<1>. QED BY <1>3, <1>4, <1>5, <1>6 DEF CliffInv

\* The maps that FrozenLake draws have a way to the goal: the paths that the
\* search keeps are among the cells that are reached.
Reaches(kw, B) == B \cup {d \in UNION {Toy!NextCells(kw.ncol, c) : c \in B} : kw.desc[d + 1] # "H"}
Grows(kw, last, f) == f = [n \in 0..last |-> IF n = 0 THEN {0} ELSE Reaches(kw, f[n - 1])]

LEMMA NextIs ==
  ASSUME NEW size \in Positive, NEW c \in Int, NEW d \in Toy!NextCells(size, c)
  PROVE  d \in Int
BY DEF Toy!NextCells, Positive

LEMMA GrowsExist ==
  ASSUME NEW kw, kw.ncol \in Positive, NEW last \in Nat
  PROVE  \E f : Grows(kw, last, f)
<1>. DEFINE T == SUBSET Int
            F == [i \in Nat |-> [B \in T |-> Reaches(kw, B)]]
<1>1. \A B \in T : Reaches(kw, B) \in T
  BY NextIs DEF Reaches
<1>2. F \in [Nat -> [T -> T]] /\ {0} \in T
  BY <1>1
<1>3. \A i \in Nat, B \in T : F[i][B] = Reaches(kw, B)
  OBVIOUS
<1>. HIDE DEF T, F
<1>4. PICK f : Recurs(f, T, {0}, F, last)
  BY <1>2, Iterates
<1>5. \A i \in 0..last : f[i] = IF i = 0 THEN {0} ELSE Reaches(kw, f[i - 1])
  <2>. SUFFICES ASSUME NEW i \in 0..last, i # 0 PROVE f[i] = Reaches(kw, f[i - 1])
    BY <1>4 DEF Recurs
  <2>1. i \in 1..last /\ i \in Nat /\ i - 1 \in 0..last
    OBVIOUS
  <2>2. f[i - 1] \in T /\ f[i] = F[i][f[i - 1]]
    BY <1>4, <2>1 DEF Recurs
  <2>. QED BY <1>3, <2>1, <2>2
<1>6. f = [i \in 0..last |-> f[i]]
  BY <1>4 DEF Recurs
<1>. QED BY <1>5, <1>6 DEF Grows

LEMMA WayIs ==
  ASSUME NEW kw, kw.ncol \in Positive, NEW last \in Nat, last = kw.nrow * kw.ncol
  PROVE  \E f : Grows(kw, last, f) /\ (last - 1 \in f[last] => WayToGoal(kw))
<1>. DEFINE f == CHOOSE g : Grows(kw, last, g)
<1>1. Grows(kw, last, f)
  BY GrowsExist
<1>2. WayToGoal(kw) <=> last - 1 \in f[last]
  BY DEF WayToGoal, Grows, Reaches
<1>. QED BY <1>1, <1>2

Tries(arr, size, path) == {d \in Toy!NextCells(size, path[Len(path)]) : arr[d + 1] # "H" /\ \A i \in DOMAIN path : path[i] # d}
Longer(arr, size, B, n) == UNION {{Append(p, d) : d \in Tries(arr, size, p)} : p \in {q \in B : arr[q[n] + 1] # "G"}}
Searches(arr, size, f) ==
  f = [n \in 0..(size * size - 1) |-> IF n = 0 THEN {<<0>>} ELSE Longer(arr, size, f[n - 1], n)]

LEMMA SearchesExist ==
  ASSUME NEW arr, NEW size \in Positive
  PROVE  \E f : Searches(arr, size, f)
<1>. DEFINE P == {p \in Seq(Int) : Len(p) >= 1}
            T == SUBSET P
            F == [i \in Nat |-> [B \in T |-> Longer(arr, size, B, i)]]
            last == size * size - 1
<1>1. \A B \in T, i \in Nat : Longer(arr, size, B, i) \in T
  <2>. SUFFICES ASSUME NEW B \in T, NEW i \in Nat, NEW x \in Longer(arr, size, B, i)
                PROVE  x \in P
    OBVIOUS
  <2>0. PICK p \in B : \E d \in Tries(arr, size, p) : x = Append(p, d)
    BY DEF Longer
  <2>5. PICK d \in Tries(arr, size, p) : x = Append(p, d)
    BY <2>0
  <2>1. p \in Seq(Int) /\ Len(p) \in Nat /\ Len(p) >= 1
    OBVIOUS
  <2>2. p[Len(p)] \in Int
    BY <2>1
  <2>3. d \in Int
    BY <2>2, NextIs DEF Tries
  <2>4. Append(p, d) \in Seq(Int) /\ Len(Append(p, d)) = Len(p) + 1
    BY <2>1, <2>3
  <2>. QED BY <2>1, <2>4, <2>5
<1>2. F \in [Nat -> [T -> T]] /\ {<<0>>} \in T
  <2>1. <<0>> \in Seq(Int) /\ Len(<<0>>) = 1
    OBVIOUS
  <2>2. {<<0>>} \in T
    BY <2>1
  <2>. HIDE DEF T
  <2>. QED BY <1>1, <2>2
<1>3. \A i \in Nat, B \in T : F[i][B] = Longer(arr, size, B, i)
  OBVIOUS
<1>4. last \in Nat
  BY DEF Positive
<1>. HIDE DEF T, F, last
<1>5. PICK f : Recurs(f, T, {<<0>>}, F, last)
  BY <1>2, <1>4, Iterates
<1>6. \A i \in 0..last : f[i] = IF i = 0 THEN {<<0>>} ELSE Longer(arr, size, f[i - 1], i)
  <2>. SUFFICES ASSUME NEW i \in 0..last, i # 0 PROVE f[i] = Longer(arr, size, f[i - 1], i)
    BY <1>5 DEF Recurs
  <2>1. i \in 1..last /\ i \in Nat /\ i - 1 \in 0..last
    BY <1>4
  <2>2. f[i - 1] \in T /\ f[i] = F[i][f[i - 1]]
    BY <1>5, <2>1 DEF Recurs
  <2>. QED BY <1>3, <2>1, <2>2
<1>7. f = [i \in 0..last |-> f[i]]
  BY <1>5 DEF Recurs
<1>. QED BY <1>6, <1>7 DEF Searches, last

LEMMA RandomMapsOK ==
  ASSUME NEW m \in Toy!RandomMaps(3)
  PROVE  KwOK("FrozenLake", [nrow |-> 3, ncol |-> 3, slippery |-> FALSE, desc |-> m])
<1>. DEFINE kw == [nrow |-> 3, ncol |-> 3, slippery |-> FALSE, desc |-> m]
            size == 3
            last == 9
<1>1. /\ m \in [1..9 -> {"F", "H", "S", "G"}] /\ m[1] = "S" /\ m[9] = "G"
      /\ \A i \in 2..8 : m[i] \in {"F", "H"}
      /\ Toy!IsValid(m, size)
  BY DEF Toy!RandomMaps
<1>2. kw.ncol = 3 /\ kw.nrow = 3 /\ kw.slippery = FALSE /\ kw.desc = m /\ 3 \in Positive /\ 9 = kw.nrow * kw.ncol
  BY DEF Positive
<1>. HIDE DEF kw
<1>3. PICK f : Grows(kw, last, f) /\ (last - 1 \in f[last] => WayToGoal(kw))
  <2>1. last \in Nat /\ last = kw.nrow * kw.ncol
    BY <1>2
  <2>. HIDE DEF last
  <2>. QED BY <1>2, <2>1, WayIs
<1>4. \A i \in 0..9 : f[i] = IF i = 0 THEN {0} ELSE Reaches(kw, f[i - 1])
  BY <1>3 DEF Grows
<1>. DEFINE g == CHOOSE h : Searches(m, size, h)
<1>5. Searches(m, size, g)
  BY <1>2, SearchesExist, SMTT(60)
<1>6. \E n \in 0..(size * size - 1) : \E p \in g[n] : m[p[n + 1] + 1] = "G"
  BY <1>1, ZenonT(60) DEF Toy!IsValid, Searches, Longer, Tries
<1>. HIDE DEF g
<1>7. \A n \in 0..8 : g[n] = IF n = 0 THEN {<<0>>} ELSE Longer(m, 3, g[n - 1], n)
  BY <1>5 DEF Searches
<1>. DEFINE Is(n) == \A p \in g[n] : IsSeq(p) /\ Len(p) = n + 1 /\ p[n + 1] \in f[n] /\ p[n + 1] \in 0..8
            N == {n \in Nat : n \in 0..8 => Is(n)}
<1>8. 0 \in N
  <2>1. g[0] = {<<0>>} /\ f[0] = {0}
    BY <1>4, <1>7
  <2>2. <<0>> \in Seq(Int) /\ Len(<<0>>) = 1 /\ <<0>>[1] = 0
    OBVIOUS
  <2>3. IsSeq(<<0>>)
    BY <2>2, AnySeq
  <2>. QED BY <2>1, <2>2, <2>3
<1>9. ASSUME NEW n \in N PROVE n + 1 \in N
  <2>1. n \in Nat
    OBVIOUS
  <2>. SUFFICES ASSUME n + 1 \in 0..8, NEW p \in g[n + 1]
                PROVE  IsSeq(p) /\ Len(p) = (n + 1) + 1 /\ p[(n + 1) + 1] \in f[n + 1] /\ p[(n + 1) + 1] \in 0..8
    BY <2>1
  <2>2. n \in 0..8 /\ n + 1 # 0 /\ (n + 1) - 1 = n /\ n + 1 \in 0..9
    BY <2>1
  <2>3. g[n + 1] = Longer(m, 3, g[n], n + 1) /\ f[n + 1] = Reaches(kw, f[n])
    BY <1>4, <1>7, <2>2
  <2>4. PICK q \in g[n] : \E d \in Tries(m, 3, q) : p = Append(q, d)
    BY <2>3 DEF Longer
  <2>5. PICK d \in Tries(m, 3, q) : p = Append(q, d)
    BY <2>4
  <2>6. IsSeq(q) /\ Len(q) = n + 1 /\ q[n + 1] \in f[n] /\ q[n + 1] \in 0..8
    BY <2>2, <2>4
  <2>7. d \in Toy!NextCells(3, q[n + 1]) /\ m[d + 1] # "H"
    BY <2>6 DEF Tries
  <2>8. d \in 0..8
    <3>. DEFINE c == q[n + 1]
    <3>1. c \in Int /\ 0 <= c /\ c <= 8
      BY <2>6
    <3>2. \/ d = c + 3 /\ c \div 3 + 1 < 3
          \/ d = c + 1 /\ (c % 3) + 1 < 3
          \/ d = c - 3 /\ c \div 3 - 1 >= 0
          \/ d = c - 1 /\ (c % 3) - 1 >= 0
      BY <2>7 DEF Toy!NextCells
    <3>. HIDE DEF c
    <3>3. c \in {0, 1, 2, 3, 4, 5, 6, 7, 8}
      BY <3>1
    <3>4. CASE d = c + 3 /\ c \div 3 + 1 < 3
      BY <3>3, <3>4, SMTT(30)
    <3>5. CASE d = c + 1 /\ (c % 3) + 1 < 3
      BY <3>3, <3>5, SMTT(30)
    <3>6. CASE d = c - 3 /\ c \div 3 - 1 >= 0
      BY <3>3, <3>6, SMTT(30)
    <3>7. CASE d = c - 1 /\ (c % 3) - 1 >= 0
      BY <3>3, <3>7, SMTT(30)
    <3>. QED BY <3>2, <3>4, <3>5, <3>6, <3>7
  <2>9. d \in f[n + 1]
    BY <1>2, <2>3, <2>6, <2>7 DEF Reaches
  <2>10. IsSeq(p) /\ Len(p) = (n + 1) + 1 /\ p[(n + 1) + 1] = d
    BY <2>5, <2>6, AppendFacts
  <2>. QED BY <2>8, <2>9, <2>10
<1>10. N = Nat
  <2>1. N \in SUBSET Nat
    OBVIOUS
  <2>. HIDE DEF N
  <2>. QED BY <1>8, <1>9, <2>1, FromZero
<1>11. PICK n \in 0..8 : 8 \in f[n]
  <2>1. PICK n \in 0..8 : \E p \in g[n] : m[p[n + 1] + 1] = "G"
    BY <1>6
  <2>2. PICK p \in g[n] : m[p[n + 1] + 1] = "G"
    BY <2>1
  <2>3. n \in N
    BY <1>10
  <2>4. p[n + 1] \in f[n] /\ p[n + 1] \in 0..8
    BY <2>2, <2>3
  <2>5. p[n + 1] + 1 \in 1..9
    BY <2>4
  <2>6. p[n + 1] + 1 \notin 2..8 /\ p[n + 1] + 1 # 1
    BY <1>1, <2>2
  <2>7. p[n + 1] = 8
    BY <2>4, <2>6
  <2>. QED BY <2>4, <2>7
<1>. DEFINE M == {k \in Nat : n + k \in 0..9 => 8 \in f[n + k]}
<1>12. 9 - n \in M
  <2>1. 0 \in M
    BY <1>11
  <2>2. ASSUME NEW k \in M PROVE k + 1 \in M
    <3>. SUFFICES ASSUME n + (k + 1) \in 0..9 PROVE 8 \in f[n + (k + 1)]
      OBVIOUS
    <3>1. k \in Nat /\ n + k \in 0..9 /\ n + (k + 1) # 0 /\ (n + (k + 1)) - 1 = n + k
      OBVIOUS
    <3>2. 8 \in f[n + k] /\ f[n + (k + 1)] = Reaches(kw, f[n + k])
      BY <1>4, <3>1
    <3>. QED BY <3>2 DEF Reaches
  <2>3. M \in SUBSET Nat /\ 9 - n \in Nat
    OBVIOUS
  <2>. HIDE DEF M
  <2>. QED BY <2>1, <2>2, <2>3, FromZero
<1>13. WayToGoal(kw)
  <2>1. n + (9 - n) = 9 /\ 9 \in 0..9
    OBVIOUS
  <2>2. 8 \in f[9]
    BY <1>12, <2>1
  <2>. QED BY <1>3, <2>2
<1>14. {kw.nrow, kw.ncol} \subseteq Positive /\ kw.slippery \in BOOLEAN
  BY <1>2
<1>15. kw.desc \in [1..(kw.nrow * kw.ncol) -> {"S", "F", "H", "G"}]
  <2>1. {"F", "H", "S", "G"} = {"S", "F", "H", "G"}
    OBVIOUS
  <2>. QED BY <1>1, <1>2, <2>1
<1>16. "FrozenLake" \in ToyClasses /\ "FrozenLake" \notin Alg!AlgorithmicClasses
  BY DEF ToyClasses, Alg!AlgorithmicClasses
<1>17. KwOK("FrozenLake", kw)
  BY <1>13, <1>14, <1>15, <1>16 DEF KwOK
<1>. QED BY <1>17 DEF kw

\* Taxi.
LEMMA TaxiSpaces ==
  ASSUME NEW e, e.cls = "Taxi"
  PROVE  ObsSpace(e) = Toy!Discrete(500) /\ ActionSpace(e) = Toy!Discrete(6)
<1>1. e.cls \in ToyClasses
  BY DEF ToyClasses
<1>2. ObsSpace(e) = Toy!Discrete(500)
  BY <1>1, OfToy DEF Toy!ToyObsSpace
<1>3. ActionSpace(e) = Toy!Discrete(6)
  BY <1>1, OfToy DEF Toy!ToyActions
<1>. QED BY <1>2, <1>3

\* decode() gives back what encode() was given.
Rows == 0..4
Places == 0..3

LEMMA Decoded ==
  ASSUME NEW r \in Rows, NEW c \in Rows, NEW p \in Rows, NEW d \in Places
  PROVE  /\ Toy!encode(r, c, p, d) \in 0..499
         /\ Toy!decode(Toy!encode(r, c, p, d)).dest = d /\ Toy!decode(Toy!encode(r, c, p, d)).pass = p
         /\ Toy!decode(Toy!encode(r, c, p, d)).col = c /\ Toy!decode(Toy!encode(r, c, p, d)).row = r
<1>. DEFINE i == Toy!encode(r, c, p, d)
<1>0. r \in 0..4 /\ c \in 0..4 /\ p \in 0..4 /\ d \in 0..3
  BY DEF Rows, Places
<1>1. i = 100 * r + 20 * c + 4 * p + d
  BY <1>0 DEF Toy!encode
<1>2. i % 4 = d /\ i \div 4 = 25 * r + 5 * c + p
  BY <1>0, <1>1
<1>3. (i \div 4) % 5 = p
  BY <1>0, <1>2
<1>4. i \div 20 = 5 * r + c
  BY <1>0, <1>1
<1>5. (i \div 20) % 5 = c
  BY <1>0, <1>4
<1>6. i \div 100 = r
  BY <1>0, <1>1
<1>. QED BY <1>0, <1>1, <1>2, <1>3, <1>5, <1>6 DEF Toy!decode

LEMMA DecodeType ==
  ASSUME NEW s \in 0..499
  PROVE  /\ Toy!decode(s).row \in Rows /\ Toy!decode(s).col \in Rows
         /\ Toy!decode(s).pass \in Rows /\ Toy!decode(s).dest \in Places
BY DEF Toy!decode, Rows, Places

LEMMA TaxiReset ==
  ASSUME NEW e, e.cls = "Taxi", NEW r \in Toy!ToyReset(e.cls, e.kw), Fresh(e, r)
  PROVE  TaxiInv(e)
<1>1. PICK s \in Toy!TaxiStart : r = <<s, s>>
  BY DEF Toy!ToyReset
<1>2. PICK row \in Rows, col \in Rows, p \in Places, d \in Places : s = Toy!encode(row, col, p, d)
  <2>1. s \in {Toy!encode(row, col, p, d) : row \in Rows, col \in Rows, p \in Places, d \in Places}
    BY <1>1 DEF Toy!TaxiStart, Rows, Places
  <2>. QED BY <2>1
<1>3. p # d
  <2>1. s \notin {Toy!encode(w, c, q, q) : w \in Rows, c \in Rows, q \in Places}
    BY <1>1 DEF Toy!TaxiStart, Rows, Places
  <2>. QED BY <1>2, <2>1
<1>4. s \in 0..499 /\ Toy!decode(s).dest = d /\ Toy!decode(s).pass = p /\ Toy!decode(s).row = row
  <2>1. p \in Rows
    BY DEF Places, Rows
  <2>. QED BY <1>2, <2>1, Decoded
<1>5. e.st = s /\ e.obs = s /\ e.done = FALSE /\ e.rew = 0
  BY <1>1 DEF Fresh
<1>6. TaxiSound(e)
  BY <1>3, <1>4, <1>5 DEF TaxiSound, Rows
<1>7. Shown(e)
  BY <1>4, <1>5, TaxiSpaces, DiscreteIs DEF Shown
<1>. QED BY <1>4, <1>5, <1>6, <1>7 DEF TaxiInv

\* What a step of a taxi may do: a passenger is dropped where the taxi is.
TaxiRide(t) == /\ t[1] \in 0..499 /\ t[3] \in BOOLEAN
               /\ t[3] <=> Toy!decode(t[1]).pass = Toy!decode(t[1]).dest
               /\ t[2] = 20 => t[3] /\ Toy!TaxiLocs[Toy!decode(t[1]).dest + 1]
                                         = <<Toy!decode(t[1]).row, Toy!decode(t[1]).col>>

LEMMA TaxiDrives ==
  ASSUME NEW r \in Rows, NEW c \in Rows, NEW p \in Rows, NEW d \in Places, NEW x, p # d, x # 20
  PROVE  TaxiRide(<<Toy!encode(r, c, p, d), x, FALSE>>)
<1>. DEFINE i == Toy!encode(r, c, p, d)
<1>1. i \in 0..499 /\ Toy!decode(i).dest = d /\ Toy!decode(i).pass = p
  BY Decoded
<1>. HIDE DEF i
<1>2. TaxiRide(<<i, x, FALSE>>)
  BY <1>1 DEF TaxiRide
<1>. QED BY <1>2 DEF i

LEMMA TaxiArrives ==
  ASSUME NEW r \in Rows, NEW c \in Rows, NEW d \in Places, Toy!TaxiLocs[d + 1] = <<r, c>>
  PROVE  TaxiRide(<<Toy!encode(r, c, d, d), 20, TRUE>>)
<1>. DEFINE i == Toy!encode(r, c, d, d)
<1>1. d \in Rows
  BY DEF Rows, Places
<1>2. i \in 0..499 /\ Toy!decode(i).dest = d /\ Toy!decode(i).pass = d /\ Toy!decode(i).row = r /\ Toy!decode(i).col = c
  BY <1>1, Decoded
<1>. HIDE DEF i
<1>3. TaxiRide(<<i, 20, TRUE>>)
  BY <1>2 DEF TaxiRide
<1>. QED BY <1>3 DEF i

LEMMA TaxiStays ==
  ASSUME NEW s \in 0..499, Toy!decode(s).pass # Toy!decode(s).dest
  PROVE  TaxiRide(<<s, -10, FALSE>>)
BY DEF TaxiRide

\* The table, action by action.
AtLoc(s) == {i \in Places : Toy!TaxiLocs[i + 1] = <<Toy!decode(s).row, Toy!decode(s).col>>}

TaxiAt(s, x, c) == Toy!encode(x, c, Toy!decode(s).pass, Toy!decode(s).dest)
TaxiWith(s, p) == Toy!encode(Toy!decode(s).row, Toy!decode(s).col, p, Toy!decode(s).dest)
TaxiNear(x) == {x, Toy!Min({x + 1, 4}), Toy!Max({x - 1, 0})}

LEMMA TaxiEnds ==
  ASSUME NEW s, NEW t \in Toy!TaxiTransitions(s, 5)
  PROVE  \/ Toy!decode(s).dest \in AtLoc(s) /\ t = <<TaxiWith(s, Toy!decode(s).dest), 20, TRUE>>
         \/ Toy!decode(s).dest \notin AtLoc(s) /\ \E i \in AtLoc(s) : t = <<TaxiWith(s, i), -1, FALSE>>
         \/ t = <<s, -10, FALSE>>
<1>. DEFINE At == AtLoc(s)
            p == Toy!decode(s).pass
            d == Toy!decode(s).dest
<1>1. Toy!TaxiTransitions(s, 5) =
        IF p = 4 /\ d \in At THEN {<<TaxiWith(s, d), 20, TRUE>>}
        ELSE IF p = 4 /\ At # {} THEN {<<TaxiWith(s, i), -1, FALSE>> : i \in At}
        ELSE {<<s, -10, FALSE>>}
  BY DEF Toy!TaxiTransitions, AtLoc, Places, TaxiWith
<1>. HIDE DEF At
<1>2. \/ d \in At /\ t = <<TaxiWith(s, d), 20, TRUE>>
      \/ d \notin At /\ \E i \in At : t = <<TaxiWith(s, i), -1, FALSE>>
      \/ t = <<s, -10, FALSE>>
  BY <1>1
<1>. QED BY <1>2 DEF At

LEMMA TaxiTurns ==
  ASSUME NEW s, NEW a \in 0..4, NEW t \in Toy!TaxiTransitions(s, a)
  PROVE  \/ t \in {<<s, -10, FALSE>>, <<TaxiWith(s, 4), -1, FALSE>>}
         \/ \E x \in TaxiNear(Toy!decode(s).row), c \in TaxiNear(Toy!decode(s).col) : t = <<TaxiAt(s, x, c), -1, FALSE>>
<1>. DEFINE row == Toy!decode(s).row
            col == Toy!decode(s).col
<1>0. a = 0 \/ a = 1 \/ a = 2 \/ a = 3 \/ a = 4
  OBVIOUS
<1>1. Toy!TaxiTransitions(s, 0) = {<<TaxiAt(s, Toy!Min({row + 1, 4}), col), -1, FALSE>>}
  BY DEF Toy!TaxiTransitions, TaxiAt
<1>2. Toy!TaxiTransitions(s, 1) = {<<TaxiAt(s, Toy!Max({row - 1, 0}), col), -1, FALSE>>}
  BY DEF Toy!TaxiTransitions, TaxiAt
<1>3. Toy!TaxiTransitions(s, 2) =
        {<<TaxiAt(s, row, IF <<row, col>> \notin Toy!TaxiWalls THEN Toy!Min({col + 1, 4}) ELSE col), -1, FALSE>>}
  BY DEF Toy!TaxiTransitions, TaxiAt
<1>4. Toy!TaxiTransitions(s, 3) =
        {<<TaxiAt(s, row, IF <<row, col - 1>> \notin Toy!TaxiWalls THEN Toy!Max({col - 1, 0}) ELSE col), -1, FALSE>>}
  BY DEF Toy!TaxiTransitions, TaxiAt
<1>5. Toy!TaxiTransitions(s, 4) \in {{<<TaxiWith(s, 4), -1, FALSE>>}, {<<s, -10, FALSE>>}}
  BY DEF Toy!TaxiTransitions, TaxiWith
<1>6. CASE a = 4
  <2>1. t \in {<<s, -10, FALSE>>, <<TaxiWith(s, 4), -1, FALSE>>}
    BY <1>5, <1>6
  <2>. QED BY <2>1
<1>7. CASE a # 4
  <2>1. PICK x \in TaxiNear(row), c \in TaxiNear(col) :
          Toy!TaxiTransitions(s, a) = {<<TaxiAt(s, x, c), -1, FALSE>>}
    BY <1>0, <1>1, <1>2, <1>3, <1>4, <1>7 DEF TaxiNear
  <2>2. t = <<TaxiAt(s, x, c), -1, FALSE>>
    BY <2>1
  <2>. QED BY <2>2
<1>. QED BY ONLY <1>6, <1>7

LEMMA TaxiMoves ==
  ASSUME NEW s \in 0..499, Toy!decode(s).pass # Toy!decode(s).dest, NEW a \in 0..5, NEW t \in Toy!TaxiTransitions(s, a)
  PROVE  TaxiRide(t)
<1>. DEFINE row == Toy!decode(s).row
            col == Toy!decode(s).col
            p == Toy!decode(s).pass
            d == Toy!decode(s).dest
<1>1. row \in Rows /\ col \in Rows /\ p \in Rows /\ d \in Places /\ p # d
  BY DecodeType, ZenonT(60)
<1>2. TaxiRide(<<s, -10, FALSE>>)
  BY TaxiStays, ZenonT(60)
<1>4. \A i \in AtLoc(s) : i \in Places /\ Toy!TaxiLocs[i + 1] = <<row, col>>
  BY DEF AtLoc
<1>6. -1 # 20 /\ 4 \in Rows /\ 4 \notin Places /\ Places \subseteq Rows
  BY DEF Rows, Places
<1>7. CASE a \in 0..4
  <2>1. \/ t \in {<<s, -10, FALSE>>, <<TaxiWith(s, 4), -1, FALSE>>}
        \/ \E x \in TaxiNear(row), c \in TaxiNear(col) : t = <<TaxiAt(s, x, c), -1, FALSE>>
    BY <1>7, TaxiTurns, ZenonT(60)
  <2>2. TaxiNear(row) \subseteq Rows /\ TaxiNear(col) \subseteq Rows
    <3>. HIDE DEF row, col
    <3>1. {row + 1, row - 1, col + 1, col - 1, 0, 4} \subseteq Int
      BY <1>1 DEF Rows
    <3>2. /\ Toy!Min({row + 1, 4}) = (IF row + 1 <= 4 THEN row + 1 ELSE 4)
          /\ Toy!Max({row - 1, 0}) = (IF row - 1 >= 0 THEN row - 1 ELSE 0)
          /\ Toy!Min({col + 1, 4}) = (IF col + 1 <= 4 THEN col + 1 ELSE 4)
          /\ Toy!Max({col - 1, 0}) = (IF col - 1 >= 0 THEN col - 1 ELSE 0)
      BY <3>1, MaxPair, MinPair
    <3>. QED BY <1>1, <3>2 DEF Rows, TaxiNear
  <2>. HIDE DEF row, col, p, d
  <2>3. CASE t = <<TaxiWith(s, 4), -1, FALSE>>
    BY <1>1, <1>6, <2>3, TaxiDrives DEF TaxiWith, row, col, d
  <2>4. CASE \E x, c \in Rows : t = <<TaxiAt(s, x, c), -1, FALSE>>
    BY <1>1, <1>6, <2>4, TaxiDrives, ZenonT(60) DEF TaxiAt, p, d
  <2>5. \/ t \in {<<s, -10, FALSE>>, <<TaxiWith(s, 4), -1, FALSE>>}
        \/ \E x, c \in Rows : t = <<TaxiAt(s, x, c), -1, FALSE>>
    BY <2>1, <2>2
  <2>. QED BY <1>2, <2>3, <2>4, <2>5
<1>8. CASE a = 5
  <2>1. \/ d \in AtLoc(s) /\ t = <<TaxiWith(s, d), 20, TRUE>>
        \/ d \notin AtLoc(s) /\ \E i \in AtLoc(s) : t = <<TaxiWith(s, i), -1, FALSE>>
        \/ t = <<s, -10, FALSE>>
    BY <1>8, TaxiEnds
  <2>. HIDE DEF row, col, p, d
  <2>2. CASE d \in AtLoc(s) /\ t = <<TaxiWith(s, d), 20, TRUE>>
    BY <1>1, <1>4, <2>2, TaxiArrives DEF TaxiWith, row, col, d
  <2>3. CASE d \notin AtLoc(s) /\ \E i \in AtLoc(s) : t = <<TaxiWith(s, i), -1, FALSE>>
    <3>1. PICK i \in AtLoc(s) : t = <<TaxiWith(s, i), -1, FALSE>>
      BY <2>3
    <3>2. i \in Rows /\ i # d
      BY <1>4, <1>6, <2>3
    <3>. QED BY <1>1, <1>6, <3>1, <3>2, TaxiDrives DEF TaxiWith, row, col, d
  <2>. QED BY <1>2, <2>1, <2>2, <2>3
<1>. QED BY <1>7, <1>8

LEMMA TaxiStep ==
  ASSUME NEW d, NEW e, e.cls = "Taxi", TaxiInv(d), NEW a \in 0..5,
         NEW o \in Toy!ToyStep(d.cls, d.kw, d.st, a), After(d, e, o)
  PROVE  TaxiInv(e)
<1>1. d.cls = "Taxi" /\ d.st \in 0..499 /\ ~d.done
  BY DEF After, TaxiInv
<1>2. PICK t \in Toy!TaxiTransitions(d.st, a) : o = Toy!Out(t[1], t[1], t[2], t[3])
  BY <1>1 DEF Toy!ToyStep, Toy!DiscreteStep
<1>3. e.st = t[1] /\ e.obs = t[1] /\ e.done = t[3] /\ e.rew = t[2]
  BY <1>2 DEF After, Toy!Out
<1>4. Toy!decode(d.st).pass # Toy!decode(d.st).dest
  BY <1>1, SMTT(60) DEF TaxiInv, TaxiSound
<1>5. TaxiRide(t)
  BY <1>1, <1>4, TaxiMoves
<1>6. TaxiSound(e)
  <2>1. Toy!decode(t[1]).row \in 0..4
    BY <1>5, DecodeType, ZenonT(60) DEF TaxiRide, Rows
  <2>. QED BY <1>3, <1>5, <2>1 DEF TaxiSound, TaxiRide
<1>7. Shown(e)
  BY <1>3, <1>5, TaxiSpaces, DiscreteIs, SMTT(60) DEF Shown, TaxiRide
<1>. QED BY <1>3, <1>5, <1>6, <1>7 DEF TaxiInv, TaxiRide

\* Blackjack.
LEMMA BlackjackSpaces ==
  ASSUME NEW e, e.cls = "Blackjack"
  PROVE  ObsSpace(e) = Toy!TupleSpace(<<Toy!Discrete(32), Toy!Discrete(11), Toy!Discrete(2)>>) /\ ActionSpace(e) = Toy!Discrete(2)
<1>1. e.cls \in ToyClasses
  BY DEF ToyClasses
<1>2. ObsSpace(e) = Toy!TupleSpace(<<Toy!Discrete(32), Toy!Discrete(11), Toy!Discrete(2)>>)
  BY <1>1, OfToy DEF Toy!ToyObsSpace
<1>3. ActionSpace(e) = Toy!Discrete(2)
  BY <1>1, OfToy DEF Toy!ToyActions
<1>. QED BY <1>2, <1>3

LEMMA TupleOfThree ==
  ASSUME NEW m, NEW n, NEW k, NEW x \in Int, NEW y \in Int, NEW z \in Int,
         0 <= x, x < m, 0 <= y, y < n, 0 <= z, z < k
  PROVE  S!Contains(Toy!TupleSpace(<<Toy!Discrete(m), Toy!Discrete(n), Toy!Discrete(k)>>), <<x, y, z>>)
<1>. DEFINE sp == Toy!TupleSpace(<<Toy!Discrete(m), Toy!Discrete(n), Toy!Discrete(k)>>)
<1>1. sp.kind = "Tuple" /\ sp.spaces = <<Toy!Discrete(m), Toy!Discrete(n), Toy!Discrete(k)>>
  BY DEF Toy!TupleSpace
<1>2. /\ S!ContainsPlain(Toy!Discrete(m), x) /\ S!ContainsPlain(Toy!Discrete(n), y) /\ S!ContainsPlain(Toy!Discrete(k), z)
  BY DEF S!ContainsPlain, Toy!Discrete
<1>3. DOMAIN <<x, y, z>> = 1..3 /\ DOMAIN sp.spaces = 1..3
  BY <1>1
<1>4. \A i \in 1..3 : S!ContainsPlain(sp.spaces[i], <<x, y, z>>[i])
  <2>. SUFFICES ASSUME NEW i \in 1..3 PROVE S!ContainsPlain(sp.spaces[i], <<x, y, z>>[i])
    OBVIOUS
  <2>1. i = 1 \/ i = 2 \/ i = 3
    OBVIOUS
  <2>2. /\ sp.spaces[1] = Toy!Discrete(m) /\ sp.spaces[2] = Toy!Discrete(n) /\ sp.spaces[3] = Toy!Discrete(k)
        /\ <<x, y, z>>[1] = x /\ <<x, y, z>>[2] = y /\ <<x, y, z>>[3] = z
    BY <1>1
  <2>. HIDE DEF sp
  <2>. QED BY <1>2, <2>1, <2>2
<1>. HIDE DEF sp
<1>5. S!Contains(sp, <<x, y, z>>)
  BY <1>1, <1>3, <1>4 DEF S!Contains
<1>. QED BY <1>5 DEF sp

\* A hand is worth what its cards add up to, or ten more.
LEMMA HandIs ==
  ASSUME NEW h \in Hands
  PROVE  /\ h.sum \in Int /\ 2 <= h.sum /\ h.sum <= 31
         /\ Toy!sum_hand(h) \in Int /\ h.sum <= Toy!sum_hand(h) /\ Toy!sum_hand(h) <= 31
         /\ Toy!sum_hand(h) <= 21 => h.sum <= 21
         /\ h.sum > 21 <=> Toy!sum_hand(h) > 21
BY DEF Hands, Toy!sum_hand, Toy!usable_ace

LEMMA DrawIs ==
  ASSUME NEW h \in Hands, NEW c \in Int, 1 <= c, c <= 10, h.sum <= 21
  PROVE  Toy!Draw(h, c) \in Hands /\ Toy!Draw(h, c).sum = h.sum + c
<1>1. h.sum \in Int /\ 2 <= h.sum /\ h.ace \in BOOLEAN
  BY DEF Hands
<1>2. h.sum + c \in 2..31 /\ (h.ace \/ c = 1) \in BOOLEAN
  BY <1>1
<1>. QED BY <1>2 DEF Hands, Toy!Draw

\* The hands after n cards: the dealer has 17 or has drawn every time.
Draws(deck, B) == {IF Toy!sum_hand(h) < 17 THEN Toy!Draw(h, c) ELSE h : h \in B, c \in deck}
Deals(deck, hand, f) == f = [n \in 0..17 |-> IF n = 0 THEN {hand} ELSE Draws(deck, f[n - 1])]

LEMMA DealsExist ==
  ASSUME NEW deck, deck \subseteq 1..10, NEW hand \in Hands
  PROVE  \E f : Deals(deck, hand, f)
<1>. DEFINE T == SUBSET Hands
            F == [i \in Nat |-> [B \in T |-> Draws(deck, B)]]
<1>1. \A B \in T : Draws(deck, B) \in T
  <2>. SUFFICES ASSUME NEW B \in T, NEW h \in B, NEW c \in deck
                PROVE  (IF Toy!sum_hand(h) < 17 THEN Toy!Draw(h, c) ELSE h) \in Hands
    BY DEF Draws
  <2>1. h \in Hands /\ c \in Int /\ 1 <= c /\ c <= 10
    OBVIOUS
  <2>2. Toy!sum_hand(h) < 17 => h.sum <= 21
    BY <2>1, HandIs
  <2>. QED BY <2>1, <2>2, DrawIs
<1>2. F \in [Nat -> [T -> T]] /\ {hand} \in T
  BY <1>1
<1>3. \A i \in Nat, B \in T : F[i][B] = Draws(deck, B)
  OBVIOUS
<1>. HIDE DEF T, F
<1>4. PICK f \in [0..17 -> T] : f[0] = {hand} /\ \A i \in 1..17 : f[i] = F[i][f[i - 1]]
  <2>. DEFINE m == 17
  <2>1. m \in Nat
    OBVIOUS
  <2>. HIDE DEF m
  <2>2. \E f : Recurs(f, T, {hand}, F, m)
    BY <1>2, <2>1, Iterates
  <2>. QED BY ONLY <2>2 DEF m, Recurs
<1>5. \A i \in 0..17 : f[i] = IF i = 0 THEN {hand} ELSE Draws(deck, f[i - 1])
  <2>. SUFFICES ASSUME NEW i \in 0..17, i # 0 PROVE f[i] = Draws(deck, f[i - 1])
    BY <1>4
  <2>1. i \in 1..17 /\ i \in Nat /\ i - 1 \in 0..17
    OBVIOUS
  <2>. QED BY <1>3, <1>4, <2>1
<1>6. f = [i \in 0..17 |-> f[i]]
  BY <1>4
<1>. QED BY <1>5, <1>6 DEF Deals

LEMMA DealerIs ==
  ASSUME NEW deck, deck \subseteq 1..10, NEW hand \in Hands, NEW h \in Toy!DealerPlays(deck, hand)
  PROVE  h \in Hands /\ Toy!sum_hand(h) >= 17
<1>. DEFINE f == CHOOSE g : Deals(deck, hand, g)
<1>1. Toy!DealerPlays(deck, hand) = f[17]
  <2>1. Toy!DealerPlays(deck, hand) =
          (CHOOSE g : g = [n \in 0..17 |-> IF n = 0 THEN {hand}
                             ELSE {IF Toy!sum_hand(x) < 17 THEN Toy!Draw(x, c) ELSE x : x \in g[n - 1], c \in deck}])[17]
    BY DEF Toy!DealerPlays
  <2>. QED BY <2>1 DEF Deals, Draws
<1>2. Deals(deck, hand, f)
  BY DealsExist
<1>. HIDE DEF f
<1>3. \A n \in 0..17 : f[n] = IF n = 0 THEN {hand} ELSE Draws(deck, f[n - 1])
  BY <1>2 DEF Deals
<1>. DEFINE N == {n \in Nat : n <= 17 => \A x \in f[n] : x \in Hands /\ (Toy!sum_hand(x) >= 17 \/ x.sum >= n)}
<1>4. 0 \in N
  <2>1. f[0] = {hand}
    BY <1>3
  <2>2. hand.sum >= 0
    BY HandIs
  <2>. QED BY <2>1, <2>2
<1>5. ASSUME NEW n \in N PROVE n + 1 \in N
  <2>. SUFFICES ASSUME n + 1 <= 17, NEW x \in f[n + 1]
                PROVE  x \in Hands /\ (Toy!sum_hand(x) >= 17 \/ x.sum >= n + 1)
    OBVIOUS
  <2>1. n + 1 \in 0..17 /\ n + 1 # 0 /\ (n + 1) - 1 = n /\ n <= 17 /\ n \in Nat
    OBVIOUS
  <2>2. f[n + 1] = Draws(deck, f[n])
    BY <1>3, <2>1
  <2>3. PICK y \in f[n], c \in deck : x = IF Toy!sum_hand(y) < 17 THEN Toy!Draw(y, c) ELSE y
    BY <2>2 DEF Draws
  <2>4. y \in Hands /\ (Toy!sum_hand(y) >= 17 \/ y.sum >= n) /\ c \in Int /\ 1 <= c /\ c <= 10
    BY <2>1, <2>3
  <2>5. CASE Toy!sum_hand(y) < 17
    <3>1. y.sum <= 21 /\ y.sum \in Int /\ Toy!sum_hand(y) \in Int
      BY <2>4, <2>5, HandIs
    <3>2. x = Toy!Draw(y, c) /\ x \in Hands /\ x.sum = y.sum + c
      BY <2>3, <2>4, <2>5, <3>1, DrawIs
    <3>3. y.sum >= n
      BY <2>4, <2>5, <3>1
    <3>. QED BY <2>1, <2>4, <3>1, <3>2, <3>3
  <2>6. CASE ~(Toy!sum_hand(y) < 17)
    <3>1. x = y /\ Toy!sum_hand(y) \in Int
      BY <2>3, <2>4, <2>6, HandIs
    <3>. QED BY <2>4, <2>6, <3>1
  <2>. QED BY <2>5, <2>6
<1>6. N = Nat
  <2>. HIDE DEF N
  <2>1. N \in SUBSET Nat
    BY DEF N
  <2>. QED BY <1>4, <1>5, <2>1, FromZero
<1>7. h \in Hands /\ (Toy!sum_hand(h) >= 17 \/ h.sum >= 17)
  BY <1>1, <1>6
<1>. QED BY <1>7, HandIs

LEMMA BlackjackShown ==
  ASSUME NEW e, e.cls = "Blackjack", e.st \in [player : Hands, dealer : Hands, up : 1..10],
         e.obs = Toy!BlackjackObs(e.st)
  PROVE  Shown(e)
<1>. DEFINE p == e.st.player
            x == Toy!sum_hand(p)
            z == IF Toy!usable_ace(p) THEN 1 ELSE 0
<1>1. p \in Hands /\ e.st.up \in 1..10
  OBVIOUS
<1>2. x \in Int /\ 0 <= x /\ x < 32
  BY <1>1, HandIs
<1>3. z \in Int /\ 0 <= z /\ z < 2
  OBVIOUS
<1>4. e.obs = <<x, e.st.up, z>>
  BY DEF Toy!BlackjackObs
<1>5. e.st.up \in Int /\ 0 <= e.st.up /\ e.st.up < 11
  BY <1>1
<1>. HIDE DEF x, z
<1>6. S!Contains(Toy!TupleSpace(<<Toy!Discrete(32), Toy!Discrete(11), Toy!Discrete(2)>>), <<x, e.st.up, z>>)
  BY <1>2, <1>3, <1>5, TupleOfThree
<1>. QED BY <1>4, <1>6, BlackjackSpaces DEF Shown

LEMMA BlackjackReset ==
  ASSUME NEW e, e.cls = "Blackjack", KwOK(e.cls, e.kw), NEW r \in Toy!ToyReset(e.cls, e.kw), Fresh(e, r)
  PROVE  BlackjackInv(e)
<1>1. PICK s \in Toy!BlackjackReset(e.kw) : r = <<s, Toy!BlackjackObs(s)>>
  BY DEF Toy!ToyReset
<1>2. e.kw.deck \subseteq 1..10
  BY DEF KwOK
<1>3. PICK a \in e.kw.deck, b \in e.kw.deck, c \in e.kw.deck, d \in e.kw.deck :
        s = [player |-> Toy!draw_hand(a, b), dealer |-> Toy!draw_hand(c, d), up |-> c]
  BY <1>1 DEF Toy!BlackjackReset
<1>4. \A x, y \in e.kw.deck : Toy!draw_hand(x, y) \in Hands /\ Toy!sum_hand(Toy!draw_hand(x, y)) <= 21
  <2>. SUFFICES ASSUME NEW x \in e.kw.deck, NEW y \in e.kw.deck
                PROVE  Toy!draw_hand(x, y) \in Hands /\ Toy!sum_hand(Toy!draw_hand(x, y)) <= 21
    OBVIOUS
  <2>1. x \in Int /\ 1 <= x /\ x <= 10 /\ y \in Int /\ 1 <= y /\ y <= 10
    BY <1>2
  <2>2. x + y \in 2..31 /\ (1 \in {x, y}) \in BOOLEAN /\ ({x, y} = {1, 10}) \in BOOLEAN /\ x + y <= 20
    BY <2>1
  <2>. DEFINE h == Toy!draw_hand(x, y)
  <2>3. h \in Hands /\ h.sum = x + y
    BY <2>2 DEF Toy!draw_hand, Hands
  <2>. HIDE DEF h
  <2>4. Toy!sum_hand(h) <= 21
    BY <2>2, <2>3 DEF Toy!sum_hand, Toy!usable_ace, Hands
  <2>. QED BY <2>3, <2>4 DEF h
<1>5. e.st = s /\ e.obs = Toy!BlackjackObs(s) /\ e.done = FALSE
  BY <1>1 DEF Fresh
<1>6. c \in 1..10
  BY <1>2
<1>7. e.st \in [player : Hands, dealer : Hands, up : 1..10] /\ Toy!sum_hand(e.st.player) <= 21
  BY <1>3, <1>4, <1>5, <1>6
<1>8. BlackjackSound(e)
  BY <1>5, <1>7 DEF BlackjackSound
<1>. QED BY <1>5, <1>7, <1>8, BlackjackShown DEF BlackjackInv

LEMMA BlackjackStep ==
  ASSUME NEW d, NEW e, e.cls = "Blackjack", KwOK(e.cls, e.kw), BlackjackInv(d), NEW a,
         NEW o \in Toy!ToyStep(d.cls, d.kw, d.st, a), After(d, e, o)
  PROVE  BlackjackInv(e)
<1>1. d.cls = "Blackjack" /\ d.kw = e.kw /\ ~d.done /\ d.st \in [player : Hands, dealer : Hands, up : 1..10]
  BY DEF After, BlackjackInv
<1>2. e.kw.deck \subseteq 1..10 /\ e.kw.natural \in BOOLEAN
  BY DEF KwOK
<1>3. o \in Toy!BlackjackStep(e.kw, d.st, a)
  BY <1>1 DEF Toy!ToyStep
<1>4. Toy!sum_hand(d.st.player) <= 21
  BY <1>1 DEF BlackjackInv, BlackjackSound
<1>. DEFINE s == d.st
<1>5. CASE a = 1
  <2>1. PICK c \in e.kw.deck : LET t == [s EXCEPT !.player = Toy!Draw(@, c)]
                               IN  o = Toy!Out(t, Toy!BlackjackObs(t), IF Toy!is_bust(t.player) THEN -2 ELSE 0, Toy!is_bust(t.player))
    BY <1>3, <1>5 DEF Toy!BlackjackStep
  <2>. DEFINE h == Toy!Draw(s.player, c)
              t == [s EXCEPT !.player = h]
  <2>2. c \in Int /\ 1 <= c /\ c <= 10 /\ s.player \in Hands /\ s.player.sum <= 21
    BY <1>1, <1>2, <1>4, HandIs
  <2>3. h \in Hands
    BY <2>2, DrawIs
  <2>. HIDE DEF h
  <2>4. t \in [player : Hands, dealer : Hands, up : 1..10] /\ t.player = h
    BY <1>1, <2>3
  <2>. HIDE DEF t
  <2>5. o = Toy!Out(t, Toy!BlackjackObs(t), IF Toy!is_bust(h) THEN -2 ELSE 0, Toy!is_bust(h))
    BY <2>1, <2>4 DEF t, h
  <2>6. e.st = t /\ e.obs = Toy!BlackjackObs(t) /\ e.rew = (IF Toy!is_bust(h) THEN -2 ELSE 0) /\ e.done = Toy!is_bust(h)
    BY <2>5 DEF After, Toy!Out
  <2>7. BlackjackSound(e)
    <3>1. Toy!sum_hand(h) \in Int
      BY <2>3, HandIs
    <3>2. CASE Toy!sum_hand(h) > 21
      <4>1. Toy!is_bust(h) = TRUE
        BY <3>2 DEF Toy!is_bust
      <4>. QED BY <2>4, <2>6, <3>2, <4>1 DEF BlackjackSound
    <3>3. CASE ~(Toy!sum_hand(h) > 21)
      <4>1. Toy!is_bust(h) = FALSE
        BY <3>3 DEF Toy!is_bust
      <4>. QED BY <2>4, <2>6, <3>1, <3>3, <4>1 DEF BlackjackSound
    <3>. QED BY <3>2, <3>3
  <2>. QED BY <2>4, <2>6, <2>7, BlackjackShown DEF BlackjackInv
<1>6. CASE a # 1
  <2>1. PICK h \in Toy!DealerPlays(e.kw.deck, s.dealer) :
          LET t == [s EXCEPT !.dealer = h]
          IN  o = Toy!Out(t, Toy!BlackjackObs(t), Toy!StickReward(e.kw, s.player, h), TRUE)
    BY <1>3, <1>6 DEF Toy!BlackjackStep
  <2>. DEFINE t == [s EXCEPT !.dealer = h]
              p == s.player
  <2>2. s.dealer \in Hands /\ p \in Hands
    BY <1>1
  <2>3. h \in Hands /\ Toy!sum_hand(h) >= 17
    BY <1>2, <2>2, DealerIs
  <2>4. t \in [player : Hands, dealer : Hands, up : 1..10] /\ t.player = p /\ t.dealer = h
    BY <1>1, <2>3
  <2>5. o = Toy!Out(t, Toy!BlackjackObs(t), Toy!StickReward(e.kw, p, h), TRUE)
    BY <2>1
  <2>. HIDE DEF t, p
  <2>6. e.st = t /\ e.obs = Toy!BlackjackObs(t) /\ e.rew = Toy!StickReward(e.kw, p, h) /\ e.done = TRUE
    BY <2>5 DEF After, Toy!Out
  <2>7. BlackjackSound(e)
    <3>. DEFINE x == Toy!sum_hand(p)
                y == Toy!sum_hand(h)
    <3>1. x \in Int /\ y \in Int /\ x <= 21 /\ 2 <= x /\ y >= 17
      <4>1. p.sum <= x /\ x \in Int /\ y \in Int /\ 2 <= p.sum /\ p.sum \in Int
        BY <2>2, <2>3, HandIs
      <4>. QED BY <1>4, <2>3, <4>1 DEF p
    <3>. HIDE DEF x, y
    <3>2. Toy!score(p) = x /\ Toy!score(h) = (IF y > 21 THEN 0 ELSE y)
      BY <3>1 DEF Toy!score, Toy!is_bust, x, y
    <3>3. (Toy!StickReward(e.kw, p, h) > 0) <=> Toy!score(p) > Toy!score(h)
      BY <3>1, <3>2 DEF Toy!StickReward
    <3>4. Toy!score(p) > Toy!score(h) <=> x > y \/ y > 21
      BY <3>1, <3>2
    <3>. QED BY <2>4, <2>6, <3>1, <3>3, <3>4 DEF BlackjackSound, x, y
  <2>. QED BY <2>4, <2>6, <2>7, BlackjackShown DEF BlackjackInv
<1>. QED BY <1>5, <1>6

\* NChain and Roulette.
LEMMA NChainSpaces ==
  ASSUME NEW e, e.cls = "NChain"
  PROVE  ObsSpace(e) = Toy!Discrete(e.kw.n) /\ ActionSpace(e) = Toy!Discrete(2)
<1>1. e.cls \in ToyClasses
  BY DEF ToyClasses
<1>2. ObsSpace(e) = Toy!Discrete(e.kw.n)
  BY <1>1, OfToy DEF Toy!ToyObsSpace
<1>3. ActionSpace(e) = Toy!Discrete(2)
  BY <1>1, OfToy DEF Toy!ToyActions
<1>. QED BY <1>2, <1>3

LEMMA NChainReset ==
  ASSUME NEW e, e.cls = "NChain", KwOK(e.cls, e.kw), NEW r \in Toy!ToyReset(e.cls, e.kw), Fresh(e, r)
  PROVE  NChainInv(e)
<1>1. r = <<0, 0>>
  BY DEF Toy!ToyReset
<1>2. e.kw.n \in Nat /\ e.kw.n > 0
  BY DEF KwOK, Positive
<1>3. e.st = 0 /\ e.obs = 0
  BY <1>1 DEF Fresh
<1>4. Shown(e)
  BY <1>2, <1>3, NChainSpaces, DiscreteIs DEF Shown
<1>. QED BY <1>2, <1>3, <1>4 DEF NChainInv

LEMMA NChainStep ==
  ASSUME NEW d, NEW e, e.cls = "NChain", KwOK(e.cls, e.kw), NChainInv(d), NEW a,
         NEW o \in Toy!ToyStep(d.cls, d.kw, d.st, a), After(d, e, o)
  PROVE  NChainInv(e)
<1>1. d.cls = "NChain" /\ d.kw = e.kw /\ d.st \in 0..(e.kw.n - 1)
  BY DEF After, NChainInv
<1>2. e.kw.n \in Nat /\ e.kw.n > 0
  BY DEF KwOK, Positive
<1>3. o \in Toy!NChainStep(e.kw, d.st, a)
  BY <1>1 DEF Toy!ToyStep
<1>4. PICK b \in {a, 1 - a} : o = IF b = 1 THEN Toy!Out(0, 0, e.kw.small, FALSE)
                                  ELSE IF d.st < e.kw.n - 1 THEN Toy!Out(d.st + 1, d.st + 1, 0, FALSE)
                                  ELSE Toy!Out(d.st, d.st, e.kw.large, FALSE)
  BY <1>3 DEF Toy!NChainStep
<1>5. \/ o.st = 0 /\ o.obs = 0
      \/ d.st < e.kw.n - 1 /\ o.st = d.st + 1 /\ o.obs = d.st + 1
      \/ o.st = d.st /\ o.obs = d.st
  BY <1>4 DEF Toy!Out
<1>6. e.st \in 0..(e.kw.n - 1) /\ e.obs = e.st
  BY <1>1, <1>2, <1>5 DEF After
<1>7. Shown(e)
  BY <1>2, <1>6, NChainSpaces, DiscreteIs DEF Shown
<1>. QED BY <1>6, <1>7 DEF NChainInv

LEMMA RouletteSpaces ==
  ASSUME NEW e, e.cls = "Roulette"
  PROVE  ObsSpace(e) = Toy!Discrete(1) /\ ActionSpace(e) = Toy!Discrete(e.kw.spots + 1)
<1>1. e.cls \in ToyClasses
  BY DEF ToyClasses
<1>2. ObsSpace(e) = Toy!Discrete(1)
  BY <1>1, OfToy DEF Toy!ToyObsSpace
<1>3. ActionSpace(e) = Toy!Discrete(e.kw.spots + 1)
  BY <1>1, OfToy DEF Toy!ToyActions
<1>. QED BY <1>2, <1>3

LEMMA RouletteReset ==
  ASSUME NEW e, e.cls = "Roulette", NEW r \in Toy!ToyReset(e.cls, e.kw), Fresh(e, r)
  PROVE  Shown(e)
<1>1. r = <<0, 0>>
  BY DEF Toy!ToyReset
<1>. QED BY <1>1, RouletteSpaces, DiscreteIs DEF Shown, Fresh

LEMMA RouletteStep ==
  ASSUME NEW d, NEW e, e.cls = "Roulette", NEW a,
         NEW o \in Toy!ToyStep(d.cls, d.kw, d.st, a), After(d, e, o)
  PROVE  Shown(e)
<1>1. o \in Toy!RouletteStep(d.kw, a)
  BY DEF Toy!ToyStep, After
<1>2. o.obs = 0
  BY <1>1 DEF Toy!RouletteStep, Toy!Out
<1>. QED BY <1>2, RouletteSpaces, DiscreteIs DEF Shown, After

\* GuessingGame and HotterColder.
Guessing == {"GuessingGame", "HotterColder"}

LEMMA GuessSpaces ==
  ASSUME NEW e, e.cls \in Guessing
  PROVE  ObsSpace(e) = Toy!Discrete(4)
<1>1. e.cls \in ToyClasses /\ (e.cls = "GuessingGame" \/ e.cls = "HotterColder")
  BY DEF ToyClasses, Guessing
<1>. QED BY <1>1, OfToy DEF Toy!ToyObsSpace

LEMMA GuessReset ==
  ASSUME NEW e, e.cls \in Guessing, KwOK(e.cls, e.kw), NEW r \in Toy!ToyReset(e.cls, e.kw), Fresh(e, r)
  PROVE  GuessInv(e)
<1>0. e.cls = "GuessingGame" \/ e.cls = "HotterColder"
  BY DEF Guessing
<1>1. PICK s \in Toy!GuessReset(e.kw) : r = <<s, 0>>
  BY <1>0 DEF Toy!ToyReset
<1>2. e.kw.numbers \subseteq Int
  BY <1>0 DEF KwOK
<1>3. s \in [number : Int, count : Nat]
  BY <1>2 DEF Toy!GuessReset
<1>4. e.st = s /\ e.obs = 0
  BY <1>1 DEF Fresh
<1>5. Shown(e)
  BY <1>4, GuessSpaces, DiscreteIs DEF Shown
<1>. QED BY <1>3, <1>4, <1>5 DEF GuessInv

LEMMA GuessStep ==
  ASSUME NEW d, NEW e, e.cls \in Guessing, GuessInv(d), NEW a, a[1] \in Int,
         NEW o \in Toy!ToyStep(d.cls, d.kw, d.st, a), After(d, e, o)
  PROVE  GuessInv(e)
<1>0. d.cls = "GuessingGame" \/ d.cls = "HotterColder"
  BY DEF Guessing, After
<1>. DEFINE t == [d.st EXCEPT !.count = @ + 1]
            x == Toy!GuessObs(a[1], d.st.number)
<1>1. o \in Toy!GuessStep(d.st, a) \/ o \in Toy!HotterStep(d.st, a)
  BY <1>0 DEF Toy!ToyStep
<1>2. o.st = t /\ o.obs = x
  BY <1>1 DEF Toy!GuessStep, Toy!HotterStep, Toy!Out
<1>3. d.st \in [number : Int, count : Nat]
  BY DEF GuessInv
<1>4. t \in [number : Int, count : Nat]
  BY <1>3
<1>5. x \in {1, 2, 3}
  BY <1>3 DEF Toy!GuessObs
<1>. HIDE DEF t, x
<1>6. e.st = t /\ e.obs = x
  BY <1>2 DEF After
<1>7. Shown(e)
  BY <1>5, <1>6, GuessSpaces, DiscreteIs DEF Shown
<1>. QED BY <1>4, <1>6, <1>7 DEF GuessInv

\* The games of Kelly.
LEMMA TupleOfTwo ==
  ASSUME NEW s, NEW t, NEW x, NEW y, S!ContainsPlain(s, x), S!ContainsPlain(t, y)
  PROVE  S!Contains(Toy!TupleSpace(<<s, t>>), <<x, y>>)
<1>. DEFINE sp == Toy!TupleSpace(<<s, t>>)
<1>1. sp.kind = "Tuple" /\ sp.spaces = <<s, t>>
  BY DEF Toy!TupleSpace
<1>2. DOMAIN <<x, y>> = 1..2 /\ DOMAIN sp.spaces = 1..2
  BY <1>1
<1>3. \A i \in 1..2 : S!ContainsPlain(sp.spaces[i], <<x, y>>[i])
  BY <1>1
<1>. HIDE DEF sp
<1>4. S!Contains(sp, <<x, y>>)
  BY <1>1, <1>2, <1>3 DEF S!Contains
<1>. QED BY <1>4 DEF sp

LEMMA TupleOfFive ==
  ASSUME NEW s, NEW t, NEW u, NEW v, NEW w, NEW x, NEW y, NEW z, NEW a, NEW b,
         S!ContainsPlain(s, x), S!ContainsPlain(t, y), S!ContainsPlain(u, z), S!ContainsPlain(v, a), S!ContainsPlain(w, b)
  PROVE  S!Contains(Toy!TupleSpace(<<s, t, u, v, w>>), <<x, y, z, a, b>>)
<1>. DEFINE sp == Toy!TupleSpace(<<s, t, u, v, w>>)
<1>1. sp.kind = "Tuple" /\ sp.spaces = <<s, t, u, v, w>>
  BY DEF Toy!TupleSpace
<1>2. DOMAIN <<x, y, z, a, b>> = 1..5 /\ DOMAIN sp.spaces = 1..5
  BY <1>1
<1>3. \A i \in 1..5 : S!ContainsPlain(sp.spaces[i], <<x, y, z, a, b>>[i])
  BY <1>1
<1>. HIDE DEF sp
<1>4. S!Contains(sp, <<x, y, z, a, b>>)
  BY <1>1, <1>2, <1>3 DEF S!Contains
<1>. QED BY <1>4 DEF sp

LEMMA BetIs ==
  ASSUME NEW w \in Nat, NEW a \in Nat
  PROVE  Toy!Bet(w, a) \in Nat /\ Toy!Bet(w, a) <= w
<1>1. Toy!Penny * a \in Nat
  BY DEF Toy!Penny
<1>2. Toy!Min({Toy!Penny * a, w}) = IF Toy!Penny * a <= w THEN Toy!Penny * a ELSE w
  BY <1>1, MinPair
<1>. QED BY <1>1, <1>2 DEF Toy!Bet

\* Whatever is bet and however the sum is rounded, no debt is left.
LEMMA FlipsAre ==
  ASSUME NEW w \in Nat, NEW a \in Nat, NEW x \in Toy!Flips(w, a)
  PROVE  x \in Nat
<1>. DEFINE b == Toy!Bet(w, a)
<1>1. b \in Nat /\ b <= w
  BY BetIs
<1>2. PICK c \in {-1, 1} : x \in Toy!Sums(w, b, c)
  BY DEF Toy!Flips
<1>. HIDE DEF b
<1>3. Toy!Pennies(w) \in Int /\ Toy!Pennies(b) \in Int /\ Toy!Penny \in Int
  BY <1>1 DEF Toy!Pennies, Toy!Penny
<1>4. CASE b = 0
  BY <1>2, <1>4 DEF Toy!Sums
<1>5. CASE b # 0 /\ c = -1 /\ b = w
  BY <1>2, <1>5 DEF Toy!Sums
<1>6. CASE b # 0 /\ ~(c = -1 /\ b = w)
  <2>. DEFINE y == Toy!Penny * (Toy!Pennies(w) + c * Toy!Pennies(b))
  <2>1. /\ x \in {y + d : d \in {-1, 0, 1}}
        /\ IF c = 1 THEN x >= w ELSE b < w => x > 0
    BY <1>2, <1>6 DEF Toy!Sums
  <2>2. y \in Int
    BY <1>3
  <2>. HIDE DEF y
  <2>3. x \in Int
    BY <2>1, <2>2
  <2>4. c = 1 \/ b < w
    BY <1>1, <1>6
  <2>. QED BY <2>1, <2>3, <2>4
<1>. QED BY <1>4, <1>5, <1>6

LEMMA CapsAre ==
  ASSUME NEW m \in DOMAIN Float32
  PROVE  m \in Nat /\ Toy!Penny * m \in Nat /\ Toy!Penny \in Nat /\ Float32[m] \in Nat
<1>1. m \in Nat /\ Float32[m] \in Nat
  BY Float32Assumption
<1>. QED BY <1>1 DEF Toy!Penny

\* What a flip leaves, no more than the cap.
LEMMA WealthIs ==
  ASSUME NEW cap \in Nat, NEW w \in Nat, NEW a \in Nat, NEW x \in Toy!Flips(w, a)
  PROVE  Toy!Min({cap, x}) \in 0..cap
<1>1. x \in Nat
  BY FlipsAre
<1>2. Toy!Min({cap, x}) = IF cap <= x THEN cap ELSE x
  BY <1>1, MinPair
<1>. QED BY <1>1, <1>2

\* An amount of money is in the Box of its cap if float32 did not cut the cap below it.
LEMMA MoneyShown ==
  ASSUME NEW m \in DOMAIN Float32, NEW w \in Nat, w <= Float32[m]
  PROVE  S!ContainsPlain(Toy!MoneyBox(m), <<w>>)
<1>1. Float32[m] \in Int /\ 0 \in Int /\ 0 <= w
  BY CapsAre
<1>. QED BY <1>1, IntervalIs DEF Toy!MoneyBox

LEMMA KellySpaces ==
  ASSUME NEW e, e.cls = "KellyCoinflip"
  PROVE  /\ ObsSpace(e) = Toy!TupleSpace(<<Toy!MoneyBox(e.kw.max_wealth), Toy!Discrete(e.kw.max_rounds + 1)>>)
         /\ ActionSpace(e) = Toy!Discrete(e.kw.max_wealth)
<1>1. e.cls \in ToyClasses
  BY DEF ToyClasses
<1>2. ObsSpace(e) = Toy!TupleSpace(<<Toy!MoneyBox(e.kw.max_wealth), Toy!Discrete(e.kw.max_rounds + 1)>>)
  BY <1>1, OfToy DEF Toy!ToyObsSpace
<1>3. ActionSpace(e) = Toy!Discrete(e.kw.max_wealth)
  BY <1>1, OfToy DEF Toy!ToyActions
<1>. QED BY <1>2, <1>3

LEMMA KellyShown ==
  ASSUME NEW e, e.cls = "KellyCoinflip", KwOK(e.cls, e.kw), e.obs = Toy!KellyObs(e.st),
         e.st.wealth \in 0..(Toy!Penny * e.kw.max_wealth), e.st.rounds \in 0..e.kw.max_rounds
  PROVE  Shown(e)
<1>. DEFINE m == e.kw.max_wealth
<1>1. m \in DOMAIN Float32 /\ e.kw.max_rounds \in Nat
  BY DEF KwOK, Positive
<1>2. Toy!Penny * m \in Nat /\ Float32[m] \in Nat
  BY <1>1, CapsAre
<1>3. e.st.wealth \in Nat /\ e.st.wealth <= Toy!Penny * m
  BY <1>2
<1>. HIDE DEF m
<1>4. CASE e.st.wealth <= Float32[m]
  <2>1. S!ContainsPlain(Toy!MoneyBox(m), <<e.st.wealth>>)
    BY <1>1, <1>3, <1>4, MoneyShown
  <2>2. S!ContainsPlain(Toy!Discrete(e.kw.max_rounds + 1), e.st.rounds)
    BY <1>1, PlainDiscrete
  <2>3. e.obs = <<<<e.st.wealth>>, e.st.rounds>>
    BY DEF Toy!KellyObs
  <2>. QED BY <2>1, <2>2, <2>3, KellySpaces, TupleOfTwo DEF Shown, m
<1>5. CASE ~(e.st.wealth <= Float32[m])
  <2>1. CutDown(m, e.st.wealth)
    BY <1>2, <1>3, <1>5 DEF CutDown
  <2>. QED BY <2>1 DEF Shown, BoundLost, m
<1>. QED BY <1>4, <1>5

LEMMA KellyReset ==
  ASSUME NEW e, e.cls = "KellyCoinflip", KwOK(e.cls, e.kw), NEW r \in Toy!ToyReset(e.cls, e.kw), Fresh(e, r)
  PROVE  KellyInv(e)
<1>. DEFINE cap == Toy!Penny * e.kw.max_wealth
<1>1. PICK s \in Toy!KellyReset(e.kw) : r = <<s, Toy!KellyObs(s)>>
  BY DEF Toy!ToyReset
<1>2. s = [wealth |-> Toy!Penny * e.kw.initial, rounds |-> e.kw.max_rounds]
  BY <1>1 DEF Toy!KellyReset
<1>3. /\ e.kw.max_wealth \in DOMAIN Float32 /\ e.kw.max_rounds \in Nat /\ e.kw.max_rounds > 0
      /\ e.kw.initial \in 1..(e.kw.max_wealth - 1)
  BY DEF KwOK, Positive
<1>4. e.st = s /\ e.obs = Toy!KellyObs(s) /\ e.done = FALSE
  BY <1>1 DEF Fresh
<1>5. e.st.wealth = Toy!Penny * e.kw.initial /\ e.st.rounds = e.kw.max_rounds
  BY <1>2, <1>4
<1>6. /\ e.st.wealth \in 0..cap /\ cap \in Nat
      /\ Toy!Penny <= e.st.wealth /\ e.st.wealth < cap /\ Toy!Penny \in Nat
  <2>1. e.kw.max_wealth \in Nat /\ cap \in Nat
    BY <1>3, CapsAre
  <2>. QED BY <1>3, <1>5, <2>1 DEF Toy!Penny
<1>7. e.st \in [wealth : Nat, rounds : Nat]
  <2>1. Toy!Penny * e.kw.initial \in Nat
    BY <1>5, <1>6
  <2>. QED BY <1>2, <1>3, <1>4, <2>1
<1>8. KellySound(e)
  <2>. HIDE DEF cap
  <2>1. ~(e.st.wealth < Toy!Penny) /\ e.st.wealth # cap /\ e.st.rounds # 0
    BY <1>3, <1>5, <1>6
  <2>2. e.st.wealth \in 0..cap /\ (e.begun => (e.done <=> \/ e.st.wealth < Toy!Penny \/ e.st.wealth = cap
                                                         \/ e.st.rounds = 0))
    BY <1>4, <1>6, <2>1
  <2>3. e.begun /\ e.done => e.rew = e.st.wealth
    BY <1>4
  <2>. QED BY <2>2, <2>3 DEF KellySound, KellyEnds, cap
<1>9. Shown(e)
  BY <1>3, <1>4, <1>5, <1>6, KellyShown
<1>. QED BY <1>3, <1>5, <1>7, <1>8, <1>9 DEF KellyInv

LEMMA KellyStep ==
  ASSUME NEW d, NEW e, e.cls = "KellyCoinflip", KwOK(e.cls, e.kw), KellyInv(d), NEW a \in Nat,
         NEW o \in Toy!ToyStep(d.cls, d.kw, d.st, a), After(d, e, o)
  PROVE  KellyInv(e)
<1>. DEFINE max == e.kw.max_wealth
            s == d.st
            cap == Toy!Penny * max
<1>1. d.cls = "KellyCoinflip" /\ d.kw = e.kw /\ ~d.done /\ s \in [wealth : Nat, rounds : Nat]
      /\ s.rounds <= e.kw.max_rounds /\ s.rounds > 0
  BY DEF After, KellyInv
<1>2. max \in DOMAIN Float32 /\ e.kw.max_rounds \in Nat
  BY DEF KwOK, Positive
<1>3. cap \in Nat
  BY <1>2, CapsAre
<1>4. PICK x \in Toy!Flips(s.wealth, a) :
        LET t == [wealth |-> Toy!Min({cap, x}), rounds |-> s.rounds - 1]
            done == Toy!KellyOver(t, max)
        IN  o = Toy!Out(t, Toy!KellyObs(t), IF done THEN t.wealth ELSE 0, done)
  BY <1>1 DEF Toy!ToyStep, Toy!KellyStep
<1>. DEFINE w == Toy!Min({cap, x})
            t == [wealth |-> w, rounds |-> s.rounds - 1]
<1>5. o = Toy!Out(t, Toy!KellyObs(t), IF Toy!KellyOver(t, max) THEN t.wealth ELSE 0, Toy!KellyOver(t, max))
  BY <1>4
<1>6. w \in 0..cap
  <2>1. s.wealth \in Nat
    BY <1>1
  <2>. HIDE DEF s, cap
  <2>. QED BY <1>3, <2>1, WealthIs
<1>. HIDE DEF w
<1>7. t.wealth = w /\ t.rounds = s.rounds - 1 /\ t \in [wealth : Nat, rounds : Nat] /\ t.rounds \in 0..e.kw.max_rounds
  <2>1. w \in Nat /\ s.rounds - 1 \in Nat /\ s.rounds - 1 <= e.kw.max_rounds
    BY <1>1, <1>2, <1>3, <1>6
  <2>. HIDE DEF s, cap, max
  <2>. QED BY <1>2, <2>1
<1>. HIDE DEF t
<1>8. e.st = t /\ e.obs = Toy!KellyObs(t) /\ e.done = Toy!KellyOver(t, max)
      /\ e.rew = IF Toy!KellyOver(t, max) THEN t.wealth ELSE 0
  BY <1>5 DEF After, Toy!Out
<1>9. Toy!KellyOver(t, max) <=> t.wealth < Toy!Penny \/ t.wealth = cap \/ t.rounds = 0
  BY DEF Toy!KellyOver
<1>10. KellySound(e)
  <2>1. e.st.wealth \in 0..cap
    BY <1>6, <1>7, <1>8
  <2>2. e.done <=> e.st.wealth < Toy!Penny \/ e.st.wealth = cap \/ e.st.rounds = 0
    BY <1>8, <1>9
  <2>3. e.done => e.rew = e.st.wealth
    BY <1>8
  <2>. QED BY <2>1, <2>2, <2>3 DEF KellySound, KellyEnds
<1>11. Shown(e)
  <2>1. e.st.wealth \in 0..cap /\ e.st.rounds \in 0..e.kw.max_rounds /\ e.obs = Toy!KellyObs(e.st)
    BY <1>6, <1>7, <1>8
  <2>. QED BY <2>1, KellyShown
<1>12. ~e.done => e.st.rounds > 0
  <2>1. t.rounds \in Nat
    BY <1>2, <1>7
  <2>2. t.rounds # 0 => t.rounds > 0
    BY <2>1
  <2>3. e.st.rounds = t.rounds /\ (~e.done => t.rounds # 0)
    BY <1>8, <1>9
  <2>. QED BY <2>2, <2>3
<1>13. e.st \in [wealth : Nat, rounds : Nat] /\ e.st.rounds <= e.kw.max_rounds
  BY <1>2, <1>7, <1>8
<1>. QED BY <1>10, <1>11, <1>12, <1>13 DEF KellyInv

LEMMA GeneralSpaces ==
  ASSUME NEW e, e.cls = "KellyCoinflipGeneralized", NEW n, n = e.st.max_rounds + 1, NEW m, m = e.st.max_wealth
  PROVE  /\ ObsSpace(e) = Toy!TupleSpace(<<Toy!MoneyBox(m), Toy!Discrete(n), Toy!Discrete(n), Toy!Discrete(n), Toy!MoneyBox(m)>>)
         /\ ActionSpace(e) = Toy!Discrete(e.st.max_wealth)
<1>1. e.cls \in ToyClasses
  BY DEF ToyClasses
<1>2. ObsSpace(e) = Toy!TupleSpace(<<Toy!MoneyBox(m), Toy!Discrete(n), Toy!Discrete(n), Toy!Discrete(n), Toy!MoneyBox(m)>>)
  BY <1>1, OfToy DEF Toy!ToyObsSpace
<1>3. ActionSpace(e) = Toy!Discrete(e.st.max_wealth)
  BY <1>1, OfToy DEF Toy!ToyActions
<1>. QED BY <1>2, <1>3

\* There is never more than the most there has been, so that one bound is enough.
LEMMA GeneralShown ==
  ASSUME NEW e, e.cls = "KellyCoinflipGeneralized", e.obs = Toy!GeneralObs(e.st), e.st \in GeneralStates,
         GeneralSound(e), e.st.max_wealth \in DOMAIN Float32, e.st.ever <= Toy!Penny * e.st.max_wealth
  PROVE  Shown(e)
<1>. DEFINE m == e.st.max_wealth
            n == e.st.max_rounds + 1
<1>1. /\ e.st.wealth \in Nat /\ e.st.ever \in Nat /\ n \in Nat
      /\ e.st.elapsed \in Nat /\ e.st.wins \in Nat /\ e.st.losses \in Nat
      /\ e.st.elapsed < n /\ e.st.wins < n /\ e.st.losses < n /\ e.st.wealth <= e.st.ever
  BY DEF GeneralStates, GeneralSound
<1>2. e.obs = <<<<e.st.wealth>>, e.st.elapsed, e.st.wins, e.st.losses, <<e.st.ever>>>>
  BY DEF Toy!GeneralObs
<1>3. ObsSpace(e) = Toy!TupleSpace(<<Toy!MoneyBox(m), Toy!Discrete(n), Toy!Discrete(n), Toy!Discrete(n), Toy!MoneyBox(m)>>)
  BY GeneralSpaces
<1>4. m \in DOMAIN Float32 /\ Toy!Penny * m \in Nat /\ Float32[m] \in Nat /\ e.st.ever <= Toy!Penny * m
  BY CapsAre
<1>5. CASE e.st.ever <= Float32[m]
  <2>. HIDE DEF m, n
  <2>1. e.st.wealth <= Float32[m]
    BY <1>1, <1>4, <1>5
  <2>2. S!ContainsPlain(Toy!MoneyBox(m), <<e.st.wealth>>) /\ S!ContainsPlain(Toy!MoneyBox(m), <<e.st.ever>>)
    BY <1>1, <1>4, <1>5, <2>1, MoneyShown
  <2>3. /\ S!ContainsPlain(Toy!Discrete(n), e.st.elapsed) /\ S!ContainsPlain(Toy!Discrete(n), e.st.wins)
        /\ S!ContainsPlain(Toy!Discrete(n), e.st.losses)
    BY <1>1, PlainDiscrete
  <2>. QED BY <1>2, <1>3, <2>2, <2>3, TupleOfFive DEF Shown
<1>6. CASE ~(e.st.ever <= Float32[m])
  <2>1. CutDown(m, e.st.ever)
    <3>. HIDE DEF m
    <3>. QED BY <1>1, <1>4, <1>6 DEF CutDown
  <2>. QED BY <2>1 DEF Shown, BoundLost
<1>. QED BY <1>5, <1>6

LEMMA GeneralReset ==
  ASSUME NEW e, e.cls = "KellyCoinflipGeneralized", KwOK(e.cls, e.kw),
         NEW r \in Toy!ToyReset(e.cls, e.kw), Fresh(e, r)
  PROVE  GeneralInv(e)
<1>1. PICK s \in Toy!GeneralReset(e.kw) : r = <<s, Toy!GeneralObs(s)>>
  BY DEF Toy!ToyReset
<1>. DEFINE start == Toy!Penny * e.kw.initial
<1>2. PICK m \in e.kw.caps, n \in e.kw.lengths :
        s = [wealth |-> start, max_wealth |-> m, max_rounds |-> n, rounds |-> n,
             elapsed |-> 0, wins |-> 0, losses |-> 0, ever |-> start]
  BY <1>1 DEF Toy!GeneralReset
<1>. DEFINE cap == Toy!Penny * m
<1>3. e.kw.initial \in Nat /\ e.kw.initial > 0 /\ n \in Nat /\ n > 0 /\ m \in DOMAIN Float32 /\ m > e.kw.initial
  BY DEF KwOK, Positive
<1>4. e.st = s /\ e.obs = Toy!GeneralObs(s) /\ e.done = FALSE
  BY <1>1 DEF Fresh
<1>5. /\ m \in Nat /\ cap \in Nat /\ start \in Nat
      /\ Toy!Penny \in Nat /\ Toy!Penny <= start /\ start < cap
  <2>1. m \in Nat /\ cap \in Nat
    BY <1>3, CapsAre
  <2>. QED BY <1>3, <2>1 DEF Toy!Penny
<1>. HIDE DEF start
<1>6. e.st \in GeneralStates
  BY <1>2, <1>3, <1>4, <1>5 DEF GeneralStates
<1>7. /\ e.st.wealth = start /\ e.st.max_wealth = m /\ e.st.max_rounds = n /\ e.st.rounds = n
      /\ e.st.elapsed = 0 /\ e.st.wins = 0 /\ e.st.losses = 0 /\ e.st.ever = start
  BY <1>2, <1>4
<1>8. GeneralSound(e)
  <2>. HIDE DEF cap
  <2>1. KellyEnds(e, m)
    <3>1. ~(e.st.wealth < Toy!Penny) /\ e.st.wealth # cap /\ e.st.rounds # 0 /\ e.st.wealth \in 0..cap
      BY <1>3, <1>5, <1>7
    <3>2. e.begun => (e.done <=> \/ e.st.wealth < Toy!Penny \/ e.st.wealth = cap \/ e.st.rounds = 0)
      BY <1>4, <3>1
    <3>. QED BY <3>1, <3>2 DEF KellyEnds, cap
  <2>2. /\ e.st.elapsed + e.st.rounds = e.st.max_rounds /\ e.st.ever >= e.st.wealth
        /\ e.st.wins = e.st.elapsed /\ e.st.losses = 0
    BY <1>3, <1>5, <1>7
  <2>. QED BY <1>7, <2>1, <2>2 DEF GeneralSound
<1>9. e.st.ever <= Toy!Penny * e.st.max_wealth
  BY <1>5, <1>7
<1>10. Shown(e)
  BY <1>3, <1>4, <1>6, <1>7, <1>8, <1>9, GeneralShown
<1>. QED BY <1>3, <1>6, <1>7, <1>8, <1>9, <1>10 DEF GeneralInv

LEMMA GeneralType ==
  ASSUME NEW s \in GeneralStates, NEW w \in Nat, NEW v \in Nat,
         s.rounds - 1 \in Nat, s.elapsed + 1 \in Nat, s.wins + 1 \in Nat
  PROVE  [s EXCEPT !.wealth = w, !.rounds = @ - 1, !.elapsed = @ + 1, !.ever = v, !.wins = @ + 1] \in GeneralStates
BY DEF GeneralStates

LEMMA GeneralStep ==
  ASSUME NEW d, NEW e, e.cls = "KellyCoinflipGeneralized", GeneralInv(d), NEW a \in Nat,
         NEW o \in Toy!ToyStep(d.cls, d.kw, d.st, a), After(d, e, o)
  PROVE  GeneralInv(e)
<1>. DEFINE s == d.st
            max == s.max_wealth
            cap == Toy!Penny * max
<1>1. /\ d.cls = "KellyCoinflipGeneralized" /\ d.kw = e.kw /\ ~d.done /\ s \in GeneralStates
      /\ s.rounds > 0 /\ s.ever <= cap /\ max \in e.kw.caps /\ max \in DOMAIN Float32
      /\ s.elapsed + s.rounds = s.max_rounds /\ s.wins = s.elapsed /\ s.losses = 0
  BY DEF After, GeneralInv, GeneralSound
<1>2. PICK x \in Toy!Flips(s.wealth, a) :
        LET w == Toy!Min({cap, x})
            t == [s EXCEPT !.wealth = w, !.rounds = @ - 1, !.elapsed = @ + 1,
                           !.ever = Toy!Max({w, @}), !.wins = @ + 1]
            done == Toy!KellyOver(t, max)
        IN  o = Toy!Out(t, Toy!GeneralObs(t), IF done THEN cap ELSE 0, done)
  BY <1>1 DEF Toy!ToyStep, Toy!GeneralStep
<1>. DEFINE w == Toy!Min({cap, x})
            v == Toy!Max({w, s.ever})
            t == [s EXCEPT !.wealth = w, !.rounds = @ - 1, !.elapsed = @ + 1, !.ever = v, !.wins = @ + 1]
<1>3. s.wealth \in Nat /\ max \in Nat /\ s.ever \in Nat /\ s.rounds \in Nat /\ s.elapsed \in Nat /\ s.wins \in Nat
      /\ s.losses \in Nat /\ s.max_rounds \in Nat
  BY <1>1 DEF GeneralStates
<1>4. cap \in Nat
  BY <1>1, CapsAre
<1>5. o = Toy!Out(t, Toy!GeneralObs(t), IF Toy!KellyOver(t, max) THEN cap ELSE 0, Toy!KellyOver(t, max))
  BY <1>2
<1>6. w \in 0..cap
  <2>. HIDE DEF s, cap
  <2>. QED BY <1>3, <1>4, WealthIs
<1>. HIDE DEF w
<1>7. v \in 0..cap /\ v >= w
  <2>. HIDE DEF cap
  <2>1. v = IF w >= s.ever THEN w ELSE s.ever
    BY <1>3, <1>4, <1>6, MaxPair
  <2>. QED BY <1>1, <1>3, <1>4, <1>6, <2>1
<1>. HIDE DEF v
<1>8. /\ t \in GeneralStates /\ t.wealth = w /\ t.ever = v /\ t.max_wealth = max /\ t.max_rounds = s.max_rounds
      /\ t.rounds = s.rounds - 1 /\ t.elapsed = s.elapsed + 1 /\ t.wins = s.wins + 1 /\ t.losses = s.losses
  <2>1. /\ t.wealth = w /\ t.ever = v /\ t.max_wealth = max /\ t.max_rounds = s.max_rounds
        /\ t.rounds = s.rounds - 1 /\ t.elapsed = s.elapsed + 1 /\ t.wins = s.wins + 1 /\ t.losses = s.losses
    BY <1>1 DEF GeneralStates
  <2>3. w \in Nat /\ v \in Nat /\ s.rounds - 1 \in Nat /\ s.elapsed + 1 \in Nat /\ s.wins + 1 \in Nat
    <3>. HIDE DEF cap
    <3>. QED BY <1>1, <1>3, <1>4, <1>6, <1>7
  <2>4. t \in GeneralStates
    BY <1>1, <2>3, GeneralType
  <2>. QED BY <2>1, <2>4
<1>. HIDE DEF t
<1>9. e.st = t /\ e.obs = Toy!GeneralObs(t) /\ e.done = Toy!KellyOver(t, max)
  BY <1>5 DEF After, Toy!Out
<1>10. GeneralSound(e)
  <2>1. KellyEnds(e, max)
    <3>1. e.st.wealth \in 0..cap
      BY <1>6, <1>8, <1>9
    <3>2. e.done <=> \/ e.st.wealth < Toy!Penny \/ e.st.wealth = cap \/ e.st.rounds = 0
      BY <1>9 DEF Toy!KellyOver
    <3>. QED BY <3>1, <3>2 DEF KellyEnds
  <2>2. /\ e.st.elapsed + e.st.rounds = e.st.max_rounds /\ e.st.ever >= e.st.wealth
        /\ e.st.wins = e.st.elapsed /\ e.st.losses = 0
    <3>. HIDE DEF cap
    <3>. QED BY <1>1, <1>3, <1>4, <1>6, <1>7, <1>8, <1>9
  <2>. QED BY <1>8, <1>9, <2>1, <2>2 DEF GeneralSound
<1>11. e.st \in GeneralStates /\ e.st.max_wealth = max /\ e.st.ever <= Toy!Penny * e.st.max_wealth
  <2>1. v <= cap
    BY <1>4, <1>7
  <2>. QED BY <1>8, <1>9, <2>1
<1>12. Shown(e)
  BY <1>1, <1>9, <1>10, <1>11, GeneralShown
<1>13. ~e.done => e.st.rounds > 0
  <2>1. t.rounds # 0 => t.rounds > 0
    BY <1>1, <1>3, <1>8
  <2>2. e.st.rounds = t.rounds /\ (~e.done => t.rounds # 0)
    BY <1>9 DEF Toy!KellyOver
  <2>. QED BY <2>1, <2>2
<1>. QED BY <1>1, <1>10, <1>11, <1>12, <1>13 DEF GeneralInv

(* unittest and classic_control.                                           *)

LEMMA CubeSpaces ==
  ASSUME NEW e, e.cls = "CubeCrash"
  PROVE  ObsSpace(e) = S!Box(<<>>, <<>>, FALSE) /\ ActionSpace(e) = S!Discrete(3)
<1>1. e.cls \in UnitClasses
  BY DEF UnitClasses
<1>2. ObsSpace(e) = S!Box(<<>>, <<>>, FALSE)
  BY <1>1, OfUnit DEF Unit!UnitObsSpace, Unit!Box, S!Box
<1>3. ActionSpace(e) = S!Discrete(3)
  BY <1>1, OfUnit DEF Unit!UnitActions, Unit!Discrete, S!Discrete
<1>. QED BY <1>2, <1>3

LEMMA CubeShown == ASSUME NEW e, e.cls = "CubeCrash", e.obs = <<>> PROVE Shown(e)
<1>1. DOMAIN <<>> = {}
  OBVIOUS
<1>2. S!Contains(S!Box(<<>>, <<>>, FALSE), <<>>)
  BY <1>1, BoxIs
<1>. QED BY <1>2, CubeSpaces DEF Shown

LEMMA CubeReset ==
  ASSUME NEW e, e.cls = "CubeCrash", KwOK(e.cls, e.kw), NEW r \in Unit!UnitReset(e.cls, e.kw), Fresh(e, r)
  PROVE  CubeInv(e)
<1>1. PICK s \in Unit!CubeReset(e.kw) : r = <<s, <<>>>>
  BY DEF Unit!UnitReset
<1>2. PICK x \in 3..(Unit!FIELD_W - 4), y \in 3..((Unit!FIELD_H \div 6) - 1), h \in e.kw.holes :
        s = [x |-> x, y |-> y + 1, hole |-> h, potential |-> Unit!Dist(x, h)]
  BY <1>1 DEF Unit!CubeReset
<1>3. x \in Int /\ 3 <= x /\ x <= 28 /\ y \in Int /\ y <= 5 /\ h \in Int
  BY DEF Unit!FIELD_W, Unit!FIELD_H, KwOK
<1>4. e.st = s /\ e.obs = <<>> /\ e.done = FALSE /\ e.rew = 0
  BY <1>1 DEF Fresh
<1>5. e.st.x = x /\ e.st.y = y + 1 /\ e.st.hole = h /\ e.st.potential = Unit!Dist(x, h)
  BY <1>2, <1>4
<1>6. Unit!Dist(x, h) \in Int
  BY <1>3 DEF Unit!Dist
<1>7. e.st \in [x : Int, y : Int, hole : Int, potential : Int]
  BY <1>2, <1>3, <1>4, <1>6
<1>8. CubeSound(e)
  BY <1>3, <1>4, <1>5 DEF CubeSound
<1>. QED BY <1>4, <1>5, <1>7, <1>8, CubeShown DEF CubeInv

LEMMA CubeStep ==
  ASSUME NEW d, NEW e, e.cls = "CubeCrash", KwOK(e.cls, e.kw), CubeInv(d), NEW a \in 0..2,
         NEW o \in Unit!UnitStep(d.cls, d.kw, d.st, a), After(d, e, o)
  PROVE  CubeInv(e)
<1>. DEFINE s == d.st
            x == CASE a = 0 -> s.x [] a = 1 -> s.x - 1 [] a = 2 -> s.x + 1
            y == s.y + 1
            dist == Unit!Dist(x, s.hole)
            t == [s EXCEPT !.x = x, !.y = y, !.potential = dist]
            shaped == IF d.kw.shaped THEN s.potential - dist ELSE 0
<1>1. /\ d.cls = "CubeCrash" /\ ~d.done /\ s \in [x : Int, y : Int, hole : Int, potential : Int]
      /\ s.potential = Unit!Dist(s.x, s.hole) /\ s.y < 40
  BY DEF After, CubeInv, CubeSound
<1>2. o \in Unit!CubeStep(d.kw, s, a)
  BY <1>1 DEF Unit!UnitStep
<1>3. o \in IF x - 1 < 0 \/ x + 1 >= 32 THEN {Unit!UOut(t, <<>>, -100, TRUE)}
            ELSE IF y + 1 >= 40 - 5 /\ dist >= 8 \div 2 THEN {Unit!UOut(t, <<>>, -100, TRUE)}
            ELSE IF y + 1 >= 40 - 5 /\ y = 40 THEN {Unit!UOut(t, <<>>, 100, TRUE)}
            ELSE {Unit!UOut(t, <<>>, shaped, FALSE)}
  BY <1>2 DEF Unit!CubeStep, Unit!FIELD_W, Unit!FIELD_H, Unit!HOLE_WIDTH
<1>4. x \in Int /\ x >= s.x - 1 /\ x <= s.x + 1
  <2>1. a = 0 \/ a = 1 \/ a = 2
    OBVIOUS
  <2>. QED BY <1>1, <2>1
<1>. HIDE DEF x
<1>5. y \in Int /\ y <= 40 /\ dist \in Int /\ dist >= s.potential - 1 /\ s.hole \in Int
  BY <1>1, <1>4 DEF Unit!Dist
<1>6. shaped < 100
  BY <1>1, <1>5
<1>. HIDE DEF y, dist, shaped
<1>7. t \in [x : Int, y : Int, hole : Int, potential : Int] /\ t.x = x /\ t.y = y /\ t.hole = s.hole /\ t.potential = dist
  BY <1>1, <1>4, <1>5
<1>. HIDE DEF t
<1>8. 40 - 5 = 35 /\ 8 \div 2 = 4
  OBVIOUS
<1>9. /\ o.st = t /\ o.obs = <<>>
      /\ \/ o.reward = -100 /\ o.done = TRUE
         \/ o.reward = 100 /\ o.done = TRUE /\ dist < 4
         \/ o.reward = shaped /\ o.done = FALSE /\ x - 1 >= 0 /\ x + 1 < 32 /\ y # 40
  <2>1. CASE x - 1 < 0 \/ x + 1 >= 32
    BY <1>3, <2>1 DEF Unit!UOut
  <2>2. CASE ~(x - 1 < 0 \/ x + 1 >= 32) /\ y + 1 >= 35 /\ dist >= 4
    BY <1>3, <1>8, <2>2 DEF Unit!UOut
  <2>3. CASE ~(x - 1 < 0 \/ x + 1 >= 32) /\ ~(y + 1 >= 35 /\ dist >= 4) /\ y = 40
    <3>1. o = Unit!UOut(t, <<>>, 100, TRUE)
      BY <1>3, <1>8, <2>3
    <3>2. dist < 4
      BY <1>5, <2>3
    <3>. QED BY <3>1, <3>2 DEF Unit!UOut
  <2>4. CASE ~(x - 1 < 0 \/ x + 1 >= 32) /\ ~(y + 1 >= 35 /\ dist >= 4) /\ y # 40
    <3>1. o = Unit!UOut(t, <<>>, shaped, FALSE)
      BY <1>3, <1>8, <2>4
    <3>2. x - 1 >= 0 /\ x + 1 < 32
      BY <1>4, <2>4
    <3>. QED BY <2>4, <3>1, <3>2 DEF Unit!UOut
  <2>. QED BY <2>1, <2>2, <2>3, <2>4
<1>10. e.st = t /\ e.obs = <<>> /\ e.rew = o.reward /\ e.done = o.done
  BY <1>9 DEF After
<1>11. t.potential = Unit!Dist(t.x, t.hole)
  BY <1>7 DEF dist
<1>12. CubeSound(e)
  <2>1. dist = Unit!Dist(e.st.x, e.st.hole)
    BY <1>7, <1>10 DEF dist
  <2>. QED BY <1>5, <1>6, <1>7, <1>9, <1>10, <2>1 DEF CubeSound
<1>. QED BY <1>7, <1>10, <1>11, <1>12, CubeShown DEF CubeInv

LEMMA DigitsSpaces ==
  ASSUME NEW e, e.cls = "MemorizeDigits"
  PROVE  ObsSpace(e) = Toy!Discrete(10) /\ ActionSpace(e) = Toy!Discrete(10)
<1>1. e.cls \in UnitClasses
  BY DEF UnitClasses
<1>2. ObsSpace(e) = Toy!Discrete(10)
  BY <1>1, OfUnit DEF Unit!UnitObsSpace, Unit!Discrete, Toy!Discrete
<1>3. ActionSpace(e) = Toy!Discrete(10)
  BY <1>1, OfUnit DEF Unit!UnitActions, Unit!Discrete, Toy!Discrete
<1>. QED BY <1>2, <1>3

LEMMA DigitsReset ==
  ASSUME NEW e, e.cls = "MemorizeDigits", NEW r \in Unit!UnitReset(e.cls, e.kw), Fresh(e, r)
  PROVE  Shown(e)
<1>1. PICK s \in Unit!DigitsReset : r = <<s, s.digit>>
  BY DEF Unit!UnitReset
<1>2. s.digit \in 0..9
  BY DEF Unit!DigitsReset
<1>3. e.obs \in Int /\ e.obs >= 0 /\ e.obs < 10
  BY <1>1, <1>2 DEF Fresh
<1>. QED BY <1>3, DigitsSpaces, DiscreteIs DEF Shown

LEMMA DigitsStep ==
  ASSUME NEW d, NEW e, e.cls = "MemorizeDigits", NEW a,
         NEW o \in Unit!UnitStep(d.cls, d.kw, d.st, a), After(d, e, o)
  PROVE  Shown(e)
<1>1. o \in Unit!DigitsStep(d.st, a)
  BY DEF Unit!UnitStep, After
<1>2. o.obs \in 0..9
  <2>. DEFINE T == 0..9
              n == Unit!Min({d.st.step_n + 1, 21})
              flags == IF n > 20 THEN BOOLEAN ELSE {FALSE}
              w == IF d.st.digit = a THEN 1 ELSE -1
  <2>. HIDE DEF T, n, flags, w
  <2>1. Unit!DigitsStep(d.st, a) = {Unit!UOut([digit |-> x, step_n |-> n], x, w, f) : x \in T, f \in flags}
    BY DEF Unit!DigitsStep, T, n, flags, w
  <2>2. \E x \in T : o.obs = x
    BY <1>1, <2>1 DEF Unit!UOut
  <2>. QED BY <2>2 DEF T
<1>3. e.obs \in Int /\ e.obs >= 0 /\ e.obs < 10
  BY <1>2 DEF After
<1>. QED BY <1>3, DigitsSpaces, DiscreteIs DEF Shown

LEMMA CartSpaces ==
  ASSUME NEW e, e.cls = "CartPole"
  PROVE  ObsSpace(e) = S!Box(<<-20, -20>>, <<20, 20>>, TRUE) /\ ActionSpace(e) = S!Discrete(2)
<1>1. e.cls \in UnitClasses
  BY DEF UnitClasses
<1>2. ObsSpace(e) = S!Box(<<-20, -20>>, <<20, 20>>, TRUE)
  BY <1>1, OfUnit DEF Unit!UnitObsSpace, Unit!Box, S!Box
<1>3. ActionSpace(e) = S!Discrete(2)
  BY <1>1, OfUnit DEF Unit!UnitActions, Unit!Discrete, S!Discrete
<1>. QED BY <1>2, <1>3

LEMMA CartReset ==
  ASSUME NEW e, e.cls = "CartPole", NEW r \in Unit!UnitReset(e.cls, e.kw), Fresh(e, r)
  PROVE  CartInv(e)
<1>1. PICK s \in Unit!CartReset : r = <<s, <<s.x, s.theta>>>>
  BY DEF Unit!UnitReset
<1>2. s = [x |-> 0, theta |-> 0, steps_beyond_done |-> "None"]
  BY DEF Unit!CartReset
<1>3. e.st = s /\ e.obs = <<0, 0>> /\ e.done = FALSE /\ e.elapsed = 0
  BY <1>1, <1>2 DEF Fresh
<1>4. e.st.x = 0 /\ e.st.theta = 0 /\ e.st.steps_beyond_done = "None"
  BY <1>2, <1>3
<1>5. e.st \in [x : Int, theta : Int, steps_beyond_done : {"None", "0", "more"}]
  BY <1>2, <1>3
<1>6. ~Unit!CartDone(e.st)
  BY <1>4 DEF Unit!CartDone
<1>7. CartSound(e)
  BY <1>3, <1>4 DEF CartSound
<1>8. Shown(e)
  <2>1. -20 \in Int /\ 20 \in Int /\ 0 \in Int /\ -20 <= 0 /\ 0 <= 20
    OBVIOUS
  <2>2. S!Contains(S!Box(<<-20, -20>>, <<20, 20>>, TRUE), <<0, 0>>)
    BY <2>1, BoxOfTwo
  <2>. QED BY <1>3, <2>2, CartSpaces DEF Shown
<1>. QED BY <1>3, <1>4, <1>5, <1>6, <1>7, <1>8 DEF CartInv

LEMMA CartStep ==
  ASSUME NEW d, NEW e, e.cls = "CartPole", CartInv(d), NEW a,
         NEW o \in Unit!UnitStep(d.cls, d.kw, d.st, a), After(d, e, o)
  PROVE  CartInv(e)
<1>. DEFINE s == d.st
<1>1. /\ d.cls = "CartPole" /\ s \in [x : Int, theta : Int, steps_beyond_done : {"None", "0", "more"}]
      /\ s.steps_beyond_done = "None" /\ ~Unit!CartDone(s)
  BY DEF After, CartInv
<1>2. o \in Unit!CartStep(s)
  BY <1>1 DEF Unit!UnitStep
<1>. DEFINE At(x, theta, b) == [x |-> x, theta |-> theta, steps_beyond_done |-> b]
            Goes(x, theta) ==
              IF ~Unit!CartDone(At(x, theta, s.steps_beyond_done))
              THEN Unit!UOut(At(x, theta, s.steps_beyond_done), <<x, theta>>, 1, FALSE)
              ELSE Unit!UOut([At(x, theta, s.steps_beyond_done) EXCEPT !.steps_beyond_done = IF @ = "None" THEN "0" ELSE "more"],
                             <<x, theta>>, IF s.steps_beyond_done = "None" THEN 1 ELSE 0, TRUE)
            X == {s.x - 5, s.x, s.x + 5}
            Th == {s.theta - 5, s.theta, s.theta + 5}
<1>3. PICK x \in X, theta \in Th : o = Goes(x, theta)
  <2>1. Unit!CartStep(s) = {Goes(x, theta) : x \in X, theta \in Th}
    BY DEF Unit!CartStep
  <2>. HIDE DEF X, Th, Goes
  <2>. QED BY <1>2, <2>1
<1>. DEFINE t == [x |-> x, theta |-> theta, steps_beyond_done |-> "None"]
            u == [x |-> x, theta |-> theta, steps_beyond_done |-> "0"]
<1>4. o = IF ~Unit!CartDone(t) THEN Unit!UOut(t, <<x, theta>>, 1, FALSE) ELSE Unit!UOut(u, <<x, theta>>, 1, TRUE)
  <2>1. At(x, theta, s.steps_beyond_done) = t
    BY <1>1
  <2>2. [t EXCEPT !.steps_beyond_done = IF @ = "None" THEN "0" ELSE "more"] = u
    OBVIOUS
  <2>3. (IF s.steps_beyond_done = "None" THEN 1 ELSE 0) = 1
    BY <1>1
  <2>. HIDE DEF t, u, At
  <2>. QED BY <1>3, <2>1, <2>2, <2>3
<1>5. x \in Int /\ theta \in Int /\ -20 <= x /\ x <= 20 /\ -20 <= theta /\ theta <= 20
  BY <1>1 DEF Unit!CartDone
<1>6. /\ {t, u} \subseteq [x : Int, theta : Int, steps_beyond_done : {"None", "0", "more"}]
      /\ t.steps_beyond_done = "None" /\ u.steps_beyond_done = "0"
  BY <1>5
<1>. HIDE DEF t, u
<1>7. /\ e.obs = <<x, theta>> /\ e.rew = 1 /\ e.begun = TRUE
      /\ \/ e.st = t /\ e.done = FALSE /\ ~Unit!CartDone(t)
         \/ e.st = u /\ e.done = TRUE
  BY <1>4 DEF After, Unit!UOut
<1>8. CartSound(e)
  BY <1>6, <1>7 DEF CartSound
<1>9. Shown(e)
  <2>1. -20 \in Int /\ 20 \in Int
    OBVIOUS
  <2>2. S!Contains(S!Box(<<-20, -20>>, <<20, 20>>, TRUE), <<x, theta>>)
    BY <1>5, <2>1, BoxOfTwo, ZenonT(60)
  <2>. QED BY <1>7, <2>2, CartSpaces DEF Shown
<1>. QED BY <1>6, <1>7, <1>8, <1>9 DEF CartInv

LEMMA ClipIs ==
  ASSUME NEW v \in Int, NEW low \in Int, NEW high \in Int, low <= high
  PROVE  Unit!Clip(v, low, high) \in Int /\ low <= Unit!Clip(v, low, high) /\ Unit!Clip(v, low, high) <= high
<1>. DEFINE m == Unit!Min({v, high})
<1>1. m = IF v <= high THEN v ELSE high
  BY MinPair
<1>2. m \in Int /\ m <= high
  BY <1>1
<1>. HIDE DEF m
<1>3. Unit!Max({low, m}) = IF low >= m THEN low ELSE m
  BY <1>2, MaxPair
<1>4. Unit!Clip(v, low, high) = Unit!Max({low, m})
  BY DEF Unit!Clip, m
<1>. QED BY <1>2, <1>3, <1>4

\* Cars.
Cars == {"MountainCar", "Continuous_MountainCar"}

LEMMA CarSpaces ==
  ASSUME NEW e, e.cls \in Cars
  PROVE  ObsSpace(e) = S!Box(<<-24, -2>>, <<12, 2>>, TRUE)
<1>1. e.cls \in UnitClasses /\ (e.cls = "MountainCar" \/ e.cls = "Continuous_MountainCar")
  BY DEF UnitClasses, Cars
<1>. QED BY <1>1, OfUnit DEF Unit!UnitObsSpace, Unit!Box, S!Box

LEMMA CarShown ==
  ASSUME NEW e, e.cls \in Cars, e.obs = <<e.st.position, e.st.velocity>>,
         e.st.position \in Int, -24 <= e.st.position, e.st.position <= 12,
         e.st.velocity \in Int, -2 <= e.st.velocity, e.st.velocity <= 2
  PROVE  CarInv(e)
<1>1. Shown(e)
  <2>1. -24 \in Int /\ 12 \in Int /\ -2 \in Int /\ 2 \in Int
    OBVIOUS
  <2>2. S!Contains(S!Box(<<-24, -2>>, <<12, 2>>, TRUE), <<e.st.position, e.st.velocity>>)
    BY <2>1, BoxOfTwo
  <2>. QED BY <2>2, CarSpaces DEF Shown
<1>. QED BY <1>1 DEF CarInv

LEMMA CarReset ==
  ASSUME NEW e, e.cls \in Cars, NEW r \in Unit!UnitReset(e.cls, e.kw), Fresh(e, r)
  PROVE  CarInv(e)
<1>0. e.cls = "MountainCar" \/ e.cls = "Continuous_MountainCar"
  BY DEF Cars
<1>1. PICK s \in Unit!CarReset : r = <<s, <<s.position, s.velocity>>>>
  BY <1>0 DEF Unit!UnitReset
<1>2. s.velocity = 0 /\ s.position \in -12..-8
  BY DEF Unit!CarReset
<1>3. e.st = s /\ e.obs = <<s.position, s.velocity>>
  BY <1>1 DEF Fresh
<1>. QED BY <1>2, <1>3, CarShown

LEMMA CarStep ==
  ASSUME NEW d, NEW e, e.cls \in Cars, CarInv(d), NEW a,
         NEW o \in Unit!UnitStep(d.cls, d.kw, d.st, a), After(d, e, o)
  PROVE  CarInv(e)
<1>0. d.cls = "MountainCar" \/ d.cls = "Continuous_MountainCar"
  BY DEF Cars, After
<1>. DEFINE s == d.st
<1>1. s.position \in Int /\ s.velocity \in Int
  BY DEF CarInv
<1>2. o \in Unit!CarStep(d.cls, s, a)
  BY <1>0 DEF Unit!UnitStep
<1>3. PICK pushed \in Unit!Around(s.velocity, 1) :
        LET v == Unit!Clip(pushed, -2, 2)
            p == Unit!Clip(s.position + v, -24, 12)
            t == [position |-> p, velocity |-> IF p = -24 /\ v < 0 THEN 0 ELSE v]
        IN  o.st = t /\ o.obs = <<t.position, t.velocity>>
  BY <1>2 DEF Unit!CarStep, Unit!UOut
<1>. DEFINE v == Unit!Clip(pushed, -2, 2)
            p == Unit!Clip(s.position + v, -24, 12)
            t == [position |-> p, velocity |-> IF p = -24 /\ v < 0 THEN 0 ELSE v]
<1>4. pushed \in Int
  BY <1>1 DEF Unit!Around
<1>5. v \in Int /\ -2 <= v /\ v <= 2
  <2>1. -2 \in Int /\ 2 \in Int /\ -2 <= 2
    OBVIOUS
  <2>. QED BY <1>4, <2>1, ClipIs
<1>6. p \in Int /\ -24 <= p /\ p <= 12
  <2>1. s.position + v \in Int
    BY <1>1, <1>5
  <2>2. -24 \in Int /\ 12 \in Int /\ -24 <= 12
    OBVIOUS
  <2>. HIDE DEF v
  <2>. QED BY <2>1, <2>2, ClipIs
<1>7. o.st = t /\ o.obs = <<t.position, t.velocity>>
  BY <1>3
<1>. HIDE DEF v, p
<1>8. t.position = p /\ t.velocity \in Int /\ -2 <= t.velocity /\ t.velocity <= 2
  BY <1>5
<1>. HIDE DEF t
<1>9. e.st = t /\ e.obs = <<t.position, t.velocity>>
  BY <1>7 DEF After
<1>. QED BY <1>6, <1>8, <1>9, CarShown

\* Pendulum.
LEMMA PendulumSpaces ==
  ASSUME NEW e, e.cls = "Pendulum"
  PROVE  ObsSpace(e) = Toy!Interval(-8, 8)
<1>1. e.cls \in UnitClasses
  BY DEF UnitClasses
<1>. QED BY <1>1, OfUnit DEF Unit!UnitObsSpace, Unit!Interval, Toy!Interval, Unit!Box, Toy!Box

LEMMA PendulumShown ==
  ASSUME NEW e, e.cls = "Pendulum", e.st.thdot \in Int, -8 <= e.st.thdot, e.st.thdot <= 8, e.obs = <<e.st.thdot>>
  PROVE  PendulumInv(e)
<1>. DEFINE sp == Toy!Interval(-8, 8)
<1>1. S!ContainsPlain(sp, <<e.st.thdot>>)
  BY IntervalIs
<1>2. sp.kind = "Box"
  BY DEF Toy!Interval, Toy!Box
<1>. HIDE DEF sp
<1>3. S!Contains(sp, <<e.st.thdot>>)
  BY <1>1, <1>2 DEF S!Contains
<1>. QED BY <1>3, PendulumSpaces DEF PendulumInv, Shown, sp

LEMMA PendulumReset ==
  ASSUME NEW e, e.cls = "Pendulum", NEW r \in Unit!UnitReset(e.cls, e.kw), Fresh(e, r)
  PROVE  PendulumInv(e)
<1>1. PICK s \in Unit!PendulumReset : r = <<s, <<s.thdot>>>>
  BY DEF Unit!UnitReset
<1>2. s.thdot \in -1..1
  BY DEF Unit!PendulumReset
<1>3. e.st = s /\ e.obs = <<s.thdot>>
  BY <1>1 DEF Fresh
<1>. QED BY <1>2, <1>3, PendulumShown

LEMMA PendulumStep ==
  ASSUME NEW d, NEW e, e.cls = "Pendulum", PendulumInv(d), NEW a,
         NEW o \in Unit!UnitStep(d.cls, d.kw, d.st, a), After(d, e, o)
  PROVE  PendulumInv(e)
<1>1. o \in Unit!PendulumStep(d.st)
  BY DEF Unit!UnitStep, After
<1>2. PICK v \in Unit!Around(d.st.thdot, 2) : o = Unit!UOut([thdot |-> Unit!Clip(v, -8, 8)], <<Unit!Clip(v, -8, 8)>>, 0, FALSE)
  BY <1>1 DEF Unit!PendulumStep
<1>3. v \in Int
  BY DEF Unit!Around, PendulumInv
<1>. DEFINE w == Unit!Clip(v, -8, 8)
<1>4. w \in Int /\ -8 <= w /\ w <= 8
  <2>1. -8 \in Int /\ 8 \in Int /\ -8 <= 8
    OBVIOUS
  <2>. QED BY <1>3, <2>1, ClipIs
<1>5. o = Unit!UOut([thdot |-> w], <<w>>, 0, FALSE)
  BY <1>2
<1>. HIDE DEF w
<1>6. e.st = [thdot |-> w] /\ e.obs = <<w>>
  BY <1>5 DEF After, Unit!UOut
<1>7. e.st.thdot = w
  BY <1>6
<1>. QED BY <1>4, <1>6, <1>7, PendulumShown

\* Acrobot.
LEMMA AcrobotSpaces ==
  ASSUME NEW e, e.cls = "Acrobot"
  PROVE  ObsSpace(e) = S!Box(<<-100, -100, -12>>, <<100, 100, 12>>, TRUE)
<1>1. e.cls \in UnitClasses
  BY DEF UnitClasses
<1>. QED BY <1>1, OfUnit DEF Unit!UnitObsSpace, Unit!Box, S!Box

LEMMA AcrobotShown ==
  ASSUME NEW e, e.cls = "Acrobot", NEW x \in Int, NEW y \in Int, NEW v \in Int, e.obs = <<x, y, v>>,
         -100 <= x, x <= 100, -100 <= y, y <= 100, -12 <= v, v <= 12,
         e.st.theta1 \in Int, e.st.theta2 \in Int
  PROVE  AcrobotInv(e)
<1>1. DOMAIN <<x, y, v>> = DOMAIN <<-100, -100, -12>>
  OBVIOUS
<1>2. \A i \in DOMAIN <<x, y, v>> : <<-100, -100, -12>>[i] <= <<x, y, v>>[i] /\ <<x, y, v>>[i] <= <<100, 100, 12>>[i]
  OBVIOUS
<1>3. S!Contains(S!Box(<<-100, -100, -12>>, <<100, 100, 12>>, TRUE), <<x, y, v>>)
  <2>. DEFINE low == <<-100, -100, -12>>
              high == <<100, 100, 12>>
              obs == <<x, y, v>>
  <2>1. DOMAIN obs = DOMAIN low /\ \A i \in DOMAIN obs : low[i] <= obs[i] /\ obs[i] <= high[i]
    BY <1>1, <1>2
  <2>. HIDE DEF low, high, obs
  <2>2. S!Contains(S!Box(low, high, TRUE), obs)
    BY <2>1, BoxIs
  <2>. QED BY <2>2 DEF low, high, obs
<1>. QED BY <1>3, AcrobotSpaces DEF Shown, AcrobotInv

LEMMA AcrobotReset ==
  ASSUME NEW e, e.cls = "Acrobot", NEW r \in Unit!UnitReset(e.cls, e.kw), Fresh(e, r)
  PROVE  AcrobotInv(e)
<1>1. PICK s \in Unit!AcrobotReset : r = <<s, <<100, 100, 0>>>>
  BY DEF Unit!UnitReset
<1>2. s.theta1 = 0 /\ s.theta2 = 0
  BY DEF Unit!AcrobotReset
<1>3. e.st = s /\ e.obs = <<100, 100, 0>>
  BY <1>1 DEF Fresh
<1>. QED BY <1>2, <1>3, AcrobotShown

LEMMA CosineIs == ASSUME NEW x \in Int PROVE Unit!Cosine(x) \in Int /\ -100 <= Unit!Cosine(x) /\ Unit!Cosine(x) <= 100
<1>. DEFINE d == x % 8
<1>1. d \in 0..7
  OBVIOUS
<1>2. Unit!Cosine(x) = CASE d = 0 -> 100 [] d \in {1, 7} -> 71 [] d \in {2, 6} -> 0
                         [] d \in {3, 5} -> -71 [] d = 4 -> -100
  BY DEF Unit!Cosine
<1>. HIDE DEF d
<1>3. d = 0 \/ d \in {1, 7} \/ d \in {2, 6} \/ d \in {3, 5} \/ d = 4
  BY <1>1
<1>. QED BY <1>2, <1>3

LEMMA AcrobotStep ==
  ASSUME NEW d, NEW e, e.cls = "Acrobot", AcrobotInv(d), NEW a,
         NEW o \in Unit!UnitStep(d.cls, d.kw, d.st, a), After(d, e, o)
  PROVE  AcrobotInv(e)
<1>1. o \in Unit!AcrobotStep(d.st)
  BY DEF Unit!UnitStep, After
<1>2. PICK x \in Unit!Around(d.st.theta1, 1), y \in Unit!Around(d.st.theta2, 1), v \in {-15, 15} :
        LET t == [theta1 |-> Unit!wrap(x, -4, 4), theta2 |-> Unit!wrap(y, -4, 4)]
        IN  o.st = t /\ o.obs = <<Unit!Cosine(t.theta1), Unit!Cosine(t.theta2), Unit!Clip(v, -12, 12)>>
  BY <1>1 DEF Unit!AcrobotStep, Unit!UOut
<1>. DEFINE t == [theta1 |-> Unit!wrap(x, -4, 4), theta2 |-> Unit!wrap(y, -4, 4)]
<1>3. x \in Int /\ y \in Int /\ v \in Int
  BY DEF Unit!Around, AcrobotInv
<1>4. t.theta1 \in Int /\ t.theta2 \in Int
  BY <1>3 DEF Unit!wrap
<1>5. o.st = t /\ o.obs = <<Unit!Cosine(t.theta1), Unit!Cosine(t.theta2), Unit!Clip(v, -12, 12)>>
  BY <1>2
<1>. HIDE DEF t
<1>6. e.st = t /\ e.obs = <<Unit!Cosine(t.theta1), Unit!Cosine(t.theta2), Unit!Clip(v, -12, 12)>>
  BY <1>5 DEF After
<1>7. Unit!Clip(v, -12, 12) \in Int /\ -12 <= Unit!Clip(v, -12, 12) /\ Unit!Clip(v, -12, 12) <= 12
  <2>1. -12 \in Int /\ 12 \in Int /\ -12 <= 12
    OBVIOUS
  <2>. QED BY <1>3, <2>1, ClipIs
<1>. QED BY <1>4, <1>6, <1>7, CosineIs, AcrobotShown

-----------------------------------------------------------------------------
(* box2d.                                                                  *)

LegOK(leg) == /\ leg.touching \in Nat /\ leg.ground_contact \in BOOLEAN
              /\ leg.ground_contact => leg.touching > 0

LEMMA TouchesIs ==
  ASSUME NEW leg, LegOK(leg), NEW max \in Nat, NEW new \in Physics!Touches(leg, max)
  PROVE  LegOK(new)
<1>. DEFINE A == 0..(max - leg.touching)
            B == 0..leg.touching
            D == {d \in A \X B \X BOOLEAN :
                   /\ d[1] = 0 /\ d[2] = 0 => d[3] = leg.ground_contact
                   /\ d[1] > 0 /\ d[2] = 0 => d[3]
                   /\ d[1] = 0 /\ d[2] > 0 => ~d[3]}
<1>1. Physics!Touches(leg, max) = {[touching |-> leg.touching + c[1] - c[2], ground_contact |-> c[3]] : c \in D}
  BY DEF Physics!Touches
<1>. HIDE DEF D
<1>2. PICK c \in D : new = [touching |-> leg.touching + c[1] - c[2], ground_contact |-> c[3]]
  BY <1>1
<1>3. /\ c[1] \in A /\ c[2] \in B /\ c[3] \in BOOLEAN
      /\ c[1] = 0 /\ c[2] = 0 => c[3] = leg.ground_contact
      /\ c[1] = 0 /\ c[2] > 0 => ~c[3]
  BY DEF D
<1>4. leg.touching \in Nat /\ c[1] \in Nat /\ c[2] \in Nat /\ c[2] <= leg.touching
  BY <1>3 DEF LegOK
<1>5. new.touching = leg.touching + c[1] - c[2] /\ new.ground_contact = c[3]
  BY <1>2
<1>6. new.touching \in Nat
  BY <1>4, <1>5
<1>7. CASE c[1] > 0
  <2>1. new.touching > 0
    BY <1>4, <1>5, <1>7
  <2>. QED BY <1>3, <1>5, <1>6, <2>1 DEF LegOK
<1>8. CASE c[1] = 0 /\ c[2] > 0
  BY <1>3, <1>5, <1>6, <1>8 DEF LegOK
<1>9. CASE c[1] = 0 /\ c[2] = 0
  <2>1. new.touching = leg.touching /\ new.ground_contact = leg.ground_contact
    BY <1>3, <1>4, <1>5, <1>9
  <2>. QED BY <2>1 DEF LegOK
<1>. QED BY <1>4, <1>7, <1>8, <1>9

LEMMA AirborneIs == LegOK(Physics!Airborne)
BY DEF LegOK, Physics!Airborne

LEMMA BitIs == ASSUME NEW b \in BOOLEAN PROVE Physics!Bit(b) \in Int /\ 0 <= Physics!Bit(b) /\ Physics!Bit(b) <= 1
BY DEF Physics!Bit

LEMMA BoxOfThree ==
  ASSUME NEW l \in Int, NEW h \in Int, NEW x \in Int, NEW y \in Int, NEW z \in Int, NEW f,
         l <= x, x <= h, l <= y, y <= h, l <= z, z <= h
  PROVE  S!Contains(S!Box([i \in 1..3 |-> l], [i \in 1..3 |-> h], f), <<x, y, z>>)
<1>. DEFINE low == [i \in 1..3 |-> l]
            high == [i \in 1..3 |-> h]
            obs == <<x, y, z>>
<1>1. DOMAIN obs = DOMAIN low /\ \A i \in DOMAIN obs : low[i] <= obs[i] /\ obs[i] <= high[i]
  OBVIOUS
<1>. HIDE DEF obs, low, high
<1>2. S!Contains(S!Box(low, high, f), obs)
  BY <1>1, BoxIs
<1>. QED BY <1>2 DEF obs, low, high

LEMMA LanderSpaces ==
  ASSUME NEW e, e.cls = "LunarLander"
  PROVE  /\ ObsSpace(e) = S!Box([i \in 1..3 |-> -1000], [i \in 1..3 |-> 1000], TRUE)
         /\ ActionSpace(e) = IF e.kw.continuous THEN S!Box(<<-10, -10>>, <<10, 10>>, TRUE) ELSE S!Discrete(4)
<1>1. e.cls \in BoxClasses
  BY DEF BoxClasses
<1>2. ObsSpace(e) = S!Box([i \in 1..3 |-> -1000], [i \in 1..3 |-> 1000], TRUE)
  BY <1>1, OfBox DEF Physics!BoxObsSpace, Physics!Box, S!Box
<1>3. ActionSpace(e) = IF e.kw.continuous THEN S!Box(<<-10, -10>>, <<10, 10>>, TRUE) ELSE S!Discrete(4)
  BY <1>1, OfBox DEF Physics!BoxActions, Physics!Box, S!Box, Physics!Discrete, S!Discrete
<1>. QED BY <1>2, <1>3

LanderInv(e) == /\ LanderSound(e) /\ Shown(e)
                /\ e.st.x \in Int /\ LegOK(e.st.legs[1]) /\ LegOK(e.st.legs[2])
                /\ e.st.game_over \in BOOLEAN /\ e.st.awake \in BOOLEAN
                /\ ~e.done => e.st.x < 10 /\ e.st.x > -10

LEMMA LanderShown ==
  ASSUME NEW e, e.cls = "LunarLander", e.obs = Physics!LanderObs(e.st), e.st.x \in Int, e.st.x < 1000, e.st.x > -1000,
         LegOK(e.st.legs[1]), LegOK(e.st.legs[2])
  PROVE  Shown(e) /\ LegsSound(e)
<1>. DEFINE x == e.st.x
            y == Physics!Bit(e.st.legs[1].ground_contact)
            z == Physics!Bit(e.st.legs[2].ground_contact)
<1>1. y \in Int /\ 0 <= y /\ y <= 1 /\ z \in Int /\ 0 <= z /\ z <= 1
  BY BitIs DEF LegOK
<1>2. e.obs = <<x, y, z>>
  BY DEF Physics!LanderObs
<1>. HIDE DEF y, z
<1>3. Shown(e)
  <2>. DEFINE l == -1000
              h == 1000
  <2>1. l \in Int /\ h \in Int /\ x \in Int /\ y \in Int /\ z \in Int /\ l <= x /\ x <= h /\ l <= y /\ y <= h /\ l <= z /\ z <= h
    BY <1>1
  <2>. HIDE DEF l, h, x
  <2>2. S!Contains(S!Box([i \in 1..3 |-> l], [i \in 1..3 |-> h], TRUE), <<x, y, z>>)
    BY <2>1, BoxOfThree, ZenonT(60)
  <2>. QED BY <1>2, <2>2, LanderSpaces, ZenonT(60) DEF Shown, l, h, x
<1>4. LegsSound(e)
  BY DEF LegsSound, LegOK
<1>. QED BY <1>3, <1>4

LEMMA LanderReset ==
  ASSUME NEW e, e.cls = "LunarLander", NEW r \in Physics!BoxReset(e.cls, e.kw), Fresh(e, r)
  PROVE  LanderInv(e)
<1>1. PICK s \in Physics!LanderReset : r = <<s, Physics!LanderObs(s)>>
  BY DEF Physics!BoxReset
<1>2. s = [x |-> 0, legs |-> <<Physics!Airborne, Physics!Airborne>>, game_over |-> FALSE, awake |-> TRUE]
  BY DEF Physics!LanderReset
<1>3. e.st = s /\ e.obs = Physics!LanderObs(s) /\ e.done = FALSE /\ e.rew = 0
  BY <1>1 DEF Fresh
<1>4. /\ e.st.x = 0 /\ e.st.legs[1] = Physics!Airborne /\ e.st.legs[2] = Physics!Airborne
      /\ e.st.game_over = FALSE /\ e.st.awake = TRUE
  BY <1>2, <1>3
<1>5. Shown(e) /\ LegsSound(e)
  BY <1>3, <1>4, AirborneIs, LanderShown
<1>6. LanderSound(e)
  BY <1>3, <1>4, <1>5 DEF LanderSound
<1>7. LegOK(e.st.legs[1]) /\ LegOK(e.st.legs[2])
  BY <1>4, AirborneIs
<1>8. e.st.x \in Int /\ e.st.game_over \in BOOLEAN /\ e.st.awake \in BOOLEAN /\ (~e.done => e.st.x < 10 /\ e.st.x > -10)
  <2>1. 0 < 10 /\ 0 > -10 /\ 0 \in Int
    OBVIOUS
  <2>2. e.st.x \in Int /\ e.st.x < 10 /\ e.st.x > -10
    BY <1>4, <2>1
  <2>3. e.st.game_over \in BOOLEAN /\ e.st.awake \in BOOLEAN
    BY <1>4
  <2>. QED BY <2>2, <2>3
<1>. QED BY <1>5, <1>6, <1>7, <1>8 DEF LanderInv

\* An engine is off or between half power and full.
LEMMA PowersAre ==
  ASSUME NEW c \in BOOLEAN, NEW a, c => a[1] \in Int /\ a[2] \in Int
  PROVE  /\ Physics!PowersOK(c, a)
         /\ Physics!m_power(c, a) \in Nat /\ Physics!s_power(c, a) \in Nat
<1>1. Physics!m_power(c, a) \in {0} \cup 500..1000
  <2>1. c /\ a[1] > 0 => Physics!Clipped(a[1], 0, 10) \in Int /\ 0 <= Physics!Clipped(a[1], 0, 10) /\ Physics!Clipped(a[1], 0, 10) <= 10
    BY DEF Physics!Clipped
  <2>. DEFINE x == Physics!Clipped(a[1], 0, 10)
  <2>2. Physics!m_power(c, a) = IF ~c THEN IF a = 2 THEN 1000 ELSE 0 ELSE IF a[1] > 0 THEN (x + 10) * 50 ELSE 0
    BY DEF Physics!m_power
  <2>. HIDE DEF x
  <2>. QED BY <2>1, <2>2 DEF x
<1>2. Physics!s_power(c, a) \in {0} \cup 500..1000
  <2>. DEFINE x == Physics!Clipped(Physics!Abs(a[2]), 5, 10)
  <2>1. c /\ Physics!Abs(a[2]) > 5 => x \in Int /\ 5 <= x /\ x <= 10
    BY DEF Physics!Clipped, Physics!Abs
  <2>2. Physics!s_power(c, a) = IF ~c THEN IF a \in {1, 3} THEN 1000 ELSE 0 ELSE IF Physics!Abs(a[2]) > 5 THEN x * 100 ELSE 0
    BY DEF Physics!s_power
  <2>. HIDE DEF x
  <2>. QED BY <2>1, <2>2
<1>. QED BY <1>1, <1>2, SMTT(60) DEF Physics!PowersOK

LEMMA LanderStep ==
  ASSUME NEW d, NEW e, e.cls = "LunarLander", KwOK(e.cls, e.kw), LanderInv(d),
         NEW a, e.kw.continuous => a[1] \in Int /\ a[2] \in Int,
         NEW o \in Physics!BoxStep(d.cls, d.kw, d.st, a), After(d, e, o)
  PROVE  LanderInv(e)
<1>. DEFINE s == d.st
            kw == e.kw
            X == {s.x + m : m \in kw.moves}
            L == Physics!Touches(s.legs[1], kw.ground) \X Physics!Touches(s.legs[2], kw.ground)
            T(x, legs, crashes, awake) == [x |-> x, legs |-> legs, game_over |-> s.game_over \/ crashes, awake |-> awake]
            fuel == (3 * Physics!m_power(kw.continuous, a)) \div 10 + (3 * Physics!s_power(kw.continuous, a)) \div 100
            Over(x, legs, crashes, awake) == T(x, legs, crashes, awake).game_over \/ Physics!Abs(x) >= 10
            Goes(x, legs, crashes, awake) ==
              Physics!BoxOut(T(x, legs, crashes, awake), Physics!LanderObs(T(x, legs, crashes, awake)),
                IF ~awake THEN 100000 ELSE IF Over(x, legs, crashes, awake) THEN -100000
                ELSE Physics!Shaping(T(x, legs, crashes, awake)) - Physics!Shaping(s) - fuel,
                Over(x, legs, crashes, awake) \/ ~awake)
<1>1. /\ d.cls = "LunarLander" /\ d.kw = kw /\ ~d.done /\ d.begun = TRUE
      /\ s.x \in Int /\ s.x < 10 /\ s.x > -10 /\ LegOK(s.legs[1]) /\ LegOK(s.legs[2]) /\ s.game_over = FALSE
  BY DEF After, LanderInv, LanderSound
<1>2. kw.continuous \in BOOLEAN /\ kw.ground \in Nat /\ kw.moves \subseteq -7..7
  BY DEF KwOK
<1>3. o \in Physics!LanderStep(kw, s, a)
  BY <1>1 DEF Physics!BoxStep
<1>4. PICK x \in X, legs \in L, crashes \in BOOLEAN, awake \in BOOLEAN : o = Goes(x, legs, crashes, awake)
  <2>1. Physics!LanderStep(kw, s, a) = {Goes(x, legs, crashes, awake) : x \in X, legs \in L, crashes \in BOOLEAN, awake \in BOOLEAN}
    BY DEF Physics!LanderStep
  <2>. HIDE DEF X, L, Goes
  <2>. QED BY <1>3, <2>1
<1>5. x \in Int /\ x >= s.x - 7 /\ x <= s.x + 7
  <2>1. PICK m \in kw.moves : x = s.x + m
    OBVIOUS
  <2>2. m \in Int /\ -7 <= m /\ m <= 7
    BY <1>2
  <2>. QED BY <1>1, <2>1, <2>2
<1>6. LegOK(legs[1]) /\ LegOK(legs[2])
  <2>1. legs[1] \in Physics!Touches(s.legs[1], kw.ground) /\ legs[2] \in Physics!Touches(s.legs[2], kw.ground)
    OBVIOUS
  <2>. QED BY <1>1, <1>2, <2>1, TouchesIs
<1>. DEFINE t == T(x, legs, crashes, awake)
            over == Over(x, legs, crashes, awake)
<1>7. t.x = x /\ t.legs = legs /\ t.game_over = crashes /\ t.awake = awake
  BY <1>1
<1>8. over \in BOOLEAN /\ (over <=> crashes \/ ~(x < 10 /\ x > -10))
  BY <1>5, <1>7 DEF Physics!Abs
<1>. HIDE DEF X, L
<1>9. fuel \in Nat
  <2>. DEFINE m == Physics!m_power(kw.continuous, a)
              n == Physics!s_power(kw.continuous, a)
  <2>1. m \in Nat /\ n \in Nat
    BY <1>2, PowersAre
  <2>. HIDE DEF m, n
  <2>2. (3 * m) \div 10 \in Nat /\ (3 * n) \div 100 \in Nat
    BY <2>1
  <2>3. (3 * m) \div 10 + (3 * n) \div 100 \in Nat
    BY <2>2
  <2>. QED BY <2>3 DEF m, n
<1>10. Physics!Shaping(t) - Physics!Shaping(s) < 100000 /\ Physics!Shaping(t) - Physics!Shaping(s) \in Int
  <2>. DEFINE b1 == Physics!Bit(legs[1].ground_contact)
              b2 == Physics!Bit(legs[2].ground_contact)
              c1 == Physics!Bit(s.legs[1].ground_contact)
              c2 == Physics!Bit(s.legs[2].ground_contact)
              y == Physics!Abs(x)
              z == Physics!Abs(s.x)
  <2>1. /\ b1 \in Int /\ b1 <= 1 /\ b2 \in Int /\ b2 <= 1
        /\ c1 \in Int /\ c1 >= 0 /\ c2 \in Int /\ c2 >= 0
    BY <1>1, <1>6, BitIs DEF LegOK
  <2>2. y \in Int /\ z \in Int /\ z <= y + 7
    BY <1>1, <1>5 DEF Physics!Abs
  <2>3. Physics!Shaping(t) = 10000 * (b1 + b2 - y) /\ Physics!Shaping(s) = 10000 * (c1 + c2 - z)
    BY <1>7 DEF Physics!Shaping
  <2>. HIDE DEF b1, b2, c1, c2, y, z
  <2>. QED BY <2>1, <2>2, <2>3
<1>. HIDE DEF t, over, fuel
<1>. DEFINE reward == IF ~awake THEN 100000 ELSE IF over THEN -100000 ELSE Physics!Shaping(t) - Physics!Shaping(s) - fuel
<1>11. o = Physics!BoxOut(t, Physics!LanderObs(t), reward, over \/ ~awake)
  BY <1>4 DEF t, over, fuel
<1>12. reward = 100000 => ~awake
  BY <1>9, <1>10
<1>. HIDE DEF reward
<1>13. e.st = t /\ e.obs = Physics!LanderObs(t) /\ e.rew = reward /\ e.done = (over \/ ~awake)
  BY <1>11 DEF After, Physics!BoxOut
<1>14. Shown(e) /\ LegsSound(e)
  <2>1. x < 1000 /\ x > -1000
    BY <1>1, <1>5
  <2>. QED BY <1>5, <1>6, <1>7, <1>13, <2>1, LanderShown
<1>15. e.done <=> over \/ ~awake
  BY <1>8, <1>13
<1>16. LanderSound(e)
  BY <1>7, <1>8, <1>12, <1>13, <1>14, <1>15 DEF LanderSound
<1>. QED BY <1>5, <1>6, <1>7, <1>8, <1>13, <1>14, <1>15, <1>16 DEF LanderInv
-----------------------------------------------------------------------------
(* The terrain of the walker: what holds of the points and the obstacles   *)
(* that _generate_terrain() has drawn, point by point.                     *)

Quads == Int \X Int \X Int \X Int
TerrainStates == {"GRASS", "STUMP", "STAIRS", "PIT"}
Gens == [state : TerrainStates, counter : Int, oneshot : BOOLEAN, y : Int, original_y : Int,
         stair_height : Int, stair_steps : Int, boxes : SUBSET Quads, terrain_y : Seq(Int)]

\* A wall of a pit, and two that are a pit's.
Wall(b) == b[4] - b[3] = 16 /\ b[2] = b[1] + 1
Paired(b, c) == Wall(b) /\ Wall(c) /\ c[4] = b[4] /\ (c[1] = b[1] + 3 \/ c[1] = b[1] + 4)
LevelAt(b, c, j, y) == b[1] <= j /\ j <= c[2] => y = IF b[2] <= j /\ j <= c[1] THEN b[3] ELSE b[4]
Level(b, c, ys) == \A j \in Nat : j < Len(ys) => LevelAt(b, c, j, ys[j + 1])
Levels(boxes, ys) == \A b, c \in boxes : Paired(b, c) => Level(b, c, ys)

EndBy(boxes, i) == \A b \in boxes : 0 <= b[1] /\ b[1] < b[2] /\ b[2] <= i
Apart(boxes) == \A b, c \in boxes : b # c /\ b[1] <= c[1] => b[2] <= c[1]
Room(boxes, d, i) == \A b \in boxes : Wall(b) => b[1] + d <= i
\* A pair is behind point i, or it is the one of the pit that is drawn.
Behind(boxes, i, end, top) ==
  \A b, c \in boxes : Paired(b, c) => c[1] + 2 <= i \/ (b[4] = top /\ c[1] + 2 = end /\ b[2] <= i)
Drawing(boxes, i, end, top, y) ==
  \A b, c \in boxes : Paired(b, c) => c[1] + 2 <= i \/ (b[4] = top /\ c[1] + 2 = end /\ b[1] <= i /\ LevelAt(b, c, i, y))

\* Before point i is drawn, and when it is but not yet kept.
GroundOK(g, i) ==
  /\ g \in Gens /\ g.counter >= 1 /\ Len(g.terrain_y) = i
  /\ EndBy(g.boxes, IF g.state = "GRASS" \/ g.oneshot THEN i ELSE i + g.counter)
  /\ Apart(g.boxes) /\ Levels(g.boxes, g.terrain_y)
  /\ g.state = "GRASS" => Room(g.boxes, 5, i + g.counter)
  /\ g.state # "GRASS" /\ g.oneshot => Room(g.boxes, 5, i)
  /\ g.state # "GRASS" /\ ~g.oneshot => Room(g.boxes, 2, i + g.counter)
  /\ g.state # "PIT" \/ g.oneshot => Room(g.boxes, 2, i)
  /\ g.state = "PIT" /\ ~g.oneshot => Behind(g.boxes, i, i + g.counter, g.original_y)
DrawnOK(h, i) ==
  /\ h \in Gens /\ h.counter >= 1 /\ Len(h.terrain_y) = i
  /\ EndBy(h.boxes, IF h.state = "GRASS" THEN i ELSE i + h.counter)
  /\ Apart(h.boxes) /\ Levels(h.boxes, h.terrain_y)
  /\ h.state = "GRASS" => Room(h.boxes, 5, i + h.counter)
  /\ h.state # "GRASS" => Room(h.boxes, 2, i + h.counter)
  /\ h.state # "PIT" => Room(h.boxes, 2, i)
  /\ h.state = "PIT" => Drawing(h.boxes, i, i + h.counter, h.original_y, h.y)

LEMMA GrassConstants ==
  /\ TERRAIN_LENGTH \in Nat /\ TERRAIN_LENGTH >= 1 /\ TERRAIN_STARTPAD \in Nat /\ TERRAIN_STARTPAD >= 1
  /\ TERRAIN_GRASS \in Nat /\ TERRAIN_GRASS \div 2 \in Nat /\ TERRAIN_GRASS \div 2 >= 3 /\ Slopes \subseteq Int
<1>1. TERRAIN_GRASS \in Nat /\ TERRAIN_GRASS >= 6
  BY Box2dAssumption
<1>2. TERRAIN_GRASS \div 2 \in Nat /\ TERRAIN_GRASS \div 2 >= 3
  BY <1>1
<1>. QED BY <1>1, <1>2, Box2dAssumption

LEMMA QuadIs ==
  ASSUME NEW b \in Quads
  PROVE  b[1] \in Int /\ b[2] \in Int /\ b[3] \in Int /\ b[4] \in Int
BY DEF Quads

LEMMA Joined ==
  ASSUME NEW old \in SUBSET Quads, NEW new \in SUBSET Quads, NEW i \in Nat, NEW end \in Nat, i <= end,
         EndBy(old, i), Apart(old), EndBy(new, end), Apart(new), \A b \in new : i <= b[1]
  PROVE  EndBy(old \cup new, end) /\ Apart(old \cup new)
<1>1. EndBy(old \cup new, end)
  BY QuadIs DEF EndBy
<1>2. ASSUME NEW b \in old \cup new, NEW c \in old \cup new, b # c, b[1] <= c[1]
      PROVE  b[2] <= c[1]
  <2>1. CASE b \in old /\ c \in old
    BY <1>2, <2>1 DEF Apart
  <2>2. CASE b \in new /\ c \in new
    BY <1>2, <2>2 DEF Apart
  <2>3. CASE b \in old /\ c \in new
    BY <2>3, QuadIs DEF EndBy
  <2>4. CASE b \in new /\ c \in old
    BY <1>2, <2>4, QuadIs DEF EndBy
  <2>. QED BY <2>1, <2>2, <2>3, <2>4
<1>. QED BY <1>1, <1>2 DEF Apart

LEMMA LaterRoom ==
  ASSUME NEW boxes \in SUBSET Quads, NEW d \in Int, NEW i \in Int, NEW e \in Int, NEW j \in Int,
         Room(boxes, d, i), j - e >= i - d
  PROVE  Room(boxes, e, j)
<1>. SUFFICES ASSUME NEW b \in boxes, Wall(b) PROVE b[1] + e <= j
  BY DEF Room
<1>1. b[1] + d <= i /\ b[1] \in Int
  BY QuadIs DEF Room
<1>. QED BY <1>1

LEMMA LaterEnd ==
  ASSUME NEW boxes \in SUBSET Quads, NEW i \in Int, NEW j \in Int, EndBy(boxes, i), i <= j
  PROVE  EndBy(boxes, j)
BY QuadIs DEF EndBy

\* Boxes that are no walls change nothing of what is said of walls.
LEMMA NoWalls ==
  ASSUME NEW old, NEW new, \A b \in new : ~Wall(b), NEW d, NEW i, NEW ys
  PROVE  /\ Room(old, d, i) => Room(old \cup new, d, i)
         /\ Levels(old, ys) => Levels(old \cup new, ys)
<1>1. Room(old, d, i) => Room(old \cup new, d, i)
  BY DEF Room
<1>2. Levels(old, ys) => Levels(old \cup new, ys)
  BY DEF Levels, Paired
<1>. QED BY <1>1, <1>2

\* Drawing point i, state by state.
LEMMA GrassDraws ==
  ASSUME NEW i \in Nat, NEW g, GroundOK(g, i), g.state = "GRASS", NEW h \in Physics!Grass(g, i)
  PROVE  DrawnOK(h, i)
<1>1. g \in Gens
  BY DEF GroundOK
<1>2. h = g \/ \E d \in Slopes : h = [g EXCEPT !.y = @ + d]
  BY DEF Physics!Grass
<1>3. CASE h = g
  BY <1>3 DEF GroundOK, DrawnOK
<1>4. ASSUME NEW d \in Slopes, h = [g EXCEPT !.y = @ + d] PROVE DrawnOK(h, i)
  <2>1. d \in Int /\ g.y \in Int
    BY <1>1, GrassConstants DEF Gens
  <2>2. g.y + d \in Int
    BY <2>1
  <2>3. h \in Gens
    BY <1>1, <1>4, <2>2 DEF Gens
  <2>4. /\ h.state = g.state /\ h.counter = g.counter /\ h.oneshot = g.oneshot /\ h.boxes = g.boxes
        /\ h.terrain_y = g.terrain_y
    BY <1>1, <1>4 DEF Gens
  <2>. QED BY <2>3, <2>4 DEF GroundOK, DrawnOK
<1>. QED BY <1>2, <1>3, <1>4

LEMMA PitBegins ==
  ASSUME NEW i \in Nat, NEW g, GroundOK(g, i), g.state = "PIT", g.oneshot, NEW h \in Physics!Pit(g, i)
  PROVE  DrawnOK(h, i)
<1>1. g \in Gens /\ g.boxes \in SUBSET Quads /\ g.y \in Int /\ g.terrain_y \in Seq(Int)
  BY DEF GroundOK, Gens
<1>2. PICK n \in 3..4 : h = [g EXCEPT !.counter = n + 2, !.original_y = g.y,
                               !.boxes = @ \cup {<<i, i + 1, g.y - 16, g.y>>, <<i + n, i + n + 1, g.y - 16, g.y>>}]
  BY DEF Physics!Pit
<1>3. n \in Int /\ n >= 3 /\ n <= 4
  OBVIOUS
<1>. DEFINE old == g.boxes
            p == <<i, i + 1, g.y - 16, g.y>>
            q == <<i + n, i + n + 1, g.y - 16, g.y>>
            new == {p, q}
<1>4. /\ p[1] = i /\ p[2] = i + 1 /\ p[3] = g.y - 16 /\ p[4] = g.y /\ p \in Quads
      /\ q[1] = i + n /\ q[2] = i + n + 1 /\ q[3] = g.y - 16 /\ q[4] = g.y /\ q \in Quads
  BY <1>1, <1>3, SMTT(60) DEF Quads
<1>5. /\ h.state = "PIT" /\ h.counter = n + 2 /\ h.original_y = g.y /\ h.boxes = old \cup new
      /\ h.terrain_y = g.terrain_y /\ h.y = g.y
  BY <1>1, <1>2 DEF Gens
<1>. HIDE DEF p, q
<1>6. h \in Gens
  <2>1. old \cup new \in SUBSET Quads /\ n + 2 \in Int
    BY <1>1, <1>3, <1>4, SMTT(60)
  <2>2. h = [g EXCEPT !.counter = n + 2, !.original_y = g.y, !.boxes = old \cup new]
    BY <1>2 DEF p, q
  <2>. HIDE DEF old, new
  <2>. QED BY <1>1, <2>1, <2>2 DEF Gens
<1>7. /\ EndBy(old, i) /\ Apart(old) /\ Levels(old, g.terrain_y) /\ Room(old, 5, i) /\ Len(g.terrain_y) = i
  BY DEF GroundOK
<1>8. EndBy(new, i + n + 2) /\ Apart(new) /\ \A b \in new : i <= b[1]
  BY <1>3, <1>4 DEF EndBy, Apart
<1>9. EndBy(old \cup new, i + n + 2) /\ Apart(old \cup new)
  <2>1. old \in SUBSET Quads /\ new \in SUBSET Quads /\ i + n + 2 \in Nat /\ i <= i + n + 2
    <3>1. new \in SUBSET Quads
      BY <1>4
    <3>2. i + n + 2 \in Nat /\ i <= i + n + 2
      BY <1>3
    <3>. QED BY <1>1, <3>1, <3>2
  <2>. HIDE DEF old, new
  <2>. QED BY <1>1, <1>7, <1>8, <2>1, Joined
<1>10. Room(old \cup new, 2, i + n + 2)
  <2>. SUFFICES ASSUME NEW b \in old \cup new, Wall(b) PROVE b[1] + 2 <= i + n + 2
    BY DEF Room
  <2>1. CASE b \in old
    <3>1. b[1] + 5 <= i /\ b[1] \in Int
      BY <1>1, <1>7, <2>1, QuadIs DEF Room
    <3>. QED BY <1>3, <3>1
  <2>2. CASE b \in new
    BY <1>3, <1>4, <2>2
  <2>. QED BY <2>1, <2>2
<1>11. ASSUME NEW b \in old \cup new, NEW c \in old \cup new, Paired(b, c)
       PROVE  (b \in old /\ c \in old /\ c[1] + 2 <= i) \/ (b = p /\ c = q)
  <2>1. Wall(b) /\ Wall(c) /\ c[1] >= b[1] + 3 /\ c[1] <= b[1] + 4 /\ b \in Quads /\ c \in Quads
    <3>1. b \in Quads /\ c \in Quads
      BY <1>1, <1>4
    <3>. QED BY <1>11, <3>1, QuadIs DEF Paired
  <2>2. \A x \in old : Wall(x) => x[1] + 5 <= i
    BY <1>7 DEF Room
  <2>3. CASE b \in old /\ c \in old
    BY <2>1, <2>2, <2>3, QuadIs
  <2>4. CASE b \in old /\ c \in new
    BY <1>3, <1>4, <2>1, <2>2, <2>4, QuadIs
  <2>5. CASE b \in new /\ c \in old
    BY <1>3, <1>4, <2>1, <2>2, <2>5, QuadIs
  <2>6. CASE b \in new /\ c \in new
    BY <1>3, <1>4, <2>1, <2>6
  <2>. QED BY <2>3, <2>4, <2>5, <2>6
<1>12. Levels(old \cup new, g.terrain_y)
  <2>. SUFFICES ASSUME NEW b \in old \cup new, NEW c \in old \cup new, Paired(b, c) PROVE Level(b, c, g.terrain_y)
    BY DEF Levels
  <2>1. CASE b \in old /\ c \in old
    BY <1>7, <2>1 DEF Levels
  <2>2. CASE b = p /\ c = q
    BY <1>4, <1>7, <2>2 DEF Level, LevelAt
  <2>. QED BY <1>11, <2>1, <2>2
<1>13. Drawing(old \cup new, i, i + n + 2, g.y, g.y)
  <2>. SUFFICES ASSUME NEW b \in old \cup new, NEW c \in old \cup new, Paired(b, c), ~(c[1] + 2 <= i)
                PROVE  b[4] = g.y /\ c[1] + 2 = i + n + 2 /\ b[1] <= i /\ LevelAt(b, c, i, g.y)
    BY DEF Drawing
  <2>1. b = p /\ c = q
    BY <1>11
  <2>. QED BY <1>1, <1>3, <1>4, <2>1 DEF LevelAt
<1>. HIDE DEF old, new
<1>14. i + h.counter = i + n + 2 /\ h.counter >= 1
  BY <1>3, <1>5
<1>. QED BY <1>5, <1>6, <1>7, <1>9, <1>10, <1>12, <1>13, <1>14 DEF DrawnOK

LEMMA PitGoesOn ==
  ASSUME NEW i \in Nat, NEW g, GroundOK(g, i), g.state = "PIT", ~g.oneshot, NEW h \in Physics!Pit(g, i)
  PROVE  DrawnOK(h, i)
<1>1. g \in Gens /\ g.boxes \in SUBSET Quads /\ g.original_y \in Int /\ g.counter \in Int /\ g.counter >= 1
  BY DEF GroundOK, Gens
<1>. DEFINE y == g.original_y - IF g.counter > 1 THEN 16 ELSE 0
<1>2. h = [g EXCEPT !.y = y]
  BY DEF Physics!Pit
<1>3. y \in Int
  BY <1>1
<1>. HIDE DEF y
<1>4. /\ h.state = "PIT" /\ h.counter = g.counter /\ h.original_y = g.original_y /\ h.boxes = g.boxes
      /\ h.terrain_y = g.terrain_y /\ h.y = y
  BY <1>1, <1>2 DEF Gens
<1>5. h \in Gens
  BY <1>1, <1>2, <1>3 DEF Gens
<1>6. Drawing(g.boxes, i, i + g.counter, g.original_y, y)
  <2>. SUFFICES ASSUME NEW b \in g.boxes, NEW c \in g.boxes, Paired(b, c), ~(c[1] + 2 <= i)
                PROVE  b[4] = g.original_y /\ c[1] + 2 = i + g.counter /\ b[1] <= i /\ LevelAt(b, c, i, y)
    BY DEF Drawing
  <2>1. b[4] = g.original_y /\ c[1] + 2 = i + g.counter /\ b[2] <= i
    BY DEF GroundOK, Behind
  <2>2. b \in Quads /\ c \in Quads /\ b[4] - b[3] = 16 /\ b[2] = b[1] + 1
    BY <1>1 DEF Paired, Wall
  <2>3. b[1] \in Int /\ b[2] \in Int /\ b[3] \in Int /\ b[4] \in Int /\ c[1] \in Int
    BY <2>2, QuadIs
  <2>4. b[1] <= i
    BY <2>1, <2>2, <2>3
  <2>5. i <= c[1] <=> g.counter > 1
    BY <1>1, <2>1, <2>3
  <2>6. LevelAt(b, c, i, y)
    BY <1>1, <2>1, <2>2, <2>3, <2>5 DEF LevelAt, y
  <2>. QED BY <2>1, <2>4, <2>6
<1>. QED BY <1>4, <1>5, <1>6 DEF GroundOK, DrawnOK

\* Stumps and stairs begin with boxes that are no walls.
LEMMA OthersBegin ==
  ASSUME NEW i \in Nat, NEW g, GroundOK(g, i), g.state \in {"STUMP", "STAIRS"}, g.oneshot,
         NEW n \in Nat, n >= 1, NEW new \in SUBSET Quads, \A b \in new : ~Wall(b), EndBy(new, i + n), Apart(new),
         \A b \in new : i <= b[1],
         NEW h \in Gens, h.state = g.state, h.counter = n, h.boxes = g.boxes \cup new, h.terrain_y = g.terrain_y
  PROVE  DrawnOK(h, i)
<1>. DEFINE old == g.boxes
<1>1. g \in Gens /\ old \in SUBSET Quads
  BY DEF GroundOK, Gens
<1>2. /\ EndBy(old, i) /\ Apart(old) /\ Levels(old, g.terrain_y) /\ Room(old, 5, i) /\ Room(old, 2, i) /\ Len(g.terrain_y) = i
  BY DEF GroundOK
<1>. HIDE DEF old
<1>3. EndBy(old \cup new, i + n) /\ Apart(old \cup new)
  <2>1. i + n \in Nat /\ i <= i + n
    OBVIOUS
  <2>. QED BY <1>1, <1>2, <2>1, Joined
<1>4. Room(old, 2, i + n)
  BY <1>1, <1>2, LaterRoom
<1>5. Room(old \cup new, 2, i + n) /\ Room(old \cup new, 2, i) /\ Levels(old \cup new, g.terrain_y)
  BY <1>2, <1>4, NoWalls
<1>6. h.boxes = old \cup new
  BY DEF old
<1>. QED BY <1>2, <1>3, <1>5, <1>6 DEF DrawnOK

\* They go on without a new box.
LEMMA OthersGoOn ==
  ASSUME NEW i \in Nat, NEW g, GroundOK(g, i), g.state \in {"STUMP", "STAIRS"}, ~g.oneshot,
         NEW h \in Gens, h.state = g.state, h.counter = g.counter, h.boxes = g.boxes, h.terrain_y = g.terrain_y
  PROVE  DrawnOK(h, i)
BY DEF GroundOK, DrawnOK

LEMMA StumpDraws ==
  ASSUME NEW i \in Nat, NEW g, GroundOK(g, i), g.state = "STUMP", NEW h \in Physics!Stump(g, i)
  PROVE  DrawnOK(h, i)
<1>1. g \in Gens /\ g.boxes \in SUBSET Quads /\ g.y \in Int
  BY DEF GroundOK, Gens
<1>2. CASE g.oneshot
  <2>1. PICK c \in 1..2 : h = [g EXCEPT !.counter = c, !.boxes = @ \cup {<<i, i + c, g.y, g.y + 4 * c>>}]
    BY <1>2 DEF Physics!Stump
  <2>. DEFINE b == <<i, i + c, g.y, g.y + 4 * c>>
              new == {b}
  <2>2. c \in Nat /\ c >= 1 /\ c <= 2
    OBVIOUS
  <2>3. /\ b[1] = i /\ b[2] = i + c /\ b[3] = g.y /\ b[4] = g.y + 4 * c /\ b \in Quads
    BY <1>1, <2>2 DEF Quads
  <2>4. h.state = g.state /\ h.counter = c /\ h.boxes = g.boxes \cup new /\ h.terrain_y = g.terrain_y
    BY <1>1, <2>1 DEF Gens
  <2>5. h = [g EXCEPT !.counter = c, !.boxes = g.boxes \cup new]
    BY <2>1
  <2>. HIDE DEF b
  <2>6. new \in SUBSET Quads /\ EndBy(new, i + c) /\ Apart(new) /\ \A x \in new : i <= x[1]
    BY <2>2, <2>3 DEF EndBy, Apart
  <2>7. \A x \in new : ~Wall(x)
    BY <1>1, <2>2, <2>3 DEF Wall
  <2>. HIDE DEF new
  <2>8. h \in Gens
    <3>1. g.boxes \cup new \in SUBSET Quads /\ c \in Int
      BY <1>1, <2>2, <2>6
    <3>. QED BY <1>1, <2>5, <3>1 DEF Gens
  <2>. QED BY <1>2, <2>2, <2>4, <2>6, <2>7, <2>8, OthersBegin
<1>3. CASE ~g.oneshot
  <2>1. h = g
    BY <1>3 DEF Physics!Stump
  <2>. QED BY <1>1, <1>3, <2>1, OthersGoOn
<1>. QED BY <1>1, <1>2, <1>3 DEF Gens

Stair(i, y, h, s) == <<i + 4 * s, i + 4 * (s + 1), y + 4 * (s * h - 1), y + 4 * s * h>>

LEMMA StairIs ==
  ASSUME NEW i \in Nat, NEW y \in Int, NEW h \in {1, -1}, NEW s \in Nat
  PROVE  LET b == Stair(i, y, h, s)
         IN  b \in Quads /\ b[1] = i + 4 * s /\ b[2] = b[1] + 4 /\ ~Wall(b)
<1>. DEFINE b == Stair(i, y, h, s)
            m == s * h
            k == 4 * s * h
<1>1. m \in Int /\ k \in Int /\ 4 * (m - 1) \in Int
  <2>1. CASE h = 1
    BY <2>1
  <2>2. CASE h = -1
    <3>1. -1 \in Int
      OBVIOUS
    <3>2. s * h \in Int /\ 4 * s \in Int
      BY <2>2, <3>1
    <3>. QED BY <2>2, <3>1, <3>2
  <2>. QED BY <2>1, <2>2
<1>2. b = <<i + 4 * s, i + 4 * (s + 1), y + 4 * (m - 1), y + k>>
  BY DEF Stair
<1>. HIDE DEF b, m, k
<1>3. b[1] = i + 4 * s /\ b[2] = i + 4 * (s + 1) /\ b[3] = y + 4 * (m - 1) /\ b[4] = y + k /\ b \in Quads
  BY <1>1, <1>2 DEF Quads
<1>4. b[2] = b[1] + 4 /\ b[1] \in Int
  BY <1>3
<1>5. ~Wall(b)
  BY <1>4 DEF Wall
<1>. QED BY <1>3, <1>4, <1>5 DEF b

LEMMA StairsDraw ==
  ASSUME NEW i \in Nat, NEW g, GroundOK(g, i), g.state = "STAIRS", NEW h \in Physics!Stairs(g, i)
  PROVE  DrawnOK(h, i)
<1>1. g \in Gens /\ g.boxes \in SUBSET Quads /\ g.y \in Int
  BY DEF GroundOK, Gens
<1>2. CASE g.oneshot
  <2>1. PICK r \in {1, -1}, n \in 3..4 :
          h = [g EXCEPT !.counter = n * 4, !.original_y = g.y, !.stair_height = r, !.stair_steps = n,
                 !.boxes = @ \cup {<<i + 4 * s, i + 4 * (s + 1), g.y + 4 * (s * r - 1), g.y + 4 * s * r>> : s \in 0..(n - 1)}]
    BY <1>2 DEF Physics!Stairs
  <2>. DEFINE new == {Stair(i, g.y, r, s) : s \in 0..(n - 1)}
  <2>2. n \in Nat /\ n >= 3 /\ n * 4 \in Nat /\ n * 4 >= 1 /\ r \in Int
    OBVIOUS
  <2>3. h = [g EXCEPT !.counter = n * 4, !.original_y = g.y, !.stair_height = r, !.stair_steps = n, !.boxes = g.boxes \cup new]
    BY <2>1 DEF Stair
  <2>4. \A b \in new : \E s \in Nat : s <= n - 1 /\ b = Stair(i, g.y, r, s)
    BY <2>2
  <2>. HIDE DEF new
  <2>5. \A b \in new : \E s \in Nat : s <= n - 1 /\ b[1] = i + 4 * s /\ b[2] = b[1] + 4
                                     /\ b \in Quads /\ ~Wall(b) /\ b = Stair(i, g.y, r, s)
    <3>. SUFFICES ASSUME NEW b \in new
                  PROVE \E s \in Nat : s <= n - 1 /\ b[1] = i + 4 * s /\ b[2] = b[1] + 4
                                     /\ b \in Quads /\ ~Wall(b) /\ b = Stair(i, g.y, r, s)
      OBVIOUS
    <3>1. PICK s \in Nat : s <= n - 1 /\ b = Stair(i, g.y, r, s)
      BY <2>4
    <3>2. Stair(i, g.y, r, s) \in Quads /\ Stair(i, g.y, r, s)[1] = i + 4 * s
          /\ Stair(i, g.y, r, s)[2] = Stair(i, g.y, r, s)[1] + 4 /\ ~Wall(Stair(i, g.y, r, s))
      BY <1>1, StairIs
    <3>. QED BY <3>1, <3>2
  <2>6. new \in SUBSET Quads /\ \A b \in new : ~Wall(b)
    BY <2>5
  <2>7. EndBy(new, i + n * 4) /\ \A x \in new : i <= x[1]
    <3>. SUFFICES ASSUME NEW x \in new PROVE 0 <= x[1] /\ x[1] < x[2] /\ x[2] <= i + n * 4 /\ i <= x[1]
      BY DEF EndBy
    <3>1. PICK s \in Nat : s <= n - 1 /\ x[1] = i + 4 * s /\ x[2] = x[1] + 4
      BY <2>5
    <3>. QED BY <2>2, <3>1
  <2>8. Apart(new)
    <3>. SUFFICES ASSUME NEW b \in new, NEW c \in new, b # c, b[1] <= c[1] PROVE b[2] <= c[1]
      BY DEF Apart
    <3>1. PICK s \in Nat : b[1] = i + 4 * s /\ b[2] = b[1] + 4 /\ b = Stair(i, g.y, r, s)
      BY <2>5
    <3>2. PICK t \in Nat : c[1] = i + 4 * t /\ c = Stair(i, g.y, r, t)
      BY <2>5
    <3>3. s # t
      BY <3>1, <3>2
    <3>. QED BY <3>1, <3>2, <3>3
  <2>9. h.state = g.state /\ h.counter = n * 4 /\ h.boxes = g.boxes \cup new /\ h.terrain_y = g.terrain_y
    BY <1>1, <2>3 DEF Gens
  <2>10. h \in Gens
    <3>1. g.boxes \cup new \in SUBSET Quads /\ n * 4 \in Int /\ n \in Int
      BY <1>1, <2>2, <2>6
    <3>. QED BY <1>1, <2>2, <2>3, <3>1 DEF Gens
  <2>. QED BY <1>2, <2>2, <2>6, <2>7, <2>8, <2>9, <2>10, OthersBegin
<1>3. CASE ~g.oneshot
  <2>. DEFINE y == g.original_y + (g.stair_steps * 4 - g.counter - g.stair_height) * g.stair_height
  <2>1. h = [g EXCEPT !.y = y]
    BY <1>3 DEF Physics!Stairs
  <2>2. y \in Int
    <3>1. g.original_y \in Int /\ g.stair_steps \in Int /\ g.counter \in Int /\ g.stair_height \in Int
      BY <1>1 DEF Gens
    <3>2. g.stair_steps * 4 - g.counter - g.stair_height \in Int
      BY <3>1
    <3>3. (g.stair_steps * 4 - g.counter - g.stair_height) * g.stair_height \in Int
      BY <3>1, <3>2
    <3>. QED BY <3>1, <3>3
  <2>. HIDE DEF y
  <2>3. h \in Gens
    BY <1>1, <2>1, <2>2 DEF Gens
  <2>4. h.state = g.state /\ h.counter = g.counter /\ h.boxes = g.boxes /\ h.terrain_y = g.terrain_y
    BY <1>1, <2>1 DEF Gens
  <2>. QED BY <1>3, <2>3, <2>4, OthersGoOn
<1>. QED BY <1>1, <1>2, <1>3 DEF Gens

LEMMA PointDraws ==
  ASSUME NEW i \in Nat, NEW g, GroundOK(g, i), NEW h \in Physics!Point(g, i)
  PROVE  DrawnOK(h, i)
<1>1. g.state \in TerrainStates /\ g.oneshot \in BOOLEAN
  BY DEF GroundOK, Gens
<1>2. CASE g.state = "GRASS"
  <2>1. h \in Physics!Grass(g, i)
    BY <1>2 DEF Physics!Point
  <2>. QED BY <1>2, <2>1, GrassDraws
<1>3. CASE g.state = "PIT"
  <2>1. h \in Physics!Pit(g, i)
    BY <1>3 DEF Physics!Point
  <2>. QED BY <1>1, <1>3, <2>1, PitBegins, PitGoesOn
<1>4. CASE g.state = "STUMP"
  <2>1. h \in Physics!Stump(g, i)
    BY <1>4 DEF Physics!Point
  <2>. QED BY <1>4, <2>1, StumpDraws
<1>5. CASE g.state = "STAIRS"
  <2>1. h \in Physics!Stairs(g, i)
    BY <1>5 DEF Physics!Point
  <2>. QED BY <1>5, <2>1, StairsDraw
<1>. QED BY <1>1, <1>2, <1>3, <1>4, <1>5 DEF TerrainStates

\* A point that is kept.
LEMMA KeptLevels ==
  ASSUME NEW i \in Nat, NEW h, DrawnOK(h, i), h.y \in Int, h.terrain_y \in Seq(Int)
  PROVE  Levels(h.boxes, Append(h.terrain_y, h.y))
<1>. DEFINE ys == Append(h.terrain_y, h.y)
<1>1. Len(h.terrain_y) = i /\ Len(ys) = i + 1 /\ ys[i + 1] = h.y /\ \A j \in Nat : j < i => ys[j + 1] = h.terrain_y[j + 1]
  BY AppendProperties DEF DrawnOK
<1>. HIDE DEF ys
<1>. SUFFICES ASSUME NEW b \in h.boxes, NEW c \in h.boxes, Paired(b, c), NEW j \in Nat, j < Len(ys)
              PROVE  LevelAt(b, c, j, ys[j + 1])
  BY DEF ys, Levels, Level
<1>2. CASE j < i
  BY <1>1, <1>2 DEF DrawnOK, Levels, Level
<1>3. CASE j = i
  <2>1. b \in Quads /\ c \in Quads /\ c[2] = c[1] + 1 /\ Wall(c)
    BY DEF DrawnOK, Gens, Paired, Wall
  <2>2. c[1] + 2 <= i \/ LevelAt(b, c, i, h.y)
    <3>1. CASE h.state = "PIT"
      BY <3>1 DEF DrawnOK, Drawing
    <3>2. CASE h.state # "PIT"
      BY <2>1, <3>2 DEF DrawnOK, Room
    <3>. QED BY <3>1, <3>2
  <2>3. c[1] + 2 <= i => ~(i <= c[2])
    BY <2>1, QuadIs
  <2>. QED BY <1>1, <1>3, <2>2, <2>3 DEF LevelAt
<1>. QED BY <1>1, <1>2, <1>3

\* What NextPoint() makes of a point: the state goes on, or a new one begins.
Kept(h) == [h EXCEPT !.oneshot = FALSE, !.terrain_y = Append(@, h.y), !.counter = @ - 1]
NewCounters == (TERRAIN_GRASS \div 2)..(TERRAIN_GRASS - 1)
NewStates(h, hardcore) == IF h.state = "GRASS" /\ hardcore THEN {"STUMP", "STAIRS", "PIT"} ELSE {"GRASS"}
Changed(h, c, st) == [Kept(h) EXCEPT !.counter = c, !.oneshot = TRUE, !.state = st]
LEMMA NextPointIs ==
  ASSUME NEW h, NEW hardcore
  PROVE  Physics!NextPoint(h, hardcore) = IF Kept(h).counter # 0 THEN {Kept(h)}
                 ELSE {Changed(h, c, st) : c \in NewCounters, st \in NewStates(h, hardcore)}
BY DEF Physics!NextPoint, Kept, NewCounters, NewStates, Changed

LEMMA PointKept ==
  ASSUME NEW i \in Nat, NEW h, DrawnOK(h, i), NEW hardcore, NEW g \in Physics!NextPoint(h, hardcore)
  PROVE  GroundOK(g, i + 1)
<1>1. /\ h \in Gens /\ h.boxes \in SUBSET Quads /\ h.counter \in Int /\ h.counter >= 1 /\ h.y \in Int /\ h.terrain_y \in Seq(Int)
      /\ h.original_y \in Int /\ h.state \in TerrainStates /\ Len(h.terrain_y) = i
  BY DEF DrawnOK, Gens
<1>. DEFINE ys == Append(h.terrain_y, h.y)
            k == Kept(h)
            States == NewStates(h, hardcore)
<1>2. ys \in Seq(Int) /\ Len(ys) = i + 1 /\ Levels(h.boxes, ys)
  BY <1>1, AppendProperties, KeptLevels
<1>. HIDE DEF ys
<1>3. /\ k \in Gens /\ k.state = h.state /\ k.counter = h.counter - 1 /\ k.oneshot = FALSE /\ k.boxes = h.boxes
      /\ k.terrain_y = ys /\ k.original_y = h.original_y
  <2>1. h.counter - 1 \in Int /\ FALSE \in BOOLEAN
    BY <1>1
  <2>. DEFINE n == h.counter - 1
  <2>. HIDE DEF n
  <2>2. k = [h EXCEPT !.oneshot = FALSE, !.terrain_y = ys, !.counter = n]
    BY DEF n, Kept, ys
  <2>3. n \in Int
    BY <2>1 DEF n
  <2>. HIDE DEF k
  <2>4. k \in Gens
    BY <1>1, <1>2, <2>1, <2>2, <2>3 DEF Gens
  <2>5. /\ k.state = h.state /\ k.counter = n /\ k.oneshot = FALSE /\ k.boxes = h.boxes
        /\ k.terrain_y = ys /\ k.original_y = h.original_y
    BY <1>1, <2>2 DEF Gens
  <2>. QED BY <2>4, <2>5 DEF n
<1>4. Physics!NextPoint(h, hardcore) = IF k.counter # 0 THEN {k} ELSE {Changed(h, c, st) : c \in NewCounters, st \in States}
  BY NextPointIs
<1>. HIDE DEF k, States
<1>5. CASE k.counter # 0
  <2>1. g = k
    BY <1>4, <1>5
  <2>2. g.counter \in Int /\ g.counter >= 1 /\ (i + 1) + g.counter = i + h.counter /\ i \in Int /\ i + 1 \in Int
    BY <1>1, <1>3, <1>5, <2>1
  <2>3. EndBy(g.boxes, IF g.state = "GRASS" \/ g.oneshot THEN i + 1 ELSE (i + 1) + g.counter)
    BY <1>1, <1>3, <2>1, <2>2, LaterEnd DEF DrawnOK
  <2>4. g.state = "GRASS" => Room(g.boxes, 5, (i + 1) + g.counter)
    BY <1>3, <2>1, <2>2 DEF DrawnOK
  <2>5. g.state # "GRASS" => Room(g.boxes, 2, (i + 1) + g.counter)
    BY <1>3, <2>1, <2>2 DEF DrawnOK
  <2>6. g.state # "PIT" => Room(g.boxes, 2, i + 1)
    BY <1>1, <1>3, <2>1, <2>2, LaterRoom DEF DrawnOK
  <2>7. g.state = "PIT" => Behind(g.boxes, i + 1, (i + 1) + g.counter, g.original_y)
    <3>. SUFFICES ASSUME g.state = "PIT", NEW b \in g.boxes, NEW c \in g.boxes, Paired(b, c)
                  PROVE  c[1] + 2 <= i + 1 \/ (b[4] = g.original_y /\ c[1] + 2 = (i + 1) + g.counter /\ b[2] <= i + 1)
      BY DEF Behind
    <3>1. c[1] + 2 <= i \/ (b[4] = h.original_y /\ c[1] + 2 = i + h.counter /\ b[1] <= i)
      BY <1>3, <2>1 DEF DrawnOK, Drawing
    <3>2. b \in Quads /\ c \in Quads /\ b[2] = b[1] + 1
      BY <1>1, <1>3, <2>1 DEF Paired, Wall
    <3>3. b[1] \in Int /\ c[1] \in Int
      BY <3>2, QuadIs
    <3>4. g.original_y = h.original_y
      BY <1>3, <2>1
    <3>. QED BY <2>2, <3>1, <3>2, <3>3, <3>4
  <2>8. /\ g \in Gens /\ Len(g.terrain_y) = i + 1 /\ Apart(g.boxes) /\ Levels(g.boxes, g.terrain_y) /\ ~g.oneshot
    BY <1>2, <1>3, <2>1 DEF DrawnOK
  <2>. QED BY <2>2, <2>3, <2>4, <2>5, <2>6, <2>7, <2>8 DEF GroundOK
<1>6. CASE k.counter = 0
  <2>1. PICK c \in NewCounters, st \in States : g = [k EXCEPT !.counter = c, !.oneshot = TRUE, !.state = st]
    <3>1. PICK c \in NewCounters, st \in States : g = Changed(h, c, st)
      BY <1>4, <1>6
    <3>. QED BY <3>1 DEF Changed, k
  <2>2. c \in Int /\ c >= 3 /\ c >= 1
    BY GrassConstants DEF NewCounters
  <2>3. st \in TerrainStates /\ (h.state = "GRASS" \/ st = "GRASS")
    BY DEF States, NewStates, TerrainStates
  <2>4. h.counter = 1
    BY <1>1, <1>3, <1>6
  <2>5. /\ g \in Gens /\ g.state = st /\ g.counter = c /\ g.oneshot = TRUE /\ g.boxes = h.boxes /\ g.terrain_y = ys
    BY <1>3, <2>1, <2>2, <2>3 DEF Gens
  <2>6. EndBy(h.boxes, i + 1)
    <3>1. i + h.counter = i + 1 /\ i \in Int /\ i + 1 \in Int /\ i <= i + 1
      BY <2>4
    <3>. QED BY <1>1, <3>1, LaterEnd DEF DrawnOK
  <2>7. Room(h.boxes, 2, i + 1)
    <3>1. CASE h.state = "GRASS"
      <4>1. Room(h.boxes, 5, i + 1)
        BY <2>4, <3>1 DEF DrawnOK
      <4>2. 2 \in Int /\ 5 \in Int /\ i + 1 \in Int /\ (i + 1) - 2 >= (i + 1) - 5
        OBVIOUS
      <4>. QED BY <1>1, <4>1, <4>2, LaterRoom
    <3>2. CASE h.state # "GRASS"
      BY <2>4, <3>2 DEF DrawnOK
    <3>. QED BY <3>1, <3>2
  <2>8. Room(h.boxes, 5, (i + 1) + c)
    <3>. DEFINE j == i + 1
                k1 == (i + 1) + c
                B == h.boxes
    <3>1. 2 \in Int /\ 5 \in Int /\ j \in Int /\ k1 \in Int /\ k1 - 5 >= j - 2
      BY <2>2
    <3>2. B \in SUBSET Quads /\ Room(B, 2, j)
      BY <1>1, <2>7
    <3>. HIDE DEF j, k1, B
    <3>3. Room(B, 5, k1)
      BY <3>1, <3>2, LaterRoom
    <3>. QED BY <3>3 DEF k1, B
  <2>9. st # "GRASS" => Room(h.boxes, 5, i + 1)
    BY <2>3, <2>4 DEF DrawnOK
  <2>10. Apart(h.boxes)
    BY DEF DrawnOK
  <2>. QED BY <1>2, <2>2, <2>5, <2>6, <2>7, <2>8, <2>9, <2>10 DEF GroundOK
<1>. QED BY <1>5, <1>6

\* What is drawn from a set of beginnings, and all that is drawn.
NextGens(gens, i, hardcore) == UNION {UNION {Physics!NextPoint(h, hardcore) : h \in Physics!Point(g, i - 1)} : g \in gens}
FirstGen == [state |-> "GRASS", counter |-> TERRAIN_STARTPAD, oneshot |-> FALSE, y |-> 0, original_y |-> 0,
             stair_height |-> 0, stair_steps |-> 0, boxes |-> {}, terrain_y |-> <<>>]
DrawnBy(f, n, hardcore) == f = [i \in 0..n |-> IF i = 0 THEN {FirstGen} ELSE NextGens(f[i - 1], i, hardcore)]
Grounds(i) == {g \in Gens : GroundOK(g, i)}

LEMMA FirstGround == FirstGen \in Grounds(0)
<1>. DEFINE g == FirstGen
<1>1. g \in Gens
  <2>1. TERRAIN_STARTPAD \in Int /\ <<>> \in Seq(Int) /\ {} \in SUBSET Quads
    BY GrassConstants
  <2>. QED BY <2>1 DEF FirstGen, Gens, TerrainStates
<1>2. g.state = "GRASS" /\ g.counter = TERRAIN_STARTPAD /\ g.oneshot = FALSE /\ g.boxes = {} /\ g.terrain_y = <<>>
  BY DEF FirstGen
<1>3. EndBy({}, 0) /\ Apart({}) /\ Levels({}, <<>>) /\ Room({}, 5, 0 + g.counter) /\ Room({}, 2, 0) /\ Len(<<>>) = 0
  BY DEF EndBy, Apart, Levels, Room
<1>4. g.counter >= 1
  BY <1>2, GrassConstants
<1>. HIDE DEF g
<1>5. GroundOK(g, 0)
  BY <1>1, <1>2, <1>3, <1>4 DEF GroundOK
<1>. QED BY <1>1, <1>5 DEF Grounds, g

LEMMA NextGround ==
  ASSUME NEW i \in Nat, NEW gens \in SUBSET Grounds(i), NEW hardcore
  PROVE  NextGens(gens, i + 1, hardcore) \in SUBSET Grounds(i + 1)
<1>. SUFFICES ASSUME NEW g \in gens, NEW h \in Physics!Point(g, i), NEW k \in Physics!NextPoint(h, hardcore)
              PROVE  k \in Grounds(i + 1)
  <2>1. (i + 1) - 1 = i
    OBVIOUS
  <2>. QED BY <2>1 DEF NextGens
<1>1. GroundOK(g, i)
  BY DEF Grounds
<1>2. DrawnOK(h, i)
  BY <1>1, PointDraws
<1>3. GroundOK(k, i + 1)
  BY <1>2, PointKept
<1>. QED BY <1>3 DEF Grounds, GroundOK

\* The recursion that draws a terrain: a beginning that is well formed leads to
\* others, and the rest is left out.
LEMMA DrawnExists ==
  ASSUME NEW n \in Nat, NEW hardcore
  PROVE  \E f : DrawnBy(f, n, hardcore) /\ \A i \in 0..n : f[i] \in SUBSET Grounds(i)
<1>. DEFINE T == SUBSET Gens
            Goes(i, gens) == IF gens \subseteq Grounds(i - 1) THEN NextGens(gens, i, hardcore) ELSE {}
            F == [i \in Nat |-> [gens \in T |-> IF i = 0 THEN {} ELSE Goes(i, gens)]]
<1>1. \A i \in Nat, gens \in T : i # 0 => Goes(i, gens) \in T
  <2>. SUFFICES ASSUME NEW i \in Nat, i # 0, NEW gens \in T, gens \subseteq Grounds(i - 1)
                PROVE  NextGens(gens, i, hardcore) \in T
    OBVIOUS
  <2>. DEFINE j == i - 1
  <2>1. j \in Nat /\ j + 1 = i /\ gens \in SUBSET Grounds(j)
    OBVIOUS
  <2>. HIDE DEF j
  <2>2. NextGens(gens, j + 1, hardcore) \in SUBSET Grounds(j + 1)
    BY <2>1, NextGround
  <2>3. NextGens(gens, i, hardcore) \in SUBSET Grounds(i)
    BY <2>1, <2>2
  <2>. QED BY <2>3 DEF Grounds
<1>2. {FirstGen} \in T
  BY FirstGround DEF Grounds
<1>. HIDE DEF T, Goes
<1>3. F \in [Nat -> [T -> T]]
  <2>1. {} \in T
    BY DEF T
  <2>. QED BY <1>1, <2>1
<1>4. \A i \in Nat, gens \in T : i # 0 => F[i][gens] = Goes(i, gens)
  OBVIOUS
<1>. HIDE DEF F
<1>5. PICK f : Recurs(f, T, {FirstGen}, F, n)
  BY <1>2, <1>3, Iterates
<1>. DEFINE N == {i \in Nat : i <= n => f[i] \in SUBSET Grounds(i)}
<1>6. ASSUME NEW i \in Nat, i + 1 <= n
      PROVE  f[i] \in T /\ f[i + 1] = Goes(i + 1, f[i])
  <2>1. i + 1 \in 1..n /\ i \in 0..n /\ (i + 1) - 1 = i /\ i + 1 \in Nat /\ i + 1 # 0
    BY <1>6
  <2>. QED BY <1>4, <1>5, <2>1 DEF Recurs
<1>7. ASSUME NEW i \in Nat, i + 1 <= n, f[i] \in SUBSET Grounds(i)
      PROVE  f[i + 1] = NextGens(f[i], i + 1, hardcore)
  <2>1. (i + 1) - 1 = i
    OBVIOUS
  <2>2. Goes(i + 1, f[i]) = NextGens(f[i], i + 1, hardcore)
    BY <1>7, <2>1 DEF Goes
  <2>. QED BY <1>6, <1>7, <2>2
<1>8. N = Nat
  <2>1. 0 \in N
    <3>1. f[0] = {FirstGen}
      BY <1>5 DEF Recurs
    <3>. QED BY <3>1, FirstGround
  <2>2. ASSUME NEW i \in N PROVE i + 1 \in N
    <3>1. i \in Nat /\ i + 1 \in Nat /\ (i + 1 <= n => i <= n)
      OBVIOUS
    <3>. SUFFICES ASSUME i + 1 <= n PROVE f[i + 1] \in SUBSET Grounds(i + 1)
      BY <3>1
    <3>2. f[i] \in SUBSET Grounds(i)
      BY <3>1
    <3>. QED BY <1>7, <3>1, <3>2, NextGround
  <2>3. N \in SUBSET Nat
    OBVIOUS
  <2>. HIDE DEF N
  <2>. QED BY <2>1, <2>2, <2>3, FromZero
<1>9. \A i \in 0..n : f[i] \in SUBSET Grounds(i)
  BY <1>8
<1>10. \A i \in 0..n : f[i] = IF i = 0 THEN {FirstGen} ELSE NextGens(f[i - 1], i, hardcore)
  <2>. SUFFICES ASSUME NEW i \in 0..n, i # 0 PROVE f[i] = NextGens(f[i - 1], i, hardcore)
    BY <1>5 DEF Recurs
  <2>. DEFINE j == i - 1
  <2>1. j \in Nat /\ j + 1 = i /\ j + 1 <= n /\ j \in 0..n
    OBVIOUS
  <2>. HIDE DEF j
  <2>2. f[j + 1] = NextGens(f[j], j + 1, hardcore)
    BY <1>7, <1>9, <2>1
  <2>. QED BY <2>1, <2>2 DEF j
<1>11. f = [i \in 0..n |-> f[i]]
  BY <1>5 DEF Recurs
<1>12. DrawnBy(f, n, hardcore)
  BY <1>10, <1>11 DEF DrawnBy
<1>. QED BY <1>9, <1>12

\* There is one such recursion.
LEMMA DrawnIsOne ==
  ASSUME NEW n \in Nat, NEW hardcore, NEW f, DrawnBy(f, n, hardcore), NEW g, DrawnBy(g, n, hardcore)
  PROVE  f = g
<1>. DEFINE N == {i \in Nat : i <= n => f[i] = g[i]}
<1>1. \A i \in 0..n : /\ f[i] = IF i = 0 THEN {FirstGen} ELSE NextGens(f[i - 1], i, hardcore)
                      /\ g[i] = IF i = 0 THEN {FirstGen} ELSE NextGens(g[i - 1], i, hardcore)
  BY DEF DrawnBy
<1>2. 0 \in N
  BY <1>1
<1>3. ASSUME NEW i \in N PROVE i + 1 \in N
  <2>1. i \in Nat /\ i + 1 \in Nat /\ (i + 1) - 1 = i /\ i + 1 # 0
    OBVIOUS
  <2>. SUFFICES ASSUME i + 1 <= n PROVE f[i + 1] = g[i + 1]
    BY <2>1
  <2>2. f[i] = g[i] /\ i + 1 \in 0..n
    BY <2>1
  <2>. QED BY <1>1, <2>1, <2>2
<1>4. N = Nat
  <2>1. N \in SUBSET Nat
    OBVIOUS
  <2>. HIDE DEF N
  <2>. QED BY <1>2, <1>3, <2>1, FromZero
<1>5. \A i \in 0..n : f[i] = g[i]
  BY <1>4
<1>6. f = [i \in 0..n |-> f[i]] /\ g = [i \in 0..n |-> g[i]]
  BY DEF DrawnBy
<1>. QED BY <1>5, <1>6

LEMMA TerrainsAre ==
  ASSUME NEW hardcore, NEW t \in Physics!TerrainsOf(hardcore)
  PROVE  \E g \in Grounds(TERRAIN_LENGTH) : t = [boxes |-> g.boxes, terrain_y |-> g.terrain_y]
<1>. DEFINE n == TERRAIN_LENGTH
            f == CHOOSE g : DrawnBy(g, n, hardcore)
<1>1. Physics!TerrainsOf(hardcore) = {[boxes |-> g.boxes, terrain_y |-> g.terrain_y] : g \in f[n]}
  <2>1. Physics!TerrainsOf(hardcore) =
          {[boxes |-> g.boxes, terrain_y |-> g.terrain_y] :
             g \in (CHOOSE x : x = [i \in 0..TERRAIN_LENGTH |->
                       IF i = 0 THEN {[state |-> "GRASS", counter |-> TERRAIN_STARTPAD, oneshot |-> FALSE, y |-> 0, original_y |-> 0,
                                       stair_height |-> 0, stair_steps |-> 0, boxes |-> {}, terrain_y |-> <<>>]}
                       ELSE UNION {UNION {Physics!NextPoint(h, hardcore) : h \in Physics!Point(g, i - 1)} : g \in x[i - 1]}])[TERRAIN_LENGTH]}
    BY DEF Physics!TerrainsOf
  <2>. QED BY <2>1 DEF DrawnBy, NextGens, FirstGen
<1>2. n \in Nat
  BY GrassConstants
<1>. HIDE DEF n
<1>3. PICK g : DrawnBy(g, n, hardcore) /\ \A i \in 0..n : g[i] \in SUBSET Grounds(i)
  BY <1>2, DrawnExists
<1>4. f[n] \in SUBSET Grounds(n)
  <2>1. DrawnBy(f, n, hardcore)
    BY <1>3
  <2>. HIDE DEF f
  <2>2. f = g
    BY <1>2, <1>3, <2>1, DrawnIsOne
  <2>. QED BY <1>2, <1>3, <2>2
<1>. HIDE DEF f
<1>5. PICK k \in f[n] : t = [boxes |-> k.boxes, terrain_y |-> k.terrain_y]
  BY <1>1
<1>. QED BY <1>4, <1>5 DEF n

LEMMA TerrainsSound ==
  ASSUME NEW hardcore, NEW t \in Physics!TerrainsOf(hardcore)
  PROVE  TerrainSound(t)
<1>1. PICK g \in Grounds(TERRAIN_LENGTH) : t = [boxes |-> g.boxes, terrain_y |-> g.terrain_y]
  BY TerrainsAre
<1>. DEFINE n == TERRAIN_LENGTH
            ys == t.terrain_y
            walls == {b \in t.boxes : b[4] - b[3] = 16 /\ b[2] = b[1] + 1}
            first == {b \in walls : \E c \in walls : c[4] = b[4] /\ c[1] \in b[1] + 3..b[1] + 4}
<1>2. t.boxes = g.boxes /\ ys = g.terrain_y /\ GroundOK(g, n) /\ n \in Nat
  BY <1>1, GrassConstants DEF Grounds
<1>3. /\ t.boxes \in SUBSET Quads /\ Len(ys) = n /\ EndBy(t.boxes, n + g.counter) /\ Apart(t.boxes) /\ Levels(t.boxes, ys)
  <2>1. t.boxes \in SUBSET Quads /\ Len(ys) = n /\ Apart(t.boxes) /\ Levels(t.boxes, ys) /\ g.counter \in Int /\ g.counter >= 1
    BY <1>2 DEF GroundOK, Gens
  <2>2. n + g.counter \in Int /\ n <= n + g.counter /\ n \in Int
    BY <1>2, <2>1
  <2>3. EndBy(t.boxes, n) \/ EndBy(t.boxes, n + g.counter)
    BY <1>2 DEF GroundOK
  <2>. QED BY <2>1, <2>2, <2>3, LaterEnd
<1>. HIDE DEF n, ys
<1>4. ASSUME NEW b \in first
      PROVE  \E c \in walls : /\ c[4] = b[4] /\ c[1] \in {b[1] + 3, b[1] + 4}
                              /\ \A i \in b[1]..c[2] : i < n =>
                                    ys[i + 1] = IF b[2] <= i /\ i <= c[1] THEN b[3] ELSE b[4]
  <2>1. PICK c \in walls : c[4] = b[4] /\ c[1] \in b[1] + 3..b[1] + 4
    OBVIOUS
  <2>2. b \in t.boxes /\ c \in t.boxes /\ Wall(b) /\ Wall(c) /\ b \in Quads /\ c \in Quads
    BY <1>3 DEF Wall
  <2>3. b[1] \in Int /\ c[1] \in Int /\ c[2] \in Int /\ 0 <= b[1]
    BY <1>3, <2>2, QuadIs DEF EndBy
  <2>4. c[1] = b[1] + 3 \/ c[1] = b[1] + 4
    BY <2>1, <2>3
  <2>5. Level(b, c, ys)
    BY <1>3, <2>1, <2>2, <2>4 DEF Levels, Paired
  <2>6. ASSUME NEW i \in b[1]..c[2], i < n
        PROVE  ys[i + 1] = IF b[2] <= i /\ i <= c[1] THEN b[3] ELSE b[4]
    <3>1. i \in Nat /\ b[1] <= i /\ i <= c[2] /\ i < Len(ys)
      BY <1>3, <2>3, <2>6
    <3>. QED BY <2>5, <3>1 DEF Level, LevelAt
  <2>. QED BY <2>1, <2>4, <2>6
<1>5. \A b, c \in t.boxes : b # c /\ b[1] <= c[1] => b[2] <= c[1]
  BY <1>3 DEF Apart
<1>. QED BY <1>3, <1>4, <1>5 DEF TerrainSound, n, ys

-----------------------------------------------------------------------------
(* The walker on it.                                                       *)

WalkerIs(s) == s = [terrain |-> s.terrain, x |-> s.x, legs |-> s.legs, game_over |-> s.game_over]
WalkerInv(e) == /\ WalkerSound(e) /\ Shown(e) /\ WalkerIs(e.st)
                /\ LegOK(e.st.legs[1]) /\ LegOK(e.st.legs[2])

LEMMA BoxOfPair ==
  ASSUME NEW l \in Int, NEW h \in Int, NEW x \in Int, NEW y \in Int, NEW f,
         l <= x, x <= h, l <= y, y <= h
  PROVE  S!Contains(S!Box([i \in 1..2 |-> l], [i \in 1..2 |-> h], f), <<x, y>>)
<1>. DEFINE low == [i \in 1..2 |-> l]
            high == [i \in 1..2 |-> h]
            obs == <<x, y>>
<1>1. DOMAIN obs = DOMAIN low /\ \A i \in DOMAIN obs : low[i] <= obs[i] /\ obs[i] <= high[i]
  OBVIOUS
<1>. HIDE DEF obs, low, high
<1>2. S!Contains(S!Box(low, high, f), obs)
  BY <1>1, BoxIs
<1>. QED BY <1>2 DEF obs, low, high

LEMMA WalkerSpaces ==
  ASSUME NEW e, e.cls = "BipedalWalker"
  PROVE  /\ ObsSpace(e) = S!Box([i \in 1..2 |-> -1000], [i \in 1..2 |-> 1000], TRUE)
         /\ ActionSpace(e) = S!Box(<<-1, -1, -1, -1>>, <<1, 1, 1, 1>>, TRUE)
<1>1. e.cls \in BoxClasses
  BY DEF BoxClasses
<1>2. ObsSpace(e) = S!Box([i \in 1..2 |-> -1000], [i \in 1..2 |-> 1000], TRUE)
  BY <1>1, OfBox DEF Physics!BoxObsSpace, Physics!Box, S!Box
<1>3. ActionSpace(e) = S!Box(<<-1, -1, -1, -1>>, <<1, 1, 1, 1>>, TRUE)
  BY <1>1, OfBox DEF Physics!BoxActions, Physics!Box, S!Box
<1>. QED BY <1>2, <1>3

LEMMA WalkerShown ==
  ASSUME NEW e, e.cls = "BipedalWalker", e.obs = Physics!WalkerObs(e.st), LegOK(e.st.legs[1]), LegOK(e.st.legs[2])
  PROVE  Shown(e) /\ LegsSound(e)
<1>. DEFINE x == Physics!Bit(e.st.legs[1].ground_contact)
            y == Physics!Bit(e.st.legs[2].ground_contact)
            l == -1000
            h == 1000
<1>1. /\ x \in Int /\ 0 <= x /\ x <= 1 /\ y \in Int /\ 0 <= y /\ y <= 1
  BY BitIs DEF LegOK
<1>2. e.obs = <<x, y>>
  BY DEF Physics!WalkerObs
<1>. HIDE DEF x, y
<1>3. l \in Int /\ h \in Int /\ x \in Int /\ y \in Int /\ l <= x /\ x <= h /\ l <= y /\ y <= h
  BY <1>1
<1>. HIDE DEF l, h
<1>4. S!Contains(S!Box([i \in 1..2 |-> l], [i \in 1..2 |-> h], TRUE), <<x, y>>)
  BY <1>3, BoxOfPair
<1>5. Shown(e)
  BY <1>2, <1>4, WalkerSpaces, ZenonT(60) DEF Shown, l, h
<1>6. LegsSound(e)
  BY DEF LegsSound, LegOK
<1>. QED BY <1>5, <1>6

LEMMA WalkerReset ==
  ASSUME NEW e, e.cls = "BipedalWalker", KwOK(e.cls, e.kw), NEW r \in Physics!BoxReset(e.cls, e.kw), Fresh(e, r)
  PROVE  WalkerInv(e)
<1>1. e.kw.hardcore \in BOOLEAN
  BY DEF KwOK
<1>2. PICK s \in Physics!WalkerReset(e.kw) : r = <<s, Physics!WalkerObs(s)>>
  BY DEF Physics!BoxReset
<1>3. PICK t \in Physics!TerrainsOf(e.kw.hardcore) :
        s = [terrain |-> t, x |-> TERRAIN_STARTPAD \div 2, legs |-> <<Physics!Airborne, Physics!Airborne>>, game_over |-> FALSE]
  BY <1>1 DEF Physics!WalkerReset, Physics!Terrains
<1>4. e.st = s /\ e.obs = Physics!WalkerObs(s) /\ e.done = FALSE /\ e.rew = 0
  BY <1>2 DEF Fresh
<1>5. e.st.terrain = t /\ e.st.legs[1] = Physics!Airborne /\ e.st.legs[2] = Physics!Airborne /\ WalkerIs(e.st)
  BY <1>3, <1>4 DEF WalkerIs
<1>6. LegOK(e.st.legs[1]) /\ LegOK(e.st.legs[2])
  BY <1>5, AirborneIs
<1>7. Shown(e) /\ LegsSound(e)
  BY <1>4, <1>6, WalkerShown
<1>8. TerrainSound(e.st.terrain)
  BY <1>5, TerrainsSound
<1>9. e.rew # -100
  BY <1>4
<1>. QED BY <1>5, <1>6, <1>7, <1>8, <1>9 DEF WalkerInv, WalkerSound

LEMMA WalkerStep ==
  ASSUME NEW d, NEW e, e.cls = "BipedalWalker", KwOK(e.cls, e.kw), WalkerInv(d), NEW a,
         NEW o \in Physics!BoxStep(d.cls, d.kw, d.st, a), After(d, e, o)
  PROVE  WalkerInv(e)
<1>. DEFINE s == d.st
            kw == e.kw
            L == Physics!Touches(s.legs[1], kw.ground) \X Physics!Touches(s.legs[2], kw.ground)
            T(dx, legs, falls) == [s EXCEPT !.x = @ + dx, !.legs = legs, !.game_over = @ \/ falls]
            Failed(t) == t.game_over \/ t.x < 0
            Goes(dx, legs, falls) ==
              Physics!BoxOut(T(dx, legs, falls), Physics!WalkerObs(T(dx, legs, falls)), IF Failed(T(dx, legs, falls)) THEN -100 ELSE 0,
                             Failed(T(dx, legs, falls)) \/ T(dx, legs, falls).x > TERRAIN_LENGTH - TERRAIN_GRASS)
<1>1. /\ d.cls = "BipedalWalker" /\ d.kw = kw /\ LegOK(s.legs[1]) /\ LegOK(s.legs[2]) /\ WalkerIs(s) /\ TerrainSound(s.terrain)
  BY DEF After, WalkerInv, WalkerSound
<1>2. kw.ground \in Nat
  BY DEF KwOK
<1>3. o \in Physics!WalkerStep(kw, s)
  BY <1>1 DEF Physics!BoxStep
<1>4. PICK dx \in kw.moves, legs \in L, falls \in BOOLEAN : o = Goes(dx, legs, falls)
  <2>1. Physics!WalkerStep(kw, s) = {Goes(dx, legs, falls) : dx \in kw.moves, legs \in L, falls \in BOOLEAN}
    BY DEF Physics!WalkerStep
  <2>. HIDE DEF L, Goes
  <2>. QED BY <1>3, <2>1
<1>5. LegOK(legs[1]) /\ LegOK(legs[2])
  <2>1. legs[1] \in Physics!Touches(s.legs[1], kw.ground) /\ legs[2] \in Physics!Touches(s.legs[2], kw.ground)
    OBVIOUS
  <2>. QED BY <1>1, <1>2, <2>1, TouchesIs
<1>. HIDE DEF L
<1>. DEFINE t == T(dx, legs, falls)
            over == Failed(t) \/ t.x > TERRAIN_LENGTH - TERRAIN_GRASS
<1>6. t.terrain = s.terrain /\ t.legs = legs /\ WalkerIs(t)
  <2>. DEFINE x == s.x + dx
              g == s.game_over \/ falls
  <2>1. t = [s EXCEPT !.x = x, !.legs = legs, !.game_over = g]
    OBVIOUS
  <2>. HIDE DEF x, g, t
  <2>2. t = [terrain |-> s.terrain, x |-> x, legs |-> legs, game_over |-> g]
    BY <1>1, <2>1 DEF WalkerIs
  <2>. QED BY <2>2 DEF WalkerIs
<1>7. o = Physics!BoxOut(t, Physics!WalkerObs(t), IF Failed(t) THEN -100 ELSE 0, over)
  BY <1>4
<1>. DEFINE failing == Failed(t)
<1>8. failing => over
  OBVIOUS
<1>9. o = Physics!BoxOut(t, Physics!WalkerObs(t), IF failing THEN -100 ELSE 0, over)
  BY <1>7
<1>. HIDE DEF t, over, failing
<1>10. e.st = t /\ e.obs = Physics!WalkerObs(t) /\ e.rew = (IF failing THEN -100 ELSE 0) /\ e.done = over
  BY <1>9 DEF After, Physics!BoxOut
<1>11. Shown(e) /\ LegsSound(e)
  BY <1>5, <1>6, <1>10, WalkerShown
<1>12. TerrainSound(e.st.terrain) /\ WalkerIs(e.st) /\ LegOK(e.st.legs[1]) /\ LegOK(e.st.legs[2])
  BY <1>1, <1>5, <1>6, <1>10
<1>13. e.rew = -100 => e.done
  <2>1. CASE failing
    BY <1>8, <1>10, <2>1
  <2>2. CASE ~failing
    <3>1. e.rew = 0
      BY <1>10, <2>2
    <3>2. 0 # -100
      OBVIOUS
    <3>. QED BY <3>1, <3>2
  <2>. QED BY <2>1, <2>2
<1>. QED BY <1>11, <1>12, <1>13 DEF WalkerInv, WalkerSound

-----------------------------------------------------------------------------
(* The racing car: its track, its tiles, and its limit of steps.           *)

LEMMA CardinalityIs == ASSUME NEW T PROVE Physics!Cardinality(T) = Cardinality(T)
BY DEF Physics!Cardinality, Cardinality, Physics!IsFiniteSet, IsFiniteSet

LEMMA LargestIs ==
  ASSUME NEW n \in Nat, NEW C \in SUBSET (0..n), C # {}
  PROVE  Physics!Largest(C) \in C /\ \A j \in C : j <= Physics!Largest(C)
<1>. DEFINE Has(D) == \E x \in D : \A j \in D : j <= x
            N == {m \in Nat : \A D \in SUBSET (0..m) : D # {} => Has(D)}
<1>1. 0 \in N
  <2>. SUFFICES ASSUME NEW D \in SUBSET (0..0), D # {} PROVE Has(D)
    OBVIOUS
  <2>1. \A j \in 0..0 : j = 0
    OBVIOUS
  <2>2. \A j \in D : j = 0
    BY <2>1
  <2>3. 0 \in D
    BY <2>2
  <2>. QED BY <2>2, <2>3
<1>2. ASSUME NEW m \in N PROVE m + 1 \in N
  <2>1. m \in Nat /\ m + 1 \in Nat
    OBVIOUS
  <2>. SUFFICES ASSUME NEW D \in SUBSET (0..(m + 1)), D # {} PROVE Has(D)
    BY <2>1
  <2>2. CASE m + 1 \in D
    <3>1. \A j \in D : j <= m + 1
      BY <2>1
    <3>. QED BY <2>2, <3>1
  <2>3. CASE m + 1 \notin D
    <3>1. D \in SUBSET (0..m)
      BY <2>1, <2>3
    <3>. QED BY <3>1
  <2>. QED BY <2>2, <2>3
<1>3. N = Nat
  <2>1. N \in SUBSET Nat
    OBVIOUS
  <2>. HIDE DEF N
  <2>. QED BY <1>1, <1>2, <2>1, FromZero
<1>4. Has(C)
  BY <1>3
<1>. QED BY <1>4 DEF Physics!Largest

\* A closed loop is never empty: the walk cannot pass start_alpha at two points
\* in a row.
LEMMA TracksAre ==
  ASSUME NEW n \in Physics!Tracks
  PROVE  n \in Nat /\ n > 0
<1>1. PICK past \in [0..(Points - 1) -> BOOLEAN] :
        Cardinality(Physics!Crossings(past)) >= 2 /\ n = Physics!LoopLength(past)
  <2>. DEFINE P == {p \in [0..(Points - 1) -> BOOLEAN] : Physics!Cardinality(Physics!Crossings(p)) >= 2}
  <2>1. Physics!Tracks = {Physics!LoopLength(past) : past \in P}
    BY DEF Physics!Tracks
  <2>2. \A p \in P : p \in [0..(Points - 1) -> BOOLEAN] /\ Cardinality(Physics!Crossings(p)) >= 2
    BY CardinalityIs
  <2>. HIDE DEF P
  <2>3. PICK p \in P : n = Physics!LoopLength(p)
    BY <2>1
  <2>. QED BY <2>2, <2>3
<1>2. Points \in Nat /\ Points - 1 \in Nat
  BY Box2dAssumption
<1>. DEFINE C == Physics!Crossings(past)
            i2 == Physics!Largest(C)
            D == C \ {i2}
            i1 == Physics!Largest(D)
            m == Points - 1
<1>3. C \in SUBSET (0..m) /\ IsFiniteSet(C) /\ \A i \in C : i \in Nat /\ i >= 1 /\ past[i] /\ ~past[i - 1]
  <2>1. C \in SUBSET (1..m) /\ \A i \in C : past[i] /\ ~past[i - 1]
    BY DEF Physics!Crossings
  <2>2. m \in Int /\ 1 \in Int
    BY <1>2
  <2>. HIDE DEF C, m
  <2>3. IsFiniteSet(C)
    BY <2>1, <2>2, FS_Interval, FS_Subset
  <2>. QED BY <2>1, <2>2, <2>3
<1>4. m \in Nat /\ Cardinality(C) >= 2
  BY <1>1, <1>2
<1>5. n = (i2 - 1) - i1
  BY <1>1 DEF Physics!LoopLength
<1>. HIDE DEF C, m
<1>6. C # {}
  <2>. SUFFICES ASSUME C = {} PROVE FALSE
    OBVIOUS
  <2>1. Cardinality({}) = 0 /\ ~(0 >= 2)
    BY FS_EmptySet
  <2>2. Cardinality(C) = 0
    BY <2>1
  <2>. QED BY <1>4, <2>1, <2>2
<1>7. i2 \in C /\ \A j \in C : j <= i2
  BY <1>3, <1>4, <1>6, LargestIs
<1>. HIDE DEF i2
<1>8. D # {}
  <2>. SUFFICES ASSUME D = {} PROVE FALSE
    OBVIOUS
  <2>1. C = {i2}
    BY <1>7
  <2>2. Cardinality({i2}) = 1 /\ ~(1 >= 2)
    <3>1. Cardinality({i2}) = 1
      BY FS_Singleton
    <3>. QED BY <3>1
  <2>3. Cardinality(C) = 1
    BY <2>1, <2>2
  <2>. QED BY <1>4, <2>2, <2>3
<1>9. D \in SUBSET (0..m)
  BY <1>3
<1>10. i1 \in D
  <2>. HIDE DEF D
  <2>. QED BY <1>4, <1>8, <1>9, LargestIs
<1>. HIDE DEF i1
<1>11. i1 \in C /\ i1 # i2 /\ i1 <= i2 /\ i1 \in Nat /\ i2 \in Nat
  BY <1>3, <1>7, <1>10
<1>12. i1 # i2 - 1
  BY <1>3, <1>7, <1>11
<1>. QED BY <1>5, <1>11, <1>12

Tiles(s) == UNION {s.wheels[w] : w \in DOMAIN s.wheels}
CarIs(s) ==
  /\ s = [track |-> s.track, wheels |-> s.wheels, road_visited |-> s.road_visited,
          tile_visited_count |-> s.tile_visited_count, reward |-> s.reward, prev_reward |-> s.prev_reward]
  /\ s.track \in Nat /\ s.track > 0 /\ s.road_visited \in SUBSET (1..s.track)
  /\ s.tile_visited_count = Cardinality(s.road_visited) /\ s.reward \in Int
  /\ Tiles(s) \subseteq s.road_visited
\* What has been paid, after k steps.
Paid(s, k) == s.reward = (10000 \div s.track) * Cardinality(s.road_visited) - k

RacingInv(e) == /\ RacingSound(e) /\ Shown(e) /\ CarIs(e.st) /\ Paid(e.st, e.elapsed)
                /\ e.max_episode_steps # None

Begun(s, wheels) == UNION {wheels[w] \ s.wheels[w] : w \in DOMAIN wheels}
FreshTiles(s, wheels) == Begun(s, wheels) \ s.road_visited
Pays(s, wheels, fresh, n) ==
  [s EXCEPT !.wheels = wheels, !.road_visited = @ \cup fresh, !.tile_visited_count = @ + n,
            !.reward = @ + n * (10000 \div s.track)]

LEMMA CountIs ==
  ASSUME NEW n \in Nat, NEW T \in SUBSET (1..n)
  PROVE  IsFiniteSet(T) /\ Cardinality(T) \in Nat
<1>1. 1 \in Int /\ n \in Int
  OBVIOUS
<1>2. IsFiniteSet(1..n)
  BY <1>1, FS_Interval
<1>3. IsFiniteSet(T)
  BY <1>2, FS_Subset
<1>. QED BY <1>3, FS_CardinalityType

LEMMA OntoExpanded ==
  ASSUME NEW s, NEW wheels
  PROVE  Physics!Onto(s, wheels) = Pays(s, wheels, FreshTiles(s, wheels), Cardinality(FreshTiles(s, wheels)))
<1>1. Physics!Onto(s, wheels) = Pays(s, wheels, FreshTiles(s, wheels), Physics!Cardinality(FreshTiles(s, wheels)))
  BY DEF Physics!Onto, FreshTiles, Begun, Pays
<1>. QED BY <1>1, CardinalityIs

LEMMA PaysOf ==
  ASSUME NEW tr, NEW wh, NEW rv, NEW tc, NEW rw, NEW pr, NEW wheels, NEW F, NEW n
  PROVE  Pays([track |-> tr, wheels |-> wh, road_visited |-> rv, tile_visited_count |-> tc, reward |-> rw, prev_reward |-> pr],
              wheels, F, n)
           = [track |-> tr, wheels |-> wheels, road_visited |-> rv \cup F, tile_visited_count |-> tc + n,
              reward |-> rw + n * (10000 \div tr), prev_reward |-> pr]
<1>. DEFINE R == [track |-> tr, wheels |-> wh, road_visited |-> rv, tile_visited_count |-> tc, reward |-> rw, prev_reward |-> pr]
            q == 10000 \div tr
            v == rv \cup F
            c == tc + n
            d == rw + n * q
<1>1. R.track = tr /\ R.road_visited = rv /\ R.tile_visited_count = tc /\ R.reward = rw /\ R.prev_reward = pr
  OBVIOUS
<1>2. DOMAIN R = {"track", "wheels", "road_visited", "tile_visited_count", "reward", "prev_reward"}
  OBVIOUS
<1>. HIDE DEF R
<1>3. Pays(R, wheels, F, n) = [R EXCEPT !.wheels = wheels, !.road_visited = R.road_visited \cup F,
                                      !.tile_visited_count = R.tile_visited_count + n,
                                      !.reward = R.reward + n * (10000 \div R.track)]
  BY DEF Pays
<1>4. Pays(R, wheels, F, n) = [R EXCEPT !.wheels = wheels, !.road_visited = v, !.tile_visited_count = c, !.reward = d]
  BY ONLY <1>1, <1>3
<1>. HIDE DEF v, c, d
<1>. DEFINE e == [R EXCEPT !.wheels = wheels, !.road_visited = v, !.tile_visited_count = c, !.reward = d]
            o == [track |-> tr, wheels |-> wheels, road_visited |-> v, tile_visited_count |-> c, reward |-> d, prev_reward |-> pr]
<1>5. DOMAIN e = DOMAIN R /\ e = [f \in DOMAIN R |-> e[f]]
  OBVIOUS
<1>6. e.wheels = wheels /\ e.road_visited = v /\ e.tile_visited_count = c /\ e.reward = d /\ e.track = R.track
      /\ e.prev_reward = R.prev_reward
  BY <1>2
<1>7. o = [f \in DOMAIN R |-> o[f]]
  BY <1>2
<1>8. \A f \in DOMAIN R : o[f] = e[f]
  <2>1. o.wheels = wheels /\ o.road_visited = v /\ o.tile_visited_count = c /\ o.reward = d /\ o.track = tr /\ o.prev_reward = pr
    OBVIOUS
  <2>. HIDE DEF e, o
  <2>. QED BY <1>1, <1>2, <1>6, <2>1
<1>. HIDE DEF e, o
<1>9. e = o
  BY <1>5, <1>7, <1>8
<1>. QED BY <1>4, <1>9 DEF R, v, c, d, e, o

LEMMA PaysIs ==
  ASSUME NEW s, CarIs(s), NEW wheels, NEW F, NEW n
  PROVE  Pays(s, wheels, F, n)
           = [track |-> s.track, wheels |-> wheels, road_visited |-> s.road_visited \cup F,
              tile_visited_count |-> s.tile_visited_count + n, reward |-> s.reward + n * (10000 \div s.track),
              prev_reward |-> s.prev_reward]
<1>. DEFINE R == [track |-> s.track, wheels |-> s.wheels, road_visited |-> s.road_visited,
                  tile_visited_count |-> s.tile_visited_count, reward |-> s.reward, prev_reward |-> s.prev_reward]
            after == [track |-> s.track, wheels |-> wheels, road_visited |-> s.road_visited \cup F,
                      tile_visited_count |-> s.tile_visited_count + n, reward |-> s.reward + n * (10000 \div s.track),
                      prev_reward |-> s.prev_reward]
<1>1. s = R
  BY DEF CarIs
<1>2. Pays(R, wheels, F, n) = after
  BY PaysOf
<1>. HIDE DEF R, after
<1>3. Pays(s, wheels, F, n) = after
  BY ONLY <1>1, <1>2
<1>. QED BY <1>3 DEF after

LEMMA OntoIs ==
  ASSUME NEW s, CarIs(s), NEW k \in Int, Paid(s, k), NEW wheels \in [DOMAIN s.wheels -> SUBSET (1..s.track)]
  PROVE  CarIs(Physics!Onto(s, wheels)) /\ Paid(Physics!Onto(s, wheels), k)
<1>. DEFINE fresh == FreshTiles(s, wheels)
            q == 10000 \div s.track
            visited == s.road_visited \cup fresh
            count == s.tile_visited_count + Cardinality(fresh)
            reward == s.reward + Cardinality(fresh) * q
            t == [track |-> s.track, wheels |-> wheels, road_visited |-> visited,
                  tile_visited_count |-> count, reward |-> reward, prev_reward |-> s.prev_reward]
<1>1. Physics!Onto(s, wheels) = t
  <2>1. Physics!Onto(s, wheels) = Pays(s, wheels, fresh, Cardinality(fresh))
    BY OntoExpanded
  <2>. HIDE DEF fresh
  <2>2. Pays(s, wheels, fresh, Cardinality(fresh)) = t
    BY PaysIs
  <2>. QED BY <2>1, <2>2
<1>2. /\ s.track \in Nat /\ s.track > 0 /\ s.road_visited \in SUBSET (1..s.track) /\ s.reward \in Int
      /\ s.tile_visited_count = Cardinality(s.road_visited) /\ Tiles(s) \subseteq s.road_visited
      /\ s = [track |-> s.track, wheels |-> s.wheels, road_visited |-> s.road_visited,
              tile_visited_count |-> s.tile_visited_count, reward |-> s.reward, prev_reward |-> s.prev_reward]
  BY DEF CarIs
<1>3. q \in Int
  BY <1>2
<1>4. fresh \in SUBSET (1..s.track) /\ visited \in SUBSET (1..s.track) /\ s.road_visited \cap fresh = {}
  <2>1. s.road_visited \cap fresh = {} /\ fresh \subseteq Begun(s, wheels)
    BY DEF FreshTiles
  <2>2. Begun(s, wheels) \subseteq 1..s.track
    <3>. SUFFICES ASSUME NEW w \in DOMAIN wheels, NEW x \in wheels[w] PROVE x \in 1..s.track
      BY DEF Begun
    <3>1. wheels[w] \in SUBSET (1..s.track)
      OBVIOUS
    <3>. QED BY <3>1
  <2>. QED BY <1>2, <2>1, <2>2
<1>5. UNION {wheels[w] : w \in DOMAIN wheels} \subseteq visited
  <2>. SUFFICES ASSUME NEW w \in DOMAIN wheels, NEW x \in wheels[w] PROVE x \in visited
    OBVIOUS
  <2>1. CASE x \in s.wheels[w]
    BY <1>2, <2>1 DEF Tiles
  <2>2. CASE x \notin s.wheels[w]
    <3>1. x \in Begun(s, wheels)
      BY <2>2 DEF Begun
    <3>. QED BY <3>1 DEF FreshTiles
  <2>. QED BY <2>1, <2>2
<1>. HIDE DEF fresh, q
<1>6. /\ Cardinality(visited) = Cardinality(s.road_visited) + Cardinality(fresh)
      /\ Cardinality(s.road_visited) \in Nat /\ Cardinality(fresh) \in Nat
  <2>1. Cardinality({}) = 0
    BY FS_EmptySet
  <2>2. IsFiniteSet(s.road_visited) /\ IsFiniteSet(fresh) /\ Cardinality(s.road_visited) \in Nat /\ Cardinality(fresh) \in Nat
    <3>. HIDE DEF visited
    <3>. QED BY <1>2, <1>4, CountIs
  <2>3. Cardinality(s.road_visited \cap fresh) = 0
    BY <1>4, <2>1
  <2>4. Cardinality(visited) = Cardinality(s.road_visited) + Cardinality(fresh) - Cardinality(s.road_visited \cap fresh)
    BY <2>2, FS_Union
  <2>. HIDE DEF visited
  <2>. QED BY <2>2, <2>3, <2>4
<1>. HIDE DEF visited
<1>7. reward \in Int /\ reward = q * Cardinality(visited) - k
  <2>. DEFINE a == Cardinality(s.road_visited)
              b == Cardinality(fresh)
  <2>1. s.reward = q * a - k
    BY DEF Paid, q
  <2>2. a \in Int /\ b \in Int
    BY <1>6
  <2>. HIDE DEF a, b
  <2>3. b * q \in Int /\ q * a \in Int /\ q * (a + b) = q * a + b * q
    BY <1>3, <2>2
  <2>4. reward = s.reward + b * q
    BY DEF b
  <2>5. Cardinality(visited) = a + b
    BY <1>6 DEF a, b
  <2>. HIDE DEF reward
  <2>. QED BY <1>2, <2>1, <2>2, <2>3, <2>4, <2>5
<1>8. count = Cardinality(visited)
  BY <1>2, <1>6
<1>. HIDE DEF count, reward
<1>10. /\ t.track = s.track /\ t.wheels = wheels /\ t.road_visited = visited /\ t.tile_visited_count = count /\ t.reward = reward
       /\ t.prev_reward = s.prev_reward
  OBVIOUS
<1>11. Tiles(t) \subseteq t.road_visited
  BY <1>5, <1>10 DEF Tiles
<1>12. t = [track |-> t.track, wheels |-> t.wheels, road_visited |-> t.road_visited,
            tile_visited_count |-> t.tile_visited_count, reward |-> t.reward, prev_reward |-> t.prev_reward]
  OBVIOUS
<1>. HIDE DEF t
<1>13. CarIs(t)
  BY <1>2, <1>4, <1>7, <1>8, <1>10, <1>11, <1>12 DEF CarIs
<1>14. Paid(t, k)
  BY <1>7, <1>10 DEF Paid, q
<1>. QED BY ONLY <1>1, <1>13, <1>14

LEMMA RacingSpaces ==
  ASSUME NEW e, e.cls = "CarRacing"
  PROVE  /\ ObsSpace(e) = S!Box(<<>>, <<>>, FALSE)
         /\ ActionSpace(e) = S!Box(<<-1, 0, 0>>, <<1, 1, 1>>, TRUE)
<1>1. e.cls \in BoxClasses
  BY DEF BoxClasses
<1>2. ObsSpace(e) = S!Box(<<>>, <<>>, FALSE)
  BY <1>1, OfBox DEF Physics!BoxObsSpace, Physics!Box, S!Box
<1>3. ActionSpace(e) = S!Box(<<-1, 0, 0>>, <<1, 1, 1>>, TRUE)
  BY <1>1, OfBox DEF Physics!BoxActions, Physics!Box, S!Box
<1>. QED BY <1>2, <1>3

LEMMA RacingIs ==
  ASSUME NEW e, e.cls = "CarRacing", e.obs = <<>>, CarIs(e.st), Paid(e.st, e.elapsed), e.max_episode_steps # None
  PROVE  RacingInv(e)
<1>1. S!Contains(S!Box(<<>>, <<>>, FALSE), <<>>)
  <2>1. DOMAIN <<>> = {}
    OBVIOUS
  <2>. QED BY <2>1, BoxIs
<1>2. Shown(e)
  BY <1>1, RacingSpaces DEF Shown
<1>3. RacingSound(e)
  BY DEF RacingSound, CarIs, Paid, Tiles
<1>. QED BY <1>2, <1>3 DEF RacingInv

LEMMA RacingReset ==
  ASSUME NEW e, e.cls = "CarRacing", e.max_episode_steps # None,
         NEW r \in Physics!BoxReset(e.cls, e.kw), Fresh(e, r)
  PROVE  RacingInv(e)
<1>1. PICK s \in Physics!CarReset(e.kw) : r = <<s, <<>>>>
  BY DEF Physics!BoxReset
<1>. DEFINE none == [w \in 1..e.kw.wheels |-> {}]
            Begin(n) == [track |-> n, wheels |-> none, road_visited |-> {}, tile_visited_count |-> 0, reward |-> 0, prev_reward |-> 0]
<1>2. PICK n \in Physics!Tracks : s \in Physics!Rolls(Begin(n))
  BY DEF Physics!CarReset
<1>3. n \in Nat /\ n > 0
  BY TracksAre
<1>4. PICK wheels \in [DOMAIN Begin(n).wheels -> SUBSET (1..Begin(n).track)] : s = Physics!Onto(Begin(n), wheels)
  BY <1>2 DEF Physics!Rolls
<1>. DEFINE b == Begin(n)
<1>5. CarIs(b) /\ Paid(b, 0)
  <2>1. /\ b.track = n /\ b.wheels = none /\ b.road_visited = {} /\ b.tile_visited_count = 0 /\ b.reward = 0 /\ b.prev_reward = 0
        /\ Cardinality({}) = 0
    BY FS_EmptySet
  <2>2. \A w \in DOMAIN none : none[w] = {}
    OBVIOUS
  <2>3. b = [track |-> b.track, wheels |-> b.wheels, road_visited |-> b.road_visited,
             tile_visited_count |-> b.tile_visited_count, reward |-> b.reward, prev_reward |-> b.prev_reward]
    OBVIOUS
  <2>4. 10000 \div n \in Int
    BY <1>3
  <2>5. (10000 \div n) * 0 - 0 = 0
    BY <2>4
  <2>. HIDE DEF b, none
  <2>6. Tiles(b) \subseteq b.road_visited
    BY <2>1, <2>2 DEF Tiles
  <2>7. CarIs(b)
    BY <1>3, <2>1, <2>3, <2>6 DEF CarIs
  <2>8. Paid(b, 0)
    BY <2>1, <2>5 DEF Paid
  <2>. QED BY <2>7, <2>8
<1>6. wheels \in [DOMAIN b.wheels -> SUBSET (1..b.track)] /\ s = Physics!Onto(b, wheels)
  BY <1>4
<1>. HIDE DEF b
<1>7. CarIs(s) /\ Paid(s, 0)
  BY <1>5, <1>6, OntoIs
<1>8. e.st = s /\ e.obs = <<>> /\ e.elapsed = 0
  BY <1>1 DEF Fresh
<1>. QED BY <1>7, <1>8, RacingIs

LEMMA RacingStep ==
  ASSUME NEW d, NEW e, e.cls = "CarRacing", RacingInv(d), NEW a,
         NEW o \in Physics!BoxStep(d.cls, d.kw, d.st, a), After(d, e, o)
  PROVE  RacingInv(e)
<1>. DEFINE s == d.st
            T(r) == [r EXCEPT !.reward = @ - 1, !.prev_reward = r.reward - 1]
            Goes(r, off) == Physics!BoxOut(T(r), <<>>, IF off THEN -1000 ELSE T(r).reward - s.prev_reward,
                                           off \/ T(r).tile_visited_count = T(r).track)
<1>1. d.cls = "CarRacing" /\ CarIs(s) /\ Paid(s, d.elapsed) /\ d.elapsed \in Int
  BY DEF After, RacingInv
<1>2. o \in Physics!CarStep(s)
  BY <1>1 DEF Physics!BoxStep
<1>3. PICK r \in Physics!Rolls(s), off \in BOOLEAN : o = Goes(r, off)
  <2>1. Physics!CarStep(s) = {Goes(r, off) : r \in Physics!Rolls(s), off \in BOOLEAN}
    BY DEF Physics!CarStep
  <2>. HIDE DEF Goes
  <2>. QED BY <1>2, <2>1
<1>4. PICK wheels \in [DOMAIN s.wheels -> SUBSET (1..s.track)] : r = Physics!Onto(s, wheels)
  BY DEF Physics!Rolls
<1>5. CarIs(r) /\ Paid(r, d.elapsed)
  BY <1>1, <1>4, OntoIs
<1>. DEFINE t == T(r)
<1>6. e.st = t /\ e.obs = <<>>
  BY <1>3 DEF After, Physics!BoxOut
<1>7. e.max_episode_steps # None /\ e.elapsed = d.elapsed + 1
  BY DEF After, Elapsed, RacingInv
<1>8. CarIs(t) /\ Paid(t, d.elapsed + 1)
  <2>1. t = [r EXCEPT !.reward = r.reward - 1, !.prev_reward = r.reward - 1]
    OBVIOUS
  <2>2. r = [track |-> r.track, wheels |-> r.wheels, road_visited |-> r.road_visited,
             tile_visited_count |-> r.tile_visited_count, reward |-> r.reward, prev_reward |-> r.prev_reward]
    BY <1>5 DEF CarIs
  <2>. DEFINE n == r.reward - 1
  <2>3. n \in Int /\ n = r.reward - 1 /\ r.reward \in Int
    BY <1>5 DEF CarIs
  <2>. HIDE DEF t, n
  <2>4. t = [track |-> r.track, wheels |-> r.wheels, road_visited |-> r.road_visited,
             tile_visited_count |-> r.tile_visited_count, reward |-> n, prev_reward |-> n]
    BY <2>1, <2>2 DEF n
  <2>5. /\ t.track = r.track /\ t.wheels = r.wheels /\ t.road_visited = r.road_visited
        /\ t.tile_visited_count = r.tile_visited_count /\ t.reward = n /\ t.prev_reward = n
    BY <2>4
  <2>6. Tiles(t) = Tiles(r)
    BY <2>5 DEF Tiles
  <2>7. CarIs(t)
    BY <1>5, <2>3, <2>4, <2>5, <2>6 DEF CarIs
  <2>8. Paid(t, d.elapsed + 1)
    <3>. DEFINE m == (10000 \div r.track) * Cardinality(r.road_visited)
    <3>1. r.reward = m - d.elapsed /\ m \in Int
      <4>1. r.track \in Nat /\ r.track > 0 /\ r.road_visited \in SUBSET (1..r.track)
        BY <1>5 DEF CarIs
      <4>3. Cardinality(r.road_visited) \in Nat
        BY <4>1, CountIs
      <4>4. 10000 \div r.track \in Int
        BY <4>1
      <4>. QED BY <1>5, <4>3, <4>4 DEF Paid
    <3>. HIDE DEF m
    <3>2. n = m - (d.elapsed + 1)
      BY <1>1, <2>3, <3>1
    <3>. QED BY <2>5, <3>2 DEF Paid, m
  <2>. QED BY <2>7, <2>8
<1>. HIDE DEF t
<1>9. e.cls = "CarRacing" /\ Paid(e.st, e.elapsed)
  BY <1>6, <1>7, <1>8
<1>. QED BY <1>6, <1>7, <1>8, <1>9, RacingIs

\* Only toys and unit tests are registered without a limit of steps.
WithDense(names) == {n \o suffix : n \in names, suffix \in {"", "Dense"}}
BothRewards(cls, names, version, steps) == Class(cls, WithDense(names), version, steps)

LEMMA ClassIs ==
  ASSUME NEW cls, NEW names, NEW version, NEW steps, NEW r \in Class(cls, names, version, steps)
  PROVE  r[3] = cls /\ r[4] = steps
BY DEF Class

LEMMA SameIs ==
  ASSUME NEW names, NEW version, NEW steps, NEW r \in Same(names, version, steps)
  PROVE  r[3] \in names /\ r[4] = steps
BY DEF Same

LEMMA BothIs ==
  ASSUME NEW cls, NEW names, NEW version, NEW steps, NEW r \in BothRewards(cls, names, version, steps)
  PROVE  r[4] = steps
BY ClassIs DEF BothRewards

LEMMA MujocoLimited == ASSUME NEW r \in RegisteredMujoco PROVE r[4] # None
<1>. DEFINE Both(v) == Same({"HalfCheetah", "Hopper", "Swimmer", "Walker2d", "Ant", "Humanoid"}, v, 1000)
<1>1. r \in UNION {Both(v) : v \in {2, 3}} => \E v : r \in Both(v)
  OBVIOUS
<1>. HIDE DEF Both
<1>2. \/ r \in Same({"Reacher"}, 2, 50) \/ r \in Same({"Pusher", "Thrower", "Striker"}, 2, 100)
      \/ r \in Same({"InvertedPendulum", "InvertedDoublePendulum", "HumanoidStandup"}, 2, 1000)
      \/ r \in UNION {Both(v) : v \in {2, 3}}
  BY DEF RegisteredMujoco, Both
<1>3. \A v : r \in Both(v) => r[4] = 1000
  BY SameIs DEF Both
<1>4. r[4] = 50 \/ r[4] = 100 \/ r[4] = 1000
  BY <1>1, <1>2, <1>3, SameIs
<1>. QED BY <1>4 DEF None

LEMMA RoboticsAre ==
  RegisteredRobotics =
    BothRewards("HandReach", {"HandReach"}, 0, 50)
      \cup BothRewards("HandBlock", {"HandManipulateBlock" \o x : x \in {"", "RotateZ", "RotateParallel", "RotateXYZ", "Full"}}, 0, 100)
      \cup BothRewards("HandEgg", {"HandManipulateEgg" \o x : x \in {"", "Rotate", "Full"}}, 0, 100)
      \cup BothRewards("HandPen", {"HandManipulatePen" \o x : x \in {"", "Rotate", "Full"}}, 0, 100)
      \cup (UNION {BothRewards(n, {n}, 1, 50) : n \in {"FetchSlide", "FetchPickAndPlace", "FetchReach", "FetchPush"}})
      \cup UNION {BothRewards("Hand" \o o \o "TouchSensors", {"HandManipulate" \o o \o "TouchSensors"}, 0, 100) : o \in {"Block", "Egg", "Pen"}}
BY DEF RegisteredRobotics, BothRewards, WithDense

LEMMA RoboticsLimited == ASSUME NEW r \in RegisteredRobotics PROVE r[4] # None
<1>. DEFINE blocks == {"HandManipulateBlock" \o x : x \in {"", "RotateZ", "RotateParallel", "RotateXYZ", "Full"}}
            eggs == {"HandManipulateEgg" \o x : x \in {"", "Rotate", "Full"}}
            pens == {"HandManipulatePen" \o x : x \in {"", "Rotate", "Full"}}
            Fetches(n) == BothRewards(n, {n}, 1, 50)
            Sensors(o) == BothRewards("Hand" \o o \o "TouchSensors", {"HandManipulate" \o o \o "TouchSensors"}, 0, 100)
            names == {"FetchSlide", "FetchPickAndPlace", "FetchReach", "FetchPush"}
            objects == {"Block", "Egg", "Pen"}
<1>1. RegisteredRobotics =
        BothRewards("HandReach", {"HandReach"}, 0, 50)
          \cup BothRewards("HandBlock", blocks, 0, 100) \cup BothRewards("HandEgg", eggs, 0, 100)
          \cup BothRewards("HandPen", pens, 0, 100) \cup (UNION {Fetches(n) : n \in names})
          \cup UNION {Sensors(o) : o \in objects}
  BY RoboticsAre
<1>2. \A n : r \in Fetches(n) => r[4] = 50
  BY BothIs
<1>3. \A o : r \in Sensors(o) => r[4] = 100
  <2>. SUFFICES ASSUME NEW o, r \in Sensors(o) PROVE r[4] = 100
    OBVIOUS
  <2>. DEFINE cls == "Hand" \o o \o "TouchSensors"
              of == {"HandManipulate" \o o \o "TouchSensors"}
  <2>1. r \in BothRewards(cls, of, 0, 100)
    OBVIOUS
  <2>. HIDE DEF cls, of
  <2>. QED BY <2>1, BothIs
<1>. HIDE DEF blocks, eggs, pens, Fetches, Sensors, names, objects
<1>4. \/ \E n : r \in Fetches(n)
      \/ r \in BothRewards("HandReach", {"HandReach"}, 0, 50)
      \/ r \in BothRewards("HandBlock", blocks, 0, 100)
      \/ r \in BothRewards("HandEgg", eggs, 0, 100)
      \/ r \in BothRewards("HandPen", pens, 0, 100)
      \/ \E o : r \in Sensors(o)
  BY <1>1
<1>5. r[4] = 50 \/ r[4] = 100
  BY <1>2, <1>3, <1>4, BothIs
<1>. QED BY <1>5 DEF None

AtariOf(game, obs) ==
  LET Frames == IF game = "SpaceInvaders" THEN 3 ELSE 4
  IN  Class("Atari", {game \o obs}, 0, 10000) \cup Class("Atari", {game \o obs}, 4, 100000)
        \cup UNION {Class("Atari", {game \o obs \o "Deterministic"}, v, 100000)
                    \cup Class("Atari", {game \o obs \o "NoFrameskip"}, v, Frames * 100000) : v \in {0, 4}}

Suffixes == {"", "-ram"}
AtariAll == {AtariOf(game, obs) : game \in AtariGames, obs \in Suffixes}

LEMMA AtariUnion == RegisteredAtari = UNION AtariAll
BY DEF RegisteredAtari, AtariOf, AtariAll, Suffixes

LEMMA AtariIs == ASSUME NEW r \in RegisteredAtari PROVE r[3] = "Atari"
<1>1. PICK all \in AtariAll : r \in all
  BY AtariUnion
<1>2. PICK game \in AtariGames, obs \in Suffixes : all = AtariOf(game, obs)
  BY DEF AtariAll
<1>. DEFINE one == {game \o obs}
            two == {game \o obs \o "Deterministic"}
            three == {game \o obs \o "NoFrameskip"}
            steps == (IF game = "SpaceInvaders" THEN 3 ELSE 4) * 100000
            versions == {0, 4}
            Of(v) == Class("Atari", two, v, 100000) \cup Class("Atari", three, v, steps)
<1>3. r \in Class("Atari", one, 0, 10000) \cup Class("Atari", one, 4, 100000) \cup UNION {Of(v) : v \in versions}
  BY <1>1, <1>2 DEF AtariOf
<1>4. \A v : r \in Of(v) => r[3] = "Atari"
  <2>. HIDE DEF two, three, steps
  <2>. QED BY ClassIs
<1>. HIDE DEF one, two, three, steps, versions, Of
<1>5. r \in Class("Atari", one, 0, 10000) \/ r \in Class("Atari", one, 4, 100000) \/ \E v : r \in Of(v)
  BY <1>3
<1>. QED BY <1>4, <1>5, ClassIs

LEMMA Unlimited ==
  ASSUME NEW r \in Registrations, r[4] = None
  PROVE  r[3] # "CarRacing"
<1>3. CASE r \in RegisteredAlgorithmic
  BY ClassIs, SameIs, <1>3 DEF RegisteredAlgorithmic, None
<1>4. CASE r \in RegisteredClassic
  BY ClassIs, SameIs, <1>4 DEF RegisteredClassic, None
<1>5. CASE r \in RegisteredBox2d
  BY ClassIs, SameIs, <1>5 DEF RegisteredBox2d, None
<1>6. CASE r \in RegisteredToyText
  BY ClassIs, SameIs, <1>6 DEF RegisteredToyText, None
<1>7. CASE r \in RegisteredUnitTest
  BY SameIs, <1>7 DEF RegisteredUnitTest, None
<1>8. CASE r \in RegisteredAtari
  BY AtariIs, <1>8
<1>. QED BY <1>3, <1>4, <1>5, <1>6, <1>7, <1>8, MujocoLimited, RoboticsLimited DEF Registrations

-----------------------------------------------------------------------------
(* The algorithmic environments.                                           *)

\* One sequence after another.
Joins(seqs, f) == f = [i \in 1..Len(seqs) |-> IF i = 1 THEN seqs[i] ELSE f[i - 1] \o seqs[i]]

LEMMA JoinsExist ==
  ASSUME NEW D, NEW seqs \in Seq(Seq(D)), Len(seqs) # 0
  PROVE  \E f : Joins(seqs, f)
<1>. DEFINE n == Len(seqs)
            T == Seq(D)
            F == [i \in Nat |-> [s \in T |-> IF i \in 1..n THEN s \o seqs[i] ELSE s]]
<1>1. n \in Nat /\ n # 0 /\ \A i \in 1..n : seqs[i] \in T
  OBVIOUS
<1>2. \A s \in T, i \in 1..n : s \o seqs[i] \in T
  BY <1>1
<1>3. F \in [Nat -> [T -> T]] /\ <<>> \in T
  BY <1>2
<1>. HIDE DEF T, n
<1>4. \A i \in 1..n, s \in T : F[i][s] = s \o seqs[i]
  BY <1>1, SMTT(60)
<1>. HIDE DEF F
<1>5. PICK f : Recurs(f, T, <<>>, F, n)
  BY <1>1, <1>3, Iterates
<1>. DEFINE g == [i \in 1..n |-> f[i]]
<1>6. \A i \in 1..n : i - 1 \in 0..n /\ (i # 1 => i - 1 \in 1..n) /\ f[i - 1] \in T /\ f[i] = f[i - 1] \o seqs[i]
  <2>. SUFFICES ASSUME NEW i \in 1..n
                PROVE  i - 1 \in 0..n /\ (i # 1 => i - 1 \in 1..n) /\ f[i - 1] \in T /\ f[i] = f[i - 1] \o seqs[i]
    OBVIOUS
  <2>1. i - 1 \in 0..n /\ (i # 1 => i - 1 \in 1..n)
    BY <1>1
  <2>2. f[i - 1] \in T /\ f[i] = F[i][f[i - 1]]
    BY <1>5, <2>1 DEF Recurs
  <2>. QED BY <1>4, <2>1, <2>2
<1>7. 1 \in 1..n /\ f[0] = <<>> /\ f[1] = seqs[1]
  <2>1. 1 \in 1..n /\ f[0] = <<>> /\ seqs[1] \in Seq(D) /\ 1 - 1 = 0
    BY <1>1, <1>5 DEF Recurs
  <2>2. f[1] = f[0] \o seqs[1]
    BY <1>6, <2>1
  <2>. QED BY <2>1, <2>2
<1>8. \A i \in 1..n : g[i] = IF i = 1 THEN seqs[i] ELSE g[i - 1] \o seqs[i]
  BY <1>6, <1>7
<1>9. g = [i \in 1..n |-> g[i]]
  OBVIOUS
<1>. HIDE DEF g
<1>. QED BY <1>8, <1>9, ZenonT(60) DEF Joins, n

\* n sequences of m values of D are one of n * m values of D.
LEMMA JoinIs ==
  ASSUME NEW D, NEW seqs \in Seq(Seq(D)), Len(seqs) # 0, NEW m \in Nat, \A i \in 1..Len(seqs) : Len(seqs[i]) = m
  PROVE  Alg!Seqs!FlattenSeq(seqs) \in Seq(D) /\ Len(Alg!Seqs!FlattenSeq(seqs)) = Len(seqs) * m
<1>. DEFINE n == Len(seqs)
            f == CHOOSE g : Joins(seqs, g)
            Is(i) == f[i] \in Seq(D) /\ Len(f[i]) = i * m
            N == {i \in Nat : i + 1 \in 1..n => Is(i + 1)}
<1>1. n \in Nat /\ n # 0 /\ \A i \in 1..n : seqs[i] \in Seq(D) /\ Len(seqs[i]) = m
  OBVIOUS
<1>2. Alg!Seqs!FlattenSeq(seqs) = f[n]
  BY DEF Alg!Seqs!FlattenSeq, Joins
<1>3. Joins(seqs, f)
  BY JoinsExist
<1>. HIDE DEF f, n
<1>4. \A i \in 1..n : f[i] = IF i = 1 THEN seqs[i] ELSE f[i - 1] \o seqs[i]
  BY ONLY <1>3 DEF Joins, n
<1>5. 0 \in N
  <2>1. 1 \in 1..n /\ 0 + 1 = 1
    BY <1>1
  <2>2. f[1] = seqs[1] /\ seqs[1] \in Seq(D) /\ Len(seqs[1]) = 1 * m
    BY <1>1, <1>4, <2>1
  <2>. QED BY <2>1, <2>2
<1>6. ASSUME NEW i \in N PROVE i + 1 \in N
  <2>1. i \in Nat
    OBVIOUS
  <2>. SUFFICES ASSUME (i + 1) + 1 \in 1..n PROVE Is((i + 1) + 1)
    BY <2>1
  <2>2. i + 1 \in 1..n /\ (i + 1) + 1 # 1 /\ ((i + 1) + 1) - 1 = i + 1
    BY <1>1, <2>1
  <2>3. f[i + 1] \in Seq(D) /\ Len(f[i + 1]) = (i + 1) * m
    BY <2>2
  <2>4. seqs[(i + 1) + 1] \in Seq(D) /\ Len(seqs[(i + 1) + 1]) = m
    BY <1>1
  <2>5. f[(i + 1) + 1] = f[i + 1] \o seqs[(i + 1) + 1]
    BY <1>4, <2>2
  <2>6. f[(i + 1) + 1] \in Seq(D) /\ Len(f[(i + 1) + 1]) = (i + 1) * m + m
    <3>. DEFINE a == f[i + 1]
                b == seqs[(i + 1) + 1]
    <3>1. a \in Seq(D) /\ b \in Seq(D) /\ Len(a) = (i + 1) * m /\ Len(b) = m /\ f[(i + 1) + 1] = a \o b
      BY <2>3, <2>4, <2>5
    <3>. HIDE DEF a, b
    <3>2. a \o b \in Seq(D) /\ Len(a \o b) = Len(a) + Len(b)
      BY <3>1, ConcatProperties
    <3>. QED BY <3>1, <3>2
  <2>7. (i + 1) * m + m = ((i + 1) + 1) * m
    BY <2>1
  <2>. QED BY <2>6, <2>7
<1>7. N = Nat
  <2>. HIDE DEF Is
  <2>1. N \in SUBSET Nat
    OBVIOUS
  <2>. HIDE DEF N
  <2>. QED BY <1>5, <1>6, <2>1, FromZero
<1>8. Is(n)
  <2>1. n - 1 \in Nat /\ (n - 1) + 1 = n /\ n \in 1..n
    BY <1>1
  <2>2. n - 1 \in N
    BY <1>7, <2>1
  <2>. HIDE DEF Is
  <2>. QED BY <2>1, <2>2
<1>. QED BY <1>2, <1>8 DEF n

\* The digits of a sum of columns: one for each column, and the last carry.
SumOf(column, carry) == Alg!Seqs!FoldLeft(+, carry, column)
AddsOne(columns, base, before, i) ==
  [carry |-> SumOf(columns[i], before.carry) \div base,
   digits |-> Append(before.digits, SumOf(columns[i], before.carry) % base)]
Adds(columns, base, n, f) ==
  f = [i \in 0..n |-> IF i = 0 THEN [carry |-> 0, digits |-> <<>>] ELSE AddsOne(columns, base, f[i - 1], i)]

LEMMA AddsExist ==
  ASSUME NEW columns, NEW base, NEW n \in Nat
  PROVE  \E f : Adds(columns, base, n, f)
<1>. DEFINE N == {m \in Nat : \E f : Adds(columns, base, m, f)}
            zero == [carry |-> 0, digits |-> <<>>]
<1>1. 0 \in N
  <2>. DEFINE f == [i \in 0..0 |-> zero]
  <2>1. f = [i \in 0..0 |-> IF i = 0 THEN zero ELSE AddsOne(columns, base, f[i - 1], i)]
    OBVIOUS
  <2>. HIDE DEF f
  <2>2. Adds(columns, base, 0, f)
    BY <2>1 DEF Adds
  <2>. QED BY <2>2
<1>2. ASSUME NEW m \in N PROVE m + 1 \in N
  <2>1. PICK f : Adds(columns, base, m, f)
    OBVIOUS
  <2>2. m \in Nat /\ m + 1 \in Nat /\ (m + 1) - 1 = m
    OBVIOUS
  <2>. DEFINE g == [i \in 0..(m + 1) |-> IF i = m + 1 THEN AddsOne(columns, base, f[m], m + 1) ELSE f[i]]
              G(i) == IF i = 0 THEN zero ELSE AddsOne(columns, base, g[i - 1], i)
              H(i) == IF i = 0 THEN zero ELSE AddsOne(columns, base, f[i - 1], i)
  <2>3. f = [i \in 0..m |-> H(i)]
    BY <2>1 DEF Adds
  <2>4. \A i \in 0..m : g[i] = f[i] /\ f[i] = H(i)
    <3>1. \A i \in 0..m : i \in 0..(m + 1) /\ i # m + 1
      BY <2>2
    <3>2. \A i \in 0..m : f[i] = H(i)
      <4>. HIDE DEF H
      <4>. QED BY ONLY <2>3
    <3>. HIDE DEF H
    <3>. QED BY <3>1, <3>2
  <2>5. g[m + 1] = AddsOne(columns, base, f[m], m + 1) /\ m \in 0..m /\ m + 1 # 0
    BY <2>2
  <2>6. g = [i \in 0..(m + 1) |-> g[i]]
    OBVIOUS
  <2>. HIDE DEF g
  <2>7. \A i \in 0..(m + 1) : g[i] = G(i)
    <3>. SUFFICES ASSUME NEW i \in 0..(m + 1) PROVE g[i] = G(i)
      OBVIOUS
    <3>1. CASE i = m + 1
      BY <2>2, <2>4, <2>5, <3>1
    <3>2. CASE i # m + 1
      <4>1. i \in 0..m /\ (i # 0 => i - 1 \in 0..m)
        BY <2>2, <3>2
      <4>2. g[i] = H(i) /\ (i # 0 => g[i - 1] = f[i - 1])
        BY <2>4, <4>1
      <4>. QED BY <4>2
    <3>. QED BY <3>1, <3>2
  <2>8. g = [i \in 0..(m + 1) |-> G(i)]
    <3>. HIDE DEF G
    <3>. QED BY <2>6, <2>7
  <2>9. Adds(columns, base, m + 1, g)
    BY <2>8 DEF Adds
  <2>. QED BY <2>2, <2>9
<1>3. N = Nat
  <2>1. N \in SUBSET Nat
    OBVIOUS
  <2>. HIDE DEF N
  <2>. QED BY <1>1, <1>2, <2>1, FromZero
<1>. QED BY <1>3

LEMMA SumLength ==
  ASSUME NEW columns, IsSeq(columns), NEW base
  PROVE  IsSeq(Alg!AddColumns(columns, base)) /\ Len(Alg!AddColumns(columns, base)) >= Len(columns)
<1>. DEFINE n == Len(columns)
            f == CHOOSE g : Adds(columns, base, n, g)
            all == f[n]
            N == {i \in Nat : i \in 0..n => IsSeq(f[i].digits) /\ Len(f[i].digits) = i}
<1>1. n \in Nat
  BY SeqFacts
<1>2. Alg!AddColumns(columns, base) = IF all.carry > 0 THEN Append(all.digits, all.carry) ELSE all.digits
  BY DEF Alg!AddColumns, Adds, AddsOne, SumOf
<1>3. Adds(columns, base, n, f)
  BY <1>1, AddsExist
<1>. HIDE DEF f, n
<1>4. \A i \in 0..n : f[i] = IF i = 0 THEN [carry |-> 0, digits |-> <<>>] ELSE AddsOne(columns, base, f[i - 1], i)
  BY ONLY <1>3 DEF Adds
<1>5. 0 \in N
  <2>1. 0 \in 0..n
    BY <1>1
  <2>2. f[0].digits = <<>>
    BY <1>4, <2>1
  <2>3. <<>> \in Seq({}) /\ Len(<<>>) = 0
    OBVIOUS
  <2>4. IsSeq(<<>>)
    BY <2>3, AnySeq
  <2>. QED BY <2>2, <2>3, <2>4
<1>6. ASSUME NEW i \in N PROVE i + 1 \in N
  <2>1. i \in Nat
    OBVIOUS
  <2>. SUFFICES ASSUME i + 1 \in 0..n
                PROVE  IsSeq(f[i + 1].digits) /\ Len(f[i + 1].digits) = i + 1
    BY <2>1
  <2>2. i \in 0..n /\ i + 1 # 0 /\ (i + 1) - 1 = i
    BY <1>1, <2>1
  <2>3. IsSeq(f[i].digits) /\ Len(f[i].digits) = i
    BY <2>2
  <2>4. f[i + 1] = AddsOne(columns, base, f[i], i + 1)
    BY <1>4, <2>2
  <2>5. PICK x : f[i + 1].digits = Append(f[i].digits, x)
    BY <2>4 DEF AddsOne
  <2>. QED BY <2>3, <2>5, AppendFacts
<1>7. N = Nat
  <2>1. N \in SUBSET Nat
    OBVIOUS
  <2>. HIDE DEF N
  <2>. QED BY <1>5, <1>6, <2>1, FromZero
<1>8. IsSeq(all.digits) /\ Len(all.digits) = n
  <2>1. n \in 0..n
    BY <1>1
  <2>. QED BY <1>1, <1>7, <2>1
<1>. HIDE DEF all
<1>9. IsSeq(Append(all.digits, all.carry)) /\ Len(Append(all.digits, all.carry)) = n + 1
  BY <1>8, AppendFacts
<1>. QED BY <1>1, <1>2, <1>8, <1>9 DEF n

\* Inputs, and what an environment writes.
Digits(kw) == 0..(kw.base - 1)
InputIs(cls, kw, x) == /\ IF Alg!Grid(cls) THEN x \in Seq([1..kw.rows -> Digits(kw)]) ELSE x \in Seq(Digits(kw))
                       /\ Len(x) >= 1
                       /\ cls = "DuplicatedInput" => Len(x) >= kw.duplication

LEMMA AlgKw ==
  ASSUME NEW cls \in Alg!AlgorithmicClasses, NEW kw, KwOK(cls, kw)
  PROVE  /\ kw.base \in Nat \ {0} /\ kw.rows \in Nat \ {0} /\ kw.duplication \in Nat \ {0}
         /\ kw.last10 \in Nat \ {0} /\ kw.last50 \in Nat \ {0}
         /\ cls \notin {"FrozenLake", "Blackjack", "NChain"}
<1>1. {kw.base, kw.rows, kw.duplication, kw.last10, kw.last50} \subseteq Positive
  BY DEF KwOK
<1>2. cls \notin {"FrozenLake", "Blackjack", "NChain"}
  BY DEF Alg!AlgorithmicClasses
<1>. QED BY <1>1, <1>2 DEF Positive

LEMMA QuotientPositive ==
  ASSUME NEW a \in Nat, NEW d \in Nat \ {0}, a >= d
  PROVE  a \div d \in Nat /\ a \div d >= 1
<1>1. a = d * (a \div d) + (a % d) /\ a \div d \in Int /\ a % d \in 0..(d - 1)
  BY DivModIs
<1>. DEFINE q == a \div d
            r == a % d
<1>2. a = d * q + r /\ q \in Int /\ r \in Int /\ r < d
  BY <1>1
<1>. HIDE DEF q, r
<1>3. q <= 0 => d * q <= 0
  BY <1>2
<1>4. q >= 1
  BY <1>2, <1>3
<1>. QED BY <1>2, <1>4 DEF q

\* What DuplicatedInput draws: n characters, each of them d times over.
Repeated(base, d, n) == {Alg!Seqs!FlattenSeq([i \in 1..n |-> [j \in 1..d |-> f[i]]]) : f \in [1..n -> 0..(base - 1)]}

LEMMA InputOfData ==
  ASSUME NEW cls \in Alg!AlgorithmicClasses, NEW kw, KwOK(cls, kw), NEW size \in Nat, size >= 1,
         NEW x \in Alg!InputData(cls, kw, size)
  PROVE  InputIs(cls, kw, x)
<1>. DEFINE D == Digits(kw)
            d == kw.duplication
<1>1. d \in Nat \ {0} /\ kw.rows \in Nat \ {0}
  BY AlgKw
<1>2. CASE cls = "DuplicatedInput"
  <2>. DEFINE n == (IF size < d THEN d ELSE size) \div d
              Twice(f) == [i \in 1..n |-> [j \in 1..d |-> f[i]]]
  <2>1. x \in Repeated(kw.base, d, n)
    <3>1. Alg!InputData(cls, kw, size) =
            CASE cls = "DuplicatedInput" -> Repeated(kw.base, d, n)
              [] Alg!Grid(cls) -> [1..size -> [1..kw.rows -> 0..(kw.base - 1)]]
              [] OTHER -> [1..size -> 0..(kw.base - 1)]
      BY DEF Alg!InputData, Repeated
    <3>2. ~Alg!Grid(cls)
      BY <1>2 DEF Alg!Grid
    <3>. QED BY <1>2, <3>1, <3>2
  <2>2. PICK f \in [1..n -> D] : x = Alg!Seqs!FlattenSeq(Twice(f))
    <3>1. Repeated(kw.base, d, n) = {Alg!Seqs!FlattenSeq(Twice(f)) : f \in [1..n -> D]}
      BY Zenon DEF Repeated, Digits
    <3>. HIDE DEF D, n, Twice
    <3>. QED BY <2>1, <3>1
  <2>3. n \in Nat /\ n >= 1
    <3>. DEFINE a == IF size < d THEN d ELSE size
    <3>1. a \in Nat /\ a >= d
      BY <1>1
    <3>. HIDE DEF a
    <3>2. a \div d \in Nat /\ a \div d >= 1
      BY <1>1, <3>1, QuotientPositive
    <3>. QED BY <3>2 DEF a
  <2>. HIDE DEF n, D, d
  <2>4. \A i \in 1..n : [j \in 1..d |-> f[i]] \in Seq(D) /\ Len([j \in 1..d |-> f[i]]) = d
    BY <1>1
  <2>5. Twice(f) \in Seq(Seq(D)) /\ Len(Twice(f)) = n
    <3>. DEFINE S1 == Seq(D)
                G(i) == [j \in 1..d |-> f[i]]
    <3>1. \A i \in 1..n : G(i) \in S1
      BY <2>4
    <3>2. Twice(f) = [i \in 1..n |-> G(i)]
      OBVIOUS
    <3>. HIDE DEF S1, G, Twice
    <3>3. Twice(f) \in Seq(S1) /\ Len(Twice(f)) = n
      BY <2>3, <3>1, <3>2
    <3>. QED BY <3>3 DEF S1
  <2>6. \A i \in 1..n : Len(Twice(f)[i]) = d
    BY <2>4
  <2>. DEFINE t == Twice(f)
  <2>. HIDE DEF Twice
  <2>7. t \in Seq(Seq(D)) /\ Len(t) = n /\ n # 0 /\ d \in Nat /\ \A i \in 1..Len(t) : Len(t[i]) = d
    BY <1>1, <2>3, <2>5, <2>6
  <2>. HIDE DEF t
  <2>8. Alg!Seqs!FlattenSeq(t) \in Seq(D) /\ Len(Alg!Seqs!FlattenSeq(t)) = n * d
    BY <2>7, JoinIs
  <2>9. n * d >= d /\ n * d >= 1
    BY <1>1, <2>3
  <2>10. ~Alg!Grid(cls)
    BY <1>2 DEF Alg!Grid
  <2>. QED BY <2>2, <2>8, <2>9, <2>10 DEF InputIs, D, d, t
<1>3. CASE Alg!Grid(cls)
  <2>1. cls # "DuplicatedInput"
    BY <1>3 DEF Alg!Grid
  <2>2. x \in [1..size -> [1..kw.rows -> D]]
    BY <1>3, <2>1 DEF Alg!InputData, Digits
  <2>. DEFINE T == [1..kw.rows -> D]
  <2>. HIDE DEF T
  <2>3. x \in [1..size -> T]
    BY <2>2 DEF T
  <2>4. x \in Seq(T) /\ Len(x) = size
    BY <2>3
  <2>. QED BY <1>3, <2>1, <2>4 DEF InputIs, T
<1>4. CASE cls # "DuplicatedInput" /\ ~Alg!Grid(cls)
  <2>1. x \in [1..size -> D]
    BY <1>4 DEF Alg!InputData, Digits
  <2>. HIDE DEF D
  <2>2. x \in Seq(D) /\ Len(x) = size
    BY <2>1
  <2>. QED BY <1>4, <2>2 DEF InputIs, D
<1>. QED BY <1>2, <1>3, <1>4

LEMMA TargetIs ==
  ASSUME NEW cls \in Alg!AlgorithmicClasses, NEW kw, KwOK(cls, kw), NEW x, InputIs(cls, kw, x)
  PROVE  /\ IsSeq(Alg!target_from_input_data(cls, kw, x))
         /\ Len(Alg!target_from_input_data(cls, kw, x)) >= 1
<1>. DEFINE t == Alg!target_from_input_data(cls, kw, x)
            D == Digits(kw)
<1>1. Alg!Grid(cls) <=> cls = "ReversedAddition"
  BY DEF Alg!Grid
<1>2. CASE cls = "ReversedAddition"
  <2>1. x \in Seq([1..kw.rows -> Digits(kw)]) /\ Len(x) >= 1
    BY <1>1, <1>2 DEF InputIs
  <2>2. IsSeq(x)
    BY <2>1, AnySeq
  <2>3. t = Alg!AddColumns(x, kw.base)
    BY <1>2 DEF Alg!target_from_input_data
  <2>4. Len(x) \in Nat /\ IsSeq(t) /\ Len(t) >= Len(x)
    BY <2>2, <2>3, SumLength, SeqFacts
  <2>5. Len(t) \in Nat
    BY <2>4, SeqFacts
  <2>. QED BY <2>1, <2>4, <2>5
<1>3. CASE cls # "ReversedAddition"
  <2>1. x \in Seq(D) /\ Len(x) \in Nat /\ Len(x) >= 1
    BY <1>1, <1>3 DEF InputIs
  <2>. HIDE DEF D
  <2>2. Alg!Seqs!Reverse(x) \in Seq(D) /\ Len(Alg!Seqs!Reverse(x)) = Len(x)
    <3>1. \A i \in 1..Len(x) : x[(Len(x) - i) + 1] \in D
      BY <2>1
    <3>. DEFINE G(i) == x[(Len(x) - i) + 1]
                n == Len(x)
    <3>2. Alg!Seqs!Reverse(x) = [i \in 1..n |-> G(i)] /\ n \in Nat /\ \A i \in 1..n : G(i) \in D
      BY <2>1, <3>1 DEF Alg!Seqs!Reverse
    <3>. HIDE DEF G, n
    <3>3. [i \in 1..n |-> G(i)] \in Seq(D) /\ Len([i \in 1..n |-> G(i)]) = n
      BY <3>2
    <3>. QED BY <3>2, <3>3 DEF n
  <2>3. CASE cls = "Copy"
    <3>1. t = x
      BY <2>3 DEF Alg!target_from_input_data
    <3>. QED BY <2>1, <3>1, AnySeq
  <2>4. CASE cls = "RepeatCopy"
    <3>. DEFINE r == Alg!Seqs!Reverse(x)
    <3>1. t = x \o r \o x
      BY <2>4 DEF Alg!target_from_input_data
    <3>. HIDE DEF r, t
    <3>2. r \in Seq(D)
      BY <2>2 DEF r
    <3>3. x \o r \in Seq(D) /\ Len(x \o r) \in Nat
      BY <2>1, <3>2
    <3>4. x \o r \o x \in Seq(D) /\ Len(x \o r \o x) = Len(x \o r) + Len(x)
      BY <2>1, <3>3, ConcatProperties
    <3>5. t \in Seq(D) /\ Len(t) >= 1
      BY <2>1, <3>1, <3>3, <3>4
    <3>6. IsSeq(t)
      BY <3>5, AnySeq
    <3>. QED BY <3>5, <3>6 DEF t
  <2>5. CASE cls = "DuplicatedInput"
    <3>. DEFINE d == kw.duplication
                n == Len(x) \div d
                G(i) == x[d * (i - 1) + 1]
    <3>1. t = [i \in 1..n |-> G(i)]
      BY <2>5 DEF Alg!target_from_input_data
    <3>2. d \in Nat \ {0} /\ Len(x) >= d
      BY <2>5, AlgKw DEF InputIs
    <3>3. n \in Nat /\ n >= 1
      BY <2>1, <3>2, QuotientPositive
    <3>. HIDE DEF G, n, t
    <3>4. DOMAIN t = 1..n
      BY <3>1
    <3>5. t \in [1..n -> {t[i] : i \in DOMAIN t}]
      BY <3>1, <3>4
    <3>6. IsSeq(t) /\ Len(t) = n
      BY <3>3, <3>5 DEF IsSeq
    <3>. QED BY <3>3, <3>6 DEF t
  <2>6. CASE cls = "Reverse"
    <3>1. t = Alg!Seqs!Reverse(x)
      BY <2>6 DEF Alg!target_from_input_data
    <3>. QED BY <2>1, <2>2, <3>1, AnySeq
  <2>. QED BY <1>3, <2>3, <2>4, <2>5, <2>6 DEF Alg!AlgorithmicClasses
<1>. QED BY <1>2, <1>3

\* Tapes: what an episode holds.
Heads(cls) == IF Alg!Grid(cls) THEN Int \X Int ELSE Int
TapeIs(cls, kw, s) ==
  /\ s = [read |-> s.read, write |-> s.write, total |-> s.total, time |-> s.time, input |-> s.input, target |-> s.target]
  /\ s.read \in Heads(cls) /\ s.write \in Nat /\ s.total \in Int /\ s.time \in Nat
  /\ InputIs(cls, kw, s.input) /\ IsSeq(s.target) /\ Len(s.target) >= 1
TapeInv(e) == /\ TapeSound(e) /\ Shown(e) /\ TapeIs(e.cls, e.kw, e.st)
              /\ ~e.done => e.st.write < Len(e.st.target)
              /\ e.st.total = 2 * e.st.write \/ e.st.total <= 2 * Len(e.st.target) - 3

LEMMA TapeSpaces ==
  ASSUME NEW e, e.cls \in Alg!AlgorithmicClasses
  PROVE  /\ ObsSpace(e) = Toy!Discrete(e.kw.base + 1)
         /\ ActionSpace(e) = Toy!TupleSpace(<<Toy!Discrete(IF Alg!Grid(e.cls) THEN 4 ELSE 2), Toy!Discrete(2), Toy!Discrete(e.kw.base)>>)
<1>1. ObsSpace(e) = Alg!AlgObsSpace(e.kw) /\ ActionSpace(e) = Alg!AlgActions(e.cls, e.kw)
  BY OfAlg
<1>. QED BY <1>1 DEF Alg!AlgObsSpace, Alg!AlgActions, Alg!Discrete, Toy!Discrete, Alg!TupleSpace, Toy!TupleSpace

LEMMA CharIs ==
  ASSUME NEW cls \in Alg!AlgorithmicClasses, NEW kw, KwOK(cls, kw), NEW x, InputIs(cls, kw, x), NEW pos \in Heads(cls)
  PROVE  Alg!CharAt(cls, kw, x, pos) \in 0..kw.base
<1>1. kw.base \in Nat /\ kw.base \in 0..kw.base /\ Digits(kw) \subseteq 0..kw.base /\ kw.rows \in Nat
  BY AlgKw DEF Digits
<1>2. CASE Alg!Grid(cls)
  <2>. DEFINE T == [1..kw.rows -> Digits(kw)]
              n == Len(x)
              u == pos[1]
              v == pos[2]
  <2>1. x \in Seq(T) /\ u \in Int /\ v \in Int
    BY <1>2 DEF InputIs, Heads
  <2>2. n \in Nat /\ \A i \in 1..n : x[i] \in T
    <3>. HIDE DEF T
    <3>. QED BY <2>1
  <2>3. Alg!CharAt(cls, kw, x, pos) = IF u \in 0..(n - 1) /\ v \in 0..(kw.rows - 1) THEN x[u + 1][v + 1] ELSE kw.base
    BY <1>2 DEF Alg!CharAt
  <2>4. u \in 0..(n - 1) /\ v \in 0..(kw.rows - 1) => u + 1 \in 1..n /\ v + 1 \in 1..kw.rows
    BY <1>1, <2>1, <2>2, SMTT(60)
  <2>5. \A i \in 1..n, j \in 1..kw.rows : x[i][j] \in Digits(kw)
    BY <2>2
  <2>. HIDE DEF n, u, v, T
  <2>. QED BY <1>1, <2>3, <2>4, <2>5
<1>3. CASE ~Alg!Grid(cls)
  <2>1. x \in Seq(Digits(kw)) /\ pos \in Int
    BY <1>3 DEF InputIs, Heads
  <2>2. Alg!CharAt(cls, kw, x, pos) = IF pos \in 0..(Len(x) - 1) THEN x[pos + 1] ELSE kw.base
    BY <1>3 DEF Alg!CharAt
  <2>3. Len(x) \in Nat /\ \A i \in 1..Len(x) : x[i] \in Digits(kw)
    BY <2>1
  <2>4. pos \in 0..(Len(x) - 1) => pos + 1 \in 1..Len(x)
    BY <2>1, <2>3
  <2>. QED BY <1>1, <2>2, <2>3, <2>4
<1>. QED BY <1>2, <1>3

LEMMA TapeShown ==
  ASSUME NEW e, e.cls \in Alg!AlgorithmicClasses, KwOK(e.cls, e.kw), TapeIs(e.cls, e.kw, e.st),
         e.obs = Alg!AlgObs(e.cls, e.kw, e.st)
  PROVE  Shown(e)
<1>1. e.obs \in 0..e.kw.base
  BY CharIs DEF Alg!AlgObs, TapeIs
<1>2. ObsSpace(e) = Toy!Discrete(e.kw.base + 1) /\ e.kw.base \in Nat
  BY TapeSpaces, AlgKw
<1>3. e.obs \in Int /\ e.obs >= 0 /\ e.obs < e.kw.base + 1
  BY <1>1, <1>2
<1>. QED BY <1>2, <1>3, DiscreteIs DEF Shown

LEMMA TapeReset ==
  ASSUME NEW e, e.cls \in Alg!AlgorithmicClasses, KwOK(e.cls, e.kw), NEW sh, sh.min_length \in Nat, sh.min_length >= 1,
         NEW r \in Resets(e.cls, e.kw, sh), Fresh(e, r)
  PROVE  TapeInv(e)
<1>. DEFINE T(x) == [read |-> Alg!ReadHeadStart(e.cls), write |-> 0, total |-> 0, time |-> 0, input |-> x,
                     target |-> Alg!target_from_input_data(e.cls, e.kw, x)]
            X == UNION {Alg!InputData(e.cls, e.kw, n + sh.min_length) : n \in 0..2}
            Y == {y \in X : e.kw.inputs = {} \/ y \in e.kw.inputs}
            A == Alg!AlgReset(e.cls, e.kw, sh)
            O(s) == Alg!AlgObs(e.cls, e.kw, s)
<1>1. Resets(e.cls, e.kw, sh) = {<<s, O(s)>> : s \in A}
  BY OfAlg
<1>2. A = {T(x) : x \in Y}
  BY DEF Alg!AlgReset
<1>3. PICK x \in X : e.st = T(x) /\ e.obs = Alg!AlgObs(e.cls, e.kw, e.st)
  <2>1. PICK s \in A : r = <<s, O(s)>>
    <3>. HIDE DEF A, O
    <3>. QED BY <1>1
  <2>2. e.st = s /\ e.obs = O(s)
    BY <2>1 DEF Fresh
  <2>3. PICK x \in Y : s = T(x)
    <3>. HIDE DEF A, Y, T
    <3>. QED BY <1>2
  <2>. QED BY <2>2, <2>3
<1>4. InputIs(e.cls, e.kw, x)
  <2>1. PICK n \in 0..2 : x \in Alg!InputData(e.cls, e.kw, n + sh.min_length)
    OBVIOUS
  <2>2. n + sh.min_length \in Nat /\ n + sh.min_length >= 1
    BY <2>1
  <2>. QED BY <2>1, <2>2, InputOfData
<1>. DEFINE t == Alg!target_from_input_data(e.cls, e.kw, x)
<1>5. IsSeq(t) /\ Len(t) >= 1 /\ Len(t) \in Nat
  BY <1>4, TargetIs, SeqFacts
<1>6. Alg!ReadHeadStart(e.cls) \in Heads(e.cls)
  BY DEF Alg!ReadHeadStart, Heads
<1>. HIDE DEF t
<1>7. /\ e.st.read = Alg!ReadHeadStart(e.cls) /\ e.st.write = 0 /\ e.st.total = 0 /\ e.st.time = 0
      /\ e.st.input = x /\ e.st.target = t
      /\ e.st = [read |-> e.st.read, write |-> e.st.write, total |-> e.st.total, time |-> e.st.time,
                 input |-> e.st.input, target |-> e.st.target]
  BY <1>3 DEF t
<1>8. TapeIs(e.cls, e.kw, e.st)
  BY <1>4, <1>5, <1>6, <1>7 DEF TapeIs
<1>9. Shown(e)
  BY <1>3, <1>8, TapeShown
<1>10. Len(x) \in Nat
  BY <1>4 DEF InputIs
<1>11. TapeSound(e)
  BY <1>5, <1>7, <1>10 DEF TapeSound, Alg!TimeLimitOf
<1>. QED BY <1>5, <1>7, <1>8, <1>9, <1>11 DEF TapeInv

LEMMA MoveIs ==
  ASSUME NEW cls, NEW pos \in Heads(cls), NEW m \in Int, 0 <= m, m <= 3
  PROVE  Alg!Move(cls, pos, m) \in Heads(cls)
<1>1. CASE Alg!Grid(cls)
  <2>1. pos[1] \in Int /\ pos[2] \in Int
    BY <1>1 DEF Heads
  <2>2. m = 0 \/ m = 1 \/ m = 2 \/ m = 3
    OBVIOUS
  <2>3. Alg!Move(cls, pos, m) \in Int \X Int
    BY <1>1, <2>1, <2>2 DEF Alg!Move
  <2>. QED BY <1>1, <2>3 DEF Heads
<1>2. CASE ~Alg!Grid(cls)
  BY <1>2 DEF Heads, Alg!Move
<1>. QED BY <1>1, <1>2

LEMMA TapeExcept ==
  ASSUME NEW R, NEW W, NEW L, NEW T, NEW I, NEW G, NEW s \in [read : R, write : W, total : L, time : T, input : I, target : G],
         NEW x \in T, NEW y \in W, NEW z \in R, NEW v \in L
  PROVE  [s EXCEPT !.time = x, !.write = y, !.read = z, !.total = v]
           = [read |-> z, write |-> y, total |-> v, time |-> x, input |-> s.input, target |-> s.target]
<1>. DEFINE t == [s EXCEPT !.time = x, !.write = y, !.read = z, !.total = v]
<1>1. t \in [read : R, write : W, total : L, time : T, input : I, target : G]
  OBVIOUS
<1>2. t.time = x /\ t.write = y /\ t.read = z /\ t.total = v /\ t.input = s.input /\ t.target = s.target
  OBVIOUS
<1>. HIDE DEF t
<1>3. t = [read |-> t.read, write |-> t.write, total |-> t.total, time |-> t.time, input |-> t.input, target |-> t.target]
  BY <1>1
<1>. QED BY <1>2, <1>3 DEF t

LEMMA TapeStep ==
  ASSUME NEW d, NEW e, e.cls \in Alg!AlgorithmicClasses, KwOK(e.cls, e.kw), TapeInv(d),
         NEW a, a[1] \in Int, 0 <= a[1], a[1] <= 3, a[2] \in Int, a[2] = 0 \/ a[2] = 1,
         NEW o \in Alg!AlgStep(d.cls, d.kw, d.st, a), After(d, e, o)
  PROVE  TapeInv(e)
<1>. DEFINE s == d.st
            n == Len(s.target)
            limit == Alg!TimeLimitOf(d.cls, s)
            w == IF a[2] = 1 THEN Alg!Writes(s, a[3]) ELSE [reward |-> 0, done |-> FALSE]
            late == s.time + 1 > limit
            reward == IF late THEN -2 ELSE w.reward
            t == [s EXCEPT !.time = @ + 1, !.write = @ + a[2], !.read = Alg!Move(d.cls, @, a[1]), !.total = @ + reward]
<1>1. /\ d.cls = e.cls /\ d.kw = e.kw /\ ~d.done /\ TapeIs(d.cls, d.kw, s) /\ s.write < n
      /\ s.total = 2 * s.write /\ s.time <= limit
  BY DEF After, TapeInv, TapeSound
<1>2. /\ s = [read |-> s.read, write |-> s.write, total |-> s.total, time |-> s.time, input |-> s.input, target |-> s.target]
      /\ s.read \in Heads(d.cls) /\ s.write \in Nat /\ s.total \in Int /\ s.time \in Nat
      /\ InputIs(d.cls, d.kw, s.input) /\ IsSeq(s.target) /\ n >= 1 /\ n \in Nat
  BY <1>1, SeqFacts DEF TapeIs
<1>3. o = [st |-> t, obs |-> Alg!AlgObs(d.cls, d.kw, t), reward |-> reward, done |-> late \/ w.done]
  BY DEF Alg!AlgStep
<1>4. e.st = t /\ e.obs = Alg!AlgObs(e.cls, e.kw, t) /\ e.done = (late \/ w.done)
  <2>. HIDE DEF t, reward, late, w
  <2>. QED BY <1>1, <1>3 DEF After
<1>5. Len(s.input) \in Nat /\ limit \in Int
  BY <1>2 DEF InputIs, Alg!TimeLimitOf
<1>6. /\ w.reward \in Int /\ w.reward <= 2 * a[2] /\ (w.reward = 2 * a[2] \/ w.reward <= -1)
      /\ ~w.done => w.reward = 2 * a[2] /\ s.write + a[2] < n
  <2>1. CASE a[2] = 0
    BY <1>1, <1>2, <2>1
  <2>2. CASE a[2] = 1
    <3>. DEFINE correct == s.write < n /\ a[3] = s.target[s.write + 1]
                last == s.write + 1 >= n
    <3>1. w = [reward |-> IF correct THEN 2 ELSE -1, done |-> ~correct \/ last]
      BY <2>2 DEF Alg!Writes
    <3>. HIDE DEF correct, w
    <3>2. w.reward = (IF correct THEN 2 ELSE -1) /\ w.done = (~correct \/ last)
      BY <3>1
    <3>3. ~w.done => correct /\ ~last
      BY <3>2
    <3>. QED BY <1>2, <2>2, <3>2, <3>3
  <2>. QED BY <2>1, <2>2
<1>. DEFINE move == Alg!Move(d.cls, s.read, a[1])
<1>7. move \in Heads(d.cls)
  BY <1>2, MoveIs
<1>. HIDE DEF w, limit
<1>8. reward \in Int /\ reward <= 2 * a[2] /\ (reward = 2 * a[2] \/ reward <= -1) /\ (~late /\ ~w.done => reward = 2 * a[2] /\ s.write + a[2] < n /\ s.time + 1 <= limit)
  <2>1. a[2] \in Int /\ 0 <= 2 * a[2] /\ s.time \in Int
    BY <1>2
  <2>2. CASE late
    <3>1. reward = -2
      BY <2>2
    <3>. HIDE DEF reward, late
    <3>. QED BY <2>1, <2>2, <3>1
  <2>3. CASE ~late
    <3>1. reward = w.reward /\ s.time + 1 <= limit
      BY <1>5, <2>1, <2>3
    <3>. HIDE DEF reward, late
    <3>. QED BY <1>6, <3>1
  <2>. QED BY <2>2, <2>3
<1>. HIDE DEF reward, late
<1>9. t = [read |-> move, write |-> s.write + a[2], total |-> s.total + reward, time |-> s.time + 1,
           input |-> s.input, target |-> s.target]
  <2>1. s \in [read : Heads(d.cls), write : Nat, total : Int, time : Nat, input : {s.input}, target : {s.target}]
    BY <1>2
  <2>2. s.time + 1 \in Nat /\ s.write + a[2] \in Nat /\ s.total + reward \in Int
    <3>1. a[2] \in Nat /\ s.time \in Nat /\ s.write \in Nat /\ s.total \in Int /\ reward \in Int
      BY <1>2, <1>8
    <3>. HIDE DEF s
    <3>. QED BY <3>1
  <2>. DEFINE x == s.time + 1
              y == s.write + a[2]
              v == s.total + reward
  <2>3. t = [s EXCEPT !.time = x, !.write = y, !.read = move, !.total = v]
    OBVIOUS
  <2>. HIDE DEF x, y, v, t, move, s
  <2>4. x \in Nat /\ y \in Nat /\ v \in Int
    BY <2>2 DEF x, y, v
  <2>5. t = [read |-> move, write |-> y, total |-> v, time |-> x, input |-> s.input, target |-> s.target]
    BY <1>7, <2>1, <2>3, <2>4, TapeExcept
  <2>. QED BY <2>5 DEF x, y, v
<1>. HIDE DEF t, move
<1>10. /\ t.read = move /\ t.write = s.write + a[2] /\ t.total = s.total + reward /\ t.time = s.time + 1
       /\ t.input = s.input /\ t.target = s.target
       /\ t = [read |-> t.read, write |-> t.write, total |-> t.total, time |-> t.time, input |-> t.input, target |-> t.target]
  BY <1>9
<1>11. TapeIs(e.cls, e.kw, e.st)
  <2>1. t.write \in Nat /\ t.total \in Int /\ t.time \in Nat
    <3>. HIDE DEF s, n
    <3>. QED BY <1>2, <1>8, <1>10
  <2>2. t.read \in Heads(e.cls) /\ InputIs(e.cls, e.kw, t.input) /\ IsSeq(t.target) /\ Len(t.target) >= 1
    BY <1>1, <1>2, <1>7, <1>10
  <2>3. e.st = t
    BY <1>4
  <2>. HIDE DEF s
  <2>. QED BY <1>10, <2>1, <2>2, <2>3 DEF TapeIs
<1>12. Shown(e)
  BY <1>4, <1>11, TapeShown
<1>13. Alg!TimeLimitOf(e.cls, e.st) = limit /\ Len(e.st.target) = n
  BY <1>1, <1>4, <1>10 DEF Alg!TimeLimitOf, limit
<1>. HIDE DEF n
<1>14. TapeSound(e)
  <2>. DEFINE u == e.st
  <2>1. u = t /\ u.write = s.write + a[2] /\ u.total = s.total + reward /\ u.time = s.time + 1
    BY <1>4, <1>10
  <2>. HIDE DEF s, u
  <2>2. u.total <= 2 * u.write /\ u.write <= n
    BY <1>1, <1>2, <1>8, <2>1, SMTT(60)
  <2>3. ~e.done => u.total = 2 * u.write /\ u.time <= limit
    <3>. SUFFICES ASSUME ~e.done PROVE u.total = 2 * u.write /\ u.time <= limit
      OBVIOUS
    <3>1. ~late /\ ~w.done
      BY <1>4
    <3>2. reward = 2 * a[2] /\ s.time + 1 <= limit
      BY <1>8, <3>1
    <3>3. s.total = 2 * s.write /\ s.total \in Int /\ s.write \in Nat
      BY <1>1, <1>2
    <3>. QED BY <2>1, <3>2, <3>3
  <2>. QED BY <1>13, <2>2, <2>3 DEF TapeSound, u
<1>16. e.st.total = 2 * e.st.write \/ e.st.total <= 2 * n - 3
  <2>1. t.write = s.write + a[2] /\ t.total = s.total + reward /\ s.total = 2 * s.write /\ s.write < n
    BY <1>1, <1>10
  <2>2. s.write \in Nat /\ s.total \in Int /\ n \in Nat
    BY <1>2
  <2>3. e.st = t
    BY <1>4
  <2>. HIDE DEF s
  <2>4. CASE reward = 2 * a[2]
    BY <2>1, <2>2, <2>3, <2>4
  <2>5. CASE reward <= -1
    BY <1>8, <2>1, <2>2, <2>3, <2>5
  <2>. QED BY <1>8, <2>4, <2>5
<1>15. ~e.done => e.st.write < Len(e.st.target)
  BY <1>4, <1>8, <1>10, <1>13
<1>. QED BY <1>11, <1>12, <1>13, <1>14, <1>15, <1>16 DEF TapeInv

-----------------------------------------------------------------------------
(* The spaces, and the actions that a program takes.                       *)

IsDiscrete(sp) == \E n \in Nat : sp = S!Discrete(n)
IsBox(sp) == \E low, high \in Seq(Int) : Len(low) = Len(high) /\ sp = S!Box(low, high, TRUE)
IsTriple(sp) == \E m, n, k \in Nat : sp = S!TupleSpace(<<S!Discrete(m), S!Discrete(n), S!Discrete(k)>>)

LEMMA OfTwo == ASSUME NEW a, NEW b PROVE DOMAIN <<a, b>> = 1..2
OBVIOUS

LEMMA DiscreteActs ==
  ASSUME NEW sp, IsDiscrete(sp)
  PROVE  S!SpaceOK(sp) /\ \A a \in S!SampleOf(sp) : ActOK(sp, a)
<1>1. PICK n \in Nat : sp = S!Discrete(n)
  BY DEF IsDiscrete
<1>2. sp.kind = "Discrete" /\ sp.n = n
  BY <1>1 DEF S!Discrete
<1>3. S!SpaceOK(sp)
  BY <1>2 DEF S!SpaceOK, S!PlainOK
<1>4. S!SampleOf(sp) = 0..(n - 1)
  BY <1>2 DEF S!SampleOf, S!SamplePlain
<1>5. ASSUME NEW a \in 0..(n - 1) PROVE ActOK(sp, a)
  BY <1>2 DEF ActOK, S!Contains, S!ContainsPlain
<1>. QED BY <1>3, <1>4, <1>5

LEMMA HalfIs ==
  ASSUME NEW l \in Int, NEW h \in Int, NEW y \in Int, 2 * l <= y, y <= 2 * h
  PROVE  S!Half(y) \in Int /\ l <= S!Half(y) /\ S!Half(y) <= h
<1>1. CASE y < 0
  <2>. DEFINE z == -y
              q == z \div 2
  <2>1. z \in Int /\ z = 2 * q + (z % 2) /\ q \in Int /\ z % 2 \in 0..1
    BY DivModIs
  <2>2. S!Half(y) = -q
    BY <1>1 DEF S!Half
  <2>3. 2 * q <= z /\ z <= 2 * q + 1
    BY <2>1
  <2>. HIDE DEF q
  <2>4. l <= -q /\ -q <= h
    BY <1>1, <2>1, <2>3
  <2>. QED BY <2>1, <2>2, <2>4
<1>2. CASE ~(y < 0)
  <2>. DEFINE q == y \div 2
  <2>1. y = 2 * q + (y % 2) /\ q \in Int /\ y % 2 \in 0..1
    BY DivModIs
  <2>2. S!Half(y) = q
    BY <1>2 DEF S!Half
  <2>3. 2 * q <= y /\ y <= 2 * q + 1
    BY <2>1
  <2>. HIDE DEF q
  <2>4. l <= q /\ q <= h
    BY <1>2, <2>1, <2>3
  <2>. QED BY <2>1, <2>2, <2>4
<1>. QED BY <1>1, <1>2

LEMMA BoxActs ==
  ASSUME NEW sp, IsBox(sp)
  PROVE  S!SpaceOK(sp) /\ \A a \in S!SampleOf(sp) : ActOK(sp, a)
<1>1. PICK low, high \in Seq(Int) : Len(low) = Len(high) /\ sp = S!Box(low, high, TRUE)
  BY DEF IsBox
<1>2. sp.kind = "Box" /\ sp.low = low /\ sp.high = high /\ sp.float = TRUE
  BY <1>1 DEF S!Box
<1>3. S!SpaceOK(sp)
  BY <1>1, <1>2 DEF S!SpaceOK, S!PlainOK
<1>. DEFINE Part(i) == {S!Half(y) : y \in (2 * sp.low[i])..(2 * sp.high[i] + (IF sp.float THEN 0 ELSE 1))}
            parts == [i \in DOMAIN sp.low |-> Part(i)]
            All == UNION {parts[k] : k \in DOMAIN parts}
<1>4. S!SampleOf(sp) = {f \in [DOMAIN parts -> All] : \A k \in DOMAIN parts : f[k] \in parts[k]}
  <2>1. S!SampleOf(sp) = S!SamplePlain(sp)
    BY <1>2 DEF S!SampleOf
  <2>2. S!SamplePlain(sp) = S!Products(parts)
    BY <1>2 DEF S!SamplePlain
  <2>3. S!Products(parts) = {f \in [DOMAIN parts -> All] : \A k \in DOMAIN parts : f[k] \in parts[k]}
    BY DEF S!Products
  <2>. QED BY <2>1, <2>2, <2>3
<1>5. ASSUME NEW i \in DOMAIN low, NEW x \in Part(i) PROVE x \in Int /\ low[i] <= x /\ x <= high[i]
  <2>1. low[i] \in Int /\ high[i] \in Int
    BY <1>1
  <2>2. PICK y \in (2 * low[i])..(2 * high[i] + 0) : x = S!Half(y)
    BY <1>2
  <2>3. y \in Int /\ 2 * low[i] <= y /\ y <= 2 * high[i]
    BY <2>1, <2>2
  <2>. QED BY <2>1, <2>2, <2>3, HalfIs
<1>6. DOMAIN parts = DOMAIN low /\ \A k \in DOMAIN low : parts[k] = Part(k)
  BY <1>2
<1>7. DOMAIN low = 1..Len(low) /\ Len(low) \in Nat
  BY <1>1
<1>8. ASSUME NEW a \in S!SampleOf(sp) PROVE ActOK(sp, a)
  <2>. HIDE DEF parts, Part
  <2>1. a \in [DOMAIN low -> All] /\ \A k \in DOMAIN low : a[k] \in Part(k)
    BY <1>4, <1>6
  <2>2. \A k \in DOMAIN low : a[k] \in Int /\ low[k] <= a[k] /\ a[k] <= high[k]
    BY <1>5, <2>1
  <2>3. DOMAIN a = DOMAIN low
    BY <2>1
  <2>4. S!Contains(sp, a)
    BY <1>1, <2>2, <2>3, BoxIs
  <2>5. a \in [1..Len(low) -> Int]
    BY <1>7, <2>1, <2>2
  <2>6. a \in Seq(Int)
    BY <1>7, <2>5, SMTT(60)
  <2>. QED BY <2>4, <2>6 DEF ActOK
<1>. QED BY <1>3, <1>8

LEMMA TripleActs ==
  ASSUME NEW sp, IsTriple(sp)
  PROVE  S!SpaceOK(sp) /\ \A a \in S!SampleOf(sp) : ActOK(sp, a)
<1>1. PICK m, n, k \in Nat : sp = S!TupleSpace(<<S!Discrete(m), S!Discrete(n), S!Discrete(k)>>)
  BY DEF IsTriple
<1>2. sp.kind = "Tuple" /\ sp.spaces = <<S!Discrete(m), S!Discrete(n), S!Discrete(k)>>
  BY <1>1 DEF S!TupleSpace
<1>3. \A x \in Nat : S!Discrete(x).kind = "Discrete" /\ S!Discrete(x).n = x
  BY DEF S!Discrete
<1>. DEFINE d == sp.spaces
<1>4. /\ DOMAIN d = 1..3
      /\ \A i \in 1..3 : d[i] = S!Discrete(m) \/ d[i] = S!Discrete(n) \/ d[i] = S!Discrete(k)
  <2>1. \A i \in 1..3 : i = 1 \/ i = 2 \/ i = 3
    OBVIOUS
  <2>2. DOMAIN d = 1..3 /\ d[1] = S!Discrete(m) /\ d[2] = S!Discrete(n) /\ d[3] = S!Discrete(k)
    BY <1>2
  <2>. HIDE DEF d
  <2>. QED BY <2>1, <2>2
<1>. HIDE DEF d
<1>5. \A i \in 1..3 : d[i].kind = "Discrete" /\ d[i].n \in Nat
  BY <1>3, <1>4
<1>6. S!SpaceOK(sp)
  <2>1. ASSUME NEW i \in 1..3 PROVE S!PlainOK(d[i])
    <3>1. d[i].kind = "Discrete" /\ d[i].n >= 0
      BY <1>5
    <3>. QED BY <3>1 DEF S!PlainOK
  <2>. QED BY <1>2, <1>4, <2>1 DEF S!SpaceOK, d
<1>. DEFINE parts == [i \in DOMAIN d |-> S!SamplePlain(d[i])]
            All == UNION {parts[i] : i \in DOMAIN parts}
<1>7. S!SampleOf(sp) = {f \in [DOMAIN parts -> All] : \A i \in DOMAIN parts : f[i] \in parts[i]}
  BY <1>2 DEF S!SampleOf, S!Products, d
<1>8. ASSUME NEW a \in S!SampleOf(sp) PROVE ActOK(sp, a)
  <2>1. DOMAIN a = DOMAIN d /\ \A i \in DOMAIN d : a[i] \in S!SamplePlain(d[i])
    <3>1. DOMAIN parts = DOMAIN d /\ \A i \in DOMAIN d : parts[i] = S!SamplePlain(d[i])
      OBVIOUS
    <3>. HIDE DEF parts
    <3>2. a \in [DOMAIN parts -> All] /\ \A i \in DOMAIN parts : a[i] \in parts[i]
      BY <1>7
    <3>3. DOMAIN a = DOMAIN parts
      BY <3>2
    <3>. QED BY <3>1, <3>2, <3>3
  <2>2. \A i \in DOMAIN d : S!ContainsPlain(d[i], a[i])
    <3>. SUFFICES ASSUME NEW i \in 1..3 PROVE S!ContainsPlain(d[i], a[i])
      BY <1>4
    <3>1. a[i] \in 0..(d[i].n - 1)
      BY <1>4, <1>5, <2>1 DEF S!SamplePlain
    <3>2. a[i] \in Int /\ a[i] >= 0 /\ a[i] < d[i].n
      BY <1>5, <3>1
    <3>. QED BY <1>5, <3>2 DEF S!ContainsPlain
  <2>3. S!Contains(sp, a)
    BY <1>2, <2>1, <2>2 DEF S!Contains, d
  <2>. QED BY <1>2, <2>3 DEF ActOK
<1>. QED BY <1>6, <1>8

LEMMA DiscreteKind == ASSUME NEW n \in Nat PROVE IsDiscrete(Toy!Discrete(n))
<1>1. Toy!Discrete(n) = S!Discrete(n)
  BY DEF Toy!Discrete, S!Discrete
<1>. QED BY <1>1 DEF IsDiscrete

LEMMA IntervalKind == ASSUME NEW l \in Int, NEW h \in Int PROVE IsBox(Toy!Interval(l, h))
<1>1. Toy!Interval(l, h) = S!Box(<<l>>, <<h>>, TRUE)
  BY DEF Toy!Interval, Toy!Box, S!Box
<1>2. <<l>> \in Seq(Int) /\ <<h>> \in Seq(Int) /\ Len(<<l>>) = Len(<<h>>)
  OBVIOUS
<1>. QED BY <1>1, <1>2 DEF IsBox

LEMMA BoxKind == ASSUME NEW l \in Seq(Int), NEW h \in Seq(Int), Len(l) = Len(h) PROVE IsBox(S!Box(l, h, TRUE))
BY DEF IsBox

ActionKind(sp) == IsDiscrete(sp) \/ IsBox(sp) \/ IsTriple(sp)

LEMMA KindActs ==
  ASSUME NEW sp, ActionKind(sp)
  PROVE  S!SpaceOK(sp) /\ \A a \in S!SampleOf(sp) : ActOK(sp, a)
BY DiscreteActs, BoxActs, TripleActs DEF ActionKind

LEMMA ToyKinds ==
  ASSUME NEW e, e.cls \in ToyClasses, KwOK(e.cls, e.kw), e.cls = "KellyCoinflipGeneralized" => e.st.max_wealth \in Nat
  PROVE  ActionKind(ActionSpace(e))
<1>1. ActionSpace(e) = Toy!ToyActions(e.cls, e.kw, e.st)
  BY OfToy
<1>2. CASE e.cls \in {"FrozenLake", "CliffWalking"}
  <2>1. ActionSpace(e) = Toy!Discrete(4) /\ 4 \in Nat
    BY <1>1, <1>2 DEF Toy!ToyActions
  <2>. QED BY <2>1, DiscreteKind DEF ActionKind
<1>3. CASE e.cls = "Taxi"
  <2>1. ActionSpace(e) = Toy!Discrete(6) /\ 6 \in Nat
    BY <1>1, <1>3 DEF Toy!ToyActions
  <2>. QED BY <2>1, DiscreteKind DEF ActionKind
<1>4. CASE e.cls \in {"Blackjack", "NChain"}
  <2>1. ActionSpace(e) = Toy!Discrete(2) /\ 2 \in Nat
    BY <1>1, <1>4 DEF Toy!ToyActions
  <2>. QED BY <2>1, DiscreteKind DEF ActionKind
<1>5. CASE e.cls = "Roulette"
  <2>1. ActionSpace(e) = Toy!Discrete(e.kw.spots + 1)
    BY <1>1, <1>5 DEF Toy!ToyActions
  <2>2. e.kw.spots + 1 \in Nat
    BY <1>5 DEF KwOK, Positive
  <2>. QED BY <2>1, <2>2, DiscreteKind DEF ActionKind
<1>6. CASE e.cls = "GuessingGame"
  <2>1. ActionSpace(e) = Toy!Interval(-10000, 10000) /\ -10000 \in Int /\ 10000 \in Int
    BY <1>1, <1>6 DEF Toy!ToyActions
  <2>. QED BY <2>1, IntervalKind DEF ActionKind
<1>7. CASE e.cls = "HotterColder"
  <2>1. ActionSpace(e) = Toy!Interval(-2000, 2000) /\ -2000 \in Int /\ 2000 \in Int
    BY <1>1, <1>7 DEF Toy!ToyActions
  <2>. QED BY <2>1, IntervalKind DEF ActionKind
<1>8. CASE e.cls = "KellyCoinflip"
  <2>1. ActionSpace(e) = Toy!Discrete(e.kw.max_wealth)
    BY <1>1, <1>8 DEF Toy!ToyActions
  <2>2. e.kw.max_wealth \in Nat
    BY <1>8, Float32Assumption DEF KwOK
  <2>. QED BY <2>1, <2>2, DiscreteKind DEF ActionKind
<1>9. CASE e.cls = "KellyCoinflipGeneralized"
  <2>1. ActionSpace(e) = Toy!Discrete(e.st.max_wealth)
    BY <1>1, <1>9 DEF Toy!ToyActions
  <2>. QED BY <1>9, <2>1, DiscreteKind DEF ActionKind
<1>. QED BY <1>2, <1>3, <1>4, <1>5, <1>6, <1>7, <1>8, <1>9 DEF ToyClasses

LEMMA UnitKinds ==
  ASSUME NEW e, e.cls \in UnitClasses
  PROVE  ActionKind(ActionSpace(e))
<1>1. ActionSpace(e) = Unit!UnitActions(e.cls)
  BY OfUnit
<1>2. CASE e.cls \in {"CubeCrash", "MountainCar", "Acrobot"}
  <2>1. ActionSpace(e) = Toy!Discrete(3) /\ 3 \in Nat
    BY <1>1, <1>2 DEF Unit!UnitActions, Unit!Discrete, Toy!Discrete
  <2>. QED BY <2>1, DiscreteKind DEF ActionKind
<1>3. CASE e.cls = "MemorizeDigits"
  <2>1. ActionSpace(e) = Toy!Discrete(10) /\ 10 \in Nat
    BY <1>1, <1>3 DEF Unit!UnitActions, Unit!Discrete, Toy!Discrete
  <2>. QED BY <2>1, DiscreteKind DEF ActionKind
<1>4. CASE e.cls = "CartPole"
  <2>1. ActionSpace(e) = Toy!Discrete(2) /\ 2 \in Nat
    BY <1>1, <1>4 DEF Unit!UnitActions, Unit!Discrete, Toy!Discrete
  <2>. QED BY <2>1, DiscreteKind DEF ActionKind
<1>5. CASE e.cls = "Continuous_MountainCar"
  <2>1. ActionSpace(e) = Toy!Interval(-1, 1) /\ -1 \in Int /\ 1 \in Int
    BY <1>1, <1>5 DEF Unit!UnitActions, Unit!Interval, Toy!Interval, Unit!Box, Toy!Box
  <2>. QED BY <2>1, IntervalKind DEF ActionKind
<1>6. CASE e.cls = "Pendulum"
  <2>1. ActionSpace(e) = Toy!Interval(-2, 2) /\ -2 \in Int /\ 2 \in Int
    BY <1>1, <1>6 DEF Unit!UnitActions, Unit!Interval, Toy!Interval, Unit!Box, Toy!Box
  <2>. QED BY <2>1, IntervalKind DEF ActionKind
<1>. QED BY <1>2, <1>3, <1>4, <1>5, <1>6 DEF UnitClasses

LEMMA BoxKinds ==
  ASSUME NEW e, e.cls \in BoxClasses, KwOK(e.cls, e.kw)
  PROVE  ActionKind(ActionSpace(e))
<1>1. CASE e.cls = "LunarLander"
  <2>1. ActionSpace(e) = IF e.kw.continuous THEN S!Box(<<-10, -10>>, <<10, 10>>, TRUE) ELSE S!Discrete(4)
    BY <1>1, LanderSpaces, ZenonT(60)
  <2>2. <<-10, -10>> \in Seq(Int) /\ <<10, 10>> \in Seq(Int) /\ Len(<<-10, -10>>) = Len(<<10, 10>>)
    OBVIOUS
  <2>3. S!Discrete(4) = Toy!Discrete(4) /\ 4 \in Nat
    BY DEF S!Discrete, Toy!Discrete
  <2>. QED BY <2>1, <2>2, <2>3, BoxKind, DiscreteKind DEF ActionKind
<1>2. CASE e.cls = "BipedalWalker"
  <2>1. ActionSpace(e) = S!Box(<<-1, -1, -1, -1>>, <<1, 1, 1, 1>>, TRUE)
    BY <1>2, WalkerSpaces, ZenonT(60)
  <2>2. <<-1, -1, -1, -1>> \in Seq(Int) /\ <<1, 1, 1, 1>> \in Seq(Int) /\ Len(<<-1, -1, -1, -1>>) = Len(<<1, 1, 1, 1>>)
    OBVIOUS
  <2>. QED BY <2>1, <2>2, BoxKind DEF ActionKind
<1>3. CASE e.cls = "CarRacing"
  <2>1. ActionSpace(e) = S!Box(<<-1, 0, 0>>, <<1, 1, 1>>, TRUE)
    BY <1>3, RacingSpaces
  <2>2. <<-1, 0, 0>> \in Seq(Int) /\ <<1, 1, 1>> \in Seq(Int) /\ Len(<<-1, 0, 0>>) = Len(<<1, 1, 1>>)
    OBVIOUS
  <2>. QED BY <2>1, <2>2, BoxKind DEF ActionKind
<1>. QED BY <1>1, <1>2, <1>3 DEF BoxClasses

LEMMA TapeKinds ==
  ASSUME NEW e, e.cls \in Alg!AlgorithmicClasses, KwOK(e.cls, e.kw)
  PROVE  ActionKind(ActionSpace(e))
<1>. DEFINE m == IF Alg!Grid(e.cls) THEN 4 ELSE 2
            b == e.kw.base
<1>1. ActionSpace(e) = Toy!TupleSpace(<<Toy!Discrete(m), Toy!Discrete(2), Toy!Discrete(b)>>)
  BY TapeSpaces
<1>2. m \in Nat /\ 2 \in Nat /\ b \in Nat
  BY AlgKw
<1>. HIDE DEF m, b
<1>3. ActionSpace(e) = S!TupleSpace(<<S!Discrete(m), S!Discrete(2), S!Discrete(b)>>)
  BY <1>1 DEF Toy!TupleSpace, Toy!Discrete, S!TupleSpace, S!Discrete
<1>. QED BY <1>2, <1>3 DEF ActionKind, IsTriple

LEMMA PlainSpaces ==
  /\ \A n \in Nat : S!SpaceOK(Toy!Discrete(n)) /\ S!PlainOK(Toy!Discrete(n))
  /\ \A l, h : Len(l) = Len(h) => \A f : S!SpaceOK(S!Box(l, h, f))
  /\ \A l, h : S!PlainOK(Toy!Interval(l, h)) /\ S!SpaceOK(Toy!Interval(l, h))
<1>1. \A n \in Nat : S!SpaceOK(Toy!Discrete(n)) /\ S!PlainOK(Toy!Discrete(n))
  BY DEF S!SpaceOK, S!PlainOK, Toy!Discrete
<1>2. ASSUME NEW l, NEW h, Len(l) = Len(h), NEW f PROVE S!SpaceOK(S!Box(l, h, f))
  BY <1>2 DEF S!SpaceOK, S!PlainOK, S!Box
<1>3. ASSUME NEW l, NEW h PROVE S!PlainOK(Toy!Interval(l, h)) /\ S!SpaceOK(Toy!Interval(l, h))
  <2>1. Len(<<l>>) = 1 /\ Len(<<h>>) = 1
    OBVIOUS
  <2>. QED BY <2>1 DEF S!SpaceOK, S!PlainOK, Toy!Interval, Toy!Box
<1>. QED BY <1>1, <1>2, <1>3

LEMMA TupleOK ==
  ASSUME NEW d, \A i \in DOMAIN d : S!PlainOK(d[i])
  PROVE  S!SpaceOK(Toy!TupleSpace(d))
BY DEF S!SpaceOK, Toy!TupleSpace

LEMMA ToyObsOK ==
  ASSUME NEW e, e.cls \in ToyClasses, KwOK(e.cls, e.kw), e.cls = "KellyCoinflipGeneralized" => e.st.max_rounds \in Nat
  PROVE  S!SpaceOK(ObsSpace(e))
<1>1. CASE e.cls = "FrozenLake"
  <2>1. e.kw.nrow * e.kw.ncol \in Nat
    BY <1>1, LakeKw DEF Positive
  <2>. QED BY <1>1, <2>1, LakeSpaces, PlainSpaces
<1>2. CASE e.cls = "CliffWalking"
  <2>1. 48 \in Nat
    OBVIOUS
  <2>. QED BY <1>2, <2>1, CliffSpaces, PlainSpaces
<1>3. CASE e.cls = "Taxi"
  <2>1. 500 \in Nat
    OBVIOUS
  <2>. QED BY <1>3, <2>1, TaxiSpaces, PlainSpaces
<1>4. CASE e.cls = "Blackjack"
  <2>. DEFINE d == <<Toy!Discrete(32), Toy!Discrete(11), Toy!Discrete(2)>>
  <2>1. DOMAIN d = 1..3 /\ d[1] = Toy!Discrete(32) /\ d[2] = Toy!Discrete(11) /\ d[3] = Toy!Discrete(2)
    OBVIOUS
  <2>2. 32 \in Nat /\ 11 \in Nat /\ 2 \in Nat /\ \A i \in 1..3 : i = 1 \/ i = 2 \/ i = 3
    OBVIOUS
  <2>3. ObsSpace(e) = Toy!TupleSpace(d)
    BY <1>4, BlackjackSpaces
  <2>. HIDE DEF d
  <2>4. \A i \in DOMAIN d : S!PlainOK(d[i])
    BY <2>1, <2>2, PlainSpaces
  <2>. QED BY <2>3, <2>4, TupleOK
<1>5. CASE e.cls = "NChain"
  <2>1. e.kw.n \in Nat
    BY <1>5 DEF KwOK, Positive
  <2>. QED BY <1>5, <2>1, NChainSpaces, PlainSpaces
<1>6. CASE e.cls = "Roulette"
  <2>1. 1 \in Nat
    OBVIOUS
  <2>. QED BY <1>6, <2>1, RouletteSpaces, PlainSpaces
<1>7. CASE e.cls \in Guessing
  <2>1. 4 \in Nat
    OBVIOUS
  <2>. QED BY <1>7, <2>1, GuessSpaces, PlainSpaces
<1>8. CASE e.cls = "KellyCoinflip"
  <2>. DEFINE x == Toy!MoneyBox(e.kw.max_wealth)
              y == Toy!Discrete(e.kw.max_rounds + 1)
              d == <<x, y>>
  <2>1. DOMAIN d = 1..2 /\ d[1] = x /\ d[2] = y /\ \A i \in 1..2 : i = 1 \/ i = 2
    OBVIOUS
  <2>2. e.kw.max_rounds + 1 \in Nat
    BY <1>8 DEF KwOK, Positive
  <2>3. S!PlainOK(x) /\ S!PlainOK(y)
    BY <2>2, PlainSpaces DEF Toy!MoneyBox
  <2>4. ObsSpace(e) = Toy!TupleSpace(d)
    BY <1>8, KellySpaces
  <2>. HIDE DEF d, x, y
  <2>5. \A i \in DOMAIN d : S!PlainOK(d[i])
    BY <2>1, <2>3
  <2>. QED BY <2>4, <2>5, TupleOK
<1>9. CASE e.cls = "KellyCoinflipGeneralized"
  <2>. DEFINE m == e.st.max_wealth
              n == e.st.max_rounds + 1
              x == Toy!MoneyBox(m)
              y == Toy!Discrete(n)
              d == <<x, y, y, y, x>>
  <2>1. DOMAIN d = 1..5 /\ \A i \in 1..5 : d[i] = x \/ d[i] = y
    <3>1. DOMAIN d = 1..5 /\ d[1] = x /\ d[2] = y /\ d[3] = y /\ d[4] = y /\ d[5] = x
      OBVIOUS
    <3>2. \A i \in 1..5 : i = 1 \/ i = 2 \/ i = 3 \/ i = 4 \/ i = 5
      OBVIOUS
    <3>. HIDE DEF d
    <3>. QED BY <3>1, <3>2
  <2>2. n \in Nat
    BY <1>9
  <2>3. ObsSpace(e) = Toy!TupleSpace(d)
    BY <1>9, GeneralSpaces
  <2>. HIDE DEF d, n
  <2>4. S!PlainOK(x) /\ S!PlainOK(y)
    BY <2>2, PlainSpaces DEF Toy!MoneyBox
  <2>. HIDE DEF x, y
  <2>5. \A i \in DOMAIN d : S!PlainOK(d[i])
    BY <2>1, <2>4
  <2>. QED BY <2>3, <2>5, TupleOK
<1>. QED BY <1>1, <1>2, <1>3, <1>4, <1>5, <1>6, <1>7, <1>8, <1>9 DEF ToyClasses, Guessing

LEMMA OtherObsOK ==
  ASSUME NEW e, e.cls \in Alg!AlgorithmicClasses \cup UnitClasses \cup BoxClasses, KwOK(e.cls, e.kw)
  PROVE  S!SpaceOK(ObsSpace(e))
<1>1. CASE e.cls \in Alg!AlgorithmicClasses
  <2>1. e.kw.base + 1 \in Nat
    BY <1>1, AlgKw
  <2>. QED BY <1>1, <2>1, TapeSpaces, PlainSpaces
<1>2. CASE e.cls = "CubeCrash"
  BY <1>2, CubeSpaces, PlainSpaces
<1>3. CASE e.cls = "MemorizeDigits"
  <2>1. 10 \in Nat
    OBVIOUS
  <2>. QED BY <1>3, <2>1, DigitsSpaces, PlainSpaces
<1>4. CASE e.cls = "CartPole"
  <2>1. Len(<<-20, -20>>) = Len(<<20, 20>>)
    OBVIOUS
  <2>. QED BY <1>4, <2>1, CartSpaces, PlainSpaces
<1>5. CASE e.cls \in Cars
  <2>1. Len(<<-24, -2>>) = Len(<<12, 2>>)
    OBVIOUS
  <2>. QED BY <1>5, <2>1, CarSpaces, PlainSpaces
<1>6. CASE e.cls = "Pendulum"
  BY <1>6, PendulumSpaces, PlainSpaces
<1>7. CASE e.cls = "Acrobot"
  <2>. DEFINE l == <<-100, -100, -12>>
              h == <<100, 100, 12>>
  <2>1. Len(l) = Len(h)
    OBVIOUS
  <2>2. ObsSpace(e) = S!Box(l, h, TRUE)
    BY <1>7, AcrobotSpaces
  <2>. HIDE DEF l, h
  <2>. QED BY <2>1, <2>2, PlainSpaces
<1>8. CASE e.cls = "LunarLander"
  <2>. DEFINE l == [i \in 1..3 |-> -1000]
              h == [i \in 1..3 |-> 1000]
  <2>1. ObsSpace(e) = S!Box(l, h, TRUE)
    BY <1>8, LanderSpaces, ZenonT(60)
  <2>2. Len(l) = Len(h)
    OBVIOUS
  <2>. HIDE DEF l, h
  <2>. QED BY <2>1, <2>2, PlainSpaces
<1>9. CASE e.cls = "BipedalWalker"
  <2>. DEFINE l == [i \in 1..2 |-> -1000]
              h == [i \in 1..2 |-> 1000]
  <2>1. ObsSpace(e) = S!Box(l, h, TRUE)
    BY <1>9, WalkerSpaces, ZenonT(60)
  <2>2. Len(l) = Len(h)
    OBVIOUS
  <2>. HIDE DEF l, h
  <2>. QED BY <2>1, <2>2, PlainSpaces
<1>10. CASE e.cls = "CarRacing"
  BY <1>10, RacingSpaces, PlainSpaces
<1>. QED BY <1>1, <1>2, <1>3, <1>4, <1>5, <1>6, <1>7, <1>8, <1>9, <1>10 DEF UnitClasses, BoxClasses, Cars

-----------------------------------------------------------------------------
(* One environment.                                                        *)

Fields == {"cls", "kw", "acts", "quits", "max_episode_steps", "elapsed", "begun", "st", "obs", "rew", "done", "over", "streak"}
IsEnv(e) == e = [x \in Fields |-> e[x]]
Classes == Alg!AlgorithmicClasses \cup ToyClasses \cup UnitClasses \cup BoxClasses

ClassInv(e) ==
  /\ e.cls = "FrozenLake" => LakeInv(e)
  /\ e.cls = "CliffWalking" => CliffInv(e)
  /\ e.cls = "Taxi" => TaxiInv(e)
  /\ e.cls = "Blackjack" => BlackjackInv(e)
  /\ e.cls = "NChain" => NChainInv(e)
  /\ e.cls = "Roulette" => Shown(e)
  /\ e.cls \in Guessing => GuessInv(e)
  /\ e.cls = "KellyCoinflip" => KellyInv(e)
  /\ e.cls = "KellyCoinflipGeneralized" => GeneralInv(e)
  /\ e.cls = "CubeCrash" => CubeInv(e)
  /\ e.cls = "MemorizeDigits" => Shown(e)
  /\ e.cls = "CartPole" => CartInv(e)
  /\ e.cls \in Cars => CarInv(e)
  /\ e.cls = "Pendulum" => PendulumInv(e)
  /\ e.cls = "Acrobot" => AcrobotInv(e)
  /\ e.cls = "LunarLander" => LanderInv(e)
  /\ e.cls = "BipedalWalker" => WalkerInv(e)
  /\ e.cls = "CarRacing" => RacingInv(e)
  /\ e.cls \in Alg!AlgorithmicClasses => TapeInv(e)

\* Its arguments, the bookkeeping of TimeLimit, and its class.
EnvInv(e) ==
  /\ IsEnv(e) /\ KwOK(e.cls, e.kw) /\ ActsOK(e.cls, e.kw, e.acts)
  /\ e.elapsed \in Nat /\ e.begun \in BOOLEAN /\ e.over \in BOOLEAN
  /\ ~e.over => ~e.done
  /\ e.cls = "CarRacing" => e.max_episode_steps # None
  /\ ClassInv(e)

LEMMA ClassOf ==
  ASSUME NEW cls, NEW kw, KwOK(cls, kw)
  PROVE  \/ cls \in Alg!AlgorithmicClasses \/ cls \in ToyClasses \/ cls \in UnitClasses \/ cls \in BoxClasses
<1>1. cls \in Alg!AlgorithmicClasses \cup ToyClasses \cup UnitClasses \cup BoxClasses
  BY DEF KwOK
<1>. QED BY <1>1

LEMMA SoundByClass ==
  ASSUME NEW e, KwOK(e.cls, e.kw), ClassInv(e)
  PROVE  /\ S!SpaceOK(ObsSpace(e)) /\ S!SpaceOK(ActionSpace(e)) /\ Shown(e)
         /\ ActionKind(ActionSpace(e))
<1>1. e.cls = "KellyCoinflipGeneralized" => e.st.max_wealth \in Nat /\ e.st.max_rounds \in Nat
  BY DEF ClassInv, GeneralInv, GeneralStates
<1>2. ActionKind(ActionSpace(e))
  BY <1>1, ClassOf, ToyKinds, UnitKinds, BoxKinds, TapeKinds
<1>3. S!SpaceOK(ObsSpace(e))
  <2>1. CASE e.cls \in ToyClasses
    BY <1>1, <2>1, ToyObsOK
  <2>2. CASE e.cls \notin ToyClasses
    <3>1. e.cls \in Alg!AlgorithmicClasses \cup UnitClasses \cup BoxClasses
      BY <2>2, ClassOf
    <3>. QED BY <3>1, OtherObsOK
  <2>. QED BY <2>1, <2>2
<1>4. Shown(e)
  <2>1. CASE e.cls \in Alg!AlgorithmicClasses
    BY <2>1 DEF ClassInv, TapeInv
  <2>2. CASE e.cls \in ToyClasses
    <3>1. \/ e.cls \in {"FrozenLake", "CliffWalking", "Taxi", "Blackjack", "NChain", "Roulette"}
          \/ e.cls \in Guessing \/ e.cls = "KellyCoinflip" \/ e.cls = "KellyCoinflipGeneralized"
      BY <2>2 DEF ToyClasses, Guessing
    <3>. QED BY <3>1 DEF ClassInv, LakeInv, CliffInv, TaxiInv, BlackjackInv, NChainInv, GuessInv, KellyInv, GeneralInv
  <2>3. CASE e.cls \in UnitClasses
    <3>1. e.cls \in {"CubeCrash", "MemorizeDigits", "CartPole", "Pendulum", "Acrobot"} \/ e.cls \in Cars
      BY <2>3 DEF UnitClasses, Cars
    <3>. QED BY <3>1 DEF ClassInv, CubeInv, CartInv, CarInv, PendulumInv, AcrobotInv
  <2>4. CASE e.cls \in BoxClasses
    <3>1. e.cls \in {"LunarLander", "BipedalWalker", "CarRacing"}
      BY <2>4 DEF BoxClasses
    <3>. QED BY <3>1 DEF ClassInv, LanderInv, WalkerInv, RacingInv
  <2>. QED BY <2>1, <2>2, <2>3, <2>4, ClassOf
<1>. QED BY <1>2, <1>3, <1>4, KindActs

\* reset() leaves an environment of its class.
LEMMA ResetByClass ==
  ASSUME NEW e, KwOK(e.cls, e.kw), e.cls = "CarRacing" => e.max_episode_steps # None,
         NEW sh, e.cls \in Alg!AlgorithmicClasses => sh.min_length \in Nat /\ sh.min_length >= 1,
         NEW r \in Resets(e.cls, e.kw, sh), Fresh(e, r)
  PROVE  ClassInv(e)
<1>1. CASE e.cls \in Alg!AlgorithmicClasses
  <2>1. TapeInv(e)
    BY <1>1, TapeReset
  <2>2. e.cls \notin ToyClasses /\ e.cls \notin UnitClasses /\ e.cls \notin BoxClasses
    BY <1>1, ClassesApart
  <2>. QED BY <2>1, <2>2 DEF ClassInv, ToyClasses, UnitClasses, BoxClasses, Guessing, Cars
<1>2. CASE e.cls \in ToyClasses
  <2>1. r \in Toy!ToyReset(e.cls, e.kw) /\ e.cls \notin Alg!AlgorithmicClasses
    BY <1>2, OfToy DEF IsAlg
  <2>2. \/ e.cls \in {"FrozenLake", "CliffWalking", "Taxi", "Blackjack", "NChain", "Roulette"}
        \/ e.cls \in Guessing \/ e.cls = "KellyCoinflip" \/ e.cls = "KellyCoinflipGeneralized"
    BY <1>2 DEF ToyClasses, Guessing
  <2>3. /\ e.cls = "FrozenLake" => LakeInv(e)
        /\ e.cls = "CliffWalking" => CliffInv(e)
        /\ e.cls = "Taxi" => TaxiInv(e)
        /\ e.cls = "Blackjack" => BlackjackInv(e)
        /\ e.cls = "NChain" => NChainInv(e)
        /\ e.cls = "Roulette" => Shown(e)
    BY <2>1, LakeReset, CliffReset, TaxiReset, BlackjackReset, NChainReset, RouletteReset
  <2>4. /\ e.cls \in Guessing => GuessInv(e)
        /\ e.cls = "KellyCoinflip" => KellyInv(e)
        /\ e.cls = "KellyCoinflipGeneralized" => GeneralInv(e)
    BY <2>1, GuessReset, KellyReset, GeneralReset
  <2>. QED BY <2>1, <2>2, <2>3, <2>4 DEF ClassInv, Guessing, Cars
<1>3. CASE e.cls \in UnitClasses
  <2>1. r \in Unit!UnitReset(e.cls, e.kw) /\ e.cls \notin Alg!AlgorithmicClasses
    BY <1>3, OfUnit DEF IsAlg
  <2>2. e.cls \in {"CubeCrash", "MemorizeDigits", "CartPole", "Pendulum", "Acrobot"} \/ e.cls \in Cars
    BY <1>3 DEF UnitClasses, Cars
  <2>3. /\ e.cls = "CubeCrash" => CubeInv(e)
        /\ e.cls = "MemorizeDigits" => Shown(e)
        /\ e.cls = "CartPole" => CartInv(e)
        /\ e.cls \in Cars => CarInv(e)
        /\ e.cls = "Pendulum" => PendulumInv(e)
        /\ e.cls = "Acrobot" => AcrobotInv(e)
    BY <2>1, CubeReset, DigitsReset, CartReset, CarReset, PendulumReset, AcrobotReset
  <2>. QED BY <2>1, <2>2, <2>3 DEF ClassInv, Guessing, Cars
<1>4. CASE e.cls \in BoxClasses
  <2>1. r \in Physics!BoxReset(e.cls, e.kw) /\ e.cls \notin Alg!AlgorithmicClasses
    BY <1>4, OfBox DEF IsAlg
  <2>2. e.cls \in {"LunarLander", "BipedalWalker", "CarRacing"}
    BY <1>4 DEF BoxClasses
  <2>3. /\ e.cls = "LunarLander" => LanderInv(e)
        /\ e.cls = "BipedalWalker" => WalkerInv(e)
        /\ e.cls = "CarRacing" => RacingInv(e)
    BY <2>1, LanderReset, WalkerReset, RacingReset
  <2>. QED BY <2>1, <2>2, <2>3 DEF ClassInv, Guessing, Cars
<1>. QED BY <1>1, <1>2, <1>3, <1>4, ClassOf

\* step() with an action of the space leaves an environment of its class.
LEMMA DiscreteAct ==
  ASSUME NEW sp, NEW n, sp = Toy!Discrete(n), NEW a, ActOK(sp, a)
  PROVE  a \in Int /\ a >= 0 /\ a < n
BY DiscreteIs DEF ActOK

LEMMA BoxAct ==
  ASSUME NEW sp, sp.kind = "Box", NEW a, ActOK(sp, a)
  PROVE  a \in Seq(Int) /\ DOMAIN a = DOMAIN sp.low
BY DEF ActOK, S!Contains, S!ContainsPlain, S!BoxContains

LEMMA TripleAct ==
  ASSUME NEW m \in Nat, NEW n \in Nat, NEW k \in Nat, NEW a,
         ActOK(Toy!TupleSpace(<<Toy!Discrete(m), Toy!Discrete(n), Toy!Discrete(k)>>), a)
  PROVE  a[1] \in Int /\ 0 <= a[1] /\ a[1] < m /\ a[2] \in Int /\ 0 <= a[2] /\ a[2] < n
<1>. DEFINE sp == Toy!TupleSpace(<<Toy!Discrete(m), Toy!Discrete(n), Toy!Discrete(k)>>)
<1>1. sp.kind = "Tuple" /\ sp.spaces = <<Toy!Discrete(m), Toy!Discrete(n), Toy!Discrete(k)>>
  BY DEF Toy!TupleSpace
<1>2. ActOK(sp, a)
  OBVIOUS
<1>3. 1 \in DOMAIN sp.spaces /\ 2 \in DOMAIN sp.spaces /\ sp.spaces[1] = Toy!Discrete(m) /\ sp.spaces[2] = Toy!Discrete(n)
  BY <1>1
<1>. HIDE DEF sp
<1>4. S!ContainsPlain(Toy!Discrete(m), a[1]) /\ S!ContainsPlain(Toy!Discrete(n), a[2])
  BY <1>1, <1>2, <1>3 DEF ActOK, S!Contains
<1>. QED BY <1>4 DEF S!ContainsPlain, Toy!Discrete

LEMMA StepOfToy ==
  ASSUME NEW d, NEW e, e.cls \in ToyClasses, KwOK(d.cls, d.kw), ClassInv(d), NEW a, ActOK(ActionSpace(d), a),
         NEW o \in Steps(d, a), After(d, e, o)
  PROVE  ClassInv(e)
<1>1. d.cls = e.cls /\ d.kw = e.kw /\ KwOK(e.cls, e.kw)
  BY DEF After
<1>2. o \in Toy!ToyStep(d.cls, d.kw, d.st, a) /\ e.cls \notin Alg!AlgorithmicClasses
  BY <1>1, OfToy DEF IsAlg
<1>3. \/ e.cls \in {"FrozenLake", "CliffWalking", "Taxi", "Blackjack", "NChain", "Roulette"}
      \/ e.cls \in Guessing \/ e.cls = "KellyCoinflip" \/ e.cls = "KellyCoinflipGeneralized"
  BY DEF ToyClasses, Guessing
<1>4. CASE e.cls = "FrozenLake"
  <2>1. LakeInv(d) /\ ActionSpace(d) = Toy!Discrete(4)
    BY <1>1, <1>4, LakeSpaces, SMTT(60) DEF ClassInv
  <2>2. a \in 0..3
    <3>1. a \in Int /\ a >= 0 /\ a < 4
      BY <2>1, DiscreteAct
    <3>. QED BY <3>1
  <2>3. LakeInv(e)
    BY <1>1, <1>2, <1>4, <2>1, <2>2, LakeStep
  <2>. QED BY <1>2, <1>4, <2>3 DEF ClassInv, Guessing, Cars
<1>5. CASE e.cls = "CliffWalking"
  <2>1. CliffInv(d) /\ ActionSpace(d) = Toy!Discrete(4)
    BY <1>1, <1>5, CliffSpaces DEF ClassInv
  <2>2. a \in 0..3
    <3>1. a \in Int /\ a >= 0 /\ a < 4
      BY <2>1, DiscreteAct
    <3>. QED BY <3>1
  <2>3. CliffInv(e)
    BY <1>1, <1>2, <1>5, <2>1, <2>2, CliffStep
  <2>. QED BY <1>2, <1>5, <2>3 DEF ClassInv, Guessing, Cars
<1>6. CASE e.cls = "Taxi"
  <2>1. TaxiInv(d) /\ ActionSpace(d) = Toy!Discrete(6)
    BY <1>1, <1>6, TaxiSpaces DEF ClassInv
  <2>2. a \in 0..5
    <3>1. a \in Int /\ a >= 0 /\ a < 6
      BY <2>1, DiscreteAct
    <3>. QED BY <3>1
  <2>3. TaxiInv(e)
    BY <1>1, <1>2, <1>6, <2>1, <2>2, TaxiStep
  <2>. QED BY <1>2, <1>6, <2>3 DEF ClassInv, Guessing, Cars
<1>7. CASE e.cls = "Blackjack"
  <2>1. BlackjackInv(e)
    BY <1>1, <1>2, <1>7, BlackjackStep DEF ClassInv
  <2>. QED BY <1>2, <1>7, <2>1 DEF ClassInv, Guessing, Cars
<1>8. CASE e.cls = "NChain"
  <2>1. NChainInv(e)
    BY <1>1, <1>2, <1>8, NChainStep DEF ClassInv
  <2>. QED BY <1>2, <1>8, <2>1 DEF ClassInv, Guessing, Cars
<1>9. CASE e.cls = "Roulette"
  <2>1. Shown(e)
    BY <1>1, <1>2, <1>9, RouletteStep
  <2>. QED BY <1>2, <1>9, <2>1 DEF ClassInv, Guessing, Cars
<1>10. CASE e.cls \in Guessing
  <2>1. a[1] \in Int
    <3>1. PICK l, h : ActionSpace(d) = S!Box(<<l>>, <<h>>, TRUE)
      <4>1. ActionSpace(d) = Toy!ToyActions(d.cls, d.kw, d.st)
        BY <1>1, OfToy
      <4>2. \/ d.cls = "GuessingGame" /\ ActionSpace(d) = Toy!Interval(-10000, 10000)
            \/ d.cls = "HotterColder" /\ ActionSpace(d) = Toy!Interval(-2000, 2000)
        BY <1>1, <1>10, <4>1 DEF Toy!ToyActions, Guessing
      <4>. QED BY <4>2 DEF Toy!Interval, Toy!Box, S!Box
    <3>. DEFINE low == <<l>>
                high == <<h>>
    <3>2. ActionSpace(d).kind = "Box" /\ ActionSpace(d).low = low /\ DOMAIN low = 1..1
      BY <3>1 DEF S!Box
    <3>. HIDE DEF low, high
    <3>3. a \in Seq(Int) /\ DOMAIN a = 1..1
      BY <3>2, BoxAct
    <3>. QED BY <3>3
  <2>2. GuessInv(e)
    BY <1>1, <1>2, <1>10, <2>1, GuessStep DEF ClassInv
  <2>. QED BY <1>2, <1>10, <2>2 DEF ClassInv, Guessing, Cars
<1>11. CASE e.cls = "KellyCoinflip"
  <2>1. ActionSpace(d) = Toy!Discrete(d.kw.max_wealth)
    BY <1>1, <1>11, KellySpaces
  <2>2. a \in Nat
    BY <2>1, DiscreteAct
  <2>3. KellyInv(e)
    BY <1>1, <1>2, <1>11, <2>2, KellyStep DEF ClassInv
  <2>. QED BY <1>2, <1>11, <2>3 DEF ClassInv, Guessing, Cars
<1>12. CASE e.cls = "KellyCoinflipGeneralized"
  <2>1. ActionSpace(d) = Toy!Discrete(d.st.max_wealth)
    BY <1>1, <1>12, GeneralSpaces
  <2>2. a \in Nat
    BY <2>1, DiscreteAct
  <2>3. GeneralInv(e)
    BY <1>1, <1>2, <1>12, <2>2, GeneralStep DEF ClassInv
  <2>. QED BY <1>2, <1>12, <2>3 DEF ClassInv, Guessing, Cars
<1>. QED BY <1>3, <1>4, <1>5, <1>6, <1>7, <1>8, <1>9, <1>10, <1>11, <1>12

LEMMA StepOfUnit ==
  ASSUME NEW d, NEW e, e.cls \in UnitClasses, KwOK(d.cls, d.kw), ClassInv(d), NEW a, ActOK(ActionSpace(d), a),
         NEW o \in Steps(d, a), After(d, e, o)
  PROVE  ClassInv(e)
<1>1. d.cls = e.cls /\ d.kw = e.kw /\ KwOK(e.cls, e.kw)
  BY DEF After
<1>2. o \in Unit!UnitStep(d.cls, d.kw, d.st, a) /\ e.cls \notin Alg!AlgorithmicClasses
  BY <1>1, OfUnit DEF IsAlg
<1>3. e.cls \in {"CubeCrash", "MemorizeDigits", "CartPole", "Pendulum", "Acrobot"} \/ e.cls \in Cars
  BY DEF UnitClasses, Cars
<1>4. e.cls = "CubeCrash" => CubeInv(e)
  <2>. SUFFICES ASSUME e.cls = "CubeCrash" PROVE CubeInv(e)
    OBVIOUS
  <2>1. CubeInv(d) /\ ActionSpace(d) = Toy!Discrete(3)
    BY <1>1, CubeSpaces DEF ClassInv, S!Discrete, Toy!Discrete
  <2>2. a \in 0..2
    <3>1. a \in Int /\ a >= 0 /\ a < 3
      BY <2>1, DiscreteAct
    <3>. QED BY <3>1
  <2>. QED BY <1>1, <1>2, <2>1, <2>2, CubeStep
<1>5. /\ e.cls = "MemorizeDigits" => Shown(e)
      /\ e.cls = "CartPole" => CartInv(e)
      /\ e.cls \in Cars => CarInv(e)
      /\ e.cls = "Pendulum" => PendulumInv(e)
      /\ e.cls = "Acrobot" => AcrobotInv(e)
  <2>1. /\ d.cls = "CartPole" => CartInv(d)
        /\ d.cls \in Cars => CarInv(d)
        /\ d.cls = "Pendulum" => PendulumInv(d)
        /\ d.cls = "Acrobot" => AcrobotInv(d)
    BY DEF ClassInv
  <2>. QED BY <1>1, <1>2, <2>1, DigitsStep, CartStep, CarStep, PendulumStep, AcrobotStep
<1>. QED BY <1>2, <1>3, <1>4, <1>5 DEF ClassInv, Guessing, Cars

LEMMA LanderActs ==
  ASSUME NEW e, e.cls = "LunarLander", NEW a, ActOK(ActionSpace(e), a)
  PROVE  e.kw.continuous => a[1] \in Int /\ a[2] \in Int
<1>. SUFFICES ASSUME e.kw.continuous PROVE a[1] \in Int /\ a[2] \in Int
  OBVIOUS
<1>1. ActionSpace(e) = S!Box(<<-10, -10>>, <<10, 10>>, TRUE)
  BY LanderSpaces, ZenonT(60)
<1>. DEFINE l == <<-10, -10>>
<1>2. DOMAIN l = 1..2 /\ ActionSpace(e).kind = "Box" /\ ActionSpace(e).low = l
  BY <1>1 DEF S!Box
<1>. HIDE DEF l
<1>3. a \in Seq(Int) /\ DOMAIN a = DOMAIN l
  BY <1>2, BoxAct
<1>4. DOMAIN a = 1..2
  BY <1>2, <1>3
<1>5. 1 \in DOMAIN a /\ 2 \in DOMAIN a
  BY <1>4
<1>. QED BY <1>3, <1>5

LEMMA StepOfBox ==
  ASSUME NEW d, NEW e, e.cls \in BoxClasses, KwOK(d.cls, d.kw), ClassInv(d), NEW a, ActOK(ActionSpace(d), a),
         NEW o \in Steps(d, a), After(d, e, o)
  PROVE  ClassInv(e)
<1>1. d.cls = e.cls /\ d.kw = e.kw /\ KwOK(e.cls, e.kw)
  BY DEF After
<1>2. o \in Physics!BoxStep(d.cls, d.kw, d.st, a) /\ e.cls \notin Alg!AlgorithmicClasses
  BY <1>1, OfBox DEF IsAlg
<1>3. e.cls \in {"LunarLander", "BipedalWalker", "CarRacing"}
  BY DEF BoxClasses
<1>4. e.cls = "LunarLander" => LanderInv(e)
  <2>. SUFFICES ASSUME e.cls = "LunarLander" PROVE LanderInv(e)
    OBVIOUS
  <2>1. LanderInv(d)
    BY <1>1 DEF ClassInv
  <2>2. e.kw.continuous => a[1] \in Int /\ a[2] \in Int
    BY <1>1, LanderActs
  <2>. QED BY <1>1, <1>2, <2>1, <2>2, LanderStep
<1>5. /\ e.cls = "BipedalWalker" => WalkerInv(e)
      /\ e.cls = "CarRacing" => RacingInv(e)
  <2>1. /\ d.cls = "BipedalWalker" => WalkerInv(d)
        /\ d.cls = "CarRacing" => RacingInv(d)
    BY DEF ClassInv
  <2>. QED BY <1>1, <1>2, <2>1, WalkerStep, RacingStep
<1>. QED BY <1>2, <1>3, <1>4, <1>5 DEF ClassInv, Guessing, Cars

LEMMA StepOfTape ==
  ASSUME NEW d, NEW e, e.cls \in Alg!AlgorithmicClasses, KwOK(d.cls, d.kw), ClassInv(d), NEW a, ActOK(ActionSpace(d), a),
         NEW o \in Steps(d, a), After(d, e, o)
  PROVE  ClassInv(e)
<1>1. d.cls = e.cls /\ d.kw = e.kw /\ KwOK(e.cls, e.kw) /\ TapeInv(d)
  BY DEF After, ClassInv
<1>2. o \in Alg!AlgStep(d.cls, d.kw, d.st, a)
  BY <1>1, OfAlg
<1>. DEFINE m == IF Alg!Grid(d.cls) THEN 4 ELSE 2
            k == d.kw.base
<1>3. ActionSpace(d) = Toy!TupleSpace(<<Toy!Discrete(m), Toy!Discrete(2), Toy!Discrete(k)>>)
  BY <1>1, TapeSpaces
<1>4. m \in Nat /\ 2 \in Nat /\ k \in Nat /\ m <= 4
  BY <1>1, AlgKw
<1>. HIDE DEF m, k
<1>5. a[1] \in Int /\ 0 <= a[1] /\ a[1] < m /\ a[2] \in Int /\ 0 <= a[2] /\ a[2] < 2
  BY <1>3, <1>4, TripleAct
<1>6. a[1] <= 3 /\ (a[2] = 0 \/ a[2] = 1)
  BY <1>4, <1>5
<1>7. TapeInv(e)
  BY <1>1, <1>2, <1>5, <1>6, TapeStep
<1>8. e.cls \notin ToyClasses /\ e.cls \notin UnitClasses /\ e.cls \notin BoxClasses
  BY ClassesApart
<1>. QED BY <1>7, <1>8 DEF ClassInv, ToyClasses, UnitClasses, BoxClasses, Guessing, Cars

LEMMA StepByClass ==
  ASSUME NEW d, NEW e, KwOK(d.cls, d.kw), ClassInv(d), NEW a, ActOK(ActionSpace(d), a),
         NEW o \in Steps(d, a), After(d, e, o)
  PROVE  ClassInv(e)
<1>1. d.cls = e.cls
  BY DEF After
<1>2. \/ e.cls \in Alg!AlgorithmicClasses \/ e.cls \in ToyClasses \/ e.cls \in UnitClasses \/ e.cls \in BoxClasses
  BY <1>1, ClassOf
<1>. QED BY <1>2, StepOfToy, StepOfUnit, StepOfBox, StepOfTape

-----------------------------------------------------------------------------
(* Levels: the episodes that are remembered, and the ones that were solved. *)

\* The last W of a sequence and one more.
LEMMA LastIs ==
  ASSUME NEW s, IsSeq(s), NEW x, NEW W \in Nat \ {0}
  PROVE  LET n == Len(s)
             falls == Alg!LastOf(Append(s, x), W)
         IN  /\ IsSeq(falls) /\ Len(falls) = (IF n + 1 > W THEN W ELSE n + 1)
             /\ \A i \in 1..Len(falls) :
                  falls[i] = IF i = Len(falls) THEN x ELSE s[(n + 1) - Len(falls) + i]
<1>. DEFINE n == Len(s)
            t == Append(s, x)
            T == {t[i] : i \in DOMAIN t}
            m == IF n + 1 > W THEN (n + 1) - W + 1 ELSE 1
            falls == Alg!LastOf(t, W)
            k == IF n + 1 > W THEN W ELSE n + 1
<1>1. n \in Nat /\ IsSeq(t) /\ Len(t) = n + 1 /\ (\A i \in 1..n : t[i] = s[i]) /\ t[n + 1] = x
  BY SeqFacts, AppendFacts
<1>2. falls = SubSeq(t, m, n + 1)
  BY <1>1 DEF Alg!LastOf
<1>3. t \in Seq(T)
  BY <1>1 DEF IsSeq
<1>4. m \in Nat /\ 1 <= m /\ m <= n + 1 /\ k \in Nat /\ k = (n + 1) - m + 1 /\ k >= 1
  BY <1>1
<1>. HIDE DEF falls, t, m, T, k, n
<1>5. m \in 1..(n + 2) /\ n + 1 \in (m - 1)..(n + 1) /\ n + 1 \in Int
  BY <1>1, <1>4
<1>6. /\ falls \in Seq(T) /\ Len(falls) = k
      /\ \A i \in 1..k : falls[i] = t[m + i - 1]
  <2>. DEFINE z == n + 1
  <2>1. z \in Int /\ m \in Int /\ m <= z /\ z - m + 1 = k /\ \A i \in m..z : i \in 1..Len(t)
    BY <1>1, <1>4
  <2>2. \A i \in m..z : t[i] \in T
    BY <1>3, <2>1
  <2>. HIDE DEF z
  <2>3. /\ SubSeq(t, m, z) \in Seq(T) /\ Len(SubSeq(t, m, z)) = (IF m <= z THEN z - m + 1 ELSE 0)
        /\ \A i \in 1..z - m + 1 : SubSeq(t, m, z)[i] = t[m + i - 1]
    BY <2>1, <2>2, SubSeqProperties
  <2>4. falls = SubSeq(t, m, z)
    BY <1>2 DEF z
  <2>. QED BY <2>1, <2>3, <2>4
<1>7. IsSeq(falls)
  BY <1>6, AnySeq
<1>8. ASSUME NEW i \in 1..k PROVE falls[i] = IF i = k THEN x ELSE s[(n + 1) - k + i]
  <2>1. i \in Int /\ 1 <= i /\ i <= k
    BY <1>4
  <2>2. falls[i] = t[m + i - 1]
    BY <1>6
  <2>3. CASE i = k
    <3>1. m + i - 1 = n + 1
      BY <1>1, <1>4, <2>3
    <3>. QED BY <1>1, <2>2, <2>3, <3>1
  <2>4. CASE i # k
    <3>1. m + i - 1 = (n + 1) - k + i /\ (n + 1) - k + i \in 1..n
      BY <1>1, <1>4, <2>1, <2>4
    <3>. QED BY <1>1, <2>2, <2>4, <3>1
  <2>. QED BY <2>3, <2>4
<1>. QED BY <1>6, <1>7, <1>8 DEF falls, t, k, n

SharedOK(sh) == /\ sh = [min_length |-> sh.min_length, shortfalls |-> sh.shortfalls]
                /\ sh.min_length \in Nat /\ IsSeq(sh.shortfalls)

Promotes(e, falls) == /\ Len(falls) = Alg!Window(e.cls, e.kw)
                      /\ \A i \in DOMAIN falls : falls[i] >= Alg!MIN_REWARD_SHORTFALL_FOR_PROMOTION(e.cls)
Falls(e, sh) == Alg!LastOf(Append(sh.shortfalls, e.st.total - 2 * Len(e.st.target)), Alg!Window(e.cls, e.kw))

LEMMA WindowIs ==
  ASSUME NEW e, e.cls \in Alg!AlgorithmicClasses, KwOK(e.cls, e.kw)
  PROVE  Alg!Window(e.cls, e.kw) \in Nat \ {0}
BY AlgKw DEF Alg!Window

LEMMA LevelIs ==
  ASSUME NEW e, e.cls \in Alg!AlgorithmicClasses, KwOK(e.cls, e.kw), NEW sh, SharedOK(sh),
         NEW next, next = Alg!LevelUp(e.cls, e.kw, e.st, sh)
  PROVE  /\ SharedOK(next) /\ next.min_length >= sh.min_length
         /\ \/ next.min_length = sh.min_length + 1 /\ next.shortfalls = <<>> /\ Promotes(e, Falls(e, sh))
            \/ next.min_length = sh.min_length /\ next.shortfalls = Falls(e, sh)
<1>. DEFINE falls == Falls(e, sh)
            good == Promotes(e, falls) /\ sh.min_length < 30
            up == [min_length |-> sh.min_length + 1, shortfalls |-> <<>>]
            same == [sh EXCEPT !.shortfalls = falls]
<1>1. next = IF good THEN up ELSE same
  BY DEF Alg!LevelUp, Falls, Promotes
<1>2. IsSeq(falls)
  BY WindowIs, LastIs DEF SharedOK, Falls
<1>3. IsSeq(<<>>)
  <2>1. <<>> \in Seq({})
    OBVIOUS
  <2>. QED BY <2>1, AnySeq
<1>. HIDE DEF falls
<1>4. SharedOK(up) /\ up.min_length = sh.min_length + 1 /\ up.shortfalls = <<>>
  BY <1>3 DEF SharedOK
<1>5. SharedOK(same) /\ same.min_length = sh.min_length /\ same.shortfalls = falls
  BY <1>2 DEF SharedOK
<1>6. sh.min_length \in Nat
  BY DEF SharedOK
<1>. HIDE DEF up, same
<1>7. CASE good
  BY <1>1, <1>4, <1>6, <1>7 DEF falls
<1>8. CASE ~good
  BY <1>1, <1>5, <1>6, <1>8 DEF falls
<1>. QED BY <1>7, <1>8

\* As many episodes as the last shortfalls allow have been solved in a row.
Allowed(e, falls, k) == \A i \in 1..Len(falls) :
                          i > Len(falls) - k => falls[i] >= Alg!MIN_REWARD_SHORTFALL_FOR_PROMOTION(e.cls)
Earning(e, falls) ==
  /\ e.streak \in Nat /\ Len(falls) <= Alg!Window(e.cls, e.kw)
  /\ \A k \in 0..Len(falls) : Allowed(e, falls, k) => e.streak >= k \/ e.streak >= Alg!Window(e.cls, e.kw) - 1

\* Only a solved episode is short enough.
LEMMA ShortIsSolved ==
  ASSUME NEW e, e.cls \in Alg!AlgorithmicClasses, TapeInv(e),
         e.st.total - 2 * Len(e.st.target) >= Alg!MIN_REWARD_SHORTFALL_FOR_PROMOTION(e.cls)
  PROVE  Solved(e)
<1>. DEFINE n == Len(e.st.target)
            t == e.st.total
            w == e.st.write
            min == Alg!MIN_REWARD_SHORTFALL_FOR_PROMOTION(e.cls)
<1>1. min \in Int /\ min >= -2
  BY DEF Alg!MIN_REWARD_SHORTFALL_FOR_PROMOTION
<1>2. n \in Nat /\ t \in Int /\ w \in Nat /\ (t = 2 * w \/ t <= 2 * n - 3)
  BY SeqFacts DEF TapeInv, TapeIs
<1>3. t - 2 * n >= min
  OBVIOUS
<1>. HIDE DEF n, t, w, min
<1>4. t >= 2 * n - 2
  BY <1>1, <1>2, <1>3
<1>5. t = 2 * w /\ w >= n - 1
  BY <1>2, <1>4
<1>. QED BY <1>5 DEF Solved, n, t, w

LEMMA Allows ==
  ASSUME NEW e, e.cls \in Alg!AlgorithmicClasses, KwOK(e.cls, e.kw), TapeInv(e), NEW sh, SharedOK(sh),
         Earning(e, sh.shortfalls), NEW k \in Nat \ {0}, k <= Len(Falls(e, sh)), Allowed(e, Falls(e, sh), k)
  PROVE  Solved(e) /\ (e.streak >= k - 1 \/ e.streak >= Alg!Window(e.cls, e.kw) - 1)
<1>. DEFINE s == sh.shortfalls
            n == Len(s)
            falls == Falls(e, sh)
            m == Len(falls)
            x == e.st.total - 2 * Len(e.st.target)
            W == Alg!Window(e.cls, e.kw)
            min == Alg!MIN_REWARD_SHORTFALL_FOR_PROMOTION(e.cls)
<1>1. W \in Nat \ {0}
  BY WindowIs
<1>2. IsSeq(s) /\ n \in Nat
  BY SeqFacts DEF SharedOK
<1>3. /\ m = (IF n + 1 > W THEN W ELSE n + 1)
      /\ \A i \in 1..m : falls[i] = IF i = m THEN x ELSE s[(n + 1) - m + i]
  <2>. HIDE DEF s, W, x
  <2>1. falls = Alg!LastOf(Append(s, x), W)
    BY DEF Falls, s, W, x
  <2>. QED BY <1>1, <1>2, <2>1, LastIs
<1>4. \A i \in 1..m : i > m - k => falls[i] >= min
  BY DEF Allowed
<1>5. n <= W /\ e.streak \in Nat /\ \A j \in 0..n : Allowed(e, s, j) => e.streak >= j \/ e.streak >= W - 1
  BY DEF Earning
<1>6. k <= m
  OBVIOUS
<1>. HIDE DEF falls, m, s, n, W, x
<1>7. m \in Nat /\ m >= 1 /\ m <= n + 1 /\ m \in 1..m /\ m > m - k
  BY <1>1, <1>2, <1>3
<1>8. Solved(e)
  <2>1. x >= min
    BY <1>3, <1>4, <1>7
  <2>. QED BY <2>1, ShortIsSolved DEF x
<1>9. Allowed(e, s, k - 1)
  <2>. SUFFICES ASSUME NEW i \in 1..n, i > n - (k - 1) PROVE s[i] >= min
    BY DEF Allowed, n
  <2>. DEFINE j == i - ((n + 1) - m)
  <2>1. j \in Int /\ j < m /\ j > m - k /\ j >= 1 /\ (n + 1) - m + j = i
    BY <1>2, <1>6, <1>7
  <2>. HIDE DEF j
  <2>2. j \in 1..m /\ j # m
    BY <1>7, <2>1
  <2>3. falls[j] = s[i]
    BY <1>3, <2>1, <2>2
  <2>. QED BY <1>4, <2>1, <2>2, <2>3
<1>10. k - 1 \in 0..n
  BY <1>2, <1>6, <1>7
<1>. QED BY <1>5, <1>8, <1>9, <1>10 DEF W

LEMMA PromotionEarned ==
  ASSUME NEW e, e.cls \in Alg!AlgorithmicClasses, KwOK(e.cls, e.kw), TapeInv(e), NEW sh, SharedOK(sh),
         Earning(e, sh.shortfalls), Promotes(e, Falls(e, sh))
  PROVE  Streak(e) >= Alg!Window(e.cls, e.kw)
<1>. DEFINE W == Alg!Window(e.cls, e.kw)
            falls == Falls(e, sh)
<1>1. W \in Nat \ {0} /\ Len(falls) = W
  BY WindowIs DEF Promotes
<1>2. IsSeq(falls)
  BY <1>1, LastIs DEF SharedOK, Falls
<1>3. DOMAIN falls = 1..Len(falls)
  BY <1>2, SeqFacts
<1>4. Allowed(e, falls, W)
  BY <1>3 DEF Allowed, Promotes
<1>. HIDE DEF W, falls
<1>5. W <= Len(falls)
  BY <1>1
<1>6. Solved(e) /\ (e.streak >= W - 1 \/ e.streak >= W - 1)
  BY <1>1, <1>4, <1>5, Allows DEF W, falls
<1>7. e.streak \in Nat
  BY DEF Earning
<1>8. e.streak + 1 >= W
  BY <1>1, <1>6, <1>7
<1>. QED BY <1>6, <1>8 DEF Streak, W

LEMMA EarningKept ==
  ASSUME NEW e, e.cls \in Alg!AlgorithmicClasses, KwOK(e.cls, e.kw), TapeInv(e), NEW sh, SharedOK(sh),
         Earning(e, sh.shortfalls), NEW f, f.cls = e.cls, f.kw = e.kw,
         f.streak = IF Streak(e) < Alg!Window(e.cls, e.kw) THEN Streak(e) ELSE e.streak
  PROVE  Earning(f, Falls(e, sh))
<1>. DEFINE W == Alg!Window(e.cls, e.kw)
            falls == Falls(e, sh)
<1>1. W \in Nat \ {0} /\ e.streak \in Nat
  BY WindowIs DEF Earning
<1>2. IsSeq(falls) /\ Len(falls) <= W /\ Len(falls) \in Nat
  <2>. DEFINE s == sh.shortfalls
              x == e.st.total - 2 * Len(e.st.target)
  <2>1. IsSeq(s) /\ Len(s) \in Nat
    BY SeqFacts DEF SharedOK
  <2>2. falls = Alg!LastOf(Append(s, x), W)
    BY DEF Falls
  <2>. HIDE DEF s, x, W
  <2>3. IsSeq(falls) /\ Len(falls) = (IF Len(s) + 1 > W THEN W ELSE Len(s) + 1)
    BY <1>1, <2>1, <2>2, LastIs
  <2>. QED BY <1>1, <2>1, <2>3
<1>3. Streak(e) \in Nat /\ (Solved(e) => Streak(e) = e.streak + 1)
  BY <1>1 DEF Streak
<1>. HIDE DEF W, falls
<1>4. f.streak = IF Streak(e) < W THEN Streak(e) ELSE e.streak
  BY DEF W
<1>5. f.streak \in Nat
  BY <1>1, <1>3, <1>4
<1>6. ASSUME NEW k \in 0..Len(falls), Allowed(f, falls, k) PROVE f.streak >= k \/ f.streak >= W - 1
  <2>1. CASE k = 0
    BY <1>5, <2>1
  <2>2. CASE k # 0
    <3>1. k \in Nat \ {0} /\ k <= Len(falls) /\ Allowed(e, falls, k)
      BY <1>2, <1>6, <2>2 DEF Allowed
    <3>2. Solved(e) /\ (e.streak >= k - 1 \/ e.streak >= W - 1)
      BY <3>1, Allows DEF W, falls
    <3>3. Streak(e) = e.streak + 1
      BY <1>3, <3>2
    <3>. QED BY <1>1, <1>4, <3>1, <3>2, <3>3
  <2>. QED BY <2>1, <2>2
<1>7. Alg!Window(f.cls, f.kw) = W
  BY DEF W
<1>. QED BY <1>2, <1>5, <1>6, <1>7 DEF Earning, falls

-----------------------------------------------------------------------------
(* The program.                                                            *)

GymInv ==
  /\ IsSeq(todo) /\ \A j \in DOMAIN todo : EntryOK(todo[j])
  /\ IsSeq(envs) /\ \A i \in DOMAIN envs : EnvInv(envs[i])
  /\ SharedOK(shared) /\ \A i \in DOMAIN envs : IsAlg(envs[i]) => shared.min_length >= 1
  /\ Len(envs) = 1 /\ IsAlg(envs[1]) => Earning(envs[1], shared.shortfalls)
  /\ failed # "AssertionError"

LEMMA GymInit == Init => GymInv
<1>. SUFFICES ASSUME Init PROVE GymInv
  OBVIOUS
<1>1. PICK k \in DOMAIN Sessions : todo = Sessions[k]
  BY DEF Init
<1>2. IsSeq(todo) /\ \A j \in DOMAIN todo : EntryOK(todo[j])
  BY <1>1, SessionsAssumption DEF IsSeq
<1>3. envs = <<>> /\ shared = [min_length |-> 0, shortfalls |-> <<>>] /\ failed = ""
  BY DEF Init
<1>4. <<>> \in Seq({}) /\ Len(<<>>) = 0 /\ DOMAIN <<>> = {}
  OBVIOUS
<1>5. IsSeq(<<>>)
  BY <1>4, AnySeq
<1>6. SharedOK(shared)
  <2>1. shared.min_length = 0 /\ shared.shortfalls = <<>>
    BY <1>3
  <2>. QED BY <1>3, <1>5, <2>1 DEF SharedOK
<1>7. IsSeq(envs) /\ Len(envs) = 0 /\ DOMAIN envs = {}
  BY <1>3, <1>4, <1>5
<1>8. failed # "AssertionError"
  BY <1>3
<1>9. \A i \in DOMAIN envs : EnvInv(envs[i]) /\ (IsAlg(envs[i]) => shared.min_length >= 1)
  BY <1>7
<1>10. ~(Len(envs) = 1)
  BY <1>7
<1>. QED BY <1>2, <1>6, <1>7, <1>8, <1>9, <1>10 DEF GymInv

\* What make() finds in the registry.
LEMMA SpecIs ==
  ASSUME NEW id, Lookup(id) = "found", NEW limit
  PROVE  LET spec == SetLimit(SpecOf(id), limit)
         IN  /\ spec.cls = SpecOf(id).cls
             /\ BaseClass(spec.cls) = "CarRacing" => spec.max_episode_steps # None
<1>1. \E r \in Registrations : Id(r) = id
  BY DEF Lookup
<1>2. PICK r \in Registrations : SpecOf(id) = Spec0(r)
  <2>. HIDE DEF Registrations
  <2>. DEFINE r == CHOOSE q \in Registrations : Id(q) = id
  <2>1. r \in Registrations
    BY <1>1
  <2>2. SpecOf(id) = Spec0(r)
    BY DEF SpecOf
  <2>. HIDE DEF r
  <2>. QED BY <2>1, <2>2
<1>3. SpecOf(id).cls = r[3] /\ SpecOf(id).max_episode_steps = r[4]
  BY <1>2 DEF Spec0
<1>4. SpecOf(id) = [name |-> r[1], version |-> r[2], cls |-> r[3], max_episode_steps |-> r[4]]
  BY <1>2 DEF Spec0
<1>. DEFINE spec == SetLimit(SpecOf(id), limit)
<1>5. spec.cls = r[3] /\ spec.max_episode_steps = IF limit = None THEN r[4] ELSE limit
  BY <1>4 DEF SetLimit
<1>. HIDE DEF spec
<1>6. BaseClass(spec.cls) = "CarRacing" => r[3] = "CarRacing"
  BY <1>5 DEF BaseClass
<1>7. r[4] = None => r[3] # "CarRacing"
  BY Unlimited
<1>. QED BY <1>3, <1>5, <1>6, <1>7 DEF spec

\* The space of actions depends on the class, on the arguments and, in one
\* class, on the cap of the winnings.
LEMMA SameActions ==
  ASSUME NEW d, NEW e, d.cls = e.cls, d.kw = e.kw, KwOK(e.cls, e.kw),
         e.cls = "KellyCoinflipGeneralized" => d.st.max_wealth = e.st.max_wealth
  PROVE  ActionSpace(d) = ActionSpace(e)
<1>1. CASE e.cls \in ToyClasses
  <2>1. ActionSpace(d) = Toy!ToyActions(d.cls, d.kw, d.st) /\ ActionSpace(e) = Toy!ToyActions(e.cls, e.kw, e.st)
    BY <1>1, OfToy
  <2>2. CASE e.cls = "KellyCoinflipGeneralized"
    BY <2>1, <2>2 DEF Toy!ToyActions
  <2>3. CASE e.cls # "KellyCoinflipGeneralized"
    BY <1>1, <2>1, <2>3 DEF Toy!ToyActions, ToyClasses
  <2>. QED BY <2>2, <2>3
<1>2. CASE e.cls \in UnitClasses
  BY <1>2, OfUnit
<1>3. CASE e.cls \in BoxClasses
  BY <1>3, OfBox
<1>4. CASE e.cls \in Alg!AlgorithmicClasses
  BY <1>4, OfAlg
<1>. QED BY <1>1, <1>2, <1>3, <1>4, ClassOf

\* The arguments of what make() constructs.
LEMMA ConstructedOK ==
  ASSUME NEW entry, EntryOK(entry), Lookup(entry.id) = "found", NEW kw \in Constructed(entry)
  PROVE  LET cls == BaseClass(SpecOf(entry.id).cls)
         IN  KwOK(cls, kw) /\ ActsOK(cls, kw, entry.acts)
<1>. DEFINE cls == BaseClass(SpecOf(entry.id).cls)
<1>1. /\ IF "random" \in DOMAIN entry.kw THEN cls = "FrozenLake" ELSE KwOK(cls, entry.kw)
      /\ ActsOK(cls, entry.kw, entry.acts)
  BY DEF EntryOK
<1>. HIDE DEF cls
<1>2. CASE "random" \notin DOMAIN entry.kw
  <2>1. kw = entry.kw
    BY <1>2 DEF Constructed
  <2>. QED BY <1>1, <1>2, <2>1 DEF cls
<1>3. CASE "random" \in DOMAIN entry.kw
  <2>. DEFINE M == Toy!RandomMaps(3)
              Made(m) == [nrow |-> 3, ncol |-> 3, slippery |-> FALSE, desc |-> m]
  <2>1. Constructed(entry) = {Made(m) : m \in M}
    BY <1>3 DEF Constructed
  <2>2. PICK m \in M : kw = Made(m)
    <3>. HIDE DEF M, Made
    <3>. QED BY <2>1
  <2>3. cls = "FrozenLake" /\ KwOK(cls, kw)
    BY <1>1, <1>3, <2>2, RandomMapsOK
  <2>4. \A k, m0 : ActionSpace([cls |-> "FrozenLake", kw |-> k, st |-> [max_wealth |-> m0]]) = Toy!Discrete(4)
    <3>. SUFFICES ASSUME NEW k, NEW m0
                  PROVE  ActionSpace([cls |-> "FrozenLake", kw |-> k, st |-> [max_wealth |-> m0]]) = Toy!Discrete(4)
      OBVIOUS
    <3>. DEFINE e == [cls |-> "FrozenLake", kw |-> k, st |-> [max_wealth |-> m0]]
    <3>1. e.cls = "FrozenLake"
      OBVIOUS
    <3>. HIDE DEF e
    <3>2. ActionSpace(e) = Toy!Discrete(4)
      BY <3>1, LakeSpaces
    <3>. QED BY <3>2 DEF e
  <2>5. \A a \in entry.acts : ActOK(Toy!Discrete(4), a)
    BY <1>1, <2>3, <2>4 DEF ActsOK
  <2>6. ActsOK(cls, kw, entry.acts)
    BY <2>3, <2>4, <2>5 DEF ActsOK
  <2>. QED BY <2>3, <2>6 DEF cls
<1>. QED BY <1>2, <1>3

\* Every action that a program chooses is accepted.
LEMMA ChosenAccepted ==
  ASSUME NEW e, EnvInv(e), NEW a \in Choices(e)
  PROVE  ActOK(ActionSpace(e), a) /\ Accepted(e, a)
<1>1. KwOK(e.cls, e.kw) /\ ActsOK(e.cls, e.kw, e.acts) /\ ClassInv(e)
  BY DEF EnvInv
<1>2. ActOK(ActionSpace(e), a)
  <2>1. CASE e.acts = {}
    <3>1. a \in S!SampleOf(ActionSpace(e))
      BY <2>1 DEF Choices
    <3>. QED BY <1>1, <3>1, SoundByClass, KindActs
  <2>2. CASE e.acts # {}
    <3>1. a \in e.acts
      BY <2>2 DEF Choices
    <3>. DEFINE m == IF e.cls = "KellyCoinflipGeneralized" THEN e.st.max_wealth ELSE 0
                d == [cls |-> e.cls, kw |-> e.kw, st |-> [max_wealth |-> m]]
    <3>2. m \in IF e.cls = "KellyCoinflipGeneralized" THEN e.kw.caps ELSE {0}
      BY <1>1 DEF ClassInv, GeneralInv
    <3>3. d.cls = e.cls /\ d.kw = e.kw /\ d.st.max_wealth = m
      OBVIOUS
    <3>. HIDE DEF m
    <3>4. ActOK(ActionSpace(d), a)
      BY <1>1, <3>1, <3>2 DEF ActsOK
    <3>. HIDE DEF d
    <3>5. ActionSpace(d) = ActionSpace(e)
      BY <1>1, <3>3, SameActions DEF m
    <3>. QED BY <3>4, <3>5
  <2>. QED BY <2>1, <2>2
<1>3. e.cls = "LunarLander" => Physics!PowersOK(e.kw.continuous, a)
  <2>. SUFFICES ASSUME e.cls = "LunarLander" PROVE Physics!PowersOK(e.kw.continuous, a)
    OBVIOUS
  <2>1. e.kw.continuous \in BOOLEAN
    BY <1>1 DEF KwOK
  <2>2. e.kw.continuous => a[1] \in Int /\ a[2] \in Int
    BY <1>2, LanderActs
  <2>. QED BY <2>1, <2>2, PowersAre
<1>. QED BY <1>2, <1>3 DEF Accepted, ActOK

LEMMA HeadTail ==
  ASSUME NEW s, IsSeq(s), s # <<>>
  PROVE  /\ 1 \in DOMAIN s /\ Head(s) = s[1] /\ IsSeq(Tail(s))
         /\ \A j \in DOMAIN Tail(s) : j + 1 \in DOMAIN s /\ Tail(s)[j] = s[j + 1]
<1>. DEFINE T == {s[i] : i \in DOMAIN s}
<1>1. s \in Seq(T)
  BY DEF IsSeq
<1>. HIDE DEF T
<1>2. /\ Tail(s) \in Seq(T) /\ Len(Tail(s)) = Len(s) - 1 /\ Len(s) \in Nat /\ Len(s) > 0
      /\ \A i \in 1..Len(Tail(s)) : Tail(s)[i] = s[i + 1]
      /\ Head(s) = s[1] /\ DOMAIN s = 1..Len(s)
  BY <1>1, HeadTailProperties, EmptySeq, LenProperties
<1>3. IsSeq(Tail(s)) /\ DOMAIN Tail(s) = 1..Len(Tail(s))
  BY <1>2, AnySeq, SeqFacts
<1>. QED BY <1>2, <1>3

\* A member that changes.
LEMMA ExceptFacts ==
  ASSUME NEW s, IsSeq(s), NEW i \in DOMAIN s, NEW x
  PROVE  LET t == [s EXCEPT ![i] = x]
         IN  /\ IsSeq(t) /\ Len(t) = Len(s) /\ DOMAIN t = DOMAIN s
             /\ t[i] = x /\ \A j \in DOMAIN s : j # i => t[j] = s[j]
<1>. DEFINE T == {s[j] : j \in DOMAIN s} \cup {x}
            t == [s EXCEPT ![i] = x]
<1>1. s \in Seq(T) /\ x \in T
  BY SeqMonotonic DEF IsSeq
<1>2. t[i] = x /\ \A j \in DOMAIN s : j # i => t[j] = s[j]
  BY <1>1
<1>. HIDE DEF T
<1>3. t \in Seq(T) /\ Len(t) = Len(s) /\ DOMAIN t = DOMAIN s
  BY <1>1
<1>4. IsSeq(t)
  BY <1>3, AnySeq
<1>. QED BY <1>2, <1>3, <1>4

NewEnv(cls, kw, entry, steps, r) ==
  [cls |-> cls, kw |-> kw, acts |-> entry.acts, quits |-> entry.quits,
   max_episode_steps |-> steps, elapsed |-> 0, begun |-> FALSE,
   st |-> r[1], obs |-> r[2], rew |-> 0, done |-> FALSE, over |-> FALSE, streak |-> 0]

LEMMA NewEnvInv ==
  ASSUME NEW cls, NEW kw, NEW entry, NEW steps, NEW sh,
         KwOK(cls, kw), ActsOK(cls, kw, entry.acts), cls = "CarRacing" => steps # None,
         cls \in Alg!AlgorithmicClasses => sh.min_length \in Nat /\ sh.min_length >= 1,
         NEW r \in Resets(cls, kw, sh)
  PROVE  EnvInv(NewEnv(cls, kw, entry, steps, r))
<1>. DEFINE e == NewEnv(cls, kw, entry, steps, r)
<1>1. IsEnv(e)
  BY DEF IsEnv, Fields, NewEnv
<1>2. /\ e.cls = cls /\ e.kw = kw /\ e.acts = entry.acts /\ e.max_episode_steps = steps
      /\ e.elapsed = 0 /\ e.begun = FALSE /\ e.done = FALSE /\ e.over = FALSE
      /\ e.st = r[1] /\ e.obs = r[2] /\ e.rew = 0
  BY DEF NewEnv
<1>. HIDE DEF e
<1>3. Fresh(e, r)
  BY <1>2 DEF Fresh
<1>4. ClassInv(e)
  BY <1>2, <1>3, ResetByClass
<1>5. KwOK(e.cls, e.kw) /\ ActsOK(e.cls, e.kw, e.acts) /\ (e.cls = "CarRacing" => e.max_episode_steps # None)
  BY <1>2
<1>6. e.elapsed \in Nat /\ e.begun \in BOOLEAN /\ e.over \in BOOLEAN /\ (~e.over => ~e.done)
  <2>1. e.elapsed \in Nat
    BY <1>2
  <2>2. e.begun \in BOOLEAN
    BY <1>2
  <2>4. e.over \in BOOLEAN
    BY <1>2
  <2>5. ~e.done
    BY <1>2
  <2>. QED BY <2>1, <2>2, <2>4, <2>5
<1>7. EnvInv(e)
  BY <1>1, <1>4, <1>5, <1>6 DEF EnvInv
<1>. QED BY <1>7 DEF e

LEMMA GymMake == ASSUME GymInv, Make PROVE GymInv'
<1>. DEFINE entry == Head(todo)
<1>1. /\ IsSeq(todo) /\ (\A j \in DOMAIN todo : EntryOK(todo[j]))
      /\ IsSeq(envs) /\ (\A i \in DOMAIN envs : EnvInv(envs[i]))
      /\ SharedOK(shared) /\ (\A i \in DOMAIN envs : IsAlg(envs[i]) => shared.min_length >= 1)
      /\ (Len(envs) = 1 /\ IsAlg(envs[1]) => Earning(envs[1], shared.shortfalls))
  BY DEF GymInv
<1>2. todo # <<>> /\ todo' = Tail(todo) /\ failed = ""
  BY DEF Make
<1>3. EntryOK(entry) /\ IsSeq(todo') /\ \A j \in DOMAIN todo' : EntryOK(todo'[j])
  <2>1. 1 \in DOMAIN todo /\ entry = todo[1]
    BY <1>1, <1>2, HeadTail
  <2>2. IsSeq(todo') /\ \A j \in DOMAIN todo' : j + 1 \in DOMAIN todo /\ todo'[j] = todo[j + 1]
    BY <1>1, <1>2, HeadTail
  <2>. QED BY <1>1, <2>1, <2>2
<1>4. CASE Lookup(entry.id) # "found"
  <2>1. failed' = Lookup(entry.id) /\ envs' = envs /\ shared' = shared
    BY <1>4 DEF Make
  <2>2. Lookup(entry.id) \in {"DeprecatedEnv", "UnregisteredEnv"}
    BY <1>4 DEF Lookup
  <2>3. failed' # "AssertionError"
    BY <2>1, <2>2
  <2>. HIDE DEF entry
  <2>. QED BY <1>1, <1>3, <2>1, <2>3 DEF GymInv
<1>5. CASE Lookup(entry.id) = "found"
  <2>. DEFINE spec == SetLimit(SpecOf(entry.id), entry.limit)
              cls == BaseClass(spec.cls)
  <2>1. /\ shared' = (IF cls \in Alg!AlgorithmicClasses THEN Alg!AlgShared(cls) ELSE shared)
        /\ failed' = failed
        /\ \E kw \in Constructed(entry) : \E r \in Resets(cls, kw, shared') :
             envs' = Append(envs, NewEnv(cls, kw, entry, spec.max_episode_steps, r))
    BY <1>5 DEF Make, NewEnv
  <2>14. PICK kw \in Constructed(entry) : \E r \in Resets(cls, kw, shared') :
           envs' = Append(envs, NewEnv(cls, kw, entry, spec.max_episode_steps, r))
    BY <2>1
  <2>2. PICK r \in Resets(cls, kw, shared') :
          envs' = Append(envs, NewEnv(cls, kw, entry, spec.max_episode_steps, r))
    BY <2>14
  <2>3. spec.cls = SpecOf(entry.id).cls /\ (cls = "CarRacing" => spec.max_episode_steps # None)
    BY <1>5, SpecIs
  <2>4. KwOK(cls, kw) /\ ActsOK(cls, kw, entry.acts)
    BY <1>3, <1>5, <2>3, ConstructedOK
  <2>. DEFINE steps == spec.max_episode_steps
              e == NewEnv(cls, kw, entry, steps, r)
  <2>. HIDE DEF entry, cls, spec, steps
  <2>5. /\ SharedOK(shared') /\ (cls \in Alg!AlgorithmicClasses => shared'.min_length >= 1 /\ shared'.shortfalls = <<>>)
        /\ shared'.min_length \in Nat
    <3>1. CASE cls \in Alg!AlgorithmicClasses
      <4>1. shared' = [min_length |-> Alg!StartingMinLength(cls), shortfalls |-> <<>>]
        BY <2>1, <3>1 DEF Alg!AlgShared
      <4>2. Alg!StartingMinLength(cls) \in Nat /\ Alg!StartingMinLength(cls) >= 1
        BY DEF Alg!StartingMinLength
      <4>3. shared'.min_length = Alg!StartingMinLength(cls) /\ shared'.shortfalls = <<>>
        BY <4>1
      <4>4. IsSeq(<<>>)
        <5>1. <<>> \in Seq({})
          OBVIOUS
        <5>. QED BY <5>1, AnySeq
      <4>. QED BY <4>1, <4>2, <4>3, <4>4 DEF SharedOK
    <3>2. CASE cls \notin Alg!AlgorithmicClasses
      BY <1>1, <2>1, <3>2 DEF SharedOK
    <3>. QED BY <3>1, <3>2
  <2>6. EnvInv(e)
    BY <2>3, <2>4, <2>5, NewEnvInv DEF steps
  <2>7. e.cls = cls /\ e.streak = 0 /\ e.kw = kw
    BY DEF NewEnv
  <2>8. envs' = Append(envs, e)
    BY <2>2 DEF steps
  <2>. HIDE DEF e
  <2>9. /\ IsSeq(envs') /\ Len(envs') = Len(envs) + 1 /\ Len(envs) \in Nat
        /\ DOMAIN envs' = 1..(Len(envs) + 1) /\ DOMAIN envs = 1..Len(envs)
        /\ (\A i \in DOMAIN envs : envs'[i] = envs[i]) /\ envs'[Len(envs) + 1] = e
    <3>1. IsSeq(envs') /\ Len(envs') = Len(envs) + 1 /\ DOMAIN envs = 1..Len(envs) /\ Len(envs) \in Nat
      BY <1>1, <2>8, AppendFacts, SeqFacts
    <3>2. DOMAIN envs' = 1..(Len(envs) + 1)
      BY <3>1, SeqFacts
    <3>. QED BY <1>1, <2>8, <3>1, <3>2, AppendFacts
  <2>10. \A i \in DOMAIN envs' : EnvInv(envs'[i])
    BY <1>1, <2>6, <2>9
  <2>11. \A i \in DOMAIN envs' : IsAlg(envs'[i]) => shared'.min_length >= 1
    <3>. SUFFICES ASSUME NEW i \in DOMAIN envs', IsAlg(envs'[i]) PROVE shared'.min_length >= 1
      OBVIOUS
    <3>1. CASE cls \in Alg!AlgorithmicClasses
      BY <2>5, <3>1
    <3>2. CASE cls \notin Alg!AlgorithmicClasses
      <4>1. i \in DOMAIN envs /\ envs'[i] = envs[i]
        BY <2>7, <2>9, <3>2 DEF IsAlg
      <4>. QED BY <1>1, <2>1, <3>2, <4>1
    <3>. QED BY <3>1, <3>2
  <2>12. Len(envs') = 1 /\ IsAlg(envs'[1]) => Earning(envs'[1], shared'.shortfalls)
    <3>. SUFFICES ASSUME Len(envs') = 1, IsAlg(envs'[1]) PROVE Earning(envs'[1], shared'.shortfalls)
      OBVIOUS
    <3>1. envs'[1] = e
      BY <2>9
    <3>2. cls \in Alg!AlgorithmicClasses
      BY <2>7, <3>1 DEF IsAlg
    <3>3. shared'.shortfalls = <<>> /\ Len(<<>>) = 0
      BY <2>5, <3>2
    <3>4. Alg!Window(e.cls, e.kw) \in Nat \ {0}
      BY <2>4, <2>7, <3>2, WindowIs
    <3>. QED BY <2>7, <3>1, <3>3, <3>4 DEF Earning
  <2>13. failed' # "AssertionError"
    BY <1>2, <2>1
  <2>. QED BY <1>3, <2>5, <2>9, <2>10, <2>11, <2>12, <2>13 DEF GymInv
<1>. QED BY <1>4, <1>5

Again(e, r, k) == [e EXCEPT !.st = r[1], !.obs = r[2], !.rew = 0, !.elapsed = 0,
                            !.begun = TRUE, !.done = FALSE, !.over = FALSE, !.streak = k]

LEMMA AgainIs ==
  ASSUME NEW e, IsEnv(e), NEW r, NEW k, NEW f, f = Again(e, r, k)
  PROVE  /\ IsEnv(f) /\ Fresh(f, r) /\ f.over \in BOOLEAN
         /\ f.cls = e.cls /\ f.kw = e.kw /\ f.acts = e.acts
         /\ f.max_episode_steps = e.max_episode_steps /\ f.streak = k
<1>1. /\ IsEnv(f) /\ f.over = FALSE /\ f.begun = TRUE /\ f.done = FALSE
      /\ f.st = r[1] /\ f.obs = r[2] /\ f.rew = 0 /\ f.elapsed = 0
      /\ f.cls = e.cls /\ f.kw = e.kw /\ f.acts = e.acts
      /\ f.max_episode_steps = e.max_episode_steps /\ f.streak = k
  BY DEF Again, IsEnv, Fields
<1>2. Fresh(f, r)
  <2>1. f.begun \in BOOLEAN
    BY <1>1
  <2>. QED BY <1>1, <2>1 DEF Fresh
<1>3. f.over \in BOOLEAN
  BY <1>1
<1>. QED BY <1>1, <1>2, <1>3

LEMMA AgainInv ==
  ASSUME NEW e, EnvInv(e), NEW sh, e.cls \in Alg!AlgorithmicClasses => sh.min_length \in Nat /\ sh.min_length >= 1,
         NEW r \in Resets(e.cls, e.kw, sh), NEW k, NEW f, f = Again(e, r, k)
  PROVE  EnvInv(f)
<1>1. /\ IsEnv(e) /\ KwOK(e.cls, e.kw) /\ ActsOK(e.cls, e.kw, e.acts)
      /\ (e.cls = "CarRacing" => e.max_episode_steps # None)
  BY DEF EnvInv
<1>2. /\ IsEnv(f) /\ Fresh(f, r) /\ f.over \in BOOLEAN
      /\ f.cls = e.cls /\ f.kw = e.kw /\ f.acts = e.acts
      /\ f.max_episode_steps = e.max_episode_steps
  BY <1>1, AgainIs
<1>3. ClassInv(f)
  BY <1>1, <1>2, ResetByClass
<1>4. f.elapsed \in Nat /\ f.begun \in BOOLEAN /\ f.over \in BOOLEAN /\ (~f.over => ~f.done)
  <2>1. f.elapsed \in Nat
    BY <1>2 DEF Fresh
  <2>2. f.begun \in BOOLEAN
    BY <1>2 DEF Fresh
  <2>4. f.over \in BOOLEAN
    BY <1>2
  <2>5. ~f.done
    BY <1>2 DEF Fresh
  <2>. QED BY <2>1, <2>2, <2>4, <2>5
<1>. QED BY <1>1, <1>2, <1>3, <1>4 DEF EnvInv

\* The level after a reset of e, and the streak.
LevelAfter(e, sh) == IF IsAlg(e) THEN Alg!LevelUp(e.cls, e.kw, e.st, sh) ELSE sh
StreakAfter(e, sh, next) ==
  IF ~IsAlg(e) \/ next.min_length # sh.min_length THEN 0
  ELSE IF Streak(e) < Alg!Window(e.cls, e.kw) THEN Streak(e) ELSE e.streak

LEMMA GymReset == ASSUME GymInv, NEW i \in DOMAIN envs, Reset(i) PROVE GymInv'
<1>. DEFINE e == envs[i]
            k == StreakAfter(e, shared, shared')
<1>1. /\ IsSeq(todo) /\ (\A j \in DOMAIN todo : EntryOK(todo[j]))
      /\ IsSeq(envs) /\ (\A j \in DOMAIN envs : EnvInv(envs[j]))
      /\ SharedOK(shared) /\ (\A j \in DOMAIN envs : IsAlg(envs[j]) => shared.min_length >= 1)
      /\ (Len(envs) = 1 /\ IsAlg(envs[1]) => Earning(envs[1], shared.shortfalls))
      /\ failed # "AssertionError"
  BY DEF GymInv
<1>2. shared' = LevelAfter(e, shared) /\ todo' = todo /\ failed' = failed
  BY DEF Reset, LevelAfter
<1>3. \E r \in Resets(e.cls, e.kw, shared') : envs' = [envs EXCEPT ![i] = Again(e, r, k)]
  BY <1>2 DEF Reset, Again, StreakAfter, LevelAfter
<1>4. PICK r \in Resets(e.cls, e.kw, shared') : envs' = [envs EXCEPT ![i] = Again(e, r, k)]
  BY <1>3
<1>5. EnvInv(e) /\ KwOK(e.cls, e.kw) /\ ClassInv(e) /\ IsEnv(e)
  BY <1>1 DEF EnvInv
<1>6. /\ SharedOK(shared') /\ shared'.min_length \in Nat /\ shared.min_length \in Nat
      /\ shared'.min_length >= shared.min_length
  <2>1. CASE IsAlg(e)
    <3>1. shared' = Alg!LevelUp(e.cls, e.kw, e.st, shared)
      BY <1>2, <2>1 DEF LevelAfter
    <3>. QED BY <1>1, <1>5, <2>1, <3>1, LevelIs DEF IsAlg, SharedOK
  <2>2. CASE ~IsAlg(e)
    <3>1. shared' = shared /\ shared.min_length \in Nat
      BY <1>1, <1>2, <2>2 DEF LevelAfter, SharedOK
    <3>. QED BY <1>1, <3>1
  <2>. QED BY <2>1, <2>2
<1>7. \A j \in DOMAIN envs : IsAlg(envs[j]) => shared'.min_length >= 1
  BY <1>1, <1>6
<1>. DEFINE f == Again(e, r, k)
<1>14. f = Again(e, r, k)
  OBVIOUS
<1>9. envs' = [envs EXCEPT ![i] = f]
  BY <1>4
<1>. HIDE DEF f, k
<1>8. EnvInv(f) /\ f.cls = e.cls /\ f.kw = e.kw /\ f.streak = k
  <2>1. f.cls = e.cls /\ f.kw = e.kw /\ f.streak = k
    BY <1>5, <1>14, AgainIs
  <2>2. e.cls \in Alg!AlgorithmicClasses => shared'.min_length \in Nat /\ shared'.min_length >= 1
    BY <1>6, <1>7 DEF IsAlg
  <2>. HIDE DEF e
  <2>3. EnvInv(f)
    BY <1>5, <1>14, <2>2, AgainInv
  <2>. QED BY <2>1, <2>3
<1>10. /\ IsSeq(envs') /\ Len(envs') = Len(envs) /\ DOMAIN envs' = DOMAIN envs
       /\ envs'[i] = f /\ (\A j \in DOMAIN envs : j # i => envs'[j] = envs[j])
  BY <1>1, <1>9, ExceptFacts, ZenonT(60)
<1>11. \A j \in DOMAIN envs' : EnvInv(envs'[j])
  BY <1>1, <1>8, <1>10
<1>12. \A j \in DOMAIN envs' : IsAlg(envs'[j]) => shared'.min_length >= 1
  BY <1>7, <1>8, <1>10 DEF IsAlg
<1>13. Len(envs') = 1 /\ IsAlg(envs'[1]) => Earning(envs'[1], shared'.shortfalls)
  <2>. SUFFICES ASSUME Len(envs') = 1, IsAlg(envs'[1]) PROVE Earning(envs'[1], shared'.shortfalls)
    OBVIOUS
  <2>1. i = 1 /\ envs'[1] = f
    <3>1. DOMAIN envs = 1..1
      BY <1>1, <1>10, SeqFacts
    <3>2. i = 1
      BY <3>1
    <3>. QED BY <1>10, <3>2
  <2>2. e.cls \in Alg!AlgorithmicClasses /\ IsAlg(e)
    BY <1>8, <2>1 DEF IsAlg
  <2>3. Earning(e, shared.shortfalls) /\ TapeInv(e)
    BY <1>1, <1>5, <1>10, <2>1, <2>2 DEF ClassInv
  <2>4. shared' = Alg!LevelUp(e.cls, e.kw, e.st, shared)
    BY <1>2, <2>2 DEF LevelAfter
  <2>5. \/ shared'.min_length = shared.min_length + 1 /\ shared'.shortfalls = <<>>
        \/ shared'.min_length = shared.min_length /\ shared'.shortfalls = Falls(e, shared)
    BY <1>1, <1>5, <2>2, <2>4, LevelIs
  <2>6. CASE shared'.min_length = shared.min_length + 1 /\ shared'.shortfalls = <<>>
    <3>1. shared'.min_length # shared.min_length
      BY <1>6, <2>6
    <3>2. f.streak = 0
      BY <1>8, <3>1 DEF StreakAfter, k
    <3>3. Alg!Window(f.cls, f.kw) \in Nat \ {0}
      BY <1>5, <1>8, <2>2, WindowIs
    <3>4. Len(shared'.shortfalls) = 0
      BY <2>6
    <3>. QED BY <2>1, <3>2, <3>3, <3>4 DEF Earning
  <2>7. CASE shared'.min_length = shared.min_length /\ shared'.shortfalls = Falls(e, shared)
    <3>1. f.streak = IF Streak(e) < Alg!Window(e.cls, e.kw) THEN Streak(e) ELSE e.streak
      BY <1>8, <2>2, <2>7 DEF StreakAfter, k
    <3>2. Earning(f, Falls(e, shared))
      BY <1>1, <1>5, <1>8, <2>2, <2>3, <3>1, EarningKept
    <3>. QED BY <2>1, <2>7, <3>2
  <2>. QED BY <2>5, <2>6, <2>7
<1>. QED BY <1>1, <1>2, <1>6, <1>10, <1>11, <1>12, <1>13 DEF GymInv

Going(e) == e.begun /\ ~e.over
Timed(f) == f.over \in BOOLEAN /\ (~f.over => ~f.done)

LEMMA SteppedKeeps ==
  ASSUME NEW e, IsEnv(e), NEW o, NEW f, f = Stepped(e, o)
  PROVE  /\ f.cls = e.cls /\ f.kw = e.kw /\ f.acts = e.acts
         /\ f.max_episode_steps = e.max_episode_steps /\ f.begun = e.begun /\ f.streak = e.streak
BY DEF Stepped, IsEnv, Fields

LEMMA SteppedSets ==
  ASSUME NEW e, IsEnv(e), NEW o, NEW f, f = Stepped(e, o)
  PROVE  f.st = o.st /\ f.obs = o.obs /\ f.rew = o.reward /\ f.done = o.done /\ f.elapsed = Elapsed(e)
BY DEF Stepped, IsEnv, Fields

LEMMA SteppedTimed ==
  ASSUME NEW e, IsEnv(e), NEW o, NEW f, f = Stepped(e, o)
  PROVE  IsEnv(f) /\ Timed(f)
<1>2. IsEnv(f)
  BY DEF Stepped, IsEnv, Fields
<1>1. f.over = (o.done \/ PastLimit(e, Elapsed(e))) /\ f.done = o.done
  BY DEF Stepped, IsEnv, Fields
<1>. QED BY <1>1, <1>2 DEF Timed

LEMMA SteppedInv ==
  ASSUME NEW e, EnvInv(e), Going(e), NEW a, ActOK(ActionSpace(e), a),
         NEW o \in Steps(e, a), NEW f, f = Stepped(e, o)
  PROVE  EnvInv(f)
<1>1. /\ IsEnv(e) /\ KwOK(e.cls, e.kw) /\ ActsOK(e.cls, e.kw, e.acts) /\ ClassInv(e)
      /\ (e.cls = "CarRacing" => e.max_episode_steps # None)
      /\ e.elapsed \in Nat /\ e.begun \in BOOLEAN /\ ~e.done
  BY DEF EnvInv, Going
<1>10. IsEnv(e)
  BY <1>1
<1>2. /\ f.cls = e.cls /\ f.kw = e.kw /\ f.acts = e.acts
      /\ f.max_episode_steps = e.max_episode_steps /\ f.begun = e.begun /\ f.streak = e.streak
  BY <1>10, SteppedKeeps
<1>7. f.st = o.st /\ f.obs = o.obs /\ f.rew = o.reward /\ f.done = o.done /\ f.elapsed = Elapsed(e)
  BY <1>10, SteppedSets
<1>8. IsEnv(f) /\ Timed(f)
  BY <1>10, SteppedTimed
<1>3. e.begun = TRUE
  BY <1>1 DEF Going
<1>4. After(e, f, o)
  BY <1>1, <1>2, <1>3, <1>7 DEF After
<1>5. ClassInv(f)
  BY <1>1, <1>4, StepByClass
<1>6. f.elapsed \in Nat
  BY <1>1, <1>7 DEF Elapsed
<1>9. f.begun \in BOOLEAN
  BY <1>1, <1>2
<1>. QED BY <1>1, <1>2, <1>5, <1>6, <1>7, <1>8, <1>9 DEF EnvInv, Timed

LEMMA GymStep == ASSUME GymInv, NEW i \in DOMAIN envs, Act(i) PROVE GymInv'
<1>. DEFINE e == envs[i]
<1>1. /\ IsSeq(todo) /\ (\A j \in DOMAIN todo : EntryOK(todo[j]))
      /\ IsSeq(envs) /\ (\A j \in DOMAIN envs : EnvInv(envs[j]))
      /\ SharedOK(shared) /\ (\A j \in DOMAIN envs : IsAlg(envs[j]) => shared.min_length >= 1)
      /\ (Len(envs) = 1 /\ IsAlg(envs[1]) => Earning(envs[1], shared.shortfalls))
      /\ failed # "AssertionError"
  BY DEF GymInv
<1>2. PICK a \in Choices(e) : Step(i, a)
  BY DEF Act
<1>3. EnvInv(e)
  BY <1>1
<1>4. ActOK(ActionSpace(e), a) /\ Accepted(e, a)
  BY <1>3, ChosenAccepted
<1>5. /\ Going(e) /\ failed' = failed /\ todo' = todo /\ shared' = shared
      /\ \E o \in Steps(e, a) : envs' = [envs EXCEPT ![i] = Stepped(e, o)]
  BY <1>2, <1>4 DEF Step, Going
<1>6. PICK o \in Steps(e, a) : envs' = [envs EXCEPT ![i] = Stepped(e, o)]
  BY <1>5
<1>. DEFINE f == Stepped(e, o)
<1>7. f = Stepped(e, o)
  OBVIOUS
<1>14. envs' = [envs EXCEPT ![i] = f]
  BY <1>6
<1>. HIDE DEF f
<1>8. f.cls = e.cls /\ f.kw = e.kw /\ f.streak = e.streak
  <2>1. IsEnv(e)
    BY <1>3 DEF EnvInv
  <2>. QED BY <1>7, <2>1, SteppedKeeps
<1>9. EnvInv(f)
  <2>. HIDE DEF e
  <2>. QED BY <1>3, <1>4, <1>5, <1>7, SteppedInv
<1>10. /\ IsSeq(envs') /\ Len(envs') = Len(envs) /\ DOMAIN envs' = DOMAIN envs
       /\ envs'[i] = f /\ (\A j \in DOMAIN envs : j # i => envs'[j] = envs[j])
  BY <1>1, <1>14, ExceptFacts, ZenonT(60)
<1>11. \A j \in DOMAIN envs' : EnvInv(envs'[j])
  BY <1>1, <1>9, <1>10
<1>12. \A j \in DOMAIN envs' : IsAlg(envs'[j]) => shared'.min_length >= 1
  BY <1>1, <1>5, <1>8, <1>10 DEF IsAlg
<1>13. Len(envs') = 1 /\ IsAlg(envs'[1]) => Earning(envs'[1], shared'.shortfalls)
  <2>. SUFFICES ASSUME Len(envs') = 1, IsAlg(envs'[1]) PROVE Earning(envs'[1], shared'.shortfalls)
    OBVIOUS
  <2>1. DOMAIN envs = 1..1
    BY <1>1, <1>10, SeqFacts
  <2>2. i = 1
    BY <2>1
  <2>3. IsAlg(e) /\ e = envs[1] /\ envs'[1] = f
    BY <1>8, <1>10, <2>2 DEF IsAlg
  <2>4. Earning(e, shared.shortfalls)
    BY <1>1, <1>10, <2>3
  <2>5. Earning(f, shared.shortfalls)
    BY <1>8, <2>4 DEF Earning, Allowed
  <2>. QED BY <1>5, <2>3, <2>5
<1>. QED BY <1>1, <1>5, <1>10, <1>11, <1>12, <1>13 DEF GymInv

LEMMA GymNext == ASSUME GymInv, [Next]_vars PROVE GymInv'
<1>1. CASE Make
  BY <1>1, GymMake
<1>2. ASSUME NEW i \in DOMAIN envs, Reset(i) PROVE GymInv'
  BY <1>2, GymReset
<1>3. ASSUME NEW i \in DOMAIN envs, Act(i) PROVE GymInv'
  BY <1>3, GymStep
<1>4. CASE UNCHANGED vars
  <2>1. todo' = todo /\ envs' = envs /\ shared' = shared /\ failed' = failed
    BY <1>4 DEF vars
  <2>. QED BY <2>1 DEF GymInv
<1>. QED BY <1>1, <1>2, <1>3, <1>4 DEF Next

LEMMA Invariant == Spec => []GymInv
BY GymInit, GymNext, PTL DEF Spec

\* Over any session, the states, rewards and ends of episodes of each
\* environment agree: a lake that ends on the goal pays for it, a taxi arrives
\* where its passenger goes, a wallet stays within its cap however its sums are
\* rounded, a tile is paid once.  Of the statistics of the generalized game of
\* Kelly it says that every flip counts as a win, which is what the code does and
\* not what its documentation says (kellycoinflip.py:98-103 and 173).
THEOREM WorldIsSound == Spec => []WorldSound
<1>1. GymInv => WorldSound
  <2>. SUFFICES ASSUME GymInv, NEW i \in DOMAIN envs
                PROVE  CASE Env(i, "FrozenLake") -> LakeSound(envs[i])
                         [] Env(i, "CliffWalking") -> CliffSound(envs[i])
                         [] Env(i, "Taxi") -> TaxiSound(envs[i])
                         [] Env(i, "Blackjack") -> BlackjackSound(envs[i])
                         [] Env(i, "KellyCoinflip") -> KellySound(envs[i])
                         [] Env(i, "KellyCoinflipGeneralized") -> GeneralSound(envs[i])
                         [] Env(i, "CubeCrash") -> CubeSound(envs[i])
                         [] Env(i, "CartPole") -> CartSound(envs[i])
                         [] Env(i, "LunarLander") -> LanderSound(envs[i])
                         [] Env(i, "BipedalWalker") -> WalkerSound(envs[i])
                         [] Env(i, "CarRacing") -> RacingSound(envs[i])
                         [] IsAlg(envs[i]) -> TapeSound(envs[i])
                         [] OTHER -> TRUE
    BY DEF WorldSound
  <2>. DEFINE e == envs[i]
  <2>1. KwOK(e.cls, e.kw) /\ ClassInv(e)
    BY DEF GymInv, EnvInv
  <2>2. /\ (e.cls = "FrozenLake" => LakeSound(e)) /\ (e.cls = "CliffWalking" => CliffSound(e))
        /\ (e.cls = "Taxi" => TaxiSound(e)) /\ (e.cls = "Blackjack" => BlackjackSound(e))
        /\ (e.cls = "KellyCoinflip" => KellySound(e)) /\ (e.cls = "KellyCoinflipGeneralized" => GeneralSound(e))
    BY <2>1 DEF ClassInv, LakeInv, CliffInv, TaxiInv, BlackjackInv, KellyInv, GeneralInv
  <2>3. /\ (e.cls = "CubeCrash" => CubeSound(e)) /\ (e.cls = "CartPole" => CartSound(e))
        /\ (e.cls = "LunarLander" => LanderSound(e)) /\ (e.cls = "BipedalWalker" => WalkerSound(e))
        /\ (e.cls = "CarRacing" => RacingSound(e)) /\ (IsAlg(e) => TapeSound(e))
    BY <2>1 DEF ClassInv, CubeInv, CartInv, LanderInv, WalkerInv, RacingInv, TapeInv, IsAlg
  <2>4. IsAlg(e) => e.cls \notin ToyClasses \cup UnitClasses \cup BoxClasses
    BY ClassesApart DEF IsAlg
  <2>. QED BY <2>2, <2>3, <2>4 DEF Env, ToyClasses, UnitClasses, BoxClasses
<1>. QED BY <1>1, Invariant, PTL

\* Every observation is in the space that the environment announces, but for the
\* games of Kelly whose cap float32 rounds down (box.py:35-36), where the player has
\* more than what is left of the cap; and no action that the program chooses fails
\* an assertion.
THEOREM SpacesAreKept == Spec => []SpacesKept
<1>1. GymInv => SpacesKept
  <2>. SUFFICES ASSUME GymInv PROVE SpacesKept
    OBVIOUS
  <2>1. ASSUME NEW i \in DOMAIN envs
        PROVE  /\ S!SpaceOK(ObsSpace(envs[i])) /\ S!SpaceOK(ActionSpace(envs[i]))
               /\ Shown(envs[i])
    <3>. DEFINE e == envs[i]
    <3>1. KwOK(e.cls, e.kw) /\ ClassInv(e)
      BY DEF GymInv, EnvInv
    <3>. HIDE DEF e
    <3>2. S!SpaceOK(ObsSpace(e)) /\ S!SpaceOK(ActionSpace(e)) /\ Shown(e)
      BY <3>1, SoundByClass
    <3>. QED BY <3>2 DEF e
  <2>2. failed # "AssertionError"
    BY DEF GymInv
  <2>. QED BY <2>1, <2>2 DEF SpacesKept
<1>. QED BY <1>1, Invariant, PTL

\* With one environment, inputs get longer only by one and only when the whole
\* window of episodes before was solved, and they never get shorter.
THEOREM LevelsAreEarned == Spec => LevelsEarned
<1>. DEFINE A == Len(envs) = 1 /\ Len(envs') = 1 /\ shared'.min_length # shared.min_length =>
                   /\ shared'.min_length = shared.min_length + 1
                   /\ Streak(envs[1]) >= Alg!Window(envs[1].cls, envs[1].kw)
<1>1. GymInv /\ [Next]_vars => [A]_vars
  <2>. SUFFICES ASSUME GymInv, Next, Len(envs) = 1, Len(envs') = 1, shared'.min_length # shared.min_length
                PROVE  /\ shared'.min_length = shared.min_length + 1
                       /\ Streak(envs[1]) >= Alg!Window(envs[1].cls, envs[1].kw)
    OBVIOUS
  <2>. DEFINE e == envs[1]
  <2>1. IsSeq(envs) /\ SharedOK(shared) /\ DOMAIN envs = 1..1
    BY SeqFacts DEF GymInv
  <2>2. EnvInv(e) /\ KwOK(e.cls, e.kw) /\ ClassInv(e)
    BY <2>1 DEF GymInv, EnvInv
  <2>3. ~Make
    <3>. SUFFICES ASSUME Make PROVE FALSE
      OBVIOUS
    <3>1. shared' # shared
      OBVIOUS
    <3>2. \E x : envs' = Append(envs, x)
      BY <3>1 DEF Make
    <3>3. Len(envs') = Len(envs) + 1
      BY <2>1, <3>2, AppendFacts
    <3>. QED BY <3>3
  <2>4. PICK i \in DOMAIN envs : Reset(i) \/ Act(i)
    BY <2>3 DEF Next
  <2>5. i = 1
    BY <2>1
  <2>6. Reset(1)
    <3>1. Act(1) => shared' = shared
      BY DEF Act, Step
    <3>. QED BY <2>4, <2>5, <3>1
  <2>7. IsAlg(e) /\ shared' = Alg!LevelUp(e.cls, e.kw, e.st, shared)
    BY <2>6 DEF Reset
  <2>8. e.cls \in Alg!AlgorithmicClasses /\ TapeInv(e) /\ Earning(e, shared.shortfalls)
    BY <2>2, <2>7 DEF IsAlg, ClassInv, GymInv
  <2>9. shared'.min_length = shared.min_length + 1 /\ Promotes(e, Falls(e, shared))
    BY <2>1, <2>2, <2>7, <2>8, LevelIs
  <2>10. Streak(e) >= Alg!Window(e.cls, e.kw)
    BY <2>1, <2>2, <2>8, <2>9, PromotionEarned
  <2>. QED BY <2>9, <2>10
<1>. QED BY <1>1, Invariant, PTL DEF Spec, LevelsEarned

==============================================================================
