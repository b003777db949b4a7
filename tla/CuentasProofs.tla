--------------------------- MODULE CuentasProofs ---------------------------
(***************************************************************************)
(* Proofs about Cuentas, for any accounts, people, amounts and percentages *)
(* and any number of expenses.                                             *)
(***************************************************************************)
EXTENDS Cuentas, SequenceTheorems, FiniteSetTheorems, NaturalsInduction, WellFoundedInduction, TLAPS

-----------------------------------------------------------------------------
(* Induction, on the members of a set.                                     *)

LEMMA FromZero ==
  ASSUME NEW N \in SUBSET Nat, 0 \in N, \A n \in N : n + 1 \in N
  PROVE  N = Nat
<1>. SUFFICES ASSUME Nat \ N # {} PROVE FALSE
  OBVIOUS
<1>1. IsWellFoundedOn(OpToRel(<, Nat), Nat)
  BY NatLessThanWellFounded
<1>2. PICK n \in Nat \ N : \A m \in Nat \ N : ~(<<m, n>> \in OpToRel(<, Nat))
  BY <1>1, WFMin
<1>3. n # 0 /\ n - 1 \in Nat /\ n - 1 < n
  OBVIOUS
<1>4. <<n - 1, n>> \in OpToRel(<, Nat)
  BY <1>3 DEF OpToRel
<1>5. n - 1 \in N
  BY <1>2, <1>3, <1>4
<1>6. n \in Nat /\ n \notin N /\ (n - 1) + 1 = n
  OBVIOUS
<1>. QED BY <1>5, <1>6

Chosen(s) == CHOOSE x \in s : TRUE

LEMMA ChosenIn == ASSUME NEW s, s # {} PROVE Chosen(s) \in s
BY DEF Chosen

LEMMA ByChoice ==
  ASSUME NEW T, IsFiniteSet(T), NEW Q \in SUBSET SUBSET T, {} \in Q,
         \A s \in SUBSET T : s # {} /\ s \ {Chosen(s)} \in Q => s \in Q
  PROVE  Q = SUBSET T
<1>. DEFINE N == {n \in Nat : \A s \in SUBSET T : Cardinality(s) = n => s \in Q}
<1>1. \A s \in SUBSET T : IsFiniteSet(s) /\ Cardinality(s) \in Nat
  BY FS_Subset, FS_CardinalityType
<1>2. 0 \in N
  BY <1>1, FS_EmptySet
<1>3. ASSUME NEW n \in N PROVE n + 1 \in N
  <2>. SUFFICES ASSUME NEW s \in SUBSET T, Cardinality(s) = n + 1 PROVE s \in Q
    OBVIOUS
  <2>1. n \in Nat /\ n + 1 # 0 /\ s # {}
    BY FS_EmptySet
  <2>2. Cardinality(s \ {Chosen(s)}) = Cardinality(s) - 1
    BY <1>1, <2>1, ChosenIn, FS_RemoveElement
  <2>3. s \ {Chosen(s)} \in SUBSET T /\ Cardinality(s \ {Chosen(s)}) = n
    BY <2>2
  <2>4. s \ {Chosen(s)} \in Q
    BY <2>3
  <2>. HIDE DEF N
  <2>. QED BY <2>1, <2>4
<1>4. N = Nat
  <2>. HIDE DEF N
  <2>1. N \in SUBSET Nat
    BY DEF N
  <2>. QED BY <1>2, <1>3, <2>1, FromZero
<1>. QED BY <1>1, <1>4

LEMMA ByElements ==
  ASSUME NEW T, IsFiniteSet(T), NEW Q \in SUBSET SUBSET T, {} \in Q,
         \A s \in Q : \A a \in T \ s : s \cup {a} \in Q
  PROVE  Q = SUBSET T
<1>1. ASSUME NEW s \in SUBSET T, s # {}, s \ {Chosen(s)} \in Q PROVE s \in Q
  <2>1. Chosen(s) \in s
    BY <1>1, ChosenIn
  <2>2. Chosen(s) \in T \ (s \ {Chosen(s)}) /\ (s \ {Chosen(s)}) \cup {Chosen(s)} = s
    BY <2>1
  <2>. QED BY <1>1, <2>2
<1>. QED BY <1>1, ByChoice

-----------------------------------------------------------------------------
(* Sums.                                                                   *)

Total(f, T) == SumFunctionOnSet(f, T)

Whole(f, T) == IsFiniteSet(T) /\ \A x \in T : f[x] \in Int

Adds(f, g, s) == IF s = {} THEN 0 ELSE f[Chosen(s)] + g[s \ {Chosen(s)}]
Table(f, T, g) == g = [s \in SUBSET T |-> Adds(f, g, s)]
Sums(f, T) == CHOOSE g : Table(f, T, g)

LEMMA TotalDef == ASSUME NEW f, NEW T PROVE Total(f, T) = Sums(f, T)[T]
BY DEF Total, SumFunctionOnSet, FoldFunctionOnSet, MapThenFoldSet, Sums, Table, Adds, Chosen

LEMMA TableExists ==
  ASSUME NEW f, NEW T, Whole(f, T)
  PROVE  \E g \in [SUBSET T -> Int] : Table(f, T, g)
<1>. DEFINE Small(n) == {s \in SUBSET T : Cardinality(s) <= n}
            Partial(g, n) == g \in [Small(n) -> Int] /\ \A s \in Small(n) : g[s] = Adds(f, g, s)
            N == {n \in Nat : \E g : Partial(g, n)}
<1>1. \A s \in SUBSET T : IsFiniteSet(s) /\ Cardinality(s) \in Nat /\ (Cardinality(s) = 0 <=> s = {})
  BY FS_Subset, FS_CardinalityType, FS_EmptySet DEF Whole
<1>2. 0 \in N
  <2>. DEFINE g == [s \in Small(0) |-> 0]
  <2>1. \A s \in Small(0) : s = {}
    BY <1>1
  <2>2. Partial(g, 0)
    BY <2>1 DEF Adds
  <2>. QED BY <2>2
<1>3. ASSUME NEW n \in N PROVE n + 1 \in N
  <2>1. PICK h : Partial(h, n)
    OBVIOUS
  <2>. DEFINE g == [s \in Small(n + 1) |-> Adds(f, h, s)]
  <2>2. ASSUME NEW s \in Small(n + 1), s # {}
        PROVE  Chosen(s) \in T /\ s \ {Chosen(s)} \in Small(n)
    <3>1. Chosen(s) \in s
      BY <2>2, ChosenIn
    <3>2. Cardinality(s \ {Chosen(s)}) = Cardinality(s) - 1
      BY <1>1, <3>1, FS_RemoveElement
    <3>. QED BY <1>1, <3>1, <3>2
  <2>3. ASSUME NEW s \in Small(n + 1) PROVE Adds(f, h, s) \in Int
    BY <2>1, <2>2 DEF Adds, Whole
  <2>4. ASSUME NEW s \in Small(n) PROVE s \in Small(n + 1) /\ g[s] = h[s]
    BY <1>1, <2>1
  <2>5. ASSUME NEW s \in Small(n + 1) PROVE g[s] = Adds(f, g, s)
    <3>1. CASE s = {}
      BY <3>1 DEF Adds
    <3>2. CASE s # {}
      <4>1. g[s \ {Chosen(s)}] = h[s \ {Chosen(s)}]
        BY <2>2, <2>4, <3>2
      <4>. QED BY <3>2, <4>1 DEF Adds
    <3>. QED BY <3>1, <3>2
  <2>6. Partial(g, n + 1)
    BY <2>3, <2>5
  <2>7. n + 1 \in Nat
    OBVIOUS
  <2>. QED BY <2>6, <2>7
<1>4. N = Nat
  <2>. HIDE DEF N
  <2>1. N \in SUBSET Nat
    BY DEF N
  <2>. QED BY <1>2, <1>3, <2>1, FromZero
<1>5. PICK g : Partial(g, Cardinality(T))
  BY <1>1, <1>4
<1>6. Small(Cardinality(T)) = SUBSET T
  BY FS_Subset DEF Whole
<1>7. g \in [SUBSET T -> Int] /\ \A s \in SUBSET T : g[s] = Adds(f, g, s)
  BY <1>5, <1>6
<1>. QED BY <1>7 DEF Table

LEMMA SumsTable ==
  ASSUME NEW f, NEW T, Whole(f, T)
  PROVE  /\ \A s \in SUBSET T : Sums(f, T)[s] = Adds(f, Sums(f, T), s)
         /\ \A s \in SUBSET T : Sums(f, T)[s] \in Int
<1>. DEFINE g == Sums(f, T)
            Q == {s \in SUBSET T : g[s] \in Int}
<1>1. Table(f, T, g)
  BY TableExists DEF Sums
<1>2. \A s \in SUBSET T : g[s] = Adds(f, g, s)
  BY <1>1 DEF Table
<1>. HIDE DEF g
<1>3. {} \in Q
  <2>1. {} \in SUBSET T /\ Adds(f, g, {}) = 0
    BY DEF Adds
  <2>. QED BY <1>2, <2>1
<1>4. ASSUME NEW s \in SUBSET T, s # {}, s \ {Chosen(s)} \in Q PROVE s \in Q
  BY <1>2, <1>4, ChosenIn DEF Adds, Whole
<1>5. Q = SUBSET T
  <2>. HIDE DEF Q
  <2>1. Q \in SUBSET SUBSET T
    BY DEF Q
  <2>. QED BY <1>3, <1>4, <2>1, ByChoice DEF Whole
<1>. QED BY <1>2, <1>5 DEF g

LEMMA SumsSame ==
  ASSUME NEW f, NEW g, NEW T, Whole(f, T), NEW U \in SUBSET T, \A x \in U : f[x] = g[x]
  PROVE  \A s \in SUBSET U : Sums(f, T)[s] = Sums(g, U)[s]
<1>. DEFINE a == Sums(f, T)
            b == Sums(g, U)
            Q == {s \in SUBSET U : a[s] = b[s]}
<1>1. IsFiniteSet(U) /\ Whole(g, U)
  BY FS_Subset DEF Whole
<1>2. \A s \in SUBSET U : a[s] = Adds(f, a, s) /\ b[s] = Adds(g, b, s)
  BY <1>1, SumsTable
<1>. HIDE DEF a, b
<1>3. {} \in Q
  BY <1>2 DEF Adds
<1>4. ASSUME NEW s \in SUBSET U, s # {}, s \ {Chosen(s)} \in Q PROVE s \in Q
  BY <1>2, <1>4, ChosenIn DEF Adds
<1>5. Q = SUBSET U
  <2>. HIDE DEF Q
  <2>1. Q \in SUBSET SUBSET U
    BY DEF Q
  <2>. QED BY <1>1, <1>3, <1>4, <2>1, ByChoice
<1>. QED BY <1>5 DEF a, b

LEMMA TotalSame ==
  ASSUME NEW f, NEW g, NEW T, Whole(f, T), \A x \in T : f[x] = g[x]
  PROVE  Total(f, T) = Total(g, T)
BY SumsSame, TotalDef

LEMMA TotalEmpty == ASSUME NEW f PROVE Total(f, {}) = 0
<1>1. Whole(f, {})
  BY FS_EmptySet DEF Whole
<1>. QED BY <1>1, SumsTable, TotalDef DEF Adds

LEMMA TotalInt == ASSUME NEW f, NEW T, Whole(f, T) PROVE Total(f, T) \in Int
BY SumsTable, TotalDef

\* Any element may be taken out first.
LEMMA TotalWithout ==
  ASSUME NEW f, NEW T, Whole(f, T), NEW e \in T
  PROVE  Total(f, T) = f[e] + Total(f, T \ {e})
<1>. DEFINE N == {n \in Nat : \A s \in SUBSET T : Cardinality(s) = n =>
                                 \A a \in s : Total(f, s) = f[a] + Total(f, s \ {a})}
<1>1. \A s \in SUBSET T : IsFiniteSet(s) /\ Cardinality(s) \in Nat
  BY FS_Subset, FS_CardinalityType DEF Whole
<1>2. \A s \in SUBSET T : Total(f, s) = Sums(f, T)[s]
  BY SumsSame, TotalDef
<1>3. \A s \in SUBSET T : Total(f, s) \in Int /\ (s # {} => Total(f, s) = f[Chosen(s)] + Total(f, s \ {Chosen(s)}))
  BY <1>2, SumsTable DEF Adds
<1>4. 0 \in N
  BY <1>1, FS_EmptySet
<1>5. ASSUME NEW n \in N PROVE n + 1 \in N
  <2>. SUFFICES ASSUME NEW s \in SUBSET T, Cardinality(s) = n + 1, NEW a \in s
                PROVE  Total(f, s) = f[a] + Total(f, s \ {a})
    OBVIOUS
  <2>0. n \in Nat /\ (n + 1) - 1 = n
    OBVIOUS
  <2>. DEFINE c == Chosen(s)
  <2>1. c \in s
    BY ChosenIn
  <2>2. Total(f, s) = f[c] + Total(f, s \ {c})
    BY <1>3
  <2>. HIDE DEF c
  <2>3. Cardinality(s \ {c}) = n /\ Cardinality(s \ {a}) = n
    BY <1>1, <2>0, <2>1, FS_RemoveElement
  <2>4. CASE c = a
    BY <2>2, <2>4
  <2>5. CASE c # a
    <3>1. a \in s \ {c} /\ c \in s \ {a} /\ (s \ {c}) \ {a} = (s \ {a}) \ {c}
      BY <2>1, <2>5
    <3>2. Total(f, s \ {c}) = f[a] + Total(f, (s \ {c}) \ {a})
      BY <2>3, <3>1
    <3>3. Total(f, s \ {a}) = f[c] + Total(f, (s \ {a}) \ {c})
      BY <2>3, <3>1
    <3>4. f[a] \in Int /\ f[c] \in Int /\ Total(f, (s \ {c}) \ {a}) \in Int
      BY <1>3, <2>1 DEF Whole
    <3>. QED BY <2>2, <3>1, <3>2, <3>3, <3>4
  <2>. QED BY <2>4, <2>5
<1>6. N = Nat
  <2>. HIDE DEF N
  <2>1. N \in SUBSET Nat
    BY DEF N
  <2>. QED BY <1>4, <1>5, <2>1, FromZero
<1>. QED BY <1>1, <1>6

LEMMA TotalWith ==
  ASSUME NEW f, NEW T, Whole(f, T), NEW s \in SUBSET T, NEW a \in T \ s
  PROVE  /\ Total(f, s \cup {a}) = f[a] + Total(f, s)
         /\ Total(f, s) \in Int /\ f[a] \in Int
<1>1. Whole(f, s \cup {a}) /\ Whole(f, s)
  BY FS_Subset DEF Whole
<1>2. (s \cup {a}) \ {a} = s /\ a \in s \cup {a}
  OBVIOUS
<1>3. Total(f, s \cup {a}) = f[a] + Total(f, (s \cup {a}) \ {a})
  BY <1>1, <1>2, TotalWithout
<1>. QED BY <1>1, <1>2, <1>3, TotalInt DEF Whole

LEMMA TotalZero ==
  ASSUME NEW f, NEW T, IsFiniteSet(T), \A x \in T : f[x] = 0
  PROVE  Total(f, T) = 0
<1>. DEFINE Q == {s \in SUBSET T : Total(f, s) = 0}
<1>1. Whole(f, T)
  BY DEF Whole
<1>2. {} \in Q
  BY TotalEmpty
<1>3. ASSUME NEW s \in Q, NEW a \in T \ s PROVE s \cup {a} \in Q
  BY <1>1, TotalWith
<1>4. Q = SUBSET T
  <2>. HIDE DEF Q
  <2>1. Q \in SUBSET SUBSET T
    BY DEF Q
  <2>. QED BY <1>2, <1>3, <2>1, ByElements
<1>. QED BY <1>4

LEMMA TotalPlus ==
  ASSUME NEW f, NEW g, NEW h, NEW T, Whole(f, T), Whole(g, T), \A x \in T : h[x] = f[x] + g[x]
  PROVE  Total(h, T) = Total(f, T) + Total(g, T)
<1>. DEFINE Q == {s \in SUBSET T : Total(h, s) = Total(f, s) + Total(g, s)}
<1>1. Whole(h, T)
  BY DEF Whole
<1>2. {} \in Q
  BY TotalEmpty
<1>3. ASSUME NEW s \in Q, NEW a \in T \ s PROVE s \cup {a} \in Q
  <2>1. /\ Total(f, s \cup {a}) = f[a] + Total(f, s) /\ Total(f, s) \in Int /\ f[a] \in Int
        /\ Total(g, s \cup {a}) = g[a] + Total(g, s) /\ Total(g, s) \in Int /\ g[a] \in Int
        /\ Total(h, s \cup {a}) = h[a] + Total(h, s) /\ h[a] = f[a] + g[a]
    BY <1>1, TotalWith
  <2>. QED BY <2>1
<1>4. Q = SUBSET T
  <2>. HIDE DEF Q
  <2>1. Q \in SUBSET SUBSET T
    BY DEF Q
  <2>. QED BY <1>2, <1>3, <2>1, ByElements DEF Whole
<1>. QED BY <1>4

LEMMA Distributive ==
  ASSUME NEW a \in Int, NEW b \in Int, NEW c \in Int
  PROVE  a * (b + c) = a * b + a * c /\ a * 0 = 0 /\ a * b \in Int
OBVIOUS

LEMMA TotalTimes ==
  ASSUME NEW f, NEW h, NEW c \in Int, NEW T, Whole(f, T), \A x \in T : h[x] = c * f[x]
  PROVE  Total(h, T) = c * Total(f, T)
<1>. DEFINE Q == {s \in SUBSET T : Total(h, s) = c * Total(f, s)}
<1>1. Whole(h, T)
  BY Distributive DEF Whole
<1>2. {} \in Q
  BY TotalEmpty, Distributive
<1>3. ASSUME NEW s \in Q, NEW a \in T \ s PROVE s \cup {a} \in Q
  <2>1. /\ Total(f, s \cup {a}) = f[a] + Total(f, s) /\ Total(f, s) \in Int /\ f[a] \in Int
        /\ Total(h, s \cup {a}) = h[a] + Total(h, s) /\ h[a] = c * f[a]
    BY <1>1, TotalWith
  <2>2. c * (f[a] + Total(f, s)) = c * f[a] + c * Total(f, s)
    BY <2>1, Distributive
  <2>. QED BY <2>1, <2>2
<1>4. Q = SUBSET T
  <2>. HIDE DEF Q
  <2>1. Q \in SUBSET SUBSET T
    BY DEF Q
  <2>. QED BY <1>2, <1>3, <2>1, ByElements DEF Whole
<1>. QED BY <1>4

\* What is zero need not be added.
LEMMA TotalRest ==
  ASSUME NEW f, NEW T, Whole(f, T), NEW U \in SUBSET T, \A x \in T \ U : f[x] = 0
  PROVE  Total(f, T) = Total(f, U)
<1>. DEFINE Q == {s \in SUBSET (T \ U) : Total(f, U \cup s) = Total(f, U)}
<1>1. U \cup {} = U /\ {} \in Q
  OBVIOUS
<1>2. Total(f, U) \in Int
  BY FS_Subset, TotalInt DEF Whole
<1>3. ASSUME NEW s \in Q, NEW a \in (T \ U) \ s PROVE s \cup {a} \in Q
  <2>1. U \cup (s \cup {a}) = (U \cup s) \cup {a} /\ U \cup s \in SUBSET T /\ a \in T \ (U \cup s) /\ f[a] = 0
    OBVIOUS
  <2>2. Total(f, (U \cup s) \cup {a}) = f[a] + Total(f, U \cup s)
    <3>. DEFINE v == U \cup s
    <3>1. v \in SUBSET T /\ a \in T \ v
      BY <2>1
    <3>. HIDE DEF v, Q
    <3>2. Total(f, v \cup {a}) = f[a] + Total(f, v)
      BY <3>1, TotalWith
    <3>. QED BY <3>2 DEF v
  <2>3. Total(f, U \cup s) = Total(f, U)
    OBVIOUS
  <2>4. Total(f, U \cup (s \cup {a})) = Total(f, U)
    <3>. HIDE DEF Q
    <3>1. 0 + Total(f, U) = Total(f, U)
      BY <1>2
    <3>. QED BY <2>1, <2>2, <2>3, <3>1, Zenon
  <2>5. s \cup {a} \in SUBSET (T \ U)
    OBVIOUS
  <2>. QED BY <2>4, <2>5
<1>4. Q = SUBSET (T \ U)
  <2>. HIDE DEF Q
  <2>1. Q \in SUBSET SUBSET (T \ U) /\ IsFiniteSet(T \ U)
    BY FS_Difference DEF Q, Whole
  <2>. QED BY <1>1, <1>3, <2>1, ByElements
<1>5. U \cup (T \ U) = T
  OBVIOUS
<1>6. T \ U \in Q
  BY <1>4
<1>. QED BY <1>5, <1>6

\* Nor do the names of the summands matter.
LEMMA TotalRenamed ==
  ASSUME NEW f, NEW g, NEW T, NEW U, Whole(f, T), Whole(g, U), NEW b \in [T -> U],
         \A x, y \in T : b[x] = b[y] => x = y,
         \A u \in U : \E x \in T : b[x] = u,
         \A x \in T : f[x] = g[b[x]]
  PROVE  Total(f, T) = Total(g, U)
<1>. DEFINE Image(s) == {b[x] : x \in s}
            Q == {s \in SUBSET T : Total(f, s) = Total(g, Image(s))}
<1>1. {} \in Q
  BY TotalEmpty
<1>2. ASSUME NEW s \in Q, NEW a \in T \ s PROVE s \cup {a} \in Q
  <2>1. Image(s \cup {a}) = Image(s) \cup {b[a]} /\ Image(s) \in SUBSET U /\ b[a] \in U \ Image(s)
    OBVIOUS
  <2>2. Total(f, s \cup {a}) = f[a] + Total(f, s)
    BY TotalWith
  <2>3. Total(f, s) = Total(g, Image(s))
    OBVIOUS
  <2>. HIDE DEF Image
  <2>4. Total(g, Image(s) \cup {b[a]}) = g[b[a]] + Total(g, Image(s))
    BY <2>1, TotalWith
  <2>5. Total(f, s \cup {a}) = Total(g, Image(s \cup {a}))
    BY <2>1, <2>2, <2>3, <2>4
  <2>. QED BY <2>5
<1>3. Q = SUBSET T
  <2>. HIDE DEF Q
  <2>1. Q \in SUBSET SUBSET T
    BY DEF Q
  <2>. QED BY <1>1, <1>2, <2>1, ByElements DEF Whole
<1>4. Image(T) = U
  OBVIOUS
<1>. QED BY <1>3, <1>4

-----------------------------------------------------------------------------
(* The lists of accounts and expenses, and the disk.                       *)

CuentaT == UNION {[nombre : Nombres, porcentaje : {f}, saldo : [DOMAIN f -> Int]] : f \in Repartos \cup {<<>>}}
GastoT  == [cuenta : Nombres \cup {Personal}, pagador : Personas \cup {Nadie}, cantidad : Int]
Escrituras == [fichero : {"cuentas"}, lista : Seq(CuentaT)] \cup [fichero : {"gastos"}, lista : Seq(GastoT)]
DiscoT == [cuentas : Seq(CuentaT), gastos : Seq(GastoT)]

\* Every expense has its account, by name.
ConCuenta(cs, gs) ==
  \A i \in DOMAIN gs : gs[i].cuenta \in {cs[k].nombre : k \in DOMAIN cs} \cup {Personal}

\* Names tell accounts apart, who pays is a member, and the balances of an account
\* whose percentages add up to 100 add up to zero.
Distintas(cs)  == \A j, k \in DOMAIN cs : cs[j].nombre = cs[k].nombre => j = k
Pagan(cs, gs)  == \A i \in DOMAIN gs : \A k \in DOMAIN cs :
                    gs[i].cuenta = cs[k].nombre => gs[i].pagador \in DOMAIN cs[k].saldo
Cero(cs)       == \A k \in DOMAIN cs : Resto(cs[k]) = 0 => SumFunction(cs[k].saldo) = 0

\* What the two lists satisfy at any time when the mishaps S have happened.
Sano(cs, gs, S) ==
  /\ cs \in Seq(CuentaT) /\ gs \in Seq(GastoT)
  /\ S \cap {"rotura", "perdida"} = {} => ConCuenta(cs, gs)
  /\ S \cap {"repetida", "rotura", "perdida"} = {} => Distintas(cs) /\ Pagan(cs, gs) /\ Cero(cs)

Par(cs, gs) == [cuentas |-> cs, gastos |-> gs]
Sanos(S) == {d \in DiscoT : Sano(d.cuentas, d.gastos, S)}
Escrito(d, w) == [d EXCEPT ![w.fichero] = w.lista]

\* The writes s take the disk from d to e, and it is sound after each of them.
Leads(s, d, e, S) ==
  /\ s \in Seq(Escrituras)
  /\ \E D : /\ D[0] = d /\ D[Len(s)] = e
            /\ \A j \in 0..Len(s) : D[j] \in Sanos(S)
            /\ \A j \in 1..Len(s) : D[j] = Escrito(D[j - 1], s[j])

LEMMA ParSano == ASSUME NEW cs, NEW gs, NEW S, Sano(cs, gs, S) PROVE Par(cs, gs) \in Sanos(S)
BY DEF Par, Sanos, DiscoT, Sano

LEMMA SanoPar ==
  ASSUME NEW S, NEW d \in Sanos(S)
  PROVE  Sano(d.cuentas, d.gastos, S) /\ d = Par(d.cuentas, d.gastos)
BY DEF Par, Sanos, DiscoT

LEMMA ParFields == ASSUME NEW cs, NEW gs PROVE Par(cs, gs).cuentas = cs /\ Par(cs, gs).gastos = gs
BY DEF Par

LEMMA SanoMore == ASSUME NEW S, NEW U, S \subseteq U PROVE Sanos(S) \subseteq Sanos(U)
BY DEF Sanos, Sano


LEMMA LeadsNowhere ==
  ASSUME NEW S, NEW d \in Sanos(S)
  PROVE  Leads(<<>>, d, d, S) /\ \A e : Leads(<<>>, d, e, S) => e = d
<1>1. LET D == [j \in {0} |-> d]
      IN  /\ D[0] = d /\ D[Len(<<>>)] = d
          /\ \A j \in 0..Len(<<>>) : D[j] \in Sanos(S)
          /\ \A j \in 1..Len(<<>>) : D[j] = Escrito(D[j - 1], (<<>>)[j])
  OBVIOUS
<1>2. <<>> \in Seq(Escrituras)
  OBVIOUS
<1>. QED BY <1>1, <1>2 DEF Leads

LEMMA LeadsEnds ==
  ASSUME NEW s, NEW d, NEW e, NEW S, Leads(s, d, e, S)
  PROVE  d \in Sanos(S) /\ e \in Sanos(S) /\ s \in Seq(Escrituras)
<1>1. Len(s) \in Nat
  BY DEF Leads
<1>2. 0 \in 0..Len(s) /\ Len(s) \in 0..Len(s)
  BY <1>1
<1>. QED BY <1>2 DEF Leads

LEMMA LeadsMore ==
  ASSUME NEW s, NEW d, NEW e, NEW S, NEW U, S \subseteq U, Leads(s, d, e, S)
  PROVE  Leads(s, d, e, U)
BY SanoMore DEF Leads

LEMMA LeadsOne ==
  ASSUME NEW S, NEW d \in Sanos(S), NEW w \in Escrituras, Escrito(d, w) \in Sanos(S)
  PROVE  Leads(<<w>>, d, Escrito(d, w), S)
<1>. DEFINE D == [j \in 0..1 |-> IF j = 0 THEN d ELSE Escrito(d, w)]
<1>1. /\ D[0] = d /\ D[1] = Escrito(d, w)
      /\ \A j \in 0..1 : D[j] \in Sanos(S)
      /\ \A j \in 1..1 : D[j] = Escrito(D[j - 1], <<w>>[j])
  OBVIOUS
<1>2. <<w>> \in Seq(Escrituras) /\ Len(<<w>>) = 1
  OBVIOUS
<1>. HIDE DEF D
<1>. QED BY <1>1, <1>2 DEF Leads

LEMMA LeadsCuentas ==
  ASSUME NEW S, NEW cs, NEW gs, NEW c, Sano(cs, gs, S), Sano(c, gs, S)
  PROVE  Leads(GuardaCuentas(c), Par(cs, gs), Par(c, gs), S)
<1>. DEFINE w == [fichero |-> "cuentas", lista |-> c]
<1>1. w \in Escrituras
  BY DEF Escrituras, Sano
<1>2. Escrito(Par(cs, gs), w) = Par(c, gs)
  BY DEF Escrito, Par
<1>3. GuardaCuentas(c) = <<w>>
  BY DEF GuardaCuentas
<1>. HIDE DEF w
<1>4. Par(cs, gs) \in Sanos(S) /\ Par(c, gs) \in Sanos(S)
  BY ParSano
<1>. QED BY <1>1, <1>2, <1>3, <1>4, LeadsOne

LEMMA LeadsGastos ==
  ASSUME NEW S, NEW cs, NEW gs, NEW g, Sano(cs, gs, S), Sano(cs, g, S)
  PROVE  Leads(GuardaGastos(g), Par(cs, gs), Par(cs, g), S)
<1>. DEFINE w == [fichero |-> "gastos", lista |-> g]
<1>1. w \in Escrituras
  BY DEF Escrituras, Sano
<1>2. Escrito(Par(cs, gs), w) = Par(cs, g)
  BY DEF Escrito, Par
<1>3. GuardaGastos(g) = <<w>>
  BY DEF GuardaGastos
<1>. HIDE DEF w
<1>4. Par(cs, gs) \in Sanos(S) /\ Par(cs, g) \in Sanos(S)
  BY ParSano
<1>. QED BY <1>1, <1>2, <1>3, <1>4, LeadsOne

LEMMA LeadsConcat ==
  ASSUME NEW s, NEW t, NEW d, NEW e, NEW f, NEW S, Leads(s, d, e, S), Leads(t, e, f, S)
  PROVE  Leads(s \o t, d, f, S)
<1>1. s \in Seq(Escrituras) /\ t \in Seq(Escrituras) /\ Len(s) \in Nat /\ Len(t) \in Nat
  BY DEF Leads
<1>2. /\ s \o t \in Seq(Escrituras) /\ Len(s \o t) = Len(s) + Len(t)
      /\ \A i \in 1..(Len(s) + Len(t)) : (s \o t)[i] = IF i <= Len(s) THEN s[i] ELSE t[i - Len(s)]
  BY <1>1, ConcatProperties
<1>3. PICK C : /\ C[0] = d /\ C[Len(s)] = e
               /\ \A j \in 0..Len(s) : C[j] \in Sanos(S)
               /\ \A j \in 1..Len(s) : C[j] = Escrito(C[j - 1], s[j])
  BY DEF Leads
<1>4. PICK D : /\ D[0] = e /\ D[Len(t)] = f
               /\ \A j \in 0..Len(t) : D[j] \in Sanos(S)
               /\ \A j \in 1..Len(t) : D[j] = Escrito(D[j - 1], t[j])
  BY DEF Leads
<1>. DEFINE n == Len(s) + Len(t)
            E == [j \in 0..n |-> IF j <= Len(s) THEN C[j] ELSE D[j - Len(s)]]
<1>5. \A j \in 0..n : E[j] = IF j <= Len(s) THEN C[j] ELSE D[j - Len(s)]
  OBVIOUS
<1>6. n \in Nat /\ 0 \in 0..n /\ n \in 0..n
  BY <1>1
<1>. HIDE DEF E
<1>7. E[0] = d
  BY <1>1, <1>3, <1>5, <1>6
<1>8. E[n] = f
  <2>1. CASE Len(t) = 0
    BY <1>1, <1>3, <1>4, <1>5, <1>6, <2>1
  <2>2. CASE Len(t) # 0
    <3>1. ~(n <= Len(s)) /\ n - Len(s) = Len(t)
      BY <1>1, <2>2
    <3>. QED BY <1>4, <1>5, <1>6, <3>1
  <2>. QED BY <2>1, <2>2
<1>9. ASSUME NEW j \in 1..n PROVE E[j] = Escrito(E[j - 1], (s \o t)[j])
  <2>1. CASE j <= Len(s)
    <3>1. j \in 1..Len(s) /\ j \in 0..n /\ j - 1 \in 0..n /\ j - 1 <= Len(s)
      BY <1>1, <2>1
    <3>2. E[j] = C[j] /\ E[j - 1] = C[j - 1] /\ (s \o t)[j] = s[j]
      BY <1>2, <1>5, <2>1, <3>1
    <3>. QED BY <1>3, <3>1, <3>2
  <2>2. CASE j > Len(s)
    <3>. DEFINE i == j - Len(s)
    <3>1. i \in 1..Len(t) /\ j \in 0..n /\ j - 1 \in 0..n /\ ~(j <= Len(s)) /\ (j - 1) - Len(s) = i - 1
      BY <1>1, <2>2
    <3>2. E[j] = D[i] /\ (s \o t)[j] = t[i]
      BY <1>2, <1>5, <3>1
    <3>3. E[j - 1] = D[i - 1]
      <4>1. CASE j - 1 <= Len(s)
        <5>1. j - 1 = Len(s) /\ i - 1 = 0
          BY <1>1, <2>2, <3>1, <4>1
        <5>. QED BY <1>3, <1>4, <1>5, <3>1, <5>1
      <4>2. CASE ~(j - 1 <= Len(s))
        BY <1>5, <3>1, <4>2
      <4>. QED BY <4>1, <4>2
    <3>. HIDE DEF i
    <3>. QED BY <1>4, <3>1, <3>2, <3>3
  <2>. QED BY <1>1, <2>1, <2>2
<1>10. ASSUME NEW j \in 0..n PROVE E[j] \in Sanos(S)
  <2>1. CASE j <= Len(s)
    BY <1>1, <1>3, <1>5, <2>1
  <2>2. CASE ~(j <= Len(s))
    <3>1. j - Len(s) \in 0..Len(t)
      BY <1>1, <2>2
    <3>. QED BY <1>4, <1>5, <2>2, <3>1
  <2>. QED BY <2>1, <2>2
<1>. QED BY <1>2, <1>7, <1>8, <1>9, <1>10 DEF Leads

LEMMA LeadsTail ==
  ASSUME NEW s, NEW d, NEW e, NEW S, Leads(s, d, e, S), s # <<>>
  PROVE  /\ Head(s) \in Escrituras
         /\ Leads(Tail(s), Escrito(d, Head(s)), e, S)
<1>1. /\ s \in Seq(Escrituras) /\ Len(s) \in Nat /\ Len(s) >= 1 /\ Head(s) = s[1] /\ Head(s) \in Escrituras
      /\ Tail(s) \in Seq(Escrituras) /\ Len(Tail(s)) = Len(s) - 1
      /\ \A i \in 1..(Len(s) - 1) : Tail(s)[i] = s[i + 1]
  <2>1. s \in Seq(Escrituras)
    BY DEF Leads
  <2>2. Len(s) \in Nat \ {0}
    BY <2>1, EmptySeq
  <2>. QED BY <2>1, <2>2, HeadTailProperties
<1>2. PICK D : /\ D[0] = d /\ D[Len(s)] = e
               /\ \A j \in 0..Len(s) : D[j] \in Sanos(S)
               /\ \A j \in 1..Len(s) : D[j] = Escrito(D[j - 1], s[j])
  BY DEF Leads
<1>. DEFINE n == Len(s) - 1
            E == [j \in 0..n |-> D[j + 1]]
<1>3. \A j \in 0..n : E[j] = D[j + 1]
  OBVIOUS
<1>. HIDE DEF E
<1>4. 0 \in 0..n /\ n \in 0..n /\ n + 1 = Len(s) /\ 1 \in 1..Len(s) /\ 1 - 1 = 0 /\ 0 + 1 = 1
  BY <1>1
<1>5. E[0] = Escrito(d, Head(s))
  <2>1. E[0] = D[1]
    BY <1>3, <1>4
  <2>2. D[1] = Escrito(D[0], s[1])
    BY <1>2, <1>4
  <2>. QED BY <1>1, <1>2, <2>1, <2>2
<1>6. E[n] = e
  BY <1>2, <1>3, <1>4
<1>7. ASSUME NEW j \in 1..n PROVE E[j] = Escrito(E[j - 1], Tail(s)[j])
  <2>1. j \in 0..n /\ j - 1 \in 0..n /\ (j - 1) + 1 = j /\ j + 1 \in 1..Len(s) /\ (j + 1) - 1 = j
    BY <1>1
  <2>2. E[j] = D[j + 1] /\ E[j - 1] = D[j] /\ Tail(s)[j] = s[j + 1]
    BY <1>1, <1>3, <2>1
  <2>3. D[j + 1] = Escrito(D[j], s[j + 1])
    BY <1>2, <2>1
  <2>. QED BY <2>2, <2>3
<1>8. ASSUME NEW j \in 0..n PROVE E[j] \in Sanos(S)
  <2>1. j + 1 \in 0..Len(s)
    BY <1>1
  <2>. QED BY <1>2, <1>3, <2>1
<1>. QED BY <1>1, <1>5, <1>6, <1>7, <1>8 DEF Leads

-----------------------------------------------------------------------------
(* What an expense does to the balances of its account.                    *)

LEMMA CuentaFields ==
  ASSUME NEW c \in CuentaT
  PROVE  /\ c.nombre \in Nombres /\ c.nombre # Personal
         /\ c.porcentaje \in Repartos \cup {<<>>}
         /\ c.saldo \in [DOMAIN c.porcentaje -> Int]
         /\ DOMAIN c.saldo = DOMAIN c.porcentaje
         /\ IsFiniteSet(DOMAIN c.saldo) /\ DOMAIN c.saldo \subseteq Personas /\ Nadie \notin DOMAIN c.saldo
         /\ \A m \in DOMAIN c.saldo : c.porcentaje[m] \in Int /\ c.saldo[m] \in Int
         /\ Resto(c) = Cien - Total(c.porcentaje, DOMAIN c.saldo) /\ Resto(c) \in Int
         /\ Total(c.porcentaje, DOMAIN c.saldo) \in Int /\ Cien \in Int
         /\ c = [nombre |-> c.nombre, porcentaje |-> c.porcentaje, saldo |-> c.saldo]
<1>1. PICK f \in Repartos \cup {<<>>} : c \in [nombre : Nombres, porcentaje : {f}, saldo : [DOMAIN f -> Int]]
  BY DEF CuentaT
<1>2. c.nombre \in Nombres /\ c.porcentaje = f /\ c.saldo \in [DOMAIN f -> Int]
      /\ c = [nombre |-> c.nombre, porcentaje |-> c.porcentaje, saldo |-> c.saldo]
  BY <1>1
<1>3. DOMAIN c.saldo = DOMAIN f
  BY <1>2
<1>4. IsFiniteSet(DOMAIN f) /\ DOMAIN f \subseteq Personas /\ \A m \in DOMAIN f : f[m] \in Int
  <2>1. CASE f = <<>>
    <3>1. DOMAIN f = {}
      BY <2>1
    <3>. QED BY <3>1, FS_EmptySet
  <2>2. CASE f \in Repartos
    BY <2>2, CuentasAssumption
  <2>. QED BY <2>1, <2>2
<1>5. Total(f, DOMAIN f) \in Int /\ Cien \in Int
  <2>1. Whole(f, DOMAIN f)
    BY <1>4 DEF Whole
  <2>. QED BY <2>1, TotalInt, CuentasAssumption
<1>6. Resto(c) = Cien - Total(f, DOMAIN f)
  BY <1>2 DEF Resto, Total, SumFunction
<1>. DEFINE t == Total(f, DOMAIN f)
<1>7. Cien - t \in Int
  <2>. HIDE DEF t
  <2>. QED BY <1>5 DEF t
<1>. QED BY <1>1, <1>2, <1>3, <1>4, <1>5, <1>6, <1>7, CuentasAssumption

LEMMA GananciaInt ==
  ASSUME NEW m, NEW p, NEW x \in Int, NEW q \in Int
  PROVE  /\ Ganancia(m, p, x, q) \in Int
         /\ Ganancia(m, p, x, q) = (IF m = p THEN Cien * x ELSE 0) + (-x) * q
         /\ Ganancia(m, p, -x, q) = -Ganancia(m, p, x, q)
<1>1. x * q \in Int /\ (-x) * q = -(x * q) /\ Cien * x \in Int /\ Cien * (-x) = -(Cien * x)
  BY CuentasAssumption
<1>. QED BY <1>1 DEF Ganancia

\* What the members gain adds up to what the percentages leave out, when the payer is
\* one of them.
LEMMA GainsCancel ==
  ASSUME NEW c \in CuentaT, NEW p \in DOMAIN c.saldo, NEW x \in Int
  PROVE  Total([m \in DOMAIN c.saldo |-> Ganancia(m, p, x, c.porcentaje[m])], DOMAIN c.saldo) = Resto(c) * x
<1>. DEFINE T == DOMAIN c.saldo
            g == [m \in T |-> Ganancia(m, p, x, c.porcentaje[m])]
            a == [m \in T |-> IF m = p THEN Cien * x ELSE 0]
            b == [m \in T |-> (-x) * c.porcentaje[m]]
<1>1. /\ IsFiniteSet(T) /\ p \in T /\ \A m \in T : c.porcentaje[m] \in Int
      /\ Total(c.porcentaje, T) \in Int /\ Cien \in Int /\ Resto(c) = Cien - Total(c.porcentaje, T)
  BY CuentaFields
<1>2. -x \in Int /\ Cien * x \in Int /\ 0 \in Int
  BY CuentasAssumption
<1>3. ASSUME NEW m \in T PROVE g[m] = a[m] + b[m] /\ a[m] \in Int /\ b[m] \in Int
  <2>1. b[m] \in Int
    BY <1>1, <1>2, Distributive
  <2>. QED BY <1>1, <1>2, <2>1, GananciaInt
<1>4. \A m \in T : b[m] = (-x) * c.porcentaje[m]
  OBVIOUS
<1>5. a[p] = Cien * x /\ \A m \in T \ {p} : a[m] = 0
  OBVIOUS
<1>. HIDE DEF g, a, b, T
<1>6. Whole(a, T) /\ Whole(b, T) /\ Whole(c.porcentaje, T)
  BY <1>1, <1>3 DEF Whole
<1>7. Total(g, T) = Total(a, T) + Total(b, T)
  BY <1>3, <1>6, TotalPlus
<1>8. Total(a, T) = Cien * x
  <2>1. Total(a, T) = a[p] + Total(a, T \ {p})
    BY <1>1, <1>6, TotalWithout
  <2>2. IsFiniteSet(T \ {p})
    BY <1>1, FS_RemoveElement
  <2>3. Total(a, T \ {p}) = 0
    BY <1>5, <2>2, TotalZero
  <2>. QED BY <1>2, <1>5, <2>1, <2>3
<1>9. Total(b, T) = (-x) * Total(c.porcentaje, T)
  <2>. DEFINE y == -x
  <2>1. y \in Int /\ \A m \in T : b[m] = y * c.porcentaje[m]
    BY <1>2, <1>4
  <2>. HIDE DEF y
  <2>2. Total(b, T) = y * Total(c.porcentaje, T)
    BY <1>6, <2>1, TotalTimes
  <2>. QED BY <1>1, <2>2 DEF y
<1>. DEFINE t == Total(c.porcentaje, T)
<1>10. Cien * x + (-x) * t = (Cien - t) * x
  <2>1. t \in Int /\ Cien \in Int /\ x \in Int
    BY <1>1
  <2>. HIDE DEF t
  <2>. QED BY <2>1
<1>11. Total(g, T) = Resto(c) * x
  BY <1>1, <1>7, <1>8, <1>9, <1>10
<1>. QED BY <1>11 DEF g, T

LEMMA BalanceOf ==
  ASSUME NEW c \in CuentaT, NEW p \in Personas \cup {Nadie}, NEW x \in Int
  PROVE  /\ Balance(c, p, x) \in CuentaT
         /\ Balance(c, p, x).nombre = c.nombre /\ Balance(c, p, x).porcentaje = c.porcentaje
         /\ DOMAIN Balance(c, p, x).saldo = DOMAIN c.saldo
         /\ p # Nadie => \A m \in DOMAIN c.saldo :
                           Balance(c, p, x).saldo[m] = c.saldo[m] + Ganancia(m, p, x, c.porcentaje[m])
         /\ p \in DOMAIN c.saldo \cup {Nadie} /\ Resto(c) = 0 =>
              SumFunction(Balance(c, p, x).saldo) = SumFunction(c.saldo)
         /\ Resto(Balance(c, p, x)) = Resto(c)
<1>1. CASE p = Nadie
  BY <1>1 DEF Balance
<1>2. CASE p # Nadie
  <2>. DEFINE T == DOMAIN c.saldo
              g == [m \in T |-> Ganancia(m, p, x, c.porcentaje[m])]
              s == [m \in T |-> c.saldo[m] + Ganancia(m, p, x, c.porcentaje[m])]
  <2>1. /\ c.nombre \in Nombres /\ c.porcentaje \in Repartos \cup {<<>>} /\ T = DOMAIN c.porcentaje
        /\ IsFiniteSet(T) /\ \A m \in T : c.porcentaje[m] \in Int /\ c.saldo[m] \in Int
        /\ c = [nombre |-> c.nombre, porcentaje |-> c.porcentaje, saldo |-> c.saldo]
    BY CuentaFields
  <2>2. Balance(c, p, x) = [nombre |-> c.nombre, porcentaje |-> c.porcentaje, saldo |-> s]
    <3>1. Balance(c, p, x) = [c EXCEPT !.saldo = s]
      BY <1>2 DEF Balance
    <3>. HIDE DEF s
    <3>. QED BY <2>1, <3>1
  <2>3. \A m \in T : g[m] \in Int /\ s[m] \in Int /\ s[m] = c.saldo[m] + g[m]
    BY <2>1, GananciaInt
  <2>4. s \in [DOMAIN c.porcentaje -> Int]
    BY <2>1, <2>3
  <2>5. DOMAIN s = T /\ \A m \in T : s[m] = c.saldo[m] + Ganancia(m, p, x, c.porcentaje[m])
    OBVIOUS
  <2>6. p \in T /\ Resto(c) = 0 => Total(g, T) = 0
    <3>1. p \in T => Total(g, T) = Resto(c) * x
      BY GainsCancel
    <3>. HIDE DEF g, T
    <3>. QED BY <3>1
  <2>. HIDE DEF s, g
  <2>7. Balance(c, p, x) \in CuentaT
    BY <2>1, <2>2, <2>4 DEF CuentaT
  <2>8. p \in T /\ Resto(c) = 0 => Total(s, T) = Total(c.saldo, T)
    <3>1. Whole(c.saldo, T) /\ Whole(g, T)
      BY <2>1, <2>3 DEF Whole
    <3>2. Total(s, T) = Total(c.saldo, T) + Total(g, T)
      BY <2>3, <3>1, TotalPlus
    <3>3. Total(c.saldo, T) \in Int
      BY <3>1, TotalInt
    <3>. QED BY <2>6, <3>2, <3>3
  <2>9. p \in T /\ Resto(c) = 0 => SumFunction(s) = SumFunction(c.saldo)
    BY <2>5, <2>8 DEF SumFunction, Total
  <2>10. /\ Balance(c, p, x).saldo = s /\ Balance(c, p, x).nombre = c.nombre
         /\ Balance(c, p, x).porcentaje = c.porcentaje
    BY <2>2
  <2>11. Resto(Balance(c, p, x)) = Resto(c)
    BY <2>10 DEF Resto
  <2>. QED BY <1>2, <2>5, <2>7, <2>9, <2>10, <2>11
<1>. QED BY <1>1, <1>2

LEMMA PagadoOf ==
  ASSUME NEW cs \in Seq(CuentaT), NEW k \in 1..Len(cs), NEW p \in Personas \cup {Nadie}, NEW x \in Int
  PROVE  /\ Pagado(cs, k, p, x) \in Seq(CuentaT) /\ Len(Pagado(cs, k, p, x)) = Len(cs)
         /\ \A j \in 1..Len(cs) : Pagado(cs, k, p, x)[j] = IF j = k THEN Balance(cs[k], p, x) ELSE cs[j]
<1>1. cs[k] \in CuentaT
  BY ElementOfSeq
<1>2. Balance(cs[k], p, x) \in CuentaT
  BY <1>1, BalanceOf
<1>. DEFINE b == Balance(cs[k], p, x)
<1>3. Pagado(cs, k, p, x) = [cs EXCEPT ![k] = b]
  BY DEF Pagado
<1>. HIDE DEF b
<1>4. /\ [cs EXCEPT ![k] = b] \in Seq(CuentaT) /\ Len([cs EXCEPT ![k] = b]) = Len(cs)
      /\ \A j \in 1..Len(cs) : [cs EXCEPT ![k] = b][j] = IF j = k THEN b ELSE cs[j]
  <2>1. b \in CuentaT
    BY <1>2 DEF b
  <2>. QED BY <2>1, ExceptSeq
<1>. QED BY <1>3, <1>4 DEF b

\* The accounts of ds are those of cs but for their balances.
Como(cs, ds) ==
  /\ cs \in Seq(CuentaT) /\ ds \in Seq(CuentaT) /\ Len(ds) = Len(cs)
  /\ \A k \in 1..Len(cs) : /\ ds[k].nombre = cs[k].nombre /\ ds[k].porcentaje = cs[k].porcentaje
                           /\ DOMAIN ds[k].saldo = DOMAIN cs[k].saldo

LEMMA PagadoComo ==
  ASSUME NEW cs \in Seq(CuentaT), NEW k \in 1..Len(cs), NEW p \in Personas \cup {Nadie}, NEW x \in Int
  PROVE  Como(cs, Pagado(cs, k, p, x))
<1>1. cs[k] \in CuentaT
  BY ElementOfSeq
<1>. DEFINE b == Balance(cs[k], p, x)
            ds == Pagado(cs, k, p, x)
<1>2. b.nombre = cs[k].nombre /\ b.porcentaje = cs[k].porcentaje /\ DOMAIN b.saldo = DOMAIN cs[k].saldo
  BY <1>1, BalanceOf
<1>3. /\ ds \in Seq(CuentaT) /\ Len(ds) = Len(cs)
      /\ \A j \in 1..Len(cs) : ds[j] = IF j = k THEN b ELSE cs[j]
  BY PagadoOf
<1>. HIDE DEF b, ds
<1>4. Como(cs, ds)
  BY <1>2, <1>3 DEF Como
<1>. QED BY <1>4 DEF ds

LEMMA SanoPagado ==
  ASSUME NEW S, NEW cs, NEW gs, Sano(cs, gs, S), NEW k \in 1..Len(cs),
         NEW p \in Personas \cup {Nadie}, NEW x \in Int,
         S \cap {"repetida", "rotura", "perdida"} = {} => p \in DOMAIN cs[k].saldo \cup {Nadie}
  PROVE  Sano(Pagado(cs, k, p, x), gs, S)
<1>. DEFINE ds == Pagado(cs, k, p, x)
<1>1. cs \in Seq(CuentaT) /\ gs \in Seq(GastoT) /\ cs[k] \in CuentaT
  BY ElementOfSeq DEF Sano
<1>2. /\ ds \in Seq(CuentaT) /\ Len(ds) = Len(cs)
      /\ \A j \in 1..Len(cs) : ds[j] = IF j = k THEN Balance(cs[k], p, x) ELSE cs[j]
  BY <1>1, PagadoOf
<1>3. \A j \in 1..Len(cs) : ds[j].nombre = cs[j].nombre /\ DOMAIN ds[j].saldo = DOMAIN cs[j].saldo
  <2>1. Como(cs, ds)
    BY <1>1, PagadoComo
  <2>. HIDE DEF ds
  <2>. QED BY <2>1 DEF Como
<1>. HIDE DEF ds
<1>4. DOMAIN ds = 1..Len(cs) /\ DOMAIN cs = 1..Len(cs)
  BY <1>1, <1>2, LenProperties
<1>5. ConCuenta(cs, gs) => ConCuenta(ds, gs)
  <2>1. {ds[j].nombre : j \in DOMAIN ds} = {cs[j].nombre : j \in DOMAIN cs}
    BY <1>3, <1>4
  <2>. QED BY <2>1 DEF ConCuenta
<1>6. Distintas(cs) => Distintas(ds)
  BY <1>3, <1>4 DEF Distintas
<1>7. Pagan(cs, gs) => Pagan(ds, gs)
  BY <1>3, <1>4 DEF Pagan
<1>8. Cero(cs) /\ p \in DOMAIN cs[k].saldo \cup {Nadie} => Cero(ds)
  <2>. DEFINE b == Balance(cs[k], p, x)
  <2>1. /\ p \in DOMAIN cs[k].saldo \cup {Nadie} /\ Resto(cs[k]) = 0 => SumFunction(b.saldo) = SumFunction(cs[k].saldo)
        /\ Resto(b) = Resto(cs[k])
    BY <1>1, BalanceOf
  <2>2. \A j \in 1..Len(cs) : ds[j] = IF j = k THEN b ELSE cs[j]
    BY <1>2
  <2>. HIDE DEF b
  <2>. QED BY <1>4, <2>1, <2>2 DEF Cero
<1>9. Sano(ds, gs, S)
  BY <1>1, <1>2, <1>5, <1>6, <1>7, <1>8 DEF Sano
<1>. QED BY <1>9 DEF ds

\* The expense g is one of gs, but for its amount, or personal, or paid by a member of
\* an account of cs.
Valido(g, cs, gs) ==
  \/ \E j \in DOMAIN gs : g.cuenta = gs[j].cuenta /\ g.pagador = gs[j].pagador
  \/ g.cuenta = Personal
  \/ \E k \in DOMAIN cs : g.cuenta = cs[k].nombre /\ g.pagador \in DOMAIN cs[k].saldo

LEMMA SanoGastos ==
  ASSUME NEW S, NEW cs, NEW gs, Sano(cs, gs, S), NEW hs \in Seq(GastoT),
         \A i \in 1..Len(hs) : Valido(hs[i], cs, gs)
  PROVE  Sano(cs, hs, S)
<1>1. DOMAIN hs = 1..Len(hs)
  BY LenProperties
<1>2. ASSUME NEW k \in DOMAIN cs PROVE cs[k].nombre # Personal
  <2>1. cs \in Seq(CuentaT) /\ cs[k] \in CuentaT
    BY ElementOfSeq, LenProperties DEF Sano
  <2>. QED BY <2>1, CuentaFields
<1>3. ConCuenta(cs, gs) => ConCuenta(cs, hs)
  BY <1>1 DEF ConCuenta, Valido
<1>4. Distintas(cs) /\ Pagan(cs, gs) => Pagan(cs, hs)
  BY <1>1, <1>2 DEF Distintas, Pagan, Valido
<1>. QED BY <1>3, <1>4 DEF Sano

-----------------------------------------------------------------------------
(* What the expenses of a list give to a member.                           *)

Gana(g, c, m) == IF g.cuenta = c.nombre THEN Ganancia(m, g.pagador, g.cantidad, c.porcentaje[m]) ELSE 0
Ganancias(gs, c, m) == [i \in 1..Len(gs) |-> Gana(gs[i], c, m)]
Parte(gs, c, m) == Total(Ganancias(gs, c, m), 1..Len(gs))

\* The balances of the accounts cs are those that the expenses gs give.
Cuadra(cs, gs) == \A k \in 1..Len(cs) : \A m \in DOMAIN cs[k].saldo : cs[k].saldo[m] = Parte(gs, cs[k], m)

LEMMA SmallestNumber ==
  ASSUME NEW I \in SUBSET Nat, I # {}
  PROVE  \E i \in I : \A j \in I : i <= j
<1>1. IsWellFoundedOn(OpToRel(<, Nat), Nat)
  BY NatLessThanWellFounded
<1>2. PICK i \in I : \A j \in I : ~(<<j, i>> \in OpToRel(<, Nat))
  BY <1>1, WFMin
<1>3. \A j \in I : j < i => <<j, i>> \in OpToRel(<, Nat)
  BY DEF OpToRel
<1>4. \A j \in I : ~(j < i)
  BY <1>2, <1>3
<1>5. \A j \in I : i <= j
  BY <1>4
<1>. QED BY <1>5

LEMMA MinOf ==
  ASSUME NEW I \in SUBSET Nat, I # {}
  PROVE  Min(I) \in I /\ \A j \in I : Min(I) <= j
BY SmallestNumber DEF Min

LEMMA RemoveAtOf ==
  ASSUME NEW S, NEW s \in Seq(S), NEW i \in 1..Len(s)
  PROVE  /\ RemoveAt(s, i) \in Seq(S) /\ Len(RemoveAt(s, i)) = Len(s) - 1
         /\ \A j \in 1..(Len(s) - 1) : RemoveAt(s, i)[j] = IF j < i THEN s[j] ELSE s[j + 1]
<1>. DEFINE a == SubSeq(s, 1, i - 1)
            b == SubSeq(s, i + 1, Len(s))
<1>1. Len(s) \in Nat /\ i \in Int /\ \A j \in 1..Len(s) : s[j] \in S
  BY LenProperties, ElementOfSeq
<1>2. /\ a \in Seq(S) /\ Len(a) = i - 1
      /\ \A j \in 1..(i - 1) : a[j] = s[j]
  <2>1. 1 \in Int /\ i - 1 \in Int /\ \A j \in 1..(i - 1) : s[j] \in S
    BY <1>1
  <2>2. /\ a \in Seq(S) /\ Len(a) = IF 1 <= i - 1 THEN (i - 1) - 1 + 1 ELSE 0
        /\ \A j \in 1..((i - 1) - 1 + 1) : a[j] = s[1 + j - 1]
    BY <2>1, SubSeqProperties
  <2>3. \A j \in 1..(i - 1) : 1 + j - 1 = j /\ j \in 1..((i - 1) - 1 + 1)
    BY <1>1
  <2>. HIDE DEF a
  <2>. QED BY <1>1, <2>2, <2>3
<1>3. /\ b \in Seq(S) /\ Len(b) = Len(s) - i
      /\ \A j \in 1..(Len(s) - i) : b[j] = s[i + j]
  <2>1. i + 1 \in Int /\ Len(s) \in Int /\ \A j \in (i + 1)..Len(s) : s[j] \in S
    BY <1>1
  <2>2. /\ b \in Seq(S) /\ Len(b) = IF i + 1 <= Len(s) THEN Len(s) - (i + 1) + 1 ELSE 0
        /\ \A j \in 1..(Len(s) - (i + 1) + 1) : b[j] = s[(i + 1) + j - 1]
    BY <2>1, SubSeqProperties
  <2>3. \A j \in 1..(Len(s) - i) : (i + 1) + j - 1 = i + j /\ j \in 1..(Len(s) - (i + 1) + 1)
    BY <1>1
  <2>4. Len(b) = Len(s) - i
    <3>1. i + 1 <= Len(s) => Len(s) - (i + 1) + 1 = Len(s) - i
      BY <1>1
    <3>2. ~(i + 1 <= Len(s)) => Len(s) - i = 0
      BY <1>1
    <3>. HIDE DEF b
    <3>. QED BY <2>2, <3>1, <3>2, Zenon
  <2>. HIDE DEF b
  <2>5. \A j \in 1..(Len(s) - i) : b[j] = s[i + j]
    BY <2>2, <2>3, Zenon
  <2>. QED BY <2>2, <2>4, <2>5
<1>4. RemoveAt(s, i) = a \o b
  BY DEF RemoveAt
<1>. HIDE DEF a, b
<1>5. /\ a \o b \in Seq(S) /\ Len(a \o b) = Len(a) + Len(b)
      /\ \A j \in 1..(Len(a) + Len(b)) : (a \o b)[j] = IF j <= Len(a) THEN a[j] ELSE b[j - Len(a)]
  BY <1>2, <1>3, ConcatProperties
<1>6. ASSUME NEW j \in 1..(Len(s) - 1) PROVE (a \o b)[j] = IF j < i THEN s[j] ELSE s[j + 1]
  <2>1. j \in 1..(Len(a) + Len(b)) /\ (j < i <=> j <= Len(a))
    BY <1>1, <1>2, <1>3
  <2>2. CASE j < i
    <3>1. j \in 1..(i - 1)
      BY <1>1, <2>2
    <3>. QED BY <1>2, <1>5, <2>1, <2>2, <3>1
  <2>3. CASE ~(j < i)
    <3>1. j - Len(a) \in 1..(Len(s) - i) /\ i + (j - Len(a)) = j + 1
      BY <1>1, <1>2, <2>3
    <3>. QED BY <1>3, <1>5, <2>1, <2>3, <3>1
  <2>. QED BY <2>2, <2>3
<1>. QED BY <1>1, <1>2, <1>3, <1>4, <1>5, <1>6

LEMMA GanaInt ==
  ASSUME NEW g \in GastoT, NEW c \in CuentaT, NEW m \in DOMAIN c.saldo
  PROVE  Gana(g, c, m) \in Int
<1>1. g.cantidad \in Int /\ c.porcentaje[m] \in Int
  BY CuentaFields DEF GastoT
<1>. QED BY <1>1, GananciaInt DEF Gana

LEMMA GananciasOf ==
  ASSUME NEW gs \in Seq(GastoT), NEW c \in CuentaT, NEW m \in DOMAIN c.saldo
  PROVE  /\ Whole(Ganancias(gs, c, m), 1..Len(gs)) /\ Len(gs) \in Nat
         /\ \A i \in 1..Len(gs) : Ganancias(gs, c, m)[i] = Gana(gs[i], c, m)
         /\ Parte(gs, c, m) \in Int
<1>1. Len(gs) \in Nat /\ IsFiniteSet(1..Len(gs))
  BY LenProperties, FS_Interval
<1>2. \A i \in 1..Len(gs) : gs[i] \in GastoT
  BY ElementOfSeq
<1>3. \A i \in 1..Len(gs) : Ganancias(gs, c, m)[i] = Gana(gs[i], c, m)
  BY DEF Ganancias
<1>4. Whole(Ganancias(gs, c, m), 1..Len(gs))
  BY <1>1, <1>2, <1>3, GanaInt DEF Whole
<1>. QED BY <1>1, <1>3, <1>4, TotalInt DEF Parte

LEMMA ParteEmpty == ASSUME NEW c, NEW m PROVE Parte(<<>>, c, m) = 0
<1>1. 1..Len(<<>>) = {}
  OBVIOUS
<1>. QED BY <1>1, TotalEmpty DEF Parte

LEMMA ParteAppend ==
  ASSUME NEW gs \in Seq(GastoT), NEW g \in GastoT, NEW c \in CuentaT, NEW m \in DOMAIN c.saldo
  PROVE  Parte(Append(gs, g), c, m) = Parte(gs, c, m) + Gana(g, c, m)
<1>. DEFINE hs == Append(gs, g)
            n == Len(gs)
            f == Ganancias(gs, c, m)
            h == Ganancias(hs, c, m)
<1>1. hs \in Seq(GastoT) /\ Len(hs) = n + 1 /\ hs[n + 1] = g /\ \A i \in 1..n : hs[i] = gs[i]
  BY AppendProperties
<1>. HIDE DEF hs
<1>2. Whole(f, 1..n) /\ n \in Nat /\ \A i \in 1..n : f[i] = Gana(gs[i], c, m)
  BY GananciasOf
<1>3. Whole(h, 1..(n + 1)) /\ \A i \in 1..(n + 1) : h[i] = Gana(hs[i], c, m)
  BY <1>1, GananciasOf
<1>4. n + 1 \in 1..(n + 1) /\ (1..(n + 1)) \ {n + 1} = 1..n
  BY <1>2
<1>. HIDE DEF f, h, n
<1>5. Total(h, 1..(n + 1)) = h[n + 1] + Total(h, (1..(n + 1)) \ {n + 1})
  BY <1>3, <1>4, TotalWithout
<1>6. Total(f, 1..n) = Total(h, 1..n)
  <2>1. \A i \in 1..n : f[i] = h[i]
    BY <1>1, <1>2, <1>3
  <2>. QED BY <1>2, <2>1, TotalSame
<1>7. Total(f, 1..n) \in Int /\ h[n + 1] \in Int /\ h[n + 1] = Gana(g, c, m)
  BY <1>1, <1>2, <1>3, <1>4, TotalInt DEF Whole
<1>8. Total(h, 1..(n + 1)) = Total(f, 1..n) + Gana(g, c, m)
  <2>1. Total(h, 1..(n + 1)) = h[n + 1] + Total(f, 1..n)
    BY <1>4, <1>5, <1>6, Zenon
  <2>. QED BY <1>7, <2>1
<1>. QED BY <1>1, <1>8 DEF Parte, f, h, n, hs

LEMMA ParteRemove ==
  ASSUME NEW gs \in Seq(GastoT), NEW i \in 1..Len(gs), NEW c \in CuentaT, NEW m \in DOMAIN c.saldo
  PROVE  Parte(gs, c, m) = Gana(gs[i], c, m) + Parte(RemoveAt(gs, i), c, m)
<1>. DEFINE hs == RemoveAt(gs, i)
            n == Len(gs)
            f == Ganancias(gs, c, m)
            h == Ganancias(hs, c, m)
            b == [j \in 1..(n - 1) |-> IF j < i THEN j ELSE j + 1]
            U == (1..n) \ {i}
<1>1. hs \in Seq(GastoT) /\ Len(hs) = n - 1 /\ \A j \in 1..(n - 1) : hs[j] = IF j < i THEN gs[j] ELSE gs[j + 1]
  BY RemoveAtOf
<1>. HIDE DEF hs
<1>2. Whole(f, 1..n) /\ n \in Nat /\ \A j \in 1..n : f[j] = Gana(gs[j], c, m)
  BY GananciasOf
<1>3. Whole(h, 1..(n - 1)) /\ \A j \in 1..(n - 1) : h[j] = Gana(hs[j], c, m)
  BY <1>1, GananciasOf
<1>. HIDE DEF f, h
<1>4. i \in 1..n /\ n \in Nat
  BY <1>2
<1>. HIDE DEF n
<1>5. /\ b \in [1..(n - 1) -> U]
      /\ \A j, k \in 1..(n - 1) : b[j] = b[k] => j = k
      /\ \A j \in 1..(n - 1) : b[j] = IF j < i THEN j ELSE j + 1
  BY <1>4
<1>6. ASSUME NEW u \in U PROVE \E j \in 1..(n - 1) : b[j] = u
  <2>1. CASE u < i
    <3>1. u \in 1..(n - 1) /\ b[u] = u
      BY <1>4, <2>1
    <3>. QED BY <3>1
  <2>2. CASE u > i
    <3>1. u - 1 \in 1..(n - 1) /\ b[u - 1] = u
      BY <1>4, <2>2
    <3>. QED BY <3>1
  <2>. QED BY <1>4, <2>1, <2>2
<1>. HIDE DEF b
<1>7. ASSUME NEW j \in 1..(n - 1) PROVE h[j] = f[b[j]]
  <2>1. b[j] \in 1..n /\ hs[j] = gs[b[j]]
    BY <1>1, <1>5
  <2>. QED BY <1>2, <1>3, <2>1
<1>8. Whole(f, U)
  BY <1>2, FS_RemoveElement DEF Whole
<1>. HIDE DEF U
<1>9. Total(h, 1..(n - 1)) = Total(f, U)
  <2>. DEFINE T == 1..(n - 1)
  <2>1. /\ Whole(h, T) /\ b \in [T -> U] /\ \A j, k \in T : b[j] = b[k] => j = k
        /\ \A u \in U : \E j \in T : b[j] = u
        /\ \A j \in T : h[j] = f[b[j]]
    BY <1>3, <1>5, <1>6, <1>7
  <2>. HIDE DEF T
  <2>2. Total(h, T) = Total(f, U)
    BY <1>8, <2>1, TotalRenamed
  <2>. QED BY <2>2 DEF T
<1>10. Total(f, 1..n) = f[i] + Total(f, U)
  BY <1>2, <1>4, TotalWithout DEF U
<1>11. Total(f, 1..n) = Gana(gs[i], c, m) + Total(h, 1..(n - 1))
  BY <1>2, <1>4, <1>9, <1>10
<1>. QED BY <1>1, <1>11 DEF Parte, f, h, n, hs

LEMMA ParteExcept ==
  ASSUME NEW gs \in Seq(GastoT), NEW i \in 1..Len(gs), NEW g \in GastoT, NEW c \in CuentaT, NEW m \in DOMAIN c.saldo
  PROVE  Parte([gs EXCEPT ![i] = g], c, m) = (Parte(gs, c, m) - Gana(gs[i], c, m)) + Gana(g, c, m)
<1>. DEFINE hs == [gs EXCEPT ![i] = g]
            n == Len(gs)
            f == Ganancias(gs, c, m)
            h == Ganancias(hs, c, m)
            U == (1..n) \ {i}
<1>1. hs \in Seq(GastoT) /\ Len(hs) = n /\ \A j \in 1..n : hs[j] = IF j = i THEN g ELSE gs[j]
  BY ExceptSeq
<1>. HIDE DEF hs
<1>2. Whole(f, 1..n) /\ \A j \in 1..n : f[j] = Gana(gs[j], c, m)
  BY GananciasOf
<1>3. Whole(h, 1..n) /\ \A j \in 1..n : h[j] = Gana(hs[j], c, m)
  BY <1>1, GananciasOf
<1>. HIDE DEF f, h, n
<1>4. i \in 1..n
  BY DEF n
<1>5. Total(f, 1..n) = f[i] + Total(f, U) /\ Total(h, 1..n) = h[i] + Total(h, U)
  <2>. DEFINE T == 1..n
  <2>1. Whole(f, T) /\ Whole(h, T) /\ i \in T
    BY <1>2, <1>3, <1>4
  <2>. HIDE DEF T
  <2>2. Total(f, T) = f[i] + Total(f, T \ {i}) /\ Total(h, T) = h[i] + Total(h, T \ {i})
    BY <2>1, TotalWithout
  <2>. QED BY <2>2 DEF T
<1>6. Whole(f, U) /\ \A j \in U : f[j] = h[j]
  BY <1>1, <1>2, <1>3, FS_RemoveElement DEF Whole
<1>. HIDE DEF U
<1>7. Total(f, U) = Total(h, U) /\ Total(f, U) \in Int
  BY <1>6, TotalSame, TotalInt
<1>8. f[i] \in Int /\ h[i] \in Int /\ f[i] = Gana(gs[i], c, m) /\ h[i] = Gana(g, c, m)
  BY <1>1, <1>2, <1>3, <1>4 DEF Whole
<1>9. Total(h, 1..n) = (Total(f, 1..n) - Gana(gs[i], c, m)) + Gana(g, c, m)
  BY <1>5, <1>7, <1>8
<1>. QED BY <1>1, <1>9 DEF Parte, f, h, n, hs

\* Expenses of other accounts do not count.
LEMMA ParteConcat ==
  ASSUME NEW gs \in Seq(GastoT), NEW t \in Seq(GastoT), NEW c \in CuentaT, NEW m \in DOMAIN c.saldo,
         \A i \in 1..Len(t) : t[i].cuenta # c.nombre
  PROVE  Parte(gs \o t, c, m) = Parte(gs, c, m)
<1>. DEFINE hs == gs \o t
            n == Len(gs)
            f == Ganancias(gs, c, m)
            h == Ganancias(hs, c, m)
<1>1. /\ hs \in Seq(GastoT) /\ Len(hs) = n + Len(t)
      /\ \A i \in 1..(n + Len(t)) : hs[i] = IF i <= n THEN gs[i] ELSE t[i - n]
  BY ConcatProperties
<1>. HIDE DEF hs
<1>2. Whole(f, 1..n) /\ n \in Nat /\ \A j \in 1..n : f[j] = Gana(gs[j], c, m)
  BY GananciasOf
<1>3. Whole(h, 1..Len(hs)) /\ \A j \in 1..Len(hs) : h[j] = Gana(hs[j], c, m)
  BY <1>1, GananciasOf
<1>4. Len(t) \in Nat
  BY LenProperties
<1>. HIDE DEF f, h, n
<1>5. 1..n \subseteq 1..Len(hs) /\ \A j \in 1..n : f[j] = h[j]
  BY <1>1, <1>2, <1>3, <1>4
<1>6. ASSUME NEW j \in (1..Len(hs)) \ (1..n) PROVE h[j] = 0
  <2>1. j - n \in 1..Len(t) /\ ~(j <= n) /\ j \in 1..(n + Len(t))
    BY <1>1, <1>2, <1>4
  <2>2. hs[j] = t[j - n]
    BY <1>1, <2>1
  <2>. QED BY <1>3, <2>1, <2>2 DEF Gana
<1>7. Total(h, 1..Len(hs)) = Total(h, 1..n)
  BY <1>3, <1>5, <1>6, TotalRest
<1>8. Total(f, 1..n) = Total(h, 1..n)
  BY <1>2, <1>5, TotalSame
<1>. QED BY <1>7, <1>8 DEF Parte, f, h, n, hs

LEMMA ParteNone ==
  ASSUME NEW gs \in Seq(GastoT), NEW c \in CuentaT, NEW m \in DOMAIN c.saldo,
         \A i \in 1..Len(gs) : gs[i].cuenta # c.nombre
  PROVE  Parte(gs, c, m) = 0
<1>1. Whole(Ganancias(gs, c, m), 1..Len(gs)) /\ \A i \in 1..Len(gs) : Ganancias(gs, c, m)[i] = 0
  BY GananciasOf DEF Gana
<1>. QED BY <1>1, TotalZero DEF Parte, Whole

LEMMA ParteComo ==
  ASSUME NEW gs, NEW c, NEW d, NEW m, d.nombre = c.nombre, d.porcentaje = c.porcentaje
  PROVE  Parte(gs, d, m) = Parte(gs, c, m)
BY DEF Parte, Ganancias, Gana

-----------------------------------------------------------------------------
(* Operations of several steps: an account that is taken out, a file that  *)
(* is imported.                                                            *)

LEMMA FirstMatch ==
  ASSUME NEW gs \in Seq(GastoT), NEW n
  PROVE  LET hs == RemoveFirstMatch(gs, LAMBDA h : h.cuenta = n)
         IN  \/ hs = gs /\ \A i \in 1..Len(gs) : gs[i].cuenta # n
             \/ \E i \in 1..Len(gs) : /\ hs = RemoveAt(gs, i) /\ gs[i].cuenta = n
                                      /\ \A j \in 1..Len(gs) : gs[j].cuenta = n => i <= j
<1>. DEFINE I == {i \in 1..Len(gs) : gs[i].cuenta = n}
            hs == RemoveFirstMatch(gs, LAMBDA h : h.cuenta = n)
<1>1. I \in SUBSET Nat
  BY LenProperties
<1>2. hs = IF \E i \in 1..Len(gs) : gs[i].cuenta = n THEN RemoveAt(gs, IF I # {} THEN Min(I) ELSE 0) ELSE gs
  BY DEF RemoveFirstMatch, SelectInSeq
<1>. HIDE DEF hs
<1>3. CASE I = {}
  BY <1>2, <1>3 DEF hs
<1>4. CASE I # {}
  <2>1. Min(I) \in I /\ \A j \in I : Min(I) <= j
    BY <1>1, <1>4, MinOf
  <2>2. hs = RemoveAt(gs, Min(I))
    BY <1>2, <1>4
  <2>. QED BY <2>1, <2>2 DEF hs
<1>. QED BY <1>3, <1>4

LEMMA PrimeraOf ==
  ASSUME cuentas \in Seq(CuentaT), NEW n
  PROVE  \/ Primera(n) = 0 /\ \A k \in 1..Len(cuentas) : cuentas[k].nombre # n
         \/ /\ Primera(n) \in 1..Len(cuentas) /\ cuentas[Primera(n)].nombre = n
            /\ \A k \in 1..Len(cuentas) : cuentas[k].nombre = n => Primera(n) <= k
<1>. DEFINE I == {i \in 1..Len(cuentas) : cuentas[i].nombre = n}
<1>1. I \in SUBSET Nat
  BY LenProperties
<1>2. Primera(n) = IF I # {} THEN Min(I) ELSE 0
  BY DEF Primera, SelectInSeq
<1>3. CASE I = {}
  BY <1>2, <1>3
<1>4. CASE I # {}
  <2>1. Min(I) \in I /\ \A j \in I : Min(I) <= j
    BY <1>1, <1>4, MinOf
  <2>. QED BY <1>2, <1>4, <2>1
<1>. QED BY <1>3, <1>4

LEMMA BorradosRec ==
  ASSUME gastos \in Seq(GastoT), NEW n
  PROVE  \E s : /\ s[0] = [gs |-> gastos, todo |-> <<>>]
                /\ \A i \in 1..Len(gastos) : s[i] = Borrado(s[i - 1], gastos[i], n)
                /\ SinGastosDe(n) = s[Len(gastos)]
<1>. DEFINE b == [gs |-> gastos, todo |-> <<>>]
            Upto(f, r) == f[0] = b /\ \A i \in 1..r : f[i] = Borrado(f[i - 1], gastos[i], n)
            N == {r \in Nat : \E f : Upto(f, r)}
            t == Len(gastos)
            Rec(g) == g = [i \in 0..t |-> IF i = 0 THEN b ELSE Borrado(g[i - 1], gastos[i], n)]
<1>1. t \in Nat
  BY LenProperties
<1>. HIDE DEF b
<1>2. 0 \in N
  <2>1. Upto([i \in {0} |-> b], 0)
    OBVIOUS
  <2>. QED BY <2>1
<1>3. ASSUME NEW r \in N PROVE r + 1 \in N
  <2>1. PICK f : Upto(f, r)
    OBVIOUS
  <2>. DEFINE g == [i \in 0..(r + 1) |-> IF i = r + 1 THEN Borrado(f[r], gastos[r + 1], n) ELSE f[i]]
  <2>2. g[0] = b
    BY <2>1
  <2>3. ASSUME NEW i \in 1..(r + 1) PROVE g[i] = Borrado(g[i - 1], gastos[i], n)
    <3>1. CASE i = r + 1
      <4>1. i - 1 = r /\ r # r + 1 /\ r \in 0..(r + 1) /\ r + 1 \in 0..(r + 1)
        BY <3>1
      <4>2. g[i - 1] = f[r] /\ g[i] = Borrado(f[r], gastos[r + 1], n)
        BY <3>1, <4>1
      <4>. HIDE DEF g
      <4>. QED BY <3>1, <4>2
    <3>2. CASE i # r + 1
      <4>1. i \in 1..r /\ i \in 0..(r + 1) /\ i - 1 \in 0..(r + 1) /\ i - 1 # r + 1
        BY <3>2
      <4>2. g[i] = f[i] /\ g[i - 1] = f[i - 1]
        BY <3>2, <4>1
      <4>. HIDE DEF g
      <4>. QED BY <2>1, <4>1, <4>2
    <3>. QED BY <3>1, <3>2
  <2>. HIDE DEF g
  <2>4. Upto(g, r + 1)
    BY <2>2, <2>3
  <2>5. r + 1 \in Nat
    OBVIOUS
  <2>. QED BY <2>4, <2>5
<1>4. N = Nat
  <2>. HIDE DEF N
  <2>1. N \in SUBSET Nat
    BY DEF N
  <2>. QED BY <1>2, <1>3, <2>1, FromZero
<1>5. PICK f : Upto(f, t)
  BY <1>1, <1>4
<1>. HIDE DEF t
<1>6. \E g : Rec(g)
  <2>. DEFINE g == [i \in 0..t |-> f[i]]
  <2>1. ASSUME NEW i \in 0..t PROVE g[i] = IF i = 0 THEN b ELSE Borrado(g[i - 1], gastos[i], n)
    <3>1. CASE i = 0
      BY <1>1, <1>5, <3>1
    <3>2. CASE i # 0
      <4>1. i \in 1..t /\ i - 1 \in 0..t
        BY <1>1, <3>2
      <4>2. g[i] = f[i] /\ g[i - 1] = f[i - 1]
        BY <4>1
      <4>. HIDE DEF g
      <4>. QED BY <1>5, <3>2, <4>1, <4>2
    <3>. QED BY <3>1, <3>2
  <2>2. g = [i \in 0..t |-> g[i]]
    OBVIOUS
  <2>. HIDE DEF g
  <2>3. Rec(g)
    BY <2>1, <2>2
  <2>. QED BY <2>3
<1>. DEFINE s == CHOOSE g : Rec(g)
<1>7. Rec(s)
  BY <1>6
<1>8. SinGastosDe(n) = s[t]
  BY DEF SinGastosDe, b, t
<1>. HIDE DEF s
<1>9. \A i \in 0..t : s[i] = IF i = 0 THEN b ELSE Borrado(s[i - 1], gastos[i], n)
  BY <1>7
<1>10. s[0] = b
  BY <1>1, <1>9
<1>11. \A i \in 1..t : i \in 0..t /\ i # 0
  BY <1>1
<1>. QED BY <1>8, <1>9, <1>10, <1>11 DEF b, t

LEMMA ImportadasRec ==
  ASSUME NEW lineas \in Lineas, NEW k
  PROVE  \E s : /\ s[0] = [error |-> FALSE, cs |-> cuentas, gs |-> gastos, todo |-> <<>>]
                /\ \A j \in 1..Len(lineas) : s[j] = Importada(s[j - 1], lineas[j], k)
                /\ Importadas(lineas, k) = s[Len(lineas)]
<1>. DEFINE b == [error |-> FALSE, cs |-> cuentas, gs |-> gastos, todo |-> <<>>]
            Upto(f, r) == f[0] = b /\ \A i \in 1..r : f[i] = Importada(f[i - 1], lineas[i], k)
            N == {r \in Nat : \E f : Upto(f, r)}
            t == Len(lineas)
            Rec(g) == g = [i \in 0..t |-> IF i = 0 THEN b ELSE Importada(g[i - 1], lineas[i], k)]
<1>1. t \in Nat
  BY DEF Lineas, BoundedSeq, SeqOf
<1>. HIDE DEF b
<1>2. 0 \in N
  <2>1. Upto([i \in {0} |-> b], 0)
    OBVIOUS
  <2>. QED BY <2>1
<1>3. ASSUME NEW r \in N PROVE r + 1 \in N
  <2>1. PICK f : Upto(f, r)
    OBVIOUS
  <2>. DEFINE g == [i \in 0..(r + 1) |-> IF i = r + 1 THEN Importada(f[r], lineas[r + 1], k) ELSE f[i]]
  <2>2. g[0] = b
    BY <2>1
  <2>3. ASSUME NEW i \in 1..(r + 1) PROVE g[i] = Importada(g[i - 1], lineas[i], k)
    <3>1. CASE i = r + 1
      <4>1. i - 1 = r /\ r # r + 1 /\ r \in 0..(r + 1) /\ r + 1 \in 0..(r + 1)
        BY <3>1
      <4>2. g[i - 1] = f[r] /\ g[i] = Importada(f[r], lineas[r + 1], k)
        BY <3>1, <4>1
      <4>. HIDE DEF g
      <4>. QED BY <3>1, <4>2
    <3>2. CASE i # r + 1
      <4>1. i \in 1..r /\ i \in 0..(r + 1) /\ i - 1 \in 0..(r + 1) /\ i - 1 # r + 1
        BY <3>2
      <4>2. g[i] = f[i] /\ g[i - 1] = f[i - 1]
        BY <3>2, <4>1
      <4>. HIDE DEF g
      <4>. QED BY <2>1, <4>1, <4>2
    <3>. QED BY <3>1, <3>2
  <2>. HIDE DEF g
  <2>4. Upto(g, r + 1)
    BY <2>2, <2>3
  <2>5. r + 1 \in Nat
    OBVIOUS
  <2>. QED BY <2>4, <2>5
<1>4. N = Nat
  <2>. HIDE DEF N
  <2>1. N \in SUBSET Nat
    BY DEF N
  <2>. QED BY <1>2, <1>3, <2>1, FromZero
<1>5. PICK f : Upto(f, t)
  BY <1>1, <1>4
<1>. HIDE DEF t
<1>6. \E g : Rec(g)
  <2>. DEFINE g == [i \in 0..t |-> f[i]]
  <2>1. ASSUME NEW i \in 0..t PROVE g[i] = IF i = 0 THEN b ELSE Importada(g[i - 1], lineas[i], k)
    <3>1. CASE i = 0
      BY <1>1, <1>5, <3>1
    <3>2. CASE i # 0
      <4>1. i \in 1..t /\ i - 1 \in 0..t
        BY <1>1, <3>2
      <4>2. g[i] = f[i] /\ g[i - 1] = f[i - 1]
        BY <4>1
      <4>. HIDE DEF g
      <4>. QED BY <1>5, <3>2, <4>1, <4>2
    <3>. QED BY <3>1, <3>2
  <2>2. g = [i \in 0..t |-> g[i]]
    OBVIOUS
  <2>. HIDE DEF g
  <2>3. Rec(g)
    BY <2>1, <2>2
  <2>. QED BY <2>3
<1>. DEFINE s == CHOOSE g : Rec(g)
<1>7. Rec(s)
  BY <1>6
<1>8. Importadas(lineas, k) = s[t]
  BY DEF Importadas, b, t
<1>. HIDE DEF s
<1>9. \A i \in 0..t : s[i] = IF i = 0 THEN b ELSE Importada(s[i - 1], lineas[i], k)
  BY <1>7
<1>10. s[0] = b
  BY <1>1, <1>9
<1>11. \A i \in 1..t : i \in 0..t /\ i # 0
  BY <1>1
<1>. QED BY <1>8, <1>9, <1>10, <1>11 DEF b, t

\* One of the expenses of the account that goes is taken out: those before it stay, and
\* are of other accounts.
Borrando(s, i, n, S) ==
  /\ s = [gs |-> s.gs, todo |-> s.todo] /\ s.gs \in Seq(GastoT)
  /\ \E r \in 0..i : /\ Len(s.gs) = r + (Len(gastos) - i)
                     /\ \A j \in 1..r : s.gs[j].cuenta # n
                     /\ \A j \in 1..(Len(gastos) - i) : s.gs[r + j] = gastos[i + j]
  /\ \A j \in 1..Len(s.gs) : \E h \in 1..Len(gastos) : s.gs[j] = gastos[h]
  /\ Leads(s.todo, Par(cuentas, gastos), Par(cuentas, s.gs), S)
  /\ \A c \in CuentaT : c.nombre # n => \A m \in DOMAIN c.saldo : Parte(s.gs, c, m) = Parte(gastos, c, m)

LEMMA BorrandoStep ==
  ASSUME NEW S, Sano(cuentas, gastos, S), NEW n, NEW s, NEW i \in 1..Len(gastos), Borrando(s, i - 1, n, S)
  PROVE  Borrando(Borrado(s, gastos[i], n), i, n, S)
<1>1. gastos \in Seq(GastoT) /\ Len(gastos) \in Nat /\ DOMAIN gastos = 1..Len(gastos)
  BY LenProperties DEF Sano
<1>2. PICK r \in 0..(i - 1) :
        /\ Len(s.gs) = r + (Len(gastos) - (i - 1))
        /\ \A j \in 1..r : s.gs[j].cuenta # n
        /\ \A j \in 1..(Len(gastos) - (i - 1)) : s.gs[r + j] = gastos[(i - 1) + j]
  BY DEF Borrando
<1>3. s.gs[r + 1] = gastos[i] /\ r + 1 \in 1..Len(s.gs) /\ r \in Nat
  BY <1>1, <1>2
<1>4. ASSUME NEW j \in 1..(Len(gastos) - i) PROVE s.gs[(r + 1) + j] = gastos[i + j]
  <2>1. j + 1 \in 1..(Len(gastos) - (i - 1)) /\ r + (j + 1) = (r + 1) + j /\ (i - 1) + (j + 1) = i + j
    BY <1>1, <1>3
  <2>. QED BY <1>2, <2>1
<1>5. CASE gastos[i].cuenta # n
  <2>1. Borrado(s, gastos[i], n) = s
    BY <1>5 DEF Borrado
  <2>2. r + 1 \in 0..i /\ Len(s.gs) = (r + 1) + (Len(gastos) - i)
    <3>1. r \in Int /\ r >= 0 /\ r <= i - 1 /\ i \in Int /\ Len(gastos) \in Int /\ Len(s.gs) = r + (Len(gastos) - (i - 1))
      BY <1>1, <1>2
    <3>. QED BY <3>1
  <2>3. ASSUME NEW j \in 1..(r + 1) PROVE s.gs[j].cuenta # n
    <3>1. j \in 1..r \/ j = r + 1
      BY <1>3
    <3>. QED BY <1>2, <1>3, <1>5, <3>1
  <2>. QED BY <1>4, <2>1, <2>2, <2>3 DEF Borrando
<1>6. CASE gastos[i].cuenta = n
  <2>. DEFINE hs == RemoveFirstMatch(s.gs, LAMBDA h : h.cuenta = n)
  <2>1. Borrado(s, gastos[i], n) = [gs |-> hs, todo |-> s.todo \o GuardaGastos(hs)]
    BY <1>6 DEF Borrado
  <2>2. s.gs \in Seq(GastoT)
    BY DEF Borrando
  <2>3. hs = RemoveAt(s.gs, r + 1)
    <3>1. \/ hs = s.gs /\ \A j \in 1..Len(s.gs) : s.gs[j].cuenta # n
          \/ \E h \in 1..Len(s.gs) : /\ hs = RemoveAt(s.gs, h) /\ s.gs[h].cuenta = n
                                     /\ \A j \in 1..Len(s.gs) : s.gs[j].cuenta = n => h <= j
      BY <2>2, FirstMatch
    <3>. HIDE DEF hs
    <3>2. PICK h \in 1..Len(s.gs) : /\ hs = RemoveAt(s.gs, h) /\ s.gs[h].cuenta = n
                                    /\ \A j \in 1..Len(s.gs) : s.gs[j].cuenta = n => h <= j
      BY <1>3, <1>6, <3>1
    <3>3. h <= r + 1
      BY <1>3, <1>6, <3>2
    <3>4. ~(h \in 1..r)
      BY <1>2, <3>2
    <3>5. h = r + 1
      BY <1>3, <3>2, <3>3, <3>4
    <3>. QED BY <3>2, <3>5
  <2>. HIDE DEF hs
  <2>4. /\ hs \in Seq(GastoT) /\ Len(hs) = Len(s.gs) - 1
        /\ \A j \in 1..(Len(s.gs) - 1) : hs[j] = IF j < r + 1 THEN s.gs[j] ELSE s.gs[j + 1]
    BY <1>3, <2>2, <2>3, RemoveAtOf
  <2>5. Len(hs) = r + (Len(gastos) - i) /\ r \in 0..i
    BY <1>1, <1>2, <1>3, <2>4
  <2>6. ASSUME NEW j \in 1..r PROVE hs[j].cuenta # n
    <3>1. j < r + 1 /\ j \in 1..(Len(s.gs) - 1)
      BY <1>1, <1>2, <1>3
    <3>. QED BY <1>2, <2>4, <3>1
  <2>7. ASSUME NEW j \in 1..(Len(gastos) - i) PROVE hs[r + j] = gastos[i + j]
    <3>1. ~(r + j < r + 1) /\ r + j \in 1..(Len(s.gs) - 1) /\ (r + j) + 1 = (r + 1) + j
      BY <1>1, <1>2, <1>3
    <3>. QED BY <1>4, <2>4, <3>1
  <2>8. ASSUME NEW j \in 1..Len(hs) PROVE \E h \in 1..Len(gastos) : hs[j] = gastos[h]
    <3>1. j \in 1..(Len(s.gs) - 1) /\ j \in 1..Len(s.gs) /\ j + 1 \in 1..Len(s.gs)
      BY <1>1, <1>2, <1>3, <2>4
    <3>2. hs[j] = s.gs[j] \/ hs[j] = s.gs[j + 1]
      BY <2>4, <3>1
    <3>. QED BY <3>1, <3>2 DEF Borrando
  <2>9. Sano(cuentas, s.gs, S) /\ Sano(cuentas, hs, S)
    <3>1. \A j \in 1..Len(s.gs) : Valido(s.gs[j], cuentas, gastos)
      BY <1>1 DEF Borrando, Valido
    <3>2. \A j \in 1..Len(hs) : Valido(hs[j], cuentas, gastos)
      BY <1>1, <2>8 DEF Valido
    <3>. QED BY <2>2, <2>4, <3>1, <3>2, SanoGastos
  <2>10. Leads(s.todo \o GuardaGastos(hs), Par(cuentas, gastos), Par(cuentas, hs), S)
    <3>1. Leads(GuardaGastos(hs), Par(cuentas, s.gs), Par(cuentas, hs), S)
      BY <2>9, LeadsGastos
    <3>2. Leads(s.todo, Par(cuentas, gastos), Par(cuentas, s.gs), S)
      BY DEF Borrando
    <3>. QED BY <3>1, <3>2, LeadsConcat
  <2>11. ASSUME NEW c \in CuentaT, c.nombre # n, NEW m \in DOMAIN c.saldo
         PROVE  Parte(hs, c, m) = Parte(gastos, c, m)
    <3>1. Parte(s.gs, c, m) = Gana(s.gs[r + 1], c, m) + Parte(hs, c, m)
      BY <1>3, <2>2, <2>3, ParteRemove
    <3>2. Gana(s.gs[r + 1], c, m) = 0
      BY <1>3, <1>6, <2>11 DEF Gana
    <3>3. Parte(hs, c, m) \in Int
      BY <2>4, GananciasOf
    <3>4. Parte(s.gs, c, m) = Parte(gastos, c, m)
      BY <2>11 DEF Borrando
    <3>. QED BY <3>1, <3>2, <3>3, <3>4
  <2>. DEFINE b == [gs |-> hs, todo |-> s.todo \o GuardaGastos(hs)]
  <2>12. b.gs = hs /\ b.todo = s.todo \o GuardaGastos(hs) /\ b = [gs |-> b.gs, todo |-> b.todo]
    OBVIOUS
  <2>. HIDE DEF b
  <2>13. Borrando(b, i, n, S)
    BY <2>4, <2>5, <2>6, <2>7, <2>8, <2>10, <2>11, <2>12 DEF Borrando
  <2>. QED BY <2>1, <2>13 DEF b
<1>. QED BY <1>5, <1>6

LEMMA SinGastosOf ==
  ASSUME NEW S, Sano(cuentas, gastos, S), NEW n
  PROVE  LET s == SinGastosDe(n)
         IN  /\ s.gs \in Seq(GastoT) /\ \A j \in 1..Len(s.gs) : s.gs[j].cuenta # n
             /\ \A j \in 1..Len(s.gs) : \E h \in 1..Len(gastos) : s.gs[j] = gastos[h]
             /\ Leads(s.todo, Par(cuentas, gastos), Par(cuentas, s.gs), S)
             /\ \A c \in CuentaT : c.nombre # n =>
                  \A m \in DOMAIN c.saldo : Parte(s.gs, c, m) = Parte(gastos, c, m)
<1>1. gastos \in Seq(GastoT) /\ Len(gastos) \in Nat
  BY LenProperties DEF Sano
<1>2. PICK s : /\ s[0] = [gs |-> gastos, todo |-> <<>>]
               /\ \A i \in 1..Len(gastos) : s[i] = Borrado(s[i - 1], gastos[i], n)
               /\ SinGastosDe(n) = s[Len(gastos)]
  BY <1>1, BorradosRec
<1>. DEFINE N == {i \in Nat : i <= Len(gastos) => Borrando(s[i], i, n, S)}
<1>3. 0 \in N
  <2>1. s[0] = [gs |-> s[0].gs, todo |-> s[0].todo] /\ s[0].gs = gastos /\ s[0].todo = <<>>
    BY <1>2
  <2>2. Leads(<<>>, Par(cuentas, gastos), Par(cuentas, gastos), S)
    BY ParSano, LeadsNowhere
  <2>3. /\ 0 \in 0..0 /\ Len(gastos) = 0 + (Len(gastos) - 0) /\ 1..0 = {}
        /\ \A j \in 1..(Len(gastos) - 0) : 0 + j = j
    BY <1>1
  <2>4. Borrando(s[0], 0, n, S)
    BY <1>1, <2>1, <2>2, <2>3 DEF Borrando
  <2>. QED BY <2>4
<1>4. ASSUME NEW i \in N PROVE i + 1 \in N
  <2>1. CASE i + 1 <= Len(gastos)
    <3>1. i <= Len(gastos) /\ i + 1 \in 1..Len(gastos) /\ (i + 1) - 1 = i
      BY <1>1, <2>1
    <3>2. Borrando(s[i], i, n, S)
      BY <3>1
    <3>3. s[i + 1] = Borrado(s[i], gastos[i + 1], n)
      BY <1>2, <3>1
    <3>4. Borrando(s[i], (i + 1) - 1, n, S)
      BY <3>1, <3>2
    <3>. HIDE DEF N
    <3>5. Borrando(Borrado(s[i], gastos[i + 1], n), i + 1, n, S)
      BY <3>1, <3>4, BorrandoStep
    <3>6. i + 1 \in Nat
      BY <3>1
    <3>. QED BY <3>3, <3>5, <3>6 DEF N
  <2>2. CASE ~(i + 1 <= Len(gastos))
    BY <2>2
  <2>. QED BY <2>1, <2>2
<1>5. N = Nat
  <2>. HIDE DEF N
  <2>1. N \in SUBSET Nat
    BY DEF N
  <2>. QED BY <1>3, <1>4, <2>1, FromZero
<1>. DEFINE e == SinGastosDe(n)
<1>6. Borrando(e, Len(gastos), n, S)
  BY <1>1, <1>2, <1>5
<1>. HIDE DEF e
<1>7. \A j \in 1..Len(e.gs) : e.gs[j].cuenta # n
  <2>1. PICK r \in 0..Len(gastos) :
          /\ Len(e.gs) = r + (Len(gastos) - Len(gastos))
          /\ \A j \in 1..r : e.gs[j].cuenta # n
    BY <1>6 DEF Borrando
  <2>2. Len(e.gs) = r
    BY <1>1, <2>1
  <2>. QED BY <2>1, <2>2
<1>8. /\ e.gs \in Seq(GastoT)
      /\ \A j \in 1..Len(e.gs) : \E h \in 1..Len(gastos) : e.gs[j] = gastos[h]
      /\ Leads(e.todo, Par(cuentas, gastos), Par(cuentas, e.gs), S)
      /\ \A c \in CuentaT : c.nombre # n => \A m \in DOMAIN c.saldo : Parte(e.gs, c, m) = Parte(gastos, c, m)
  BY <1>6 DEF Borrando
<1>. QED BY <1>7, <1>8 DEF e

\* The expenses hs give what gs gave, and what a member gains when one of his account pays.
LEMMA CuadraSuma ==
  ASSUME NEW cs \in Seq(CuentaT), NEW gs \in Seq(GastoT), NEW hs, Distintas(cs), Cuadra(cs, gs),
         NEW k \in 1..Len(cs), NEW p \in DOMAIN cs[k].saldo, NEW x \in Int,
         \A c \in CuentaT : \A m \in DOMAIN c.saldo :
           Parte(hs, c, m) = Parte(gs, c, m) + Gana(Gasto(cs[k].nombre, p, x), c, m)
  PROVE  Cuadra(Pagado(cs, k, p, x), hs)
<1>. DEFINE ds == Pagado(cs, k, p, x)
            g == Gasto(cs[k].nombre, p, x)
<1>1. \A j \in 1..Len(cs) : cs[j] \in CuentaT
  BY ElementOfSeq
<1>2. cs[k].nombre \in Nombres /\ p \in Personas /\ p # Nadie /\ DOMAIN cs = 1..Len(cs)
  BY <1>1, CuentaFields, LenProperties
<1>3. g \in GastoT /\ g.cuenta = cs[k].nombre /\ g.pagador = p /\ g.cantidad = x
  BY <1>2 DEF GastoT, Gasto
<1>4. /\ ds \in Seq(CuentaT) /\ Len(ds) = Len(cs)
      /\ \A j \in 1..Len(cs) : ds[j] = IF j = k THEN Balance(cs[k], p, x) ELSE cs[j]
  BY <1>2, PagadoOf
<1>5. Como(cs, ds)
  BY <1>2, PagadoComo
<1>. HIDE DEF ds, g
<1>6. ASSUME NEW j \in 1..Len(ds), NEW m \in DOMAIN ds[j].saldo
      PROVE  ds[j].saldo[m] = Parte(hs, ds[j], m)
  <2>1. /\ j \in 1..Len(cs) /\ cs[j] \in CuentaT /\ m \in DOMAIN cs[j].saldo
        /\ ds[j].nombre = cs[j].nombre /\ ds[j].porcentaje = cs[j].porcentaje
    BY <1>1, <1>4, <1>5 DEF Como
  <2>2. Parte(hs, ds[j], m) = Parte(gs, cs[j], m) + Gana(g, cs[j], m)
    BY <2>1, ParteComo DEF g
  <2>3. cs[j].saldo[m] = Parte(gs, cs[j], m) /\ Parte(gs, cs[j], m) \in Int
    BY <2>1, GananciasOf DEF Cuadra
  <2>4. CASE j = k
    <3>1. ds[j].saldo[m] = cs[j].saldo[m] + Ganancia(m, p, x, cs[j].porcentaje[m])
      <4>. DEFINE b == Balance(cs[k], p, x)
      <4>1. p \in Personas \cup {Nadie} /\ cs[k] \in CuentaT /\ m \in DOMAIN cs[k].saldo
        BY <1>1, <1>2, <2>1, <2>4
      <4>2. b.saldo[m] = cs[k].saldo[m] + Ganancia(m, p, x, cs[k].porcentaje[m])
        BY <1>2, <4>1, BalanceOf
      <4>3. ds[k] = b
        BY <1>4
      <4>. HIDE DEF b
      <4>. QED BY <2>4, <4>2, <4>3
    <3>2. Gana(g, cs[j], m) = Ganancia(m, p, x, cs[j].porcentaje[m])
      BY <1>3, <2>4 DEF Gana
    <3>. QED BY <2>2, <2>3, <3>1, <3>2
  <2>5. CASE j # k
    <3>1. cs[j].nombre # cs[k].nombre
      BY <1>2, <2>1, <2>5 DEF Distintas
    <3>2. Gana(g, cs[j], m) = 0
      BY <1>3, <3>1 DEF Gana
    <3>. QED BY <1>4, <2>1, <2>2, <2>3, <2>5, <3>2
  <2>. QED BY <2>4, <2>5
<1>7. Cuadra(ds, hs)
  BY <1>6 DEF Cuadra
<1>. QED BY <1>7 DEF ds, g

\* A member pays an expense of his account.
LEMMA CuadraPaga ==
  ASSUME NEW cs \in Seq(CuentaT), NEW gs \in Seq(GastoT), Distintas(cs), Cuadra(cs, gs),
         NEW k \in 1..Len(cs), NEW p \in DOMAIN cs[k].saldo, NEW x \in Int
  PROVE  Cuadra(Pagado(cs, k, p, x), Append(gs, Gasto(cs[k].nombre, p, x)))
<1>. DEFINE g == Gasto(cs[k].nombre, p, x)
            hs == Append(gs, g)
<1>1. g \in GastoT
  <2>1. cs[k] \in CuentaT
    BY ElementOfSeq
  <2>. QED BY <2>1, CuentaFields DEF GastoT, Gasto
<1>. HIDE DEF g
<1>2. \A c \in CuentaT : \A m \in DOMAIN c.saldo : Parte(hs, c, m) = Parte(gs, c, m) + Gana(g, c, m)
  BY <1>1, ParteAppend
<1>. HIDE DEF hs
<1>3. Cuadra(Pagado(cs, k, p, x), hs)
  BY <1>2, CuadraSuma DEF g
<1>. QED BY <1>3 DEF hs, g

\* The lists once some lines of a file have been imported, and what was written.
Importando(s, k, S) ==
  /\ s = [error |-> s.error, cs |-> s.cs, gs |-> s.gs, todo |-> s.todo] /\ s.error \in BOOLEAN
  /\ Como(cuentas, s.cs)
  /\ Leads(s.todo, Par(cuentas, gastos), Par(s.cs, s.gs), S)
  /\ Distintas(cuentas) /\ Cuadra(cuentas, gastos) => Cuadra(s.cs, s.gs)

LEMMA ImportandoStep ==
  ASSUME NEW S, Sano(cuentas, gastos, S), NEW k \in 1..Len(cuentas), NEW s, Importando(s, k, S),
         NEW l \in [pagador : Personas \cup {Nadie}, cantidad : Cantidades]
  PROVE  Importando(Importada(s, l, k), k, S)
<1>1. /\ Como(cuentas, s.cs) /\ s.cs \in Seq(CuentaT) /\ Len(s.cs) = Len(cuentas)
      /\ s = [error |-> s.error, cs |-> s.cs, gs |-> s.gs, todo |-> s.todo]
      /\ Leads(s.todo, Par(cuentas, gastos), Par(s.cs, s.gs), S)
  BY DEF Importando, Como
<1>2. CASE s.error \/ l.pagador = Nadie
  <2>. DEFINE t == [error |-> TRUE, cs |-> s.cs, gs |-> s.gs, todo |-> s.todo]
  <2>1. Importada(s, l, k) = t
    BY <1>2 DEF Importada
  <2>2. t.error = TRUE /\ t.cs = s.cs /\ t.gs = s.gs /\ t.todo = s.todo /\ t = [error |-> t.error, cs |-> t.cs, gs |-> t.gs, todo |-> t.todo]
    OBVIOUS
  <2>. HIDE DEF t
  <2>3. Importando(t, k, S)
    BY <2>2 DEF Importando
  <2>. QED BY <2>1, <2>3
<1>3. CASE ~(s.error \/ l.pagador = Nadie) /\ l.pagador \notin DOMAIN s.cs[k].saldo
  BY <1>3 DEF Importada
<1>4. CASE ~(s.error \/ l.pagador = Nadie) /\ l.pagador \in DOMAIN s.cs[k].saldo
  <2>. DEFINE g == Gasto(s.cs[k].nombre, l.pagador, l.cantidad)
              gs == Append(s.gs, g)
              cs == Pagado(s.cs, k, l.pagador, l.cantidad)
              t == [error |-> FALSE, cs |-> cs, gs |-> gs, todo |-> s.todo \o GuardaGastos(gs) \o GuardaCuentas(cs)]
  <2>1. Importada(s, l, k) = t
    BY <1>4 DEF Importada
  <2>2. k \in 1..Len(s.cs) /\ l.cantidad \in Int /\ l.pagador \in Personas /\ s.cs[k] \in CuentaT /\ k \in DOMAIN s.cs
    <3>1. k \in 1..Len(s.cs)
      BY <1>1
    <3>. QED BY <1>1, <1>4, <3>1, CuentasAssumption, ElementOfSeq, LenProperties
  <2>3. Sano(s.cs, s.gs, S)
    <3>1. Par(s.cs, s.gs) \in Sanos(S)
      BY <1>1, LeadsEnds
    <3>2. Par(s.cs, s.gs).cuentas = s.cs /\ Par(s.cs, s.gs).gastos = s.gs
      BY ParFields
    <3>. QED BY <3>1, <3>2, SanoPar
  <2>4. g \in GastoT /\ g.cuenta = s.cs[k].nombre /\ g.pagador = l.pagador /\ s.gs \in Seq(GastoT)
    BY <2>2, <2>3, CuentaFields DEF Sano, Gasto, GastoT
  <2>. HIDE DEF g
  <2>5. gs \in Seq(GastoT) /\ Sano(s.cs, gs, S)
    <3>1. /\ gs \in Seq(GastoT) /\ Len(gs) = Len(s.gs) + 1 /\ gs[Len(s.gs) + 1] = g
          /\ \A i \in 1..Len(s.gs) : gs[i] = s.gs[i]
      BY <2>4, AppendProperties
    <3>2. Len(s.gs) \in Nat /\ DOMAIN s.gs = 1..Len(s.gs)
      BY <2>4, LenProperties
    <3>. HIDE DEF gs
    <3>3. ASSUME NEW i \in 1..Len(gs) PROVE Valido(gs[i], s.cs, s.gs)
      <4>1. i \in 1..Len(s.gs) \/ i = Len(s.gs) + 1
        BY <3>1, <3>2
      <4>2. CASE i \in 1..Len(s.gs)
        BY <3>1, <3>2, <4>2 DEF Valido
      <4>3. CASE i = Len(s.gs) + 1
        BY <1>4, <2>2, <2>4, <3>1, <4>3 DEF Valido
      <4>. QED BY <4>1, <4>2, <4>3
    <3>. QED BY <2>3, <3>1, <3>3, SanoGastos
  <2>6. Sano(cs, gs, S)
    BY <1>4, <2>2, <2>5, SanoPagado
  <2>7. Como(cuentas, cs)
    <3>1. Como(s.cs, cs)
      BY <1>1, <2>2, PagadoComo
    <3>. HIDE DEF cs
    <3>. QED BY <1>1, <3>1 DEF Como
  <2>8. Distintas(cuentas) /\ Cuadra(cuentas, gastos) => Cuadra(cs, gs)
    <3>. SUFFICES ASSUME Distintas(cuentas), Cuadra(cuentas, gastos) PROVE Cuadra(cs, gs)
      OBVIOUS
    <3>1. Cuadra(s.cs, s.gs)
      BY DEF Importando
    <3>2. DOMAIN s.cs = 1..Len(cuentas) /\ DOMAIN cuentas = 1..Len(cuentas)
      BY <1>1, LenProperties DEF Sano
    <3>3. Distintas(s.cs)
      BY <1>1, <3>2 DEF Distintas, Como
    <3>. QED BY <1>1, <1>4, <2>2, <2>4, <3>1, <3>3, CuadraPaga DEF g
  <2>. HIDE DEF cs, gs
  <2>9. Leads(s.todo \o GuardaGastos(gs) \o GuardaCuentas(cs), Par(cuentas, gastos), Par(cs, gs), S)
    <3>1. Leads(GuardaGastos(gs), Par(s.cs, s.gs), Par(s.cs, gs), S)
      BY <2>3, <2>5, LeadsGastos
    <3>2. Leads(GuardaCuentas(cs), Par(s.cs, gs), Par(cs, gs), S)
      BY <2>5, <2>6, LeadsCuentas
    <3>3. Leads(s.todo \o GuardaGastos(gs), Par(cuentas, gastos), Par(s.cs, gs), S)
      BY <1>1, <3>1, LeadsConcat
    <3>. QED BY <3>2, <3>3, LeadsConcat
  <2>10. /\ t = [error |-> t.error, cs |-> t.cs, gs |-> t.gs, todo |-> t.todo]
         /\ t.error = FALSE /\ t.cs = cs /\ t.gs = gs /\ t.todo = s.todo \o GuardaGastos(gs) \o GuardaCuentas(cs)
    OBVIOUS
  <2>. HIDE DEF t
  <2>11. Importando(t, k, S)
    BY <2>7, <2>8, <2>9, <2>10 DEF Importando
  <2>. QED BY <2>1, <2>11
<1>. QED BY <1>2, <1>3, <1>4

LEMMA ImportadasOf ==
  ASSUME NEW S, Sano(cuentas, gastos, S), NEW k \in 1..Len(cuentas), NEW lineas \in Lineas
  PROVE  Importando(Importadas(lineas, k), k, S)
<1>1. Len(lineas) \in Nat /\ \A j \in 1..Len(lineas) : lineas[j] \in [pagador : Personas \cup {Nadie}, cantidad : Cantidades]
  BY DEF Lineas, BoundedSeq, SeqOf
<1>2. PICK s : /\ s[0] = [error |-> FALSE, cs |-> cuentas, gs |-> gastos, todo |-> <<>>]
               /\ \A j \in 1..Len(lineas) : s[j] = Importada(s[j - 1], lineas[j], k)
               /\ Importadas(lineas, k) = s[Len(lineas)]
  BY ImportadasRec
<1>. DEFINE N == {j \in Nat : j <= Len(lineas) => Importando(s[j], k, S)}
<1>3. 0 \in N
  <2>1. /\ s[0] = [error |-> s[0].error, cs |-> s[0].cs, gs |-> s[0].gs, todo |-> s[0].todo]
        /\ s[0].error = FALSE /\ s[0].cs = cuentas /\ s[0].gs = gastos /\ s[0].todo = <<>>
    BY <1>2
  <2>2. Leads(<<>>, Par(cuentas, gastos), Par(cuentas, gastos), S)
    BY ParSano, LeadsNowhere
  <2>3. Como(cuentas, cuentas)
    BY DEF Como, Sano
  <2>4. Importando(s[0], k, S)
    BY <2>1, <2>2, <2>3 DEF Importando
  <2>. QED BY <2>4
<1>4. ASSUME NEW j \in N PROVE j + 1 \in N
  <2>1. CASE j + 1 <= Len(lineas)
    <3>1. j <= Len(lineas) /\ j + 1 \in 1..Len(lineas) /\ (j + 1) - 1 = j /\ j + 1 \in Nat
      BY <1>1, <2>1
    <3>2. Importando(s[j], k, S)
      BY <3>1
    <3>3. s[j + 1] = Importada(s[j], lineas[j + 1], k)
      BY <1>2, <3>1
    <3>4. Importando(Importada(s[j], lineas[j + 1], k), k, S)
      BY <1>1, <3>1, <3>2, ImportandoStep
    <3>. QED BY <3>1, <3>3, <3>4
  <2>2. CASE ~(j + 1 <= Len(lineas))
    BY <2>2
  <2>. QED BY <2>1, <2>2
<1>5. N = Nat
  <2>. HIDE DEF N
  <2>1. N \in SUBSET Nat
    BY DEF N
  <2>. QED BY <1>3, <1>4, <2>1, FromZero
<1>. QED BY <1>1, <1>2, <1>5

-----------------------------------------------------------------------------
(* The invariant, and what each action does to it.                         *)

\* The disk would be d if no write had failed, and is, but for the files whose last write
\* did.  The writes that are left end with the memory on d, which is sound after each of
\* them, and the balances in memory are those that the expenses give.
Seria(d) ==
  /\ Leads(todo, d, Par(cuentas, gastos), sucesos)
  /\ \A f \in Ficheros \ viejos : disco[f] = d[f]

Inv ==
  /\ disco \in DiscoT /\ viejos \subseteq Ficheros
  /\ \E d : Seria(d)
  /\ activa \in 0..Len(cuentas)
  /\ sucesos = {} => Cuadra(cuentas, gastos)

LEMMA Iguales ==
  ASSUME NEW d \in DiscoT, NEW e \in DiscoT, \A f \in Ficheros : d[f] = e[f]
  PROVE  d = e
<1>1. "cuentas" \in Ficheros /\ "gastos" \in Ficheros
  BY DEF Ficheros
<1>2. d["cuentas"] = e["cuentas"] /\ d["gastos"] = e["gastos"]
  BY <1>1
<1>. QED BY <1>2 DEF DiscoT

LEMMA InvFacts ==
  ASSUME Inv
  PROVE  /\ Sano(cuentas, gastos, sucesos) /\ disco \in DiscoT /\ (viejos = {} => disco \in Sanos(sucesos))
         /\ cuentas \in Seq(CuentaT) /\ Len(cuentas) \in Nat /\ DOMAIN cuentas = 1..Len(cuentas)
         /\ gastos \in Seq(GastoT) /\ Len(gastos) \in Nat /\ DOMAIN gastos = 1..Len(gastos)
         /\ activa \in 0..Len(cuentas)
         /\ sucesos = {} => Distintas(cuentas) /\ Pagan(cuentas, gastos) /\ Cuadra(cuentas, gastos)
         /\ todo = <<>> => \A f \in Ficheros \ viejos : disco[f] = Par(cuentas, gastos)[f]
         /\ todo = <<>> /\ viejos = {} => disco = Par(cuentas, gastos)
<1>1. PICK d : Seria(d)
  BY DEF Inv
<1>2. Leads(todo, d, Par(cuentas, gastos), sucesos) /\ \A f \in Ficheros \ viejos : disco[f] = d[f]
  BY <1>1 DEF Seria
<1>3. d \in Sanos(sucesos) /\ Par(cuentas, gastos) \in Sanos(sucesos)
  BY <1>2, LeadsEnds
<1>4. Sano(cuentas, gastos, sucesos)
  BY <1>3, SanoPar, ParFields
<1>5. todo = <<>> => d = Par(cuentas, gastos)
  BY <1>2, <1>3, LeadsNowhere
<1>6. disco \in DiscoT /\ d \in DiscoT
  BY <1>3 DEF Inv, Sanos
<1>7. viejos = {} => disco = d
  BY <1>2, <1>6, Iguales
<1>8. todo = <<>> => \A f \in Ficheros \ viejos : disco[f] = Par(cuentas, gastos)[f]
  BY <1>2, <1>5
<1>9. sucesos = {} => Distintas(cuentas) /\ Pagan(cuentas, gastos) /\ Cuadra(cuentas, gastos)
  BY <1>4 DEF Inv, Sano
<1>10. /\ cuentas \in Seq(CuentaT) /\ Len(cuentas) \in Nat /\ DOMAIN cuentas = 1..Len(cuentas)
       /\ gastos \in Seq(GastoT) /\ Len(gastos) \in Nat /\ DOMAIN gastos = 1..Len(gastos)
  BY <1>4, LenProperties DEF Sano
<1>. QED BY <1>3, <1>4, <1>5, <1>6, <1>7, <1>8, <1>9, <1>10 DEF Inv

LEMMA OperaInv ==
  ASSUME Inv, NEW cs, NEW gs, NEW w, Opera(cs, gs, w), activa' \in 0..Len(cs),
         Leads(w, Par(cuentas, gastos), Par(cs, gs), sucesos'), sucesos' = {} => Cuadra(cs, gs)
  PROVE  Inv'
<1>1. todo = <<>> /\ cuentas' = cs /\ gastos' = gs /\ todo' = w /\ disco' = disco /\ viejos' = viejos
  BY DEF Opera
<1>2. \A f \in Ficheros \ viejos : disco[f] = Par(cuentas, gastos)[f]
  BY <1>1, InvFacts
<1>3. \E d : Seria(d)'
  <2>. DEFINE d == Par(cuentas, gastos)
  <2>1. Leads(todo', d, Par(cuentas', gastos'), sucesos') /\ \A f \in Ficheros \ viejos' : disco'[f] = d[f]
    BY <1>1, <1>2
  <2>. HIDE DEF d
  <2>. QED BY <2>1 DEF Seria
<1>4. disco' \in DiscoT /\ viejos' \subseteq Ficheros
  BY <1>1 DEF Inv
<1>5. activa' \in 0..Len(cuentas') /\ (sucesos' = {} => Cuadra(cuentas', gastos'))
  BY <1>1
<1>. QED BY <1>3, <1>4, <1>5 DEF Inv

LEMMA SanoAppend ==
  ASSUME NEW S, NEW cs, NEW gs, Sano(cs, gs, S), NEW g \in GastoT, Valido(g, cs, gs)
  PROVE  Append(gs, g) \in Seq(GastoT) /\ Sano(cs, Append(gs, g), S)
<1>. DEFINE hs == Append(gs, g)
<1>1. gs \in Seq(GastoT) /\ Len(gs) \in Nat /\ DOMAIN gs = 1..Len(gs)
  BY LenProperties DEF Sano
<1>2. hs \in Seq(GastoT) /\ Len(hs) = Len(gs) + 1 /\ hs[Len(gs) + 1] = g /\ \A i \in 1..Len(gs) : hs[i] = gs[i]
  BY <1>1, AppendProperties
<1>. HIDE DEF hs
<1>3. ASSUME NEW i \in 1..Len(hs) PROVE Valido(hs[i], cs, gs)
  <2>1. i \in 1..Len(gs) \/ i = Len(gs) + 1
    BY <1>1, <1>2
  <2>2. CASE i \in 1..Len(gs)
    BY <1>1, <1>2, <2>2 DEF Valido
  <2>3. CASE i = Len(gs) + 1
    BY <1>2, <2>3
  <2>. QED BY <2>1, <2>2, <2>3
<1>4. Sano(cs, hs, S)
  BY <1>2, <1>3, SanoGastos
<1>. QED BY <1>2, <1>4 DEF hs

LEMMA SanoRemove ==
  ASSUME NEW S, NEW cs, NEW gs, Sano(cs, gs, S), NEW i \in 1..Len(gs)
  PROVE  Sano(cs, RemoveAt(gs, i), S)
<1>. DEFINE hs == RemoveAt(gs, i)
<1>1. gs \in Seq(GastoT) /\ Len(gs) \in Nat /\ DOMAIN gs = 1..Len(gs)
  BY LenProperties DEF Sano
<1>2. hs \in Seq(GastoT) /\ Len(hs) = Len(gs) - 1 /\ \A j \in 1..(Len(gs) - 1) : hs[j] = IF j < i THEN gs[j] ELSE gs[j + 1]
  BY <1>1, RemoveAtOf
<1>. HIDE DEF hs
<1>3. ASSUME NEW j \in 1..Len(hs) PROVE Valido(hs[j], cs, gs)
  <2>1. j \in DOMAIN gs /\ j + 1 \in DOMAIN gs /\ (hs[j] = gs[j] \/ hs[j] = gs[j + 1])
    BY <1>1, <1>2
  <2>. QED BY <2>1 DEF Valido
<1>4. Sano(cs, hs, S)
  BY <1>2, <1>3, SanoGastos
<1>. QED BY <1>4 DEF hs

LEMMA SanoExcept ==
  ASSUME NEW S, NEW cs, NEW gs, Sano(cs, gs, S), NEW i \in 1..Len(gs), NEW g \in GastoT, Valido(g, cs, gs)
  PROVE  Sano(cs, [gs EXCEPT ![i] = g], S)
<1>. DEFINE hs == [gs EXCEPT ![i] = g]
<1>1. gs \in Seq(GastoT) /\ DOMAIN gs = 1..Len(gs)
  BY LenProperties DEF Sano
<1>2. hs \in Seq(GastoT) /\ Len(hs) = Len(gs) /\ \A j \in 1..Len(gs) : hs[j] = IF j = i THEN g ELSE gs[j]
  BY <1>1, ExceptSeq
<1>. HIDE DEF hs
<1>3. ASSUME NEW j \in 1..Len(hs) PROVE Valido(hs[j], cs, gs)
  <2>1. CASE j = i
    BY <1>2, <2>1
  <2>2. CASE j # i
    BY <1>1, <1>2, <2>2 DEF Valido
  <2>. QED BY <2>1, <2>2
<1>4. Sano(cs, hs, S)
  BY <1>2, <1>3, SanoGastos
<1>. QED BY <1>4 DEF hs

\* Personal expenses give nothing.
LEMMA GanaPersonal ==
  ASSUME NEW g, NEW c \in CuentaT, NEW m, g.cuenta = Personal
  PROVE  Gana(g, c, m) = 0
BY CuentaFields DEF Gana

LEMMA CuadraIgual ==
  ASSUME NEW cs \in Seq(CuentaT), NEW gs, NEW hs, Cuadra(cs, gs),
         \A c \in CuentaT : \A m \in DOMAIN c.saldo : Parte(hs, c, m) = Parte(gs, c, m)
  PROVE  Cuadra(cs, hs)
<1>1. \A k \in 1..Len(cs) : cs[k] \in CuentaT
  BY ElementOfSeq
<1>. QED BY <1>1 DEF Cuadra

\* The expense i goes, and its payer gives back what he gained.
LEMMA CuadraQuita ==
  ASSUME NEW cs \in Seq(CuentaT), NEW gs \in Seq(GastoT), Distintas(cs), Cuadra(cs, gs),
         NEW k \in 1..Len(cs), NEW i \in 1..Len(gs), gs[i].cuenta = cs[k].nombre, gs[i].pagador \in DOMAIN cs[k].saldo
  PROVE  Cuadra(Pagado(cs, k, gs[i].pagador, -gs[i].cantidad), RemoveAt(gs, i))
<1>. DEFINE x == gs[i].cantidad
            p == gs[i].pagador
            g == Gasto(cs[k].nombre, p, -x)
            hs == RemoveAt(gs, i)
<1>1. gs[i] \in GastoT /\ x \in Int /\ -x \in Int
  <2>1. gs[i] \in GastoT
    BY ElementOfSeq
  <2>2. x \in Int
    BY <2>1 DEF GastoT
  <2>. HIDE DEF x
  <2>3. -x \in Int
    BY <2>2
  <2>. QED BY <2>1, <2>2, <2>3
<1>2. hs \in Seq(GastoT)
  BY RemoveAtOf
<1>3. g.cuenta = gs[i].cuenta /\ g.pagador = p /\ g.cantidad = -x
  BY DEF Gasto
<1>4. ASSUME NEW c \in CuentaT, NEW m \in DOMAIN c.saldo
      PROVE  Parte(hs, c, m) = Parte(gs, c, m) + Gana(g, c, m)
  <2>1. Gana(g, c, m) \in Int /\ Gana(g, c, m) + Gana(gs[i], c, m) = 0
    <3>1. CASE gs[i].cuenta = c.nombre
      <4>1. c.porcentaje[m] \in Int
        BY CuentaFields
      <4>2. Ganancia(m, p, -x, c.porcentaje[m]) = -Ganancia(m, p, x, c.porcentaje[m])
        BY <1>1, <4>1, GananciaInt
      <4>. HIDE DEF x, g
      <4>3. Gana(g, c, m) = Ganancia(m, p, -x, c.porcentaje[m])
        BY <1>3, <3>1 DEF Gana
      <4>4. Gana(gs[i], c, m) = Ganancia(m, p, x, c.porcentaje[m])
        BY <3>1 DEF Gana, x
      <4>5. Gana(gs[i], c, m) \in Int
        BY <1>1, GanaInt
      <4>6. Gana(g, c, m) = -Gana(gs[i], c, m)
        BY <4>2, <4>3, <4>4
      <4>. QED BY <4>5, <4>6
    <3>2. CASE gs[i].cuenta # c.nombre
      <4>1. Gana(g, c, m) = 0 /\ Gana(gs[i], c, m) = 0
        BY <1>3, <3>2 DEF Gana
      <4>. HIDE DEF g
      <4>. QED BY <4>1
    <3>. QED BY <3>1, <3>2
  <2>2. Parte(gs, c, m) = Gana(gs[i], c, m) + Parte(hs, c, m)
    BY ParteRemove
  <2>3. Gana(gs[i], c, m) \in Int /\ Parte(hs, c, m) \in Int
    BY <1>1, <1>2, GanaInt, GananciasOf
  <2>. HIDE DEF g, hs
  <2>. QED BY <2>1, <2>2, <2>3
<1>. HIDE DEF hs
<1>5. Cuadra(Pagado(cs, k, p, -x), hs)
  BY <1>1, <1>4, CuadraSuma DEF g
<1>. QED BY <1>5 DEF hs

\* The expense i is paid by another, or is of another amount.
LEMMA CuadraCambia ==
  ASSUME NEW cs \in Seq(CuentaT), NEW gs \in Seq(GastoT), Distintas(cs), Cuadra(cs, gs),
         NEW k \in 1..Len(cs), NEW i \in 1..Len(gs), gs[i].cuenta = cs[k].nombre, gs[i].pagador \in DOMAIN cs[k].saldo,
         NEW q \in DOMAIN cs[k].saldo, NEW y \in Int
  PROVE  Cuadra(Pagado(Pagado(cs, k, gs[i].pagador, -gs[i].cantidad), k, q, y),
                [gs EXCEPT ![i] = Gasto(gs[i].cuenta, q, y)])
<1>. DEFINE ds == Pagado(cs, k, gs[i].pagador, -gs[i].cantidad)
            ks == RemoveAt(gs, i)
            g == Gasto(cs[k].nombre, q, y)
            hs == [gs EXCEPT ![i] = g]
<1>1. cs[k] \in CuentaT /\ gs[i] \in GastoT /\ gs[i].pagador \in Personas \cup {Nadie} /\ -gs[i].cantidad \in Int
  <2>1. cs[k] \in CuentaT /\ gs[i] \in GastoT
    BY ElementOfSeq
  <2>2. gs[i].pagador \in Personas \cup {Nadie} /\ gs[i].cantidad \in Int
    BY <2>1 DEF GastoT
  <2>3. \A x \in Int : -x \in Int
    OBVIOUS
  <2>. QED BY <2>1, <2>2, <2>3
<1>2. Como(cs, ds)
  BY <1>1, PagadoComo
<1>3. Cuadra(ds, ks)
  BY CuadraQuita
<1>4. ks \in Seq(GastoT)
  BY RemoveAtOf
<1>5. g \in GastoT
  BY <1>1, CuentaFields DEF GastoT, Gasto
<1>. HIDE DEF ds
<1>6. ds \in Seq(CuentaT) /\ Distintas(ds) /\ k \in 1..Len(ds) /\ q \in DOMAIN ds[k].saldo /\ ds[k].nombre = cs[k].nombre
  <2>1. DOMAIN ds = 1..Len(cs) /\ DOMAIN cs = 1..Len(cs)
    BY <1>2, LenProperties DEF Como
  <2>. QED BY <1>2, <2>1 DEF Como, Distintas
<1>. HIDE DEF g
<1>7. ASSUME NEW c \in CuentaT, NEW m \in DOMAIN c.saldo
      PROVE  Parte(hs, c, m) = Parte(ks, c, m) + Gana(g, c, m)
  <2>1. Parte(hs, c, m) = (Parte(gs, c, m) - Gana(gs[i], c, m)) + Gana(g, c, m)
    BY <1>5, ParteExcept
  <2>2. Parte(gs, c, m) = Gana(gs[i], c, m) + Parte(ks, c, m)
    BY ParteRemove
  <2>3. Gana(gs[i], c, m) \in Int /\ Gana(g, c, m) \in Int /\ Parte(ks, c, m) \in Int
    BY <1>1, <1>4, <1>5, GanaInt, GananciasOf
  <2>. HIDE DEF hs, ks
  <2>. QED BY <2>1, <2>2, <2>3
<1>. HIDE DEF ks, hs
<1>8. Cuadra(Pagado(ds, k, q, y), hs)
  <2>1. \A c \in CuentaT : \A m \in DOMAIN c.saldo :
          Parte(hs, c, m) = Parte(ks, c, m) + Gana(Gasto(ds[k].nombre, q, y), c, m)
    BY <1>6, <1>7 DEF g
  <2>. QED BY <1>3, <1>4, <1>6, <2>1, CuadraSuma
<1>. QED BY <1>8 DEF ds, hs, g

LEMMA InvStutter == Inv /\ UNCHANGED vars => Inv'
BY DEF Inv, Seria, vars

LEMMA InvInit == Init => Inv
<1>. SUFFICES ASSUME Init PROVE Inv
  OBVIOUS
<1>1. /\ cuentas = <<>> /\ gastos = <<>> /\ activa = 0 /\ todo = <<>> /\ disco = Par(<<>>, <<>>)
      /\ viejos = {} /\ sucesos = {}
  BY DEF Init, Par
<1>2. Sano(<<>>, <<>>, {})
  <2>1. <<>> \in Seq(CuentaT) /\ <<>> \in Seq(GastoT) /\ DOMAIN <<>> = {}
    OBVIOUS
  <2>. QED BY <2>1 DEF Sano, ConCuenta, Distintas, Pagan, Cero
<1>3. Leads(<<>>, Par(<<>>, <<>>), Par(<<>>, <<>>), {})
  BY <1>2, ParSano, LeadsNowhere
<1>4. Len(cuentas) = 0 /\ 0 \in 0..0 /\ 1..0 = {}
  BY <1>1
<1>5. disco \in DiscoT
  BY <1>1, <1>2, ParSano DEF Sanos
<1>6. Seria(Par(<<>>, <<>>))
  BY <1>1, <1>3 DEF Seria
<1>. QED BY <1>1, <1>4, <1>5, <1>6 DEF Inv, Cuadra

LEMMA InvPersonal ==
  ASSUME Inv, NEW x \in Cantidades, anadirPersonal(x)
  PROVE  Inv'
<1>. DEFINE g == Gasto(Personal, Nadie, x)
            gs == Append(gastos, g)
<1>1. Opera(cuentas, gs, GuardaGastos(gs)) /\ activa = 0 /\ activa' = activa /\ sucesos' = sucesos
  BY DEF anadirPersonal
<1>2. g \in GastoT /\ g.cuenta = Personal
  BY CuentasAssumption DEF GastoT, Gasto
<1>3. Sano(cuentas, gastos, sucesos) /\ gastos \in Seq(GastoT) /\ cuentas \in Seq(CuentaT)
  BY InvFacts
<1>. HIDE DEF g
<1>4. Sano(cuentas, gs, sucesos)
  <2>1. Valido(g, cuentas, gastos)
    BY <1>2 DEF Valido
  <2>. QED BY <1>2, <1>3, <2>1, SanoAppend
<1>5. Cuadra(cuentas, gastos) => Cuadra(cuentas, gs)
  <2>1. \A c \in CuentaT : \A m \in DOMAIN c.saldo : Parte(gs, c, m) = Parte(gastos, c, m)
    <3>. SUFFICES ASSUME NEW c \in CuentaT, NEW m \in DOMAIN c.saldo PROVE Parte(gs, c, m) = Parte(gastos, c, m)
      OBVIOUS
    <3>1. Parte(gs, c, m) = Parte(gastos, c, m) + Gana(g, c, m)
      BY <1>2, <1>3, ParteAppend
    <3>2. Gana(g, c, m) = 0 /\ Parte(gastos, c, m) \in Int
      BY <1>2, <1>3, GanaPersonal, GananciasOf
    <3>. HIDE DEF gs
    <3>. QED BY <3>1, <3>2
  <2>. HIDE DEF gs
  <2>. QED BY <1>3, <2>1, CuadraIgual
<1>. HIDE DEF gs
<1>6. Leads(GuardaGastos(gs), Par(cuentas, gastos), Par(cuentas, gs), sucesos')
  BY <1>1, <1>3, <1>4, LeadsGastos
<1>7. activa' \in 0..Len(cuentas) /\ (sucesos' = {} => Cuadra(cuentas, gs))
  BY <1>1, <1>5, InvFacts
<1>. QED BY <1>1, <1>6, <1>7, OperaInv

LEMMA InvCompartido ==
  ASSUME Inv, NEW x \in Cantidades, NEW p \in Personas, anadirCompartido(p, x)
  PROVE  Inv'
<1>. DEFINE cs == Pagado(cuentas, activa, p, x)
            g  == Gasto(Contexto, p, x)
            gs == Append(gastos, g)
<1>1. /\ Opera(cs, gs, GuardaCuentas(cs) \o GuardaGastos(gs)) /\ activa' = activa /\ sucesos' = sucesos
      /\ activa # 0 /\ p \in DOMAIN cuentas[activa].saldo
  BY DEF anadirCompartido
<1>2. /\ Sano(cuentas, gastos, sucesos) /\ gastos \in Seq(GastoT) /\ cuentas \in Seq(CuentaT)
      /\ activa \in 1..Len(cuentas) /\ x \in Int /\ DOMAIN cuentas = 1..Len(cuentas)
  <2>1. activa \in 0..Len(cuentas) /\ Len(cuentas) \in Nat
    BY InvFacts
  <2>2. activa \in 1..Len(cuentas)
    BY <1>1, <2>1
  <2>. QED BY <2>2, InvFacts, CuentasAssumption
<1>3. g = Gasto(cuentas[activa].nombre, p, x)
  BY <1>1 DEF Contexto
<1>4. g \in GastoT /\ g.cuenta = cuentas[activa].nombre /\ g.pagador = p
  <2>1. cuentas[activa].nombre \in Nombres
    <3>1. cuentas[activa] \in CuentaT
      BY <1>2, ElementOfSeq
    <3>. QED BY <3>1, CuentaFields
  <2>. QED BY <1>2, <1>3, <2>1 DEF GastoT, Gasto
<1>5. Sano(cs, gastos, sucesos) /\ Como(cuentas, cs)
  BY <1>1, <1>2, SanoPagado, PagadoComo
<1>6. sucesos = {} => Cuadra(cs, gs)
  <2>. SUFFICES ASSUME sucesos = {} PROVE Cuadra(cs, gs)
    OBVIOUS
  <2>1. Distintas(cuentas) /\ Cuadra(cuentas, gastos)
    BY InvFacts
  <2>. HIDE DEF cs, gs, g
  <2>. QED BY <1>1, <1>2, <1>3, <2>1, CuadraPaga DEF cs, gs
<1>. HIDE DEF cs, g
<1>7. Sano(cs, gs, sucesos)
  <2>1. activa \in DOMAIN cs /\ g.cuenta = cs[activa].nombre /\ g.pagador \in DOMAIN cs[activa].saldo
    <3>1. cs \in Seq(CuentaT) /\ Len(cs) = Len(cuentas)
      BY <1>5 DEF Como
    <3>. QED BY <1>1, <1>2, <1>4, <1>5, <3>1, LenProperties DEF Como
  <2>2. Valido(g, cs, gastos)
    BY <2>1 DEF Valido
  <2>. QED BY <1>4, <1>5, <2>2, SanoAppend
<1>. HIDE DEF gs
<1>8. Leads(GuardaCuentas(cs) \o GuardaGastos(gs), Par(cuentas, gastos), Par(cs, gs), sucesos')
  <2>1. Leads(GuardaCuentas(cs), Par(cuentas, gastos), Par(cs, gastos), sucesos)
    BY <1>2, <1>5, LeadsCuentas
  <2>2. Leads(GuardaGastos(gs), Par(cs, gastos), Par(cs, gs), sucesos)
    BY <1>5, <1>7, LeadsGastos
  <2>. QED BY <1>1, <2>1, <2>2, LeadsConcat
<1>9. activa' \in 0..Len(cs)
  BY <1>1, <1>5, InvFacts DEF Como
<1>. QED BY <1>1, <1>6, <1>8, <1>9, OperaInv

\* An expense that is shown is of the active account, and a member pays it.
LEMMA Visto ==
  ASSUME Inv, NEW i \in Visibles
  PROVE  /\ i \in 1..Len(gastos) /\ gastos[i] \in GastoT
         /\ gastos[i].pagador \in Personas \cup {Nadie} /\ gastos[i].cantidad \in Int /\ -gastos[i].cantidad \in Int
         /\ activa = 0 => gastos[i].cuenta = Personal
         /\ activa # 0 => /\ activa \in 1..Len(cuentas) /\ cuentas[activa] \in CuentaT
                          /\ gastos[i].cuenta = cuentas[activa].nombre
                          /\ sucesos \cap {"repetida", "rotura", "perdida"} = {} => gastos[i].pagador \in DOMAIN cuentas[activa].saldo
<1>1. i \in 1..Len(gastos) /\ gastos \in Seq(GastoT) /\ gastos[i].cuenta = Contexto
  BY InvFacts DEF Visibles
<1>2. gastos[i] \in GastoT
  BY <1>1, ElementOfSeq
<1>3. gastos[i].pagador \in Personas \cup {Nadie} /\ gastos[i].cantidad \in Int
  BY <1>2 DEF GastoT
<1>4. \A x \in Int : -x \in Int
  OBVIOUS
<1>5. ASSUME activa # 0
      PROVE  /\ activa \in 1..Len(cuentas) /\ cuentas[activa] \in CuentaT
             /\ gastos[i].cuenta = cuentas[activa].nombre
             /\ sucesos \cap {"repetida", "rotura", "perdida"} = {} => gastos[i].pagador \in DOMAIN cuentas[activa].saldo
  <2>1. activa \in 0..Len(cuentas) /\ Len(cuentas) \in Nat
    BY InvFacts
  <2>2. activa \in 1..Len(cuentas)
    BY <1>5, <2>1
  <2>3. cuentas[activa] \in CuentaT
    BY <2>2, InvFacts, ElementOfSeq
  <2>4. gastos[i].cuenta = cuentas[activa].nombre
    BY <1>1, <1>5 DEF Contexto
  <2>5. sucesos \cap {"repetida", "rotura", "perdida"} = {} => Pagan(cuentas, gastos)
    BY InvFacts DEF Sano
  <2>6. i \in DOMAIN gastos /\ activa \in DOMAIN cuentas
    BY <1>1, <2>2, InvFacts
  <2>. QED BY <2>2, <2>3, <2>4, <2>5, <2>6 DEF Pagan
<1>. QED BY <1>1, <1>2, <1>3, <1>4, <1>5 DEF Contexto

LEMMA InvEliminarGasto ==
  ASSUME Inv, NEW i \in Visibles, eliminarGasto(i)
  PROVE  Inv'
<1>. DEFINE x  == -gastos[i].cantidad
            gs == RemoveAt(gastos, i)
            cs == IF activa = 0 THEN cuentas ELSE Pagado(cuentas, activa, gastos[i].pagador, x)
<1>1. Opera(cs, gs, GuardaGastos(gs) \o GuardaSaldos(cs)) /\ activa' = activa /\ sucesos' = sucesos
  BY DEF eliminarGasto
<1>2. /\ Sano(cuentas, gastos, sucesos) /\ gastos \in Seq(GastoT) /\ cuentas \in Seq(CuentaT)
      /\ i \in 1..Len(gastos) /\ gastos[i] \in GastoT
  BY InvFacts, Visto
<1>3. Sano(cuentas, gs, sucesos)
  BY <1>2, SanoRemove
<1>4. Leads(GuardaGastos(gs), Par(cuentas, gastos), Par(cuentas, gs), sucesos)
  <2>. HIDE DEF gs
  <2>. QED BY <1>2, <1>3, LeadsGastos
<1>5. CASE activa = 0
  <2>1. cs = cuentas /\ GuardaSaldos(cs) = <<>>
    BY <1>5 DEF GuardaSaldos
  <2>2. sucesos = {} => Cuadra(cuentas, gs)
    <3>. SUFFICES ASSUME sucesos = {} PROVE Cuadra(cuentas, gs)
      OBVIOUS
    <3>1. ASSUME NEW c \in CuentaT, NEW m \in DOMAIN c.saldo PROVE Parte(gs, c, m) = Parte(gastos, c, m)
      <4>1. Parte(gastos, c, m) = Gana(gastos[i], c, m) + Parte(gs, c, m)
        BY <1>2, ParteRemove
      <4>2. gs \in Seq(GastoT)
        BY <1>2, RemoveAtOf
      <4>. HIDE DEF gs
      <4>3. Gana(gastos[i], c, m) = 0 /\ Parte(gs, c, m) \in Int
        BY <1>5, <4>2, Visto, GanaPersonal, GananciasOf
      <4>. QED BY <4>1, <4>3
    <3>. HIDE DEF gs
    <3>. QED BY <1>2, <3>1, InvFacts, CuadraIgual
  <2>. HIDE DEF gs, cs
  <2>3. Leads(<<>>, Par(cuentas, gs), Par(cuentas, gs), sucesos)
    BY <1>3, ParSano, LeadsNowhere
  <2>4. Leads(GuardaGastos(gs) \o GuardaSaldos(cs), Par(cuentas, gastos), Par(cs, gs), sucesos')
    BY <1>1, <1>4, <2>1, <2>3, LeadsConcat
  <2>. QED BY <1>1, <2>1, <2>2, <2>4, InvFacts, OperaInv
<1>6. CASE activa # 0
  <2>1. cs = Pagado(cuentas, activa, gastos[i].pagador, x) /\ GuardaSaldos(cs) = GuardaCuentas(cs)
    BY <1>6 DEF GuardaSaldos
  <2>2. Sano(cs, gs, sucesos) /\ Como(cuentas, cs)
    <3>. HIDE DEF gs
    <3>1. /\ activa \in 1..Len(cuentas) /\ gastos[i].pagador \in Personas \cup {Nadie} /\ x \in Int
          /\ sucesos \cap {"repetida", "rotura", "perdida"} = {} => gastos[i].pagador \in DOMAIN cuentas[activa].saldo \cup {Nadie}
      BY <1>6, Visto
    <3>. HIDE DEF x, cs
    <3>. QED BY <1>2, <1>3, <2>1, <3>1, SanoPagado, PagadoComo
  <2>3. sucesos = {} => Cuadra(cs, gs)
    <3>. SUFFICES ASSUME sucesos = {} PROVE Cuadra(cs, gs)
      OBVIOUS
    <3>1. Distintas(cuentas) /\ Cuadra(cuentas, gastos)
      BY InvFacts
    <3>2. /\ activa \in 1..Len(cuentas) /\ gastos[i].cuenta = cuentas[activa].nombre
          /\ gastos[i].pagador \in DOMAIN cuentas[activa].saldo
      BY <1>6, Visto
    <3>3. Cuadra(Pagado(cuentas, activa, gastos[i].pagador, -gastos[i].cantidad), RemoveAt(gastos, i))
      BY <1>2, <3>1, <3>2, CuadraQuita
    <3>. QED BY <1>6, <3>3
  <2>. HIDE DEF gs, cs
  <2>4. Leads(GuardaCuentas(cs), Par(cuentas, gs), Par(cs, gs), sucesos)
    BY <1>3, <2>2, LeadsCuentas
  <2>5. Leads(GuardaGastos(gs) \o GuardaSaldos(cs), Par(cuentas, gastos), Par(cs, gs), sucesos')
    BY <1>1, <1>4, <2>1, <2>4, LeadsConcat
  <2>6. activa' \in 0..Len(cs)
    BY <1>1, <2>2, InvFacts DEF Como
  <2>. QED BY <1>1, <2>3, <2>5, <2>6, OperaInv
<1>. QED BY <1>5, <1>6

LEMMA InvEditarPersonal ==
  ASSUME Inv, NEW x \in Cantidades, NEW i \in Visibles, editarPersonal(i, x)
  PROVE  Inv'
<1>. DEFINE g  == [gastos[i] EXCEPT !.cantidad = x]
            gs == [gastos EXCEPT ![i] = g]
<1>1. Opera(cuentas, gs, GuardaGastos(gs)) /\ activa = 0 /\ activa' = activa /\ sucesos' = sucesos
  BY DEF editarPersonal
<1>2. /\ Sano(cuentas, gastos, sucesos) /\ gastos \in Seq(GastoT) /\ cuentas \in Seq(CuentaT)
      /\ i \in 1..Len(gastos) /\ gastos[i] \in GastoT /\ gastos[i].cuenta = Personal /\ x \in Int
  BY <1>1, InvFacts, Visto, CuentasAssumption
<1>3. g \in GastoT /\ g.cuenta = Personal
  <2>1. g \in GastoT
    BY <1>2 DEF GastoT
  <2>2. g.cuenta = gastos[i].cuenta
    BY <1>2 DEF GastoT
  <2>. QED BY <1>2, <2>1, <2>2
<1>. HIDE DEF g
<1>4. Sano(cuentas, gs, sucesos)
  <2>1. Valido(g, cuentas, gastos)
    BY <1>3 DEF Valido
  <2>. QED BY <1>2, <1>3, <2>1, SanoExcept
<1>5. Cuadra(cuentas, gastos) => Cuadra(cuentas, gs)
  <2>1. \A c \in CuentaT : \A m \in DOMAIN c.saldo : Parte(gs, c, m) = Parte(gastos, c, m)
    <3>. SUFFICES ASSUME NEW c \in CuentaT, NEW m \in DOMAIN c.saldo PROVE Parte(gs, c, m) = Parte(gastos, c, m)
      OBVIOUS
    <3>1. Parte(gs, c, m) = (Parte(gastos, c, m) - Gana(gastos[i], c, m)) + Gana(g, c, m)
      BY <1>2, <1>3, ParteExcept
    <3>2. Gana(g, c, m) = 0 /\ Gana(gastos[i], c, m) = 0 /\ Parte(gastos, c, m) \in Int
      BY <1>2, <1>3, GanaPersonal, GananciasOf
    <3>. HIDE DEF gs
    <3>. QED BY <3>1, <3>2
  <2>. HIDE DEF gs
  <2>. QED BY <1>2, <2>1, CuadraIgual
<1>. HIDE DEF gs
<1>6. Leads(GuardaGastos(gs), Par(cuentas, gastos), Par(cuentas, gs), sucesos')
  BY <1>1, <1>2, <1>4, LeadsGastos
<1>7. activa' \in 0..Len(cuentas) /\ (sucesos' = {} => Cuadra(cuentas, gs))
  BY <1>1, <1>5, InvFacts
<1>. QED BY <1>1, <1>6, <1>7, OperaInv

LEMMA InvEditarCompartido ==
  ASSUME Inv, NEW x \in Cantidades, NEW i \in Visibles, NEW p \in Personas \cup {Nadie}, editarCompartido(i, p, x)
  PROVE  Inv'
<1>. DEFINE o  == gastos[i].pagador
            y  == -gastos[i].cantidad
            q  == IF p = Nadie THEN o ELSE p
            cs == Pagado(cuentas, activa, o, y)
            ds == Pagado(cs, activa, p, x)
            g  == Gasto(gastos[i].cuenta, q, x)
            gs == [gastos EXCEPT ![i] = g]
            ws == IF p = Nadie THEN <<>> ELSE GuardaCuentas(ds)
<1>1. /\ activa # 0 /\ p \in DOMAIN cuentas[activa].saldo \cup {Nadie} /\ activa' = activa
      /\ Opera(ds, gs, GuardaCuentas(cs) \o ws \o GuardaGastos(gs))
      /\ IF p = Nadie THEN Suceso("terminal") ELSE sucesos' = sucesos
  BY DEF editarCompartido, Devuelto
<1>2. /\ Sano(cuentas, gastos, sucesos) /\ gastos \in Seq(GastoT) /\ cuentas \in Seq(CuentaT)
      /\ i \in 1..Len(gastos) /\ gastos[i] \in GastoT /\ o \in Personas \cup {Nadie} /\ y \in Int /\ x \in Int
      /\ activa \in 1..Len(cuentas) /\ cuentas[activa] \in CuentaT /\ gastos[i].cuenta = cuentas[activa].nombre
      /\ sucesos \cap {"repetida", "rotura", "perdida"} = {} => o \in DOMAIN cuentas[activa].saldo \cup {Nadie}
  BY <1>1, InvFacts, Visto, CuentasAssumption
<1>3. sucesos \subseteq sucesos' /\ (p = Nadie => sucesos' # {}) /\ (p # Nadie => sucesos' = sucesos)
  BY <1>1 DEF Suceso
<1>4. sucesos = {} /\ p # Nadie => Cuadra(ds, gs)
  <2>. SUFFICES ASSUME sucesos = {}, p # Nadie PROVE Cuadra(ds, gs)
    OBVIOUS
  <2>1. Distintas(cuentas) /\ Cuadra(cuentas, gastos)
    BY InvFacts
  <2>2. p \in DOMAIN cuentas[activa].saldo /\ gastos[i].pagador \in DOMAIN cuentas[activa].saldo
    BY <1>1, Visto
  <2>3. Cuadra(Pagado(Pagado(cuentas, activa, gastos[i].pagador, -gastos[i].cantidad), activa, p, x),
               [gastos EXCEPT ![i] = Gasto(gastos[i].cuenta, p, x)])
    BY <1>2, <2>1, <2>2, CuadraCambia
  <2>. QED BY <2>3
<1>5. g \in GastoT /\ g.cuenta = gastos[i].cuenta /\ g.pagador = q
  <2>1. gastos[i].cuenta \in Nombres \cup {Personal} /\ q \in Personas \cup {Nadie}
    BY <1>2 DEF GastoT
  <2>. HIDE DEF q
  <2>. QED BY <1>2, <2>1 DEF GastoT, Gasto
<1>. HIDE DEF y, g
<1>6. Sano(cs, gastos, sucesos) /\ Como(cuentas, cs)
  BY <1>2, SanoPagado, PagadoComo
<1>. HIDE DEF cs
<1>7. /\ cs \in Seq(CuentaT) /\ activa \in 1..Len(cs) /\ Len(cs) = Len(cuentas)
      /\ cs[activa].nombre = cuentas[activa].nombre /\ DOMAIN cs[activa].saldo = DOMAIN cuentas[activa].saldo
  BY <1>2, <1>6 DEF Como
<1>8. Sano(ds, gastos, sucesos) /\ Como(cs, ds)
  BY <1>1, <1>2, <1>6, <1>7, SanoPagado, PagadoComo
<1>9. p = Nadie => ds = cs
  BY <1>7 DEF Pagado, Balance
<1>. HIDE DEF ds
<1>10. Sano(ds, gs, sucesos)
  <2>1. Valido(g, ds, gastos)
    <3>1. i \in DOMAIN gastos
      BY InvFacts, Visto
    <3>2. activa \in DOMAIN ds /\ ds[activa].nombre = cuentas[activa].nombre
          /\ DOMAIN ds[activa].saldo = DOMAIN cuentas[activa].saldo
      <4>1. ds \in Seq(CuentaT) /\ Len(ds) = Len(cs)
        BY <1>8 DEF Como
      <4>. QED BY <1>7, <1>8, <4>1, LenProperties DEF Como
    <3>3. CASE p = Nadie
      BY <1>5, <3>1, <3>3 DEF Valido
    <3>4. CASE p # Nadie
      BY <1>1, <1>2, <1>5, <3>2, <3>4 DEF Valido
    <3>. QED BY <3>3, <3>4
  <2>. QED BY <1>2, <1>5, <1>8, <2>1, SanoExcept
<1>. HIDE DEF gs
<1>11. Leads(ws, Par(cs, gastos), Par(ds, gastos), sucesos)
  <2>1. CASE p = Nadie
    <3>1. Leads(<<>>, Par(cs, gastos), Par(cs, gastos), sucesos)
      BY <1>6, ParSano, LeadsNowhere
    <3>. QED BY <1>9, <2>1, <3>1
  <2>2. CASE p # Nadie
    <3>1. Leads(GuardaCuentas(ds), Par(cs, gastos), Par(ds, gastos), sucesos)
      BY <1>6, <1>8, LeadsCuentas
    <3>. QED BY <2>2, <3>1
  <2>. QED BY <2>1, <2>2
<1>. HIDE DEF ws
<1>12. Leads(GuardaCuentas(cs) \o ws \o GuardaGastos(gs), Par(cuentas, gastos), Par(ds, gs), sucesos')
  <2>1. Leads(GuardaCuentas(cs), Par(cuentas, gastos), Par(cs, gastos), sucesos)
    BY <1>2, <1>6, LeadsCuentas
  <2>2. Leads(GuardaCuentas(cs) \o ws, Par(cuentas, gastos), Par(ds, gastos), sucesos)
    BY <1>11, <2>1, LeadsConcat
  <2>3. Leads(GuardaGastos(gs), Par(ds, gastos), Par(ds, gs), sucesos)
    BY <1>8, <1>10, LeadsGastos
  <2>4. Leads(GuardaCuentas(cs) \o ws \o GuardaGastos(gs), Par(cuentas, gastos), Par(ds, gs), sucesos)
    BY <2>2, <2>3, LeadsConcat
  <2>. QED BY <1>3, <2>4, LeadsMore
<1>13. activa' \in 0..Len(ds)
  BY <1>1, <1>7, <1>8, InvFacts DEF Como
<1>. QED BY <1>1, <1>3, <1>4, <1>12, <1>13, OperaInv

\* An account is added; unless its name was in use, nothing of it was there.
LEMMA Nueva ==
  ASSUME Inv, NEW n \in Nombres, NEW f \in Repartos \cup {<<>>}, NEW S, sucesos \subseteq S,
         "repetida" \in S \/ \A k \in DOMAIN cuentas : cuentas[k].nombre # n
  PROVE  LET cs == Append(cuentas, NuevaCuenta(n, f))
         IN  /\ Sano(cs, gastos, S) /\ Len(cs) = Len(cuentas) + 1
             /\ S = {} => Cuadra(cs, gastos)
<1>. DEFINE c  == NuevaCuenta(n, f)
            cs == Append(cuentas, c)
            l  == Len(cuentas)
<1>1. /\ Sano(cuentas, gastos, sucesos) /\ cuentas \in Seq(CuentaT) /\ gastos \in Seq(GastoT) /\ l \in Nat
      /\ DOMAIN cuentas = 1..l /\ DOMAIN gastos = 1..Len(gastos)
  BY InvFacts
<1>2. c.nombre = n /\ c.porcentaje = f /\ c.saldo = [p \in DOMAIN f |-> 0]
  BY DEF NuevaCuenta
<1>3. c \in CuentaT
  <2>1. c.saldo \in [DOMAIN f -> Int] /\ c = [nombre |-> c.nombre, porcentaje |-> c.porcentaje, saldo |-> c.saldo]
    BY DEF NuevaCuenta
  <2>. HIDE DEF c
  <2>. QED BY <1>2, <2>1 DEF CuentaT
<1>. HIDE DEF c
<1>4. cs \in Seq(CuentaT) /\ Len(cs) = l + 1 /\ cs[l + 1] = c /\ \A k \in 1..l : cs[k] = cuentas[k]
  BY <1>1, <1>3, AppendProperties
<1>. HIDE DEF cs
<1>5. DOMAIN cs = 1..(l + 1)
  BY <1>4, LenProperties
<1>. HIDE DEF l
<1>6. ConCuenta(cuentas, gastos) => ConCuenta(cs, gastos)
  <2>1. {cuentas[k].nombre : k \in DOMAIN cuentas} \subseteq {cs[k].nombre : k \in DOMAIN cs}
    <3>1. \A k \in DOMAIN cuentas : k \in DOMAIN cs /\ cs[k] = cuentas[k]
      BY <1>1, <1>4, <1>5
    <3>. QED BY <3>1
  <2>. QED BY <2>1 DEF ConCuenta
<1>7. ASSUME S \cap {"repetida", "rotura", "perdida"} = {}
      PROVE  /\ Distintas(cs) /\ Pagan(cs, gastos) /\ Cero(cs) /\ \A i \in 1..Len(gastos) : gastos[i].cuenta # n
  <2>1. /\ ConCuenta(cuentas, gastos) /\ Distintas(cuentas) /\ Pagan(cuentas, gastos) /\ Cero(cuentas)
        /\ \A k \in DOMAIN cuentas : cuentas[k].nombre # n
    BY <1>1, <1>7 DEF Sano
  <2>2. \A i \in 1..Len(gastos) : gastos[i].cuenta # n
    BY <1>1, <2>1, CuentasAssumption DEF ConCuenta
  <2>3. \A k \in 1..(l + 1) : k = l + 1 \/ k \in 1..l
    BY <1>1
  <2>4. Distintas(cs)
    <3>. SUFFICES ASSUME NEW j \in 1..(l + 1), NEW k \in 1..(l + 1), cs[j].nombre = cs[k].nombre PROVE j = k
      BY <1>5 DEF Distintas
    <3>1. CASE j \in 1..l /\ k \in 1..l
      BY <1>1, <1>4, <2>1, <3>1 DEF Distintas
    <3>2. CASE j = l + 1 \/ k = l + 1
      BY <1>1, <1>2, <1>4, <2>1, <2>3, <3>2
    <3>. QED BY <2>3, <3>1, <3>2
  <2>5. Pagan(cs, gastos)
    <3>. SUFFICES ASSUME NEW i \in 1..Len(gastos), NEW k \in 1..(l + 1), gastos[i].cuenta = cs[k].nombre
                  PROVE  gastos[i].pagador \in DOMAIN cs[k].saldo
      BY <1>1, <1>5 DEF Pagan
    <3>1. k # l + 1
      BY <1>2, <1>4, <2>2
    <3>. QED BY <1>1, <1>4, <2>1, <2>3, <3>1 DEF Pagan
  <2>6. Cero(cs)
    <3>1. SumFunction(c.saldo) = 0
      <4>1. IsFiniteSet(DOMAIN c.saldo) /\ \A p \in DOMAIN c.saldo : c.saldo[p] = 0
        BY <1>2, <1>3, CuentaFields
      <4>2. Total(c.saldo, DOMAIN c.saldo) = 0
        BY <4>1, TotalZero
      <4>. QED BY <4>2 DEF Total, SumFunction
    <3>. QED BY <1>1, <1>4, <1>5, <2>1, <2>3, <3>1 DEF Cero
  <2>. QED BY <2>2, <2>4, <2>5, <2>6
<1>8. ASSUME S = {} PROVE Cuadra(cs, gastos)
  <2>1. Cuadra(cuentas, gastos) /\ \A i \in 1..Len(gastos) : gastos[i].cuenta # n
    BY <1>7, <1>8, InvFacts
  <2>. SUFFICES ASSUME NEW k \in 1..(l + 1), NEW m \in DOMAIN cs[k].saldo PROVE cs[k].saldo[m] = Parte(gastos, cs[k], m)
    BY <1>4 DEF Cuadra
  <2>2. CASE k \in 1..l
    BY <1>4, <2>1, <2>2 DEF Cuadra, l
  <2>3. CASE k = l + 1
    <3>1. cs[k] = c /\ m \in DOMAIN c.saldo
      BY <1>4, <2>3
    <3>2. Parte(gastos, c, m) = 0
      BY <1>1, <1>2, <1>3, <2>1, <3>1, ParteNone
    <3>3. c.saldo[m] = 0
      BY <1>2, <3>1
    <3>. QED BY <3>1, <3>2, <3>3
  <2>. QED BY <1>1, <2>2, <2>3
<1>9. Sano(cs, gastos, S)
  BY <1>1, <1>4, <1>6, <1>7 DEF Sano
<1>. QED BY <1>4, <1>8, <1>9 DEF cs, c, l

LEMMA InvCrearCompartida ==
  ASSUME Inv, NEW n \in Nombres, NEW f \in Repartos, crearCompartida(n, f)
  PROVE  Inv'
<1>. DEFINE cs == Append(cuentas, NuevaCuenta(n, f))
<1>1. /\ Opera(cs, gastos, GuardaCuentas(cs) \o GuardaCuentas(cs)) /\ activa' = activa
      /\ sucesos \subseteq sucesos' /\ ("repetida" \in sucesos' \/ \A k \in DOMAIN cuentas : cuentas[k].nombre # n)
  BY DEF crearCompartida, Suceso
<1>2. /\ Sano(cs, gastos, sucesos') /\ Len(cs) = Len(cuentas) + 1
      /\ sucesos' = {} => Cuadra(cs, gastos)
  BY <1>1, Nueva
<1>. HIDE DEF cs
<1>3. Sano(cuentas, gastos, sucesos')
  <2>1. Par(cuentas, gastos) \in Sanos(sucesos)
    BY InvFacts, ParSano
  <2>2. Par(cuentas, gastos) \in Sanos(sucesos')
    BY <1>1, <2>1, SanoMore
  <2>. QED BY <2>2, SanoPar, ParFields
<1>4. Leads(GuardaCuentas(cs) \o GuardaCuentas(cs), Par(cuentas, gastos), Par(cs, gastos), sucesos')
  <2>1. Leads(GuardaCuentas(cs), Par(cuentas, gastos), Par(cs, gastos), sucesos')
    BY <1>2, <1>3, LeadsCuentas
  <2>2. Leads(GuardaCuentas(cs), Par(cs, gastos), Par(cs, gastos), sucesos')
    BY <1>2, LeadsCuentas
  <2>. QED BY <2>1, <2>2, LeadsConcat
<1>5. activa' \in 0..Len(cs)
  BY <1>1, <1>2, InvFacts
<1>. QED BY <1>1, <1>2, <1>4, <1>5, OperaInv

LEMMA InvImportarNueva ==
  ASSUME Inv, NEW n \in Nombres, NEW lineas \in Lineas, importarNueva(n, lineas)
  PROVE  Inv'
<1>. DEFINE cs == Append(cuentas, NuevaCuenta(n, <<>>))
<1>1. /\ Opera(cs, gastos, GuardaCuentas(cs)) /\ activa' = activa /\ sucesos' = sucesos
      /\ \A k \in DOMAIN cuentas : cuentas[k].nombre # n
  BY DEF importarNueva
<1>2. /\ Sano(cs, gastos, sucesos) /\ Len(cs) = Len(cuentas) + 1
      /\ sucesos = {} => Cuadra(cs, gastos)
  BY <1>1, Nueva
<1>. HIDE DEF cs
<1>3. Leads(GuardaCuentas(cs), Par(cuentas, gastos), Par(cs, gastos), sucesos')
  BY <1>1, <1>2, InvFacts, LeadsCuentas
<1>4. activa' \in 0..Len(cs)
  BY <1>1, <1>2, InvFacts
<1>. QED BY <1>1, <1>2, <1>3, <1>4, OperaInv

LEMMA InvEliminarCompartida ==
  ASSUME Inv, NEW k \in DOMAIN cuentas, eliminarCompartida(k)
  PROVE  Inv'
<1>. DEFINE n  == cuentas[k].nombre
            i  == Primera(n)
            ts == SinGastosDe(n).todo
            gs == SinGastosDe(n).gs
            cs == RemoveAt(cuentas, i)
            l  == Len(cuentas)
<1>1. /\ Opera(cs, gs, PrimeroGastos(ts, cs) \o GuardaCuentas(cs) \o GuardaGastos(gs))
      /\ activa' = ActivaTras(n, i) /\ sucesos' = sucesos
  BY DEF eliminarCompartida
<1>2. /\ Sano(cuentas, gastos, sucesos) /\ cuentas \in Seq(CuentaT) /\ gastos \in Seq(GastoT) /\ l \in Nat
      /\ DOMAIN cuentas = 1..l /\ DOMAIN gastos = 1..Len(gastos) /\ activa \in 0..l
  BY InvFacts
<1>3. i \in 1..l /\ cuentas[i].nombre = n
  BY <1>2, PrimeraOf
<1>4. /\ gs \in Seq(GastoT) /\ \A j \in 1..Len(gs) : gs[j].cuenta # n
      /\ \A j \in 1..Len(gs) : \E h \in 1..Len(gastos) : gs[j] = gastos[h]
      /\ Leads(ts, Par(cuentas, gastos), Par(cuentas, gs), sucesos)
      /\ \A c \in CuentaT : c.nombre # n =>
           \A m \in DOMAIN c.saldo : Parte(gs, c, m) = Parte(gastos, c, m)
  BY <1>2, SinGastosOf
<1>5. /\ cs \in Seq(CuentaT) /\ Len(cs) = l - 1
      /\ \A j \in 1..(l - 1) : cs[j] = IF j < i THEN cuentas[j] ELSE cuentas[j + 1]
  BY <1>2, <1>3, RemoveAtOf
<1>6. activa' \in 0..Len(cs)
  <2>1. CASE Contexto = n
    <3>1. activa' = 0
      BY <1>1, <2>1 DEF ActivaTras
    <3>. HIDE DEF i, l, cs, n
    <3>. QED BY <1>2, <1>3, <1>5, <3>1
  <2>2. CASE Contexto # n
    <3>1. activa' = IF activa > i THEN activa - 1 ELSE activa
      BY <1>1, <2>2 DEF ActivaTras
    <3>2. activa # i
      BY <1>2, <1>3, <2>2 DEF Contexto
    <3>. HIDE DEF i, l, cs, n
    <3>. QED BY <1>2, <1>3, <1>5, <3>1, <3>2
  <2>. QED BY <2>1, <2>2
<1>. HIDE DEF ts, gs, cs, i, n, l
<1>7. DOMAIN cs = 1..(l - 1) /\ DOMAIN gs = 1..Len(gs)
  BY <1>4, <1>5, LenProperties
<1>. DEFINE De(j) == IF j < i THEN j ELSE j + 1
<1>8. \A j \in 1..(l - 1) : De(j) \in 1..l /\ De(j) # i /\ cs[j] = cuentas[De(j)]
  BY <1>2, <1>3, <1>5
<1>9. \A j, h \in 1..(l - 1) : De(j) = De(h) => j = h
  BY <1>2, <1>3
<1>10. \A h \in 1..l : h = i \/ \E j \in 1..(l - 1) : De(j) = h
  <2>. TAKE h \in 1..l
  <2>1. CASE h < i
    <3>1. h \in 1..(l - 1) /\ De(h) = h
      BY <1>2, <1>3, <2>1
    <3>. QED BY <3>1
  <2>2. CASE h > i
    <3>1. h - 1 \in 1..(l - 1) /\ De(h - 1) = h
      BY <1>2, <1>3, <2>2
    <3>. QED BY <3>1
  <2>. QED BY <1>2, <1>3, <2>1, <2>2
<1>. HIDE DEF De
<1>11. sucesos \cap {"rotura", "perdida"} = {} => ConCuenta(cs, gs)
  <2>. SUFFICES ASSUME sucesos \cap {"rotura", "perdida"} = {}, NEW j \in 1..Len(gs)
                PROVE  gs[j].cuenta \in {cs[h].nombre : h \in DOMAIN cs} \cup {Personal}
    BY <1>7 DEF ConCuenta
  <2>1. gs[j].cuenta \in {cuentas[h].nombre : h \in DOMAIN cuentas} \cup {Personal}
    BY <1>2, <1>4 DEF Sano, ConCuenta
  <2>2. ASSUME NEW h \in 1..l, gs[j].cuenta = cuentas[h].nombre
        PROVE  \E e \in DOMAIN cs : gs[j].cuenta = cs[e].nombre
    <3>1. h # i
      BY <1>3, <1>4, <2>2
    <3>. QED BY <1>7, <1>8, <1>10, <2>2, <3>1
  <2>. QED BY <1>2, <2>1, <2>2
<1>12. ASSUME sucesos \cap {"repetida", "rotura", "perdida"} = {}
       PROVE  /\ Distintas(cs) /\ Pagan(cs, gs) /\ Cero(cs)
              /\ \A j \in 1..(l - 1) : cs[j].nombre # n
  <2>1. Distintas(cuentas) /\ Pagan(cuentas, gastos) /\ Cero(cuentas)
    BY <1>2, <1>12 DEF Sano
  <2>2. Distintas(cs)
    BY <1>2, <1>7, <1>8, <1>9, <2>1 DEF Distintas
  <2>3. Pagan(cs, gs)
    <3>. SUFFICES ASSUME NEW j \in 1..Len(gs), NEW e \in 1..(l - 1), gs[j].cuenta = cs[e].nombre
                  PROVE  gs[j].pagador \in DOMAIN cs[e].saldo
      BY <1>7 DEF Pagan
    <3>1. PICK h \in DOMAIN gastos : gs[j] = gastos[h]
      BY <1>2, <1>4
    <3>2. De(e) \in DOMAIN cuentas /\ cs[e] = cuentas[De(e)]
      BY <1>2, <1>8
    <3>. QED BY <2>1, <3>1, <3>2 DEF Pagan
  <2>4. Cero(cs)
    BY <1>2, <1>7, <1>8, <2>1 DEF Cero
  <2>5. \A j \in 1..(l - 1) : cs[j].nombre # n
    BY <1>2, <1>3, <1>8, <2>1 DEF Distintas
  <2>. QED BY <2>2, <2>3, <2>4, <2>5
<1>13. Sano(cs, gs, sucesos)
  BY <1>4, <1>5, <1>11, <1>12 DEF Sano
<1>14. sucesos' = {} => Cuadra(cs, gs)
  <2>. SUFFICES ASSUME sucesos = {}, NEW j \in 1..(l - 1), NEW m \in DOMAIN cs[j].saldo
                PROVE  cs[j].saldo[m] = Parte(gs, cs[j], m)
    BY <1>1, <1>5 DEF Cuadra
  <2>1. cs[j].nombre # n
    BY <1>12
  <2>2. cs[j] \in CuentaT
    BY <1>5, ElementOfSeq
  <2>3. Parte(gs, cs[j], m) = Parte(gastos, cs[j], m)
    BY <1>4, <2>1, <2>2
  <2>4. cs[j].saldo[m] = Parte(gastos, cs[j], m)
    <3>1. Cuadra(cuentas, gastos)
      BY InvFacts
    <3>. QED BY <1>8, <3>1 DEF Cuadra, l
  <2>. QED BY <2>3, <2>4
<1>15. Leads(PrimeroGastos(ts, cs) \o GuardaCuentas(cs) \o GuardaGastos(gs), Par(cuentas, gastos), Par(cs, gs), sucesos')
  <2>1. Sano(cuentas, gs, sucesos)
    <3>1. Par(cuentas, gs) \in Sanos(sucesos)
      BY <1>4, LeadsEnds
    <3>. QED BY <3>1, SanoPar, ParFields
  <2>2. Leads(GuardaCuentas(cs), Par(cuentas, gs), Par(cs, gs), sucesos)
    BY <1>13, <2>1, LeadsCuentas
  <2>3. Leads(GuardaCuentas(cs), Par(cs, gs), Par(cs, gs), sucesos)
    BY <1>13, LeadsCuentas
  <2>4. Leads(GuardaGastos(gs), Par(cs, gs), Par(cs, gs), sucesos)
    BY <1>13, LeadsGastos
  <2>5. Leads(PrimeroGastos(ts, cs), Par(cuentas, gastos), Par(cs, gs), sucesos)
    BY <1>4, <2>2, LeadsConcat DEF PrimeroGastos
  <2>6. Leads(PrimeroGastos(ts, cs) \o GuardaCuentas(cs), Par(cuentas, gastos), Par(cs, gs), sucesos)
    BY <2>3, <2>5, LeadsConcat
  <2>. QED BY <1>1, <2>4, <2>6, LeadsConcat
<1>. QED BY <1>1, <1>6, <1>14, <1>15, OperaInv

LEMMA InvImportarPersonales ==
  ASSUME Inv, NEW lineas \in Lineas, importarPersonales(lineas)
  PROVE  Inv'
<1>. DEFINE n == Len(lineas)
            t(j) == [h \in 1..j |-> Gasto(Personal, Nadie, lineas[h].cantidad)]
            Con(j) == gastos \o t(j)
            w == [j \in DOMAIN lineas |-> [fichero |-> "gastos", lista |-> Con(j)]]
            D == [j \in 0..n |-> Par(cuentas, Con(j))]
<1>1. Opera(cuentas, Con(n), w) /\ activa' = activa /\ sucesos' = sucesos
  BY DEF importarPersonales
<1>2. /\ Sano(cuentas, gastos, sucesos) /\ gastos \in Seq(GastoT) /\ cuentas \in Seq(CuentaT)
      /\ Len(gastos) \in Nat /\ DOMAIN gastos = 1..Len(gastos)
  BY InvFacts
<1>3. n \in Nat /\ DOMAIN lineas = 1..n /\ \A h \in 1..n : lineas[h].cantidad \in Int
  BY CuentasAssumption DEF Lineas, BoundedSeq, SeqOf
<1>4. ASSUME NEW j \in 0..n
      PROVE  /\ t(j) \in Seq(GastoT) /\ Len(t(j)) = j
             /\ \A h \in 1..j : t(j)[h].cuenta = Personal
  <2>1. \A h \in 1..j : Gasto(Personal, Nadie, lineas[h].cantidad) \in GastoT
    BY <1>3 DEF Gasto, GastoT
  <2>2. t(j) \in Seq(GastoT) /\ Len(t(j)) = j
    BY <1>3, <2>1
  <2>3. \A h \in 1..j : t(j)[h].cuenta = Personal
    BY DEF Gasto
  <2>. QED BY <2>2, <2>3
<1>. HIDE DEF t, n
<1>5. ASSUME NEW j \in 0..n
      PROVE  Con(j) \in Seq(GastoT) /\ Sano(cuentas, Con(j), sucesos)
  <2>1. /\ Con(j) \in Seq(GastoT) /\ Len(Con(j)) = Len(gastos) + j
        /\ \A i \in 1..(Len(gastos) + j) : Con(j)[i] = IF i <= Len(gastos) THEN gastos[i] ELSE t(j)[i - Len(gastos)]
    <3>. DEFINE u == t(j)
    <3>1. u \in Seq(GastoT) /\ Len(u) = j
      BY <1>4
    <3>. HIDE DEF u
    <3>2. /\ gastos \o u \in Seq(GastoT) /\ Len(gastos \o u) = Len(gastos) + Len(u)
          /\ \A i \in 1..(Len(gastos) + Len(u)) : (gastos \o u)[i] = IF i <= Len(gastos) THEN gastos[i] ELSE u[i - Len(gastos)]
      BY <1>2, <3>1, ConcatProperties
    <3>3. Con(j) = gastos \o u
      BY DEF u
    <3>. HIDE DEF Con
    <3>. QED BY <3>1, <3>2, <3>3 DEF u
  <2>. HIDE DEF Con
  <2>2. ASSUME NEW i \in 1..Len(Con(j)) PROVE Valido(Con(j)[i], cuentas, gastos)
    <3>1. CASE i <= Len(gastos)
      <4>1. i \in DOMAIN gastos /\ Con(j)[i] = gastos[i]
        BY <1>2, <2>1, <3>1
      <4>. QED BY <4>1 DEF Valido
    <3>2. CASE ~(i <= Len(gastos))
      <4>1. i - Len(gastos) \in 1..j /\ Con(j)[i] = t(j)[i - Len(gastos)]
        BY <1>2, <1>3, <2>1, <3>2
      <4>. QED BY <1>4, <4>1 DEF Valido
    <3>. QED BY <3>1, <3>2
  <2>. QED BY <1>2, <2>1, <2>2, SanoGastos
<1>6. Con(0) = gastos
  <2>1. t(0) = <<>>
    <3>1. t(0) \in Seq(GastoT) /\ Len(t(0)) = 0
      BY <1>3, <1>4
    <3>. QED BY <3>1, EmptySeq
  <2>2. gastos \o <<>> = gastos
    BY <1>2, ConcatEmptySeq
  <2>. QED BY <2>1, <2>2
<1>7. sucesos' = {} => Cuadra(cuentas, Con(n))
  <2>. SUFFICES ASSUME sucesos = {} PROVE Cuadra(cuentas, Con(n))
    BY <1>1
  <2>1. \A c \in CuentaT : \A m \in DOMAIN c.saldo : Parte(Con(n), c, m) = Parte(gastos, c, m)
    <3>. TAKE c \in CuentaT
    <3>. TAKE m \in DOMAIN c.saldo
    <3>1. n \in 0..n
      BY <1>3
    <3>2. t(n) \in Seq(GastoT) /\ \A h \in 1..Len(t(n)) : t(n)[h].cuenta # c.nombre
      BY <1>4, <3>1, CuentaFields
    <3>. QED BY <1>2, <3>2, ParteConcat
  <2>. HIDE DEF Con
  <2>. QED BY <1>2, <2>1, InvFacts, CuadraIgual
<1>. HIDE DEF Con
<1>8. ASSUME NEW j \in 1..n PROVE w[j] \in Escrituras /\ Escrito(D[j - 1], w[j]) = D[j]
  <2>1. j \in 0..n /\ j - 1 \in 0..n /\ j \in DOMAIN lineas
    BY <1>3
  <2>2. w[j] = [fichero |-> "gastos", lista |-> Con(j)]
    BY <2>1
  <2>3. D[j] = Par(cuentas, Con(j)) /\ D[j - 1] = Par(cuentas, Con(j - 1))
    BY <2>1
  <2>. HIDE DEF w, D
  <2>4. Con(j) \in Seq(GastoT)
    BY <1>5, <2>1
  <2>. QED BY <2>2, <2>3, <2>4 DEF Escrituras, Escrito, Par
<1>9. w \in Seq(Escrituras) /\ Len(w) = n
  <2>1. DOMAIN w = 1..n /\ w = [j \in 1..n |-> w[j]]
    BY <1>3
  <2>2. \A j \in 1..n : w[j] \in Escrituras
    BY <1>8
  <2>. HIDE DEF w, D
  <2>3. w \in [1..n -> Escrituras]
    BY <2>1, <2>2
  <2>. QED BY <1>3, <2>3
<1>10. D[0] = Par(cuentas, gastos) /\ D[n] = Par(cuentas, Con(n)) /\ \A j \in 0..n : D[j] \in Sanos(sucesos)
  BY <1>3, <1>5, <1>6, ParSano
<1>. HIDE DEF w, D
<1>11. Leads(w, Par(cuentas, gastos), Par(cuentas, Con(n)), sucesos')
  BY <1>1, <1>8, <1>9, <1>10 DEF Leads
<1>12. activa' \in 0..Len(cuentas)
  BY <1>1, InvFacts
<1>. QED BY <1>1, <1>7, <1>11, <1>12, OperaInv

LEMMA InvImportarExistente ==
  ASSUME Inv, NEW n \in Nombres, NEW lineas \in Lineas, importarExistente(n, lineas)
  PROVE  Inv'
<1>. DEFINE k == Primera(n)
            s == Importadas(lineas, k)
            ws == IF s.error THEN <<>> ELSE GuardaCuentas(s.cs)
<1>1. Opera(s.cs, s.gs, s.todo \o ws) /\ k # 0 /\ activa' = activa /\ sucesos' = sucesos
  BY DEF importarExistente
<1>2. Sano(cuentas, gastos, sucesos) /\ k \in 1..Len(cuentas)
  BY <1>1, InvFacts, PrimeraOf
<1>3. Importando(s, k, sucesos)
  BY <1>2, ImportadasOf
<1>. HIDE DEF s
<1>4. /\ Como(cuentas, s.cs) /\ Leads(s.todo, Par(cuentas, gastos), Par(s.cs, s.gs), sucesos)
      /\ sucesos = {} => Cuadra(s.cs, s.gs)
  BY <1>3, InvFacts DEF Importando
<1>5. Sano(s.cs, s.gs, sucesos)
  <2>1. Par(s.cs, s.gs) \in Sanos(sucesos)
    BY <1>4, LeadsEnds
  <2>. QED BY <2>1, SanoPar, ParFields
<1>6. Leads(ws, Par(s.cs, s.gs), Par(s.cs, s.gs), sucesos)
  <2>1. CASE s.error
    BY <1>5, <2>1, ParSano, LeadsNowhere
  <2>2. CASE ~s.error
    BY <1>5, <2>2, LeadsCuentas
  <2>. QED BY <2>1, <2>2
<1>. HIDE DEF ws
<1>7. Leads(s.todo \o ws, Par(cuentas, gastos), Par(s.cs, s.gs), sucesos')
  BY <1>1, <1>4, <1>6, LeadsConcat
<1>8. activa' \in 0..Len(s.cs)
  BY <1>1, <1>4, InvFacts DEF Como
<1>. QED BY <1>1, <1>4, <1>7, <1>8, OperaInv

LEMMA InvEntrar ==
  ASSUME Inv, NEW k \in 0..Len(cuentas), entrar(k)
  PROVE  Inv'
BY DEF Inv, Seria, entrar

\* The next write is of a file, and the disk is sound after it.
LEMMA EscribirOf ==
  ASSUME Inv, todo # <<>>
  PROVE  /\ Head(todo) \in Escrituras /\ Head(todo).fichero \in Ficheros
         /\ \E d : /\ d \in Sanos(sucesos) /\ Escrito(d, Head(todo)) \in DiscoT
                   /\ Leads(Tail(todo), Escrito(d, Head(todo)), Par(cuentas, gastos), sucesos)
                   /\ \A f \in Ficheros \ viejos : disco[f] = d[f]
<1>1. PICK d : Leads(todo, d, Par(cuentas, gastos), sucesos) /\ \A f \in Ficheros \ viejos : disco[f] = d[f]
  BY DEF Inv, Seria
<1>2. Head(todo) \in Escrituras /\ Leads(Tail(todo), Escrito(d, Head(todo)), Par(cuentas, gastos), sucesos)
  BY <1>1, LeadsTail
<1>3. d \in Sanos(sucesos) /\ Escrito(d, Head(todo)) \in Sanos(sucesos)
  BY <1>1, <1>2, LeadsEnds
<1>4. Head(todo).fichero \in Ficheros
  BY <1>2 DEF Escrituras, Ficheros
<1>5. Escrito(d, Head(todo)) \in DiscoT
  BY <1>3 DEF Sanos
<1>. QED BY <1>1, <1>2, <1>3, <1>4, <1>5

\* A write changes its own file, and no other.
LEMMA EscritoOf ==
  ASSUME NEW d \in DiscoT, NEW w \in Escrituras
  PROVE  /\ Escrito(d, w)[w.fichero] = w.lista
         /\ \A f \in Ficheros \ {w.fichero} : Escrito(d, w)[f] = d[f]
         /\ Escrito(d, w) \in DiscoT
<1>1. DOMAIN d = Ficheros /\ w.fichero \in Ficheros
  BY DEF DiscoT, Escrituras, Ficheros
<1>2. Escrito(d, w)[w.fichero] = w.lista /\ \A f \in Ficheros \ {w.fichero} : Escrito(d, w)[f] = d[f]
  BY <1>1 DEF Escrito
<1>3. Escrito(d, w) \in DiscoT
  BY DEF DiscoT, Escrituras, Escrito
<1>. QED BY <1>2, <1>3

LEMMA InvEscribir ==
  ASSUME Inv, Escribir
  PROVE  Inv'
<1>. DEFINE w == Head(todo)
<1>1. /\ todo # <<>> /\ todo' = Tail(todo) /\ disco' = Escrito(disco, w) /\ viejos' = viejos \ {w.fichero}
      /\ cuentas' = cuentas /\ gastos' = gastos /\ sucesos' = sucesos /\ activa' = activa
  BY DEF Escribir, Escrito
<1>2. PICK d : /\ d \in Sanos(sucesos) /\ Leads(Tail(todo), Escrito(d, w), Par(cuentas, gastos), sucesos)
               /\ \A f \in Ficheros \ viejos : disco[f] = d[f]
  BY <1>1, EscribirOf
<1>3. w \in Escrituras /\ disco \in DiscoT /\ d \in DiscoT /\ viejos \subseteq Ficheros
  BY <1>1, <1>2, EscribirOf DEF Inv, Sanos
<1>. HIDE DEF w
<1>4. disco' \in DiscoT /\ viejos' \subseteq Ficheros
  BY <1>1, <1>3, EscritoOf
<1>5. ASSUME NEW f \in Ficheros \ viejos' PROVE disco'[f] = Escrito(d, w)[f]
  <2>1. CASE f = w.fichero
    BY <1>1, <1>3, <2>1, EscritoOf
  <2>2. CASE f # w.fichero
    <3>1. f \in Ficheros \ viejos /\ f \in Ficheros \ {w.fichero}
      BY <1>1, <1>5, <2>2
    <3>. QED BY <1>1, <1>2, <1>3, <3>1, EscritoOf
  <2>. QED BY <2>1, <2>2
<1>6. \E e : Seria(e)'
  <2>. DEFINE e == Escrito(d, w)
  <2>1. Leads(todo', e, Par(cuentas', gastos'), sucesos') /\ \A f \in Ficheros \ viejos' : disco'[f] = e[f]
    BY <1>1, <1>2, <1>5
  <2>. HIDE DEF e
  <2>. QED BY <2>1 DEF Seria
<1>. QED BY <1>1, <1>4, <1>6 DEF Inv

\* What is left of the file does not matter, as it is out of date.
LEMMA InvFallo ==
  ASSUME Inv, Fallo
  PROVE  Inv'
<1>. DEFINE w == Head(todo)
            v == [fichero |-> w.fichero, lista |-> <<>>]
<1>1. /\ todo # <<>> /\ todo' = Tail(todo) /\ viejos' = viejos \cup {w.fichero}
      /\ disco' = disco \/ disco' = Escrito(disco, v)
      /\ cuentas' = cuentas /\ gastos' = gastos /\ sucesos' = sucesos /\ activa' = activa
  BY DEF Fallo, Escrito
<1>2. PICK d : /\ d \in Sanos(sucesos) /\ Leads(Tail(todo), Escrito(d, w), Par(cuentas, gastos), sucesos)
               /\ \A f \in Ficheros \ viejos : disco[f] = d[f]
  BY <1>1, EscribirOf
<1>3. w \in Escrituras /\ disco \in DiscoT /\ d \in DiscoT /\ viejos \subseteq Ficheros /\ w.fichero \in Ficheros
  BY <1>1, <1>2, EscribirOf DEF Inv, Sanos
<1>4. v \in Escrituras /\ v.fichero = w.fichero
  <2>1. <<>> \in Seq(CuentaT) /\ <<>> \in Seq(GastoT)
    OBVIOUS
  <2>. QED BY <1>3, <2>1 DEF Escrituras, Ficheros
<1>. HIDE DEF w, v
<1>5. disco' \in DiscoT /\ viejos' \subseteq Ficheros
  BY <1>1, <1>3, <1>4, EscritoOf
<1>6. ASSUME NEW f \in Ficheros \ viejos' PROVE disco'[f] = Escrito(d, w)[f]
  <2>1. f \in Ficheros \ viejos /\ f \in Ficheros \ {w.fichero}
    BY <1>1, <1>6
  <2>2. disco'[f] = disco[f]
    BY <1>1, <1>3, <1>4, <2>1, EscritoOf
  <2>. QED BY <1>2, <1>3, <2>1, <2>2, EscritoOf
<1>7. \E e : Seria(e)'
  <2>. DEFINE e == Escrito(d, w)
  <2>1. Leads(todo', e, Par(cuentas', gastos'), sucesos') /\ \A f \in Ficheros \ viejos' : disco'[f] = e[f]
    BY <1>1, <1>2, <1>6
  <2>. HIDE DEF e
  <2>. QED BY <2>1 DEF Seria
<1>. QED BY <1>1, <1>5, <1>7 DEF Inv

\* What the program starts from is sound after a stop, and what was in memory if
\* nothing was being written.
LEMMA InvArranca ==
  ASSUME Inv, NEW d \in Sanos(sucesos'), Arranca(d), sucesos' = {} => d = Par(cuentas, gastos), sucesos \subseteq sucesos'
  PROVE  Inv'
<1>1. cuentas' = d.cuentas /\ gastos' = d.gastos /\ activa' = 0 /\ todo' = <<>> /\ disco' = d /\ viejos' = {}
  BY DEF Arranca
<1>2. d = Par(d.cuentas, d.gastos) /\ Sano(d.cuentas, d.gastos, sucesos')
  BY SanoPar
<1>3. Leads(<<>>, d, d, sucesos')
  BY LeadsNowhere
<1>4. Leads(todo', d, Par(cuentas', gastos'), sucesos')
  BY <1>1, <1>2, <1>3, Zenon
<1>5. activa' \in 0..Len(cuentas')
  <2>1. Len(d.cuentas) \in Nat
    BY <1>2, LenProperties DEF Sano
  <2>. QED BY <1>1, <2>1
<1>6. sucesos' = {} => Cuadra(cuentas', gastos')
  <2>. SUFFICES ASSUME sucesos' = {} PROVE Cuadra(d.cuentas, d.gastos)
    BY <1>1
  <2>1. d.cuentas = cuentas /\ d.gastos = gastos /\ sucesos = {}
    BY ParFields
  <2>. QED BY <2>1, InvFacts
<1>7. \E e : Seria(e)'
  <2>1. \A f \in Ficheros \ viejos' : disco'[f] = d[f]
    BY <1>1
  <2>. QED BY <1>4, <2>1 DEF Seria
<1>8. disco' \in DiscoT /\ viejos' \subseteq Ficheros
  BY <1>1 DEF Sanos
<1>. QED BY <1>5, <1>6, <1>7, <1>8 DEF Inv

LEMMA InvReinicio ==
  ASSUME Inv, Reinicio
  PROVE  Inv'
<1>1. Arranca(disco) /\ sucesos \subseteq sucesos'
  BY DEF Reinicio, Suceso
<1>2. CASE viejos # {}
  <2>1. "perdida" \in sucesos'
    BY <1>2 DEF Reinicio, Suceso
  <2>2. disco \in Sanos(sucesos')
    BY <2>1, InvFacts DEF Sanos, Sano, DiscoT
  <2>. QED BY <1>1, <2>1, <2>2, InvArranca
<1>3. CASE viejos = {}
  <2>1. todo = <<>> \/ sucesos' # {}
    BY <1>3 DEF Reinicio, Suceso
  <2>2. disco \in Sanos(sucesos')
    BY <1>1, <1>3, InvFacts, SanoMore
  <2>3. sucesos' = {} => disco = Par(cuentas, gastos)
    BY <1>3, <2>1, InvFacts
  <2>. QED BY <1>1, <2>2, <2>3, InvArranca
<1>. QED BY <1>2, <1>3

LEMMA InvRotura ==
  ASSUME Inv, Rotura
  PROVE  Inv'
<1>. DEFINE d == [disco EXCEPT ![Head(todo).fichero] = <<>>]
<1>1. Arranca(d) /\ todo # <<>> /\ sucesos \subseteq sucesos' /\ "rotura" \in sucesos'
  BY DEF Rotura, Suceso
<1>2. Head(todo).fichero \in {"cuentas", "gastos"}
  BY <1>1, EscribirOf DEF Ficheros
<1>3. disco \in DiscoT
  BY InvFacts
<1>4. d \in DiscoT
  <2>1. <<>> \in Seq(CuentaT) /\ <<>> \in Seq(GastoT)
    OBVIOUS
  <2>. QED BY <1>2, <1>3, <2>1 DEF DiscoT
<1>. HIDE DEF d
<1>5. d \in Sanos(sucesos')
  BY <1>1, <1>4 DEF Sanos, Sano, DiscoT
<1>. QED BY <1>1, <1>5, InvArranca

\* The invariant holds in every state that the program reaches.
LEMMA InvNext == Inv /\ [Next]_vars => Inv'
<1>. SUFFICES ASSUME Inv, [Next]_vars PROVE Inv'
  OBVIOUS
<1>1. CASE \E x \in Cantidades :
             \/ anadirPersonal(x)
             \/ \E p \in Personas : anadirCompartido(p, x)
             \/ \E i \in Visibles : editarPersonal(i, x)
             \/ \E i \in Visibles, p \in Personas \cup {Nadie} : editarCompartido(i, p, x)
  BY <1>1, InvPersonal, InvCompartido, InvEditarPersonal, InvEditarCompartido
<1>2. CASE \E i \in Visibles : eliminarGasto(i)
  BY <1>2, InvEliminarGasto
<1>3. CASE \E n \in Nombres, f \in Repartos : crearCompartida(n, f)
  BY <1>3, InvCrearCompartida
<1>4. CASE \E k \in DOMAIN cuentas : eliminarCompartida(k)
  BY <1>4, InvEliminarCompartida
<1>5. CASE \E lineas \in Lineas :
             \/ importarPersonales(lineas)
             \/ \E n \in Nombres : importarExistente(n, lineas) \/ importarNueva(n, lineas)
  BY <1>5, InvImportarPersonales, InvImportarExistente, InvImportarNueva
<1>6. CASE \E k \in 0..Len(cuentas) : entrar(k)
  BY <1>6, InvEntrar
<1>7. CASE Escribir \/ Fallo \/ Reinicio \/ Rotura
  BY <1>7, InvEscribir, InvFallo, InvReinicio, InvRotura
<1>8. CASE UNCHANGED vars
  BY <1>8, InvStutter
<1>. QED BY <1>1, <1>2, <1>3, <1>4, <1>5, <1>6, <1>7, <1>8 DEF Next, Operacion

-----------------------------------------------------------------------------
(* What the runs check.                                                    *)

LEMMA Signs ==
  ASSUME NEW a \in Int, NEW b \in Int
  PROVE  (-a) * b = -(a * b) /\ (-a) * b = (-b) * a /\ -a \in Int /\ a * b \in Int
OBVIOUS

\* What the expenses give to a member is what he has paid less his part of all.
LEMMA ParteDebido ==
  ASSUME gastos \in Seq(GastoT), NEW c \in CuentaT, NEW m \in DOMAIN c.saldo
  PROVE  Parte(gastos, c, m) = Debido(c, m)
<1>. DEFINE T == 1..Len(gastos)
            J == Suyos(c)
            I == {i \in J : gastos[i].pagador = m}
            a == [i \in DOMAIN gastos |-> gastos[i].cantidad]
            q == c.porcentaje[m]
            f == Ganancias(gastos, c, m)
            u == [i \in T |-> IF i \in I THEN Cien * a[i] ELSE 0]
            v == [i \in T |-> IF i \in J THEN (-q) * a[i] ELSE 0]
<1>1. DOMAIN gastos = T /\ IsFiniteSet(T) /\ \A i \in T : gastos[i] \in GastoT
  BY LenProperties, ElementOfSeq, FS_Interval
<1>2. \A i \in T : a[i] = gastos[i].cantidad /\ a[i] \in Int
  BY <1>1 DEF GastoT
<1>3. q \in Int /\ Cien \in Int
  BY CuentaFields
<1>4. Whole(f, T) /\ \A i \in T : f[i] = Gana(gastos[i], c, m)
  BY GananciasOf
<1>5. I \in SUBSET J /\ J \in SUBSET T /\ I \in SUBSET T
  BY <1>1 DEF Suyos
<1>6. \A i \in T : /\ i \in J <=> gastos[i].cuenta = c.nombre
                   /\ i \in I <=> gastos[i].cuenta = c.nombre /\ gastos[i].pagador = m
  BY <1>1 DEF Suyos
<1>7. \A i \in T : u[i] = (IF i \in I THEN Cien * a[i] ELSE 0) /\ v[i] = IF i \in J THEN (-q) * a[i] ELSE 0
  OBVIOUS
<1>8. Debido(c, m) = Cien * Total(a, I) - q * Total(a, J)
  BY DEF Debido, Importe, Suyos, Total
<1>. HIDE DEF a, q, f, u, v, I, J, T
<1>9. ASSUME NEW i \in T PROVE f[i] = u[i] + v[i] /\ u[i] \in Int /\ v[i] \in Int
  <2>. DEFINE x == gastos[i].cantidad
              p == gastos[i].pagador
  <2>1. x \in Int /\ a[i] = x
    BY <1>2
  <2>2. -q \in Int /\ (-q) * x \in Int /\ (-x) * q = (-q) * x /\ Cien * x \in Int
    BY <1>3, <2>1, Signs
  <2>3. Ganancia(m, p, x, q) = (IF m = p THEN Cien * x ELSE 0) + (-x) * q
    <3>1. \A y \in Int : Ganancia(m, p, y, q) = (IF m = p THEN Cien * y ELSE 0) + (-y) * q
      <4>. HIDE DEF p
      <4>. QED BY <1>3, GananciaInt
    <3>. HIDE DEF x, p
    <3>. QED BY <2>1, <3>1, Zenon
  <2>4. Gana(gastos[i], c, m) = IF gastos[i].cuenta = c.nombre THEN Ganancia(m, p, x, q) ELSE 0
    BY DEF Gana, q
  <2>. HIDE DEF x, p
  <2>5. CASE i \in J
    <3>1. f[i] = (IF m = p THEN Cien * x ELSE 0) + (-q) * x /\ v[i] = (-q) * x
      BY <1>4, <1>6, <1>7, <2>1, <2>2, <2>3, <2>4, <2>5
    <3>2. u[i] = IF m = p THEN Cien * x ELSE 0
      BY <1>6, <1>7, <2>1, <2>5 DEF p
    <3>3. u[i] \in Int
      BY <2>2, <3>2
    <3>. DEFINE z == (-q) * x
    <3>4. z \in Int /\ f[i] = (IF m = p THEN Cien * x ELSE 0) + z /\ v[i] = z
      BY <2>2, <3>1
    <3>. HIDE DEF z
    <3>5. f[i] = u[i] + v[i]
      BY <3>2, <3>4
    <3>. QED BY <3>3, <3>4, <3>5
  <2>6. CASE i \notin J
    <3>1. f[i] = 0
      BY <1>4, <1>6, <2>4, <2>6
    <3>2. u[i] = 0 /\ v[i] = 0
      BY <1>6, <1>7, <2>6
    <3>. QED BY <3>1, <3>2
  <2>. QED BY <2>5, <2>6
<1>10. Whole(u, T) /\ Whole(v, T) /\ Whole(a, I) /\ Whole(a, J)
  BY <1>1, <1>2, <1>5, <1>9, FS_Subset DEF Whole
<1>11. Total(f, T) = Total(u, T) + Total(v, T)
  BY <1>9, <1>10, TotalPlus
<1>12. Total(u, T) = Cien * Total(a, I)
  <2>1. Total(u, T) = Total(u, I)
    BY <1>5, <1>7, <1>10, TotalRest
  <2>2. \A i \in I : u[i] = Cien * a[i]
    BY <1>5, <1>7
  <2>3. Total(u, I) = Cien * Total(a, I)
    BY <1>3, <1>10, <2>2, TotalTimes
  <2>. QED BY <2>1, <2>3
<1>13. Total(v, T) = (-q) * Total(a, J)
  <2>1. Total(v, T) = Total(v, J)
    BY <1>5, <1>7, <1>10, TotalRest
  <2>2. -q \in Int
    BY <1>3, Signs
  <2>. DEFINE r == -q
  <2>3. r \in Int /\ \A i \in J : v[i] = r * a[i]
    BY <1>5, <1>7, <2>2
  <2>. HIDE DEF r
  <2>4. Total(v, J) = r * Total(a, J)
    BY <1>10, <2>3, TotalTimes
  <2>. QED BY <2>1, <2>4 DEF r
<1>14. Total(a, I) \in Int /\ Total(a, J) \in Int
  BY <1>10, TotalInt
<1>15. (-q) * Total(a, J) = -(q * Total(a, J)) /\ q * Total(a, J) \in Int
  BY <1>3, <1>14, Signs
<1>16. Cien * Total(a, I) \in Int
  BY <1>3, <1>14
<1>17. Total(f, T) = Cien * Total(a, I) - q * Total(a, J)
  BY <1>11, <1>12, <1>13, <1>15, <1>16
<1>. QED BY <1>8, <1>17 DEF Parte, f, T

\* The parts of the members add up to what the percentages leave out of the expenses of
\* the account, when their payers are members of it: by adding the expenses one by one.
LEMMA PartesResto ==
  ASSUME gastos \in Seq(GastoT), NEW c \in CuentaT,
         \A i \in DOMAIN gastos : gastos[i].cuenta = c.nombre => gastos[i].pagador \in DOMAIN c.saldo
  PROVE  Total([m \in DOMAIN c.saldo |-> Parte(gastos, c, m)], DOMAIN c.saldo) = Resto(c) * Importe(Suyos(c))
<1>. DEFINE T == 1..Len(gastos)
            J == Suyos(c)
            M == DOMAIN c.saldo
            a == [i \in DOMAIN gastos |-> gastos[i].cantidad]
            b == [i \in T |-> IF i \in J THEN a[i] ELSE 0]
            r == Resto(c)
            G(m) == Ganancias(gastos, c, m)
            h(u) == [m \in M |-> Total(G(m), u)]
            x(i) == [m \in M |-> Gana(gastos[i], c, m)]
            Q == {u \in SUBSET T : Total(h(u), M) = r * Total(b, u)}
<1>1. DOMAIN gastos = T /\ IsFiniteSet(T) /\ \A i \in T : gastos[i] \in GastoT
  BY LenProperties, ElementOfSeq, FS_Interval
<1>2. \A i \in T : a[i] = gastos[i].cantidad /\ a[i] \in Int
  BY <1>1 DEF GastoT
<1>3. J \in SUBSET T /\ \A i \in T : i \in J <=> gastos[i].cuenta = c.nombre
  BY <1>1 DEF Suyos
<1>4. \A i \in T : b[i] = (IF i \in J THEN a[i] ELSE 0) /\ b[i] \in Int
  BY <1>2
<1>5. r \in Int /\ IsFiniteSet(M)
  BY CuentaFields
<1>6. \A m \in M : /\ Whole(G(m), T) /\ \A i \in T : G(m)[i] = Gana(gastos[i], c, m)
                   /\ Parte(gastos, c, m) = Total(G(m), T)
  BY GananciasOf DEF Parte
<1>7. \A i \in J : gastos[i].cuenta = c.nombre /\ gastos[i].pagador \in M
  BY <1>1, <1>3
<1>8. \A u : \A m \in M : h(u)[m] = Total(G(m), u)
  OBVIOUS
<1>9. \A i : \A m \in M : x(i)[m] = Gana(gastos[i], c, m)
  OBVIOUS
<1>10. \A i \in T : \A m \in M : Gana(gastos[i], c, m) \in Int
  BY <1>1, GanaInt
<1>11. ASSUME NEW i \in T PROVE Total(x(i), M) = r * b[i]
  <2>1. CASE i \in J
    <3>. DEFINE y == [m \in M |-> Ganancia(m, gastos[i].pagador, gastos[i].cantidad, c.porcentaje[m])]
    <3>1. x(i) = y
      BY <1>7, <2>1 DEF Gana
    <3>2. Total(y, M) = Resto(c) * gastos[i].cantidad
      BY <1>2, <1>7, <2>1, GainsCancel
    <3>. HIDE DEF y, x
    <3>. QED BY <1>2, <1>4, <2>1, <3>1, <3>2
  <2>2. CASE i \notin J
    <3>1. \A m \in M : x(i)[m] = 0
      BY <1>3, <2>2 DEF Gana
    <3>2. Total(x(i), M) = 0
      <4>. HIDE DEF x, M
      <4>. QED BY <1>5, <3>1, TotalZero
    <3>3. r * 0 = 0
      BY <1>5
    <3>. HIDE DEF x
    <3>. QED BY <1>4, <2>2, <3>2, <3>3
  <2>. QED BY <2>1, <2>2
<1>12. J = Suyos(c) /\ Importe(J) = Total(a, J)
  BY DEF Importe, Total
<1>13. Whole(b, T) /\ Whole(a, J)
  BY <1>1, <1>2, <1>3, <1>4, FS_Subset DEF Whole
<1>14. h(T) = [m \in M |-> Parte(gastos, c, m)]
  BY <1>6
<1>15. \A i : Whole(x(i), M) <=> \A m \in M : x(i)[m] \in Int
  BY <1>5 DEF Whole
<1>16. \A u : Whole(h(u), M) <=> \A m \in M : h(u)[m] \in Int
  BY <1>5 DEF Whole
<1>. HIDE DEF a, b, r, h, x, G, M, J, T
<1>17. {} \in Q
  <2>1. \A m \in M : h({})[m] = 0
    BY <1>8, TotalEmpty
  <2>2. Total(h({}), M) = 0
    BY <1>5, <2>1, TotalZero
  <2>3. Total(b, {}) = 0 /\ r * 0 = 0
    BY <1>5, TotalEmpty
  <2>. QED BY <2>2, <2>3
<1>18. ASSUME NEW u \in Q, NEW e \in T \ u PROVE u \cup {e} \in Q
  <2>1. u \in SUBSET T /\ e \in T /\ u \cup {e} \in SUBSET T /\ Total(h(u), M) = r * Total(b, u)
    OBVIOUS
  <2>2. ASSUME NEW m \in M
        PROVE  /\ h(u \cup {e})[m] = x(e)[m] + h(u)[m] /\ h(u)[m] \in Int /\ x(e)[m] \in Int
    <3>1. Total(G(m), u \cup {e}) = G(m)[e] + Total(G(m), u) /\ Total(G(m), u) \in Int /\ G(m)[e] \in Int
      <4>. DEFINE f == G(m)
      <4>1. Whole(f, T) /\ u \in SUBSET T /\ e \in T \ u
        BY <1>6, <2>1
      <4>. HIDE DEF f
      <4>2. Total(f, u \cup {e}) = f[e] + Total(f, u) /\ Total(f, u) \in Int /\ f[e] \in Int
        BY <4>1, TotalWith
      <4>. QED BY <4>2 DEF f
    <3>. QED BY <1>6, <1>8, <1>9, <2>1, <3>1
  <2>3. Whole(x(e), M) /\ Whole(h(u), M)
    BY <1>15, <1>16, <2>2
  <2>4. Total(h(u \cup {e}), M) = Total(x(e), M) + Total(h(u), M)
    <3>. DEFINE f == h(u \cup {e})
                g == x(e)
                k == h(u)
    <3>1. Whole(g, M) /\ Whole(k, M) /\ \A m \in M : f[m] = g[m] + k[m]
      BY <2>2, <2>3
    <3>. HIDE DEF f, g, k
    <3>2. Total(f, M) = Total(g, M) + Total(k, M)
      BY <3>1, TotalPlus
    <3>. QED BY <3>2 DEF f, g, k
  <2>5. Total(b, u \cup {e}) = b[e] + Total(b, u) /\ b[e] \in Int /\ Total(b, u) \in Int
    BY <1>13, <2>1, TotalWith
  <2>6. r * (b[e] + Total(b, u)) = r * b[e] + r * Total(b, u)
    BY <1>5, <2>5, Distributive
  <2>. QED BY <1>11, <2>1, <2>4, <2>5, <2>6
<1>19. Q = SUBSET T
  <2>. HIDE DEF Q
  <2>1. Q \in SUBSET SUBSET T
    BY DEF Q
  <2>. QED BY <1>1, <1>17, <1>18, <2>1, ByElements
<1>20. Total(h(T), M) = r * Total(b, T)
  BY <1>19
<1>21. Total(b, T) = Total(b, J) /\ Total(b, J) = Total(a, J)
  <2>1. \A i \in T \ J : b[i] = 0
    BY <1>4
  <2>2. \A i \in J : a[i] = b[i]
    BY <1>3, <1>4
  <2>. QED BY <1>3, <1>13, <2>1, <2>2, TotalRest, TotalSame
<1>22. Total(h(T), M) = r * Importe(J)
  BY <1>12, <1>20, <1>21
<1>. QED BY <1>12, <1>14, <1>22 DEF M, r

LEMMA InvAlways == Spec => []Inv
BY InvInit, InvNext, PTL DEF Spec

\* Whenever an operation ends, cuentas.json and gastos.json hold what listaCuentas and
\* listaGastos hold, but for the files whose last write failed: no operation of the
\* controller forgets to save a list that it has changed, a later write of a file makes
\* good one that failed, and the program starts with what it read.
THEOREM AllIsSaved == Spec => []Guardado
<1>1. ASSUME Inv PROVE Guardado
  <2>. SUFFICES ASSUME todo = <<>>, NEW f \in Ficheros \ viejos
                PROVE  disco[f] = [cuentas |-> cuentas, gastos |-> gastos][f]
    BY DEF Guardado
  <2>1. disco[f] = Par(cuentas, gastos)[f]
    BY <1>1, InvFacts
  <2>. QED BY <2>1 DEF Par
<1>. QED BY <1>1, InvAlways, PTL

\* The balances that actualizarBalance() keeps are those that the expenses give: what a
\* member has paid for the account, less his percentage of all its expenses, however they
\* were added, edited, deleted or imported, and across restarts, unless an expense was
\* edited in the terminal, a name was used twice, the program was stopped half way, or it
\* started again without what a write that failed had to say.
THEOREM BalancesAreRight == Spec => []Cuadran
<1>1. ASSUME Inv PROVE Cuadran
  <2>. SUFFICES ASSUME sucesos = {}, NEW k \in DOMAIN cuentas, NEW m \in DOMAIN cuentas[k].saldo
                PROVE  cuentas[k].saldo[m] = Debido(cuentas[k], m)
    BY DEF Cuadran
  <2>1. Cuadra(cuentas, gastos) /\ k \in 1..Len(cuentas) /\ gastos \in Seq(GastoT) /\ cuentas[k] \in CuentaT
    BY <1>1, InvFacts, ElementOfSeq
  <2>2. cuentas[k].saldo[m] = Parte(gastos, cuentas[k], m)
    BY <2>1 DEF Cuadra
  <2>3. Parte(gastos, cuentas[k], m) = Debido(cuentas[k], m)
    BY <2>1, ParteDebido
  <2>. QED BY <2>2, <2>3
<1>. QED BY <1>1, InvAlways, PTL

\* The balances of an account whose percentages add up to 100 add up to zero in
\* cuentas.json, even if the program was stopped between any two writes: each pays what
\* the others are owed.  In memory those of any account that the form lets through add up
\* to what its percentages leave out of its expenses.
THEOREM BalancesAddUp == Spec => []SumaCero
<1>1. ASSUME Inv, viejos = {}, sucesos \cap {"repetida", "rotura", "perdida"} = {}, NEW k \in DOMAIN disco.cuentas,
             Resto(disco.cuentas[k]) = 0
      PROVE  SumFunction(disco.cuentas[k].saldo) = 0
  <2>1. Sano(disco.cuentas, disco.gastos, sucesos)
    BY <1>1, InvFacts, SanoPar
  <2>. QED BY <1>1, <2>1 DEF Sano, Cero
<1>2. ASSUME Inv, sucesos = {}, NEW k \in DOMAIN cuentas
      PROVE  SumFunction(cuentas[k].saldo) = Resto(cuentas[k]) * Importe(Suyos(cuentas[k]))
  <2>. DEFINE c == cuentas[k]
              M == DOMAIN c.saldo
              p == [m \in M |-> Parte(gastos, c, m)]
  <2>1. Cuadra(cuentas, gastos) /\ k \in 1..Len(cuentas) /\ gastos \in Seq(GastoT) /\ c \in CuentaT
    BY <1>2, InvFacts, ElementOfSeq
  <2>2. \A i \in DOMAIN gastos : gastos[i].cuenta = c.nombre => gastos[i].pagador \in M
    BY <1>2, InvFacts DEF Pagan
  <2>3. \A m \in M : c.saldo[m] = p[m]
    BY <2>1 DEF Cuadra
  <2>4. IsFiniteSet(M) /\ \A m \in M : c.saldo[m] \in Int
    BY <2>1, CuentaFields
  <2>. HIDE DEF c
  <2>5. Total(p, M) = Resto(c) * Importe(Suyos(c))
    BY <2>1, <2>2, PartesResto
  <2>. HIDE DEF p, M
  <2>6. Whole(c.saldo, M)
    BY <2>4 DEF Whole
  <2>7. Total(c.saldo, M) = Total(p, M)
    BY <2>3, <2>6, TotalSame
  <2>8. SumFunction(c.saldo) = Total(c.saldo, M)
    BY DEF SumFunction, Total, M
  <2>. QED BY <2>5, <2>7, <2>8 DEF c
<1>3. Inv => SumaCero
  BY <1>1, <1>2 DEF SumaCero
<1>. QED BY <1>3, InvAlways, PTL

\* No expense is left in gastos.json without its account in cuentas.json, whenever the
\* program is stopped between two writes, once the writes that failed have been made good.
THEOREM NoOrphans == Spec => []SinHuerfanos
<1>1. ASSUME Inv PROVE SinHuerfanos
  <2>1. viejos = {} => Sano(disco.cuentas, disco.gastos, sucesos)
    BY <1>1, InvFacts, SanoPar
  <2>. QED BY <2>1 DEF SinHuerfanos, Sano, ConCuenta
<1>. QED BY <1>1, InvAlways, PTL

=============================================================================
