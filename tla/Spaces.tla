------------------------------- MODULE Spaces -------------------------------
(***************************************************************************)
(* gym/spaces: a space is a record with its kind.                          *)
(*                                                                         *)
(*   [kind |-> "Discrete", n]             0 .. n - 1                       *)
(*   [kind |-> "MultiDiscrete", nvec]     a number below each of nvec      *)
(*   [kind |-> "MultiBinary", n]          n zeros and ones                 *)
(*   [kind |-> "Box", low, high, float]   sequences between two others     *)
(*   [kind |-> "Tuple", spaces]           a sequence of spaces             *)
(*   [kind |-> "Dict", spaces]            a function of spaces             *)
(*                                                                         *)
(* Real numbers are whole numbers of some unit, so that sample() of a Box  *)
(* of floats gives the whole numbers between its bounds.                   *)
(*                                                                         *)
(* The bounds of a Box are those it keeps, after astype(dtype).  The fixed *)
(* bounds of the environments are whole numbers or multiples of pi, 0.6,   *)
(* 0.07, 1.2, 4.8 and 24 degrees, which float32 rounds outwards; the caps  *)
(* of the Kelly games may be rounded down (MoneyBox).                      *)
(***************************************************************************)
EXTENDS Integers, Sequences

Discrete(n) == [kind |-> "Discrete", n |-> n]
MultiDiscrete(nvec) == [kind |-> "MultiDiscrete", nvec |-> nvec]
MultiBinary(n) == [kind |-> "MultiBinary", n |-> n]
Box(low, high, float) == [kind |-> "Box", low |-> low, high |-> high, float |-> float]
TupleSpace(spaces) == [kind |-> "Tuple", spaces |-> spaces]
DictSpace(spaces) == [kind |-> "Dict", spaces |-> spaces]

\* One value between bounds.
Interval(low, high) == Box(<<low>>, <<high>>, TRUE)

\* The constructors' assertions.
PlainOK(sp) == CASE sp.kind = "Discrete" -> sp.n >= 0
                 [] sp.kind = "MultiDiscrete" -> \A i \in DOMAIN sp.nvec : sp.nvec[i] > 0
                 [] sp.kind = "MultiBinary" -> TRUE
                 [] sp.kind = "Box" -> Len(sp.low) = Len(sp.high)
SpaceOK(sp) == IF sp.kind \in {"Tuple", "Dict"} THEN \A k \in DOMAIN sp.spaces : PlainOK(sp.spaces[k])
               ELSE PlainOK(sp)

BoxContains(sp, x) == /\ DOMAIN x = DOMAIN sp.low
                      /\ \A i \in DOMAIN x : sp.low[i] <= x[i] /\ x[i] <= sp.high[i]
MultiDiscreteContains(sp, x) == \A i \in DOMAIN x : 0 <= x[i] /\ x[i] < sp.nvec[i]
MultiBinaryContains(x) == \A i \in DOMAIN x : x[i] \in {0, 1}

\* contains() of the spaces that hold no others.
ContainsPlain(sp, x) ==
  CASE sp.kind = "Discrete" -> x \in Int /\ x >= 0 /\ x < sp.n
    [] sp.kind = "MultiDiscrete" -> MultiDiscreteContains(sp, x)
    [] sp.kind = "MultiBinary" -> MultiBinaryContains(x)
    [] sp.kind = "Box" -> BoxContains(sp, x)

\* contains(); a Tuple or a Dict is as long as the value and has it part by part.
Contains(sp, x) ==
  IF sp.kind \in {"Tuple", "Dict"}
  THEN DOMAIN x = DOMAIN sp.spaces /\ \A k \in DOMAIN sp.spaces : ContainsPlain(sp.spaces[k], x[k])
  ELSE ContainsPlain(sp, x)

\* The sequences, or functions, with a value of parts[k] at each k.
Products(parts) == LET All == UNION {parts[k] : k \in DOMAIN parts}
                  IN  {f \in [DOMAIN parts -> All] : \A k \in DOMAIN parts : f[k] \in parts[k]}

\* astype() of an integer type cuts towards zero.
Half(y) == IF y < 0 THEN -((-y) \div 2) ELSE y \div 2

\* What sample() may return.  uniform() of a Box of integers is drawn up to one
\* past the bound and then cut to a whole number.
SamplePlain(sp) ==
  CASE sp.kind = "Discrete" -> 0..(sp.n - 1)
    [] sp.kind = "MultiDiscrete" -> Products([i \in DOMAIN sp.nvec |-> 0..(sp.nvec[i] - 1)])
    [] sp.kind = "MultiBinary" -> Products([i \in 1..sp.n |-> {0, 1}])
    [] sp.kind = "Box" -> Products([i \in DOMAIN sp.low |->
                            {Half(y) : y \in (2 * sp.low[i])..(2 * sp.high[i] + (IF sp.float THEN 0 ELSE 1))}])
SampleOf(sp) == IF sp.kind \in {"Tuple", "Dict"}
                THEN Products([k \in DOMAIN sp.spaces |-> SamplePlain(sp.spaces[k])])
                ELSE SamplePlain(sp)

\* to_jsonable() of a Tuple and of a Dict: the samples of a batch, part by
\* part; and back.
ToJsonable(sp, batch) == [k \in DOMAIN sp.spaces |-> [i \in DOMAIN batch |-> batch[i][k]]]
FromJsonable(sp, parts) == LET any == CHOOSE k \in DOMAIN sp.spaces : TRUE
                           IN  [i \in DOMAIN parts[any] |-> [k \in DOMAIN sp.spaces |-> parts[k][i]]]
=============================================================================
