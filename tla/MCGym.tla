-------------------------------- MODULE MCGym --------------------------------
(* Sessions of Gym for TLC.                                                *)
EXTENDS Gym

Entry(name, version, kw, limit) == [id |-> <<name, version>>, kw |-> kw, limit |-> limit, acts |-> {}, quits |-> FALSE]
With(entry, acts) == [entry EXCEPT !.acts = acts]
Quitting(entry) == [entry EXCEPT !.quits = TRUE]
None0 == [x |-> 0]

\* Inputs that count up from 0 or from 1, and windows of two episodes.
Tapes(base) == {[j \in 1..n |-> (j + k) % base] : n \in 1..3, k \in {1}}
Tape(base, inputs) == [base |-> base, inputs |-> inputs, last10 |-> 2, last50 |-> 2, duplication |-> 2, rows |-> 2]
Columns == {<<<<0, 1>>, <<1, 1>>>>, <<<<1, 1>>, <<1, 0>>, <<1, 1>>>>}
Writing == {<<1, 1, p>> : p \in {0, 1}}

Lake(nrow, ncol, desc) == [nrow |-> nrow, ncol |-> ncol, slippery |-> TRUE, desc |-> desc]
Guesses == {<<g>> : g \in {-1000, 395, 396, 414, 415, 2000}}
Numbers == [numbers |-> {405, -1000}]
Kelly == [initial |-> 3, max_wealth |-> 7, max_rounds |-> 4, caps |-> {5, 6}, lengths |-> {2, 4}]
\* float32 rounds 0.05 and 0.07 up and 0.06 down; money is in thirds of a penny.
MCFloat32 == [m \in 5..7 |-> IF m = 6 THEN 3 * m - 1 ELSE 3 * m + 1]
Right(base) == {<<1, w, p>> : w \in {0, 1}, p \in 0..(base - 1)}

\* The spaces that no environment here has are right too: contains() has what
\* sample() gives, and a batch comes back from to_jsonable().
Arrays == {S!MultiDiscrete(<<2, 3>>), S!MultiBinary(2), S!Box(<<0, -1>>, <<1, 1>>, TRUE)}
Compound == {S!TupleSpace(<<x, y>>) : x \in Arrays, y \in Arrays} \cup {S!DictSpace([a |-> x, b |-> y]) : x \in Arrays, y \in Arrays}
ASSUME SamplesContained == \A sp \in Arrays \cup Compound : \A x \in S!SampleOf(sp) : S!Contains(sp, x)
ASSUME BatchesComeBack ==
  \A sp \in Compound : \A x \in S!SampleOf(sp) :
     LET batch == <<x, CHOOSE y \in S!SampleOf(sp) : TRUE>> IN S!FromJsonable(sp, S!ToJsonable(sp, batch)) = batch

Walker(hardcore, ground) == [hardcore |-> hardcore, ground |-> ground, moves |-> IF hardcore THEN {0} ELSE {-3, 8}]
Lander(continuous, ground) == [continuous |-> continuous, ground |-> ground, moves |-> {0, 7}]
Engines == {0, 5, 6, 10}
MCSlopes == {1}

MCSessions == <<
   <<Entry("FrozenLake", 0, Lake(4, 4, Toy!Lake4x4), 0)>>,
   <<Entry("FrozenLake8x8", 0, Lake(8, 8, Toy!Lake8x8), 20)>>,
   <<Entry("FrozenLake", 0, [random |-> TRUE], 4)>>,
   <<Entry("CliffWalking", 0, None0, 0)>>,
   <<Entry("Taxi", 2, None0, 8)>>,
   <<Entry("Blackjack", 0, [natural |-> TRUE, deck |-> {1, 6, 10}], 0)>>,
   <<Entry("NChain", 0, [n |-> 5, small |-> 2, large |-> 10], 0)>>,
   <<Entry("Roulette", 0, [spots |-> 37], 0)>>,
   <<With(Entry("GuessingGame", 0, Numbers, 0), Guesses)>>,
   <<With(Entry("HotterColder", 0, Numbers, 0), Guesses)>>,
   <<Entry("KellyCoinflip", 0, Kelly, 0)>>,
   <<Entry("KellyCoinflipGeneralized", 0, Kelly, 0)>>,
   <<Entry("CubeCrash", 0, [shaped |-> TRUE, holes |-> {8, 16}], 0)>>,
   <<Entry("MemorizeDigits", 0, None0, 0)>>,
   <<Entry("CartPole", 1, None0, 8)>>,
   <<Entry("MountainCar", 0, None0, 12)>>,
   <<Entry("MountainCarContinuous", 0, None0, 12)>>,
   <<Entry("Pendulum", 0, None0, 8)>>,
   <<Entry("Acrobot", 1, None0, 8)>>,
   <<With(Entry("Copy", 0, Tape(2, Tapes(2)), 0), Right(2))>>,
   <<Quitting(With(Entry("Reverse", 0, Tape(2, Tapes(2)), 0), Writing))>>,
   <<With(Entry("DuplicatedInput", 0, Tape(2, {}), 0), Right(2))>>,
   <<With(Entry("RepeatCopy", 0, Tape(2, {<<0, 1>>}), 0), Writing)>>,
   <<With(Entry("ReversedAddition", 0, Tape(2, Columns), 0), {<<m, 1, p>> : m \in {0, 1, 2, 3}, p \in {0, 1}})>>,
   <<With(Entry("Reverse", 0, Tape(2, {<<0, 1>>}), 0), Writing), With(Entry("Copy", 0, Tape(2, {<<1, 0>>}), 0), Writing)>>,
   <<With(Entry("LunarLander", 2, Lander(FALSE, 2), 3), {2})>>,
   <<With(Entry("LunarLanderContinuous", 2, Lander(TRUE, 0), 2), Engines \X {-10, -6, 5, 8})>>,
   <<With(Entry("BipedalWalker", 2, Walker(FALSE, 1), 2), {<<0, 1, 0, -1>>})>>,
   <<With(Entry("BipedalWalkerHardcore", 2, Walker(TRUE, 0), 1), {<<0, 1, 0, -1>>})>>,
   <<With(Entry("CarRacing", 0, [wheels |-> 2], 3), {<<0, 1, 0>>})>>,
   <<Entry("CartPole", 7, None0, 0)>>,
   <<Entry("Cartpole", 1, None0, 0)>>>>
==============================================================================
