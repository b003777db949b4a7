------------------------------ MODULE ToyText ------------------------------
(***************************************************************************)
(* gym/envs/toy_text: the environments of a few states.                    *)
(*                                                                         *)
(* For each class: the observation and action spaces its constructor makes *)
(* from its keyword arguments kw, the states that reset() may leave, what  *)
(* step() may do (Out: the new state, the observation, the reward and      *)
(* done) and the observation of a state.  Chance is a choice.              *)
(***************************************************************************)
EXTENDS Spaces, FiniteSetsExt

CONSTANT Float32   \* a cap in pennies -> the float32 nearest to it, as an amount of money

Out(s, obs, reward, done) == [st |-> s, obs |-> obs, reward |-> reward, done |-> done]

-----------------------------------------------------------------------------
(* DiscreteEnv: a table of transitions.                                    *)

DiscreteReset(isd) == isd
DiscreteStep(transitions) == {Out(t[1], t[1], t[2], t[3]) : t \in transitions}

\* FrozenLake.  kw: nrow, ncol, desc (the letters row after row), slippery.
Lake4x4 == << "S", "F", "F", "F",
              "F", "H", "F", "H",
              "F", "F", "F", "H",
              "H", "F", "F", "G" >>
Lake8x8 == << "S", "F", "F", "F", "F", "F", "F", "F",
              "F", "F", "F", "F", "F", "F", "F", "F",
              "F", "F", "F", "H", "F", "F", "F", "F",
              "F", "F", "F", "F", "F", "H", "F", "F",
              "F", "F", "F", "H", "F", "F", "F", "F",
              "F", "H", "H", "F", "F", "F", "H", "F",
              "F", "H", "F", "F", "H", "F", "H", "F",
              "F", "F", "F", "H", "F", "F", "F", "G" >>

LakeStates(kw) == 0..(kw.nrow * kw.ncol - 1)
LakeStart(kw) == {s \in LakeStates(kw) : kw.desc[s + 1] = "S"}
LakeInc(kw, s, a) ==
  LET row == s \div kw.ncol
      col == s % kw.ncol
      to_s(r, c) == r * kw.ncol + c
  IN  CASE a = 0 -> to_s(row, Max({col - 1, 0}))
        [] a = 1 -> to_s(Min({row + 1, kw.nrow - 1}), col)
        [] a = 2 -> to_s(row, Min({col + 1, kw.ncol - 1}))
        [] a = 3 -> to_s(Max({row - 1, 0}), col)
LakeTransitions(kw, s, a) ==
  IF kw.desc[s + 1] \in {"G", "H"} THEN {<<s, 0, TRUE>>}
  ELSE LET goes == IF kw.slippery THEN {(a - 1) % 4, a, (a + 1) % 4} ELSE {a}
           lands(b) == LET t == LakeInc(kw, s, b)
                       IN  <<t, IF kw.desc[t + 1] = "G" THEN 1 ELSE 0, kw.desc[t + 1] \in {"G", "H"}>>
       IN  {lands(b) : b \in goes}

\* generate_random_map(): a depth-first search that marks the cells of its
\* path and takes the marks back, so that it tries every path of size * size
\* cells or fewer.  Deeper[n] has those of n moves.
NextCells(size, c) ==
  LET row == c \div size
      col == c % size
  IN  {d \in {c + size, c + 1, c - size, c - 1} :
         \/ d = c + size /\ row + 1 < size
         \/ d = c + 1 /\ col + 1 < size
         \/ d = c - size /\ row - 1 >= 0
         \/ d = c - 1 /\ col - 1 >= 0}
IsValid(arr, size) ==
  LET Moves(path) == {d \in NextCells(size, path[Len(path)]) : arr[d + 1] # "H" /\ \A i \in DOMAIN path : path[i] # d}
      Deeper[n \in 0..(size * size - 1)] ==
        IF n = 0 THEN {<<0>>}
        ELSE LET before == {p \in Deeper[n - 1] : arr[p[n] + 1] # "G"}
             IN  UNION {{Append(p, d) : d \in Moves(p)} : p \in before}
  IN  \E n \in 0..(size * size - 1) : \E p \in Deeper[n] : arr[p[n + 1] + 1] = "G"
RandomMaps(size) ==
  {m \in [1..(size * size) -> {"F", "H", "S", "G"}] :
     /\ m[1] = "S" /\ m[size * size] = "G"
     /\ \A i \in 2..(size * size - 1) : m[i] \in {"F", "H"}
     /\ IsValid(m, size)}

\* CliffWalking.
CliffStart == 3 * 12
Cliff == {3 * 12 + col : col \in 1..10}
CliffLimit(x, bound) == Max({Min({x, bound - 1}), 0})

\* A step into the cliff goes back to the start.  The variant only pays for it.
CliffStays(s, a) ==
  LET delta == <<<<-1, 0>>, <<0, 1>>, <<1, 0>>, <<0, -1>>>>[a + 1]
      new == CliffLimit(s \div 12 + delta[1], 4) * 12 + CliffLimit((s % 12) + delta[2], 12)
  IN  {<<new, IF new \in Cliff THEN -100 ELSE -1, new = 3 * 12 + 11>>}
CliffTransitions(s, a) ==
  LET delta == <<<<-1, 0>>, <<0, 1>>, <<1, 0>>, <<0, -1>>>>[a + 1]
      new == CliffLimit(s \div 12 + delta[1], 4) * 12 + CliffLimit((s % 12) + delta[2], 12)
  IN  IF new \in Cliff THEN {<<CliffStart, -100, FALSE>>} ELSE {<<new, -1, new = 3 * 12 + 11>>}

\* Taxi.  The walls of MAP, as the cells with one to the east.
TaxiWalls == {<<0, 1>>, <<3, 0>>, <<3, 2>>, <<4, 0>>, <<4, 2>>}
TaxiLocs == <<<<0, 0>>, <<0, 4>>, <<4, 0>>, <<4, 3>>>>
encode(row, col, pass, dest) == ((row * 5 + col) * 5 + pass) * 4 + dest
decode(i) == [dest |-> i % 4, pass |-> (i \div 4) % 5, col |-> (i \div 20) % 5, row |-> i \div 100]
TaxiStart == {encode(r, c, p, d) : r \in 0..4, c \in 0..4, p \in 0..3, d \in 0..3}
               \ {encode(r, c, p, p) : r \in 0..4, c \in 0..4, p \in 0..3}
TaxiTransitions(s, a) ==
  LET t == decode(s)
      loc == <<t.row, t.col>>
      AtLoc == {i \in 0..3 : TaxiLocs[i + 1] = loc}
      open(col) == <<t.row, col>> \notin TaxiWalls
  IN  CASE a = 0 -> {<<encode(Min({t.row + 1, 4}), t.col, t.pass, t.dest), -1, FALSE>>}
        [] a = 1 -> {<<encode(Max({t.row - 1, 0}), t.col, t.pass, t.dest), -1, FALSE>>}
        [] a = 2 -> {<<encode(t.row, IF open(t.col) THEN Min({t.col + 1, 4}) ELSE t.col, t.pass, t.dest), -1, FALSE>>}
        [] a = 3 -> {<<encode(t.row, IF open(t.col - 1) THEN Max({t.col - 1, 0}) ELSE t.col, t.pass, t.dest), -1, FALSE>>}
        [] a = 4 -> IF t.pass \in AtLoc THEN {<<encode(t.row, t.col, 4, t.dest), -1, FALSE>>}
                    ELSE {<<s, -10, FALSE>>}
        [] a = 5 -> IF t.pass = 4 /\ t.dest \in AtLoc THEN {<<encode(t.row, t.col, t.dest, t.dest), 20, TRUE>>}
                    ELSE IF t.pass = 4 /\ AtLoc # {} THEN {<<encode(t.row, t.col, i, t.dest), -1, FALSE>> : i \in AtLoc}
                    ELSE {<<s, -10, FALSE>>}

-----------------------------------------------------------------------------
(* Blackjack.  A hand is what its cards add up to, whether one is an ace   *)
(* and whether they are an ace and a ten; up is the dealer's first card.   *)
(* kw.deck: the cards that are drawn, among 1..10.                         *)

draw_hand(a, b) == [sum |-> a + b, ace |-> 1 \in {a, b}, natural |-> {a, b} = {1, 10}]
Draw(hand, card) == [sum |-> hand.sum + card, ace |-> hand.ace \/ card = 1, natural |-> FALSE]
usable_ace(hand) == hand.ace /\ hand.sum + 10 <= 21
sum_hand(hand) == IF usable_ace(hand) THEN hand.sum + 10 ELSE hand.sum
is_bust(hand) == sum_hand(hand) > 21
score(hand) == IF is_bust(hand) THEN 0 ELSE sum_hand(hand)

BlackjackObs(s) == <<sum_hand(s.player), s.up, IF usable_ace(s.player) THEN 1 ELSE 0>>
BlackjackReset(kw) == {[player |-> draw_hand(a, b), dealer |-> draw_hand(c, d), up |-> c]
                         : a \in kw.deck, b \in kw.deck, c \in kw.deck, d \in kw.deck}

\* The hands the dealer may end with: 17 cards more are enough.
DealerPlays(deck, hand) ==
  LET Dealt[n \in 0..17] ==
        IF n = 0 THEN {hand}
        ELSE LET before == Dealt[n - 1]
             IN  {IF sum_hand(h) < 17 THEN Draw(h, c) ELSE h : h \in before, c \in deck}
  IN  Dealt[17]

\* Rewards in halves, for a natural pays one and a half.
StickReward(kw, p, d) == CASE score(p) < score(d) -> -2
                           [] score(p) = score(d) -> 0
                           [] score(p) > score(d) -> IF kw.natural /\ p.natural THEN 3 ELSE 2
BlackjackStep(kw, s, a) ==
  IF a = 1
  THEN {LET t == [s EXCEPT !.player = Draw(@, c)]
        IN  Out(t, BlackjackObs(t), IF is_bust(t.player) THEN -2 ELSE 0, is_bust(t.player)) : c \in kw.deck}
  ELSE {LET t == [s EXCEPT !.dealer = d]
        IN  Out(t, BlackjackObs(t), StickReward(kw, s.player, d), TRUE) : d \in DealerPlays(kw.deck, s.dealer)}

-----------------------------------------------------------------------------
(* NChain and Roulette.                                                    *)

NChainStep(kw, s, a) ==
  {IF b = 1 THEN Out(0, 0, kw.small, FALSE)
   ELSE IF s < kw.n - 1 THEN Out(s + 1, s + 1, 0, FALSE)
   ELSE Out(s, s, kw.large, FALSE) : b \in {a, 1 - a}}

RouletteStep(kw, a) ==
  IF a = kw.spots THEN {Out(0, 0, 0, TRUE)}
  ELSE {Out(0, 0, CASE val = a /\ a = 0 -> kw.spots - 1
                    [] val # 0 /\ a # 0 /\ val % 2 = a % 2 -> 1
                    [] OTHER -> -1, FALSE) : val \in 0..(kw.spots - 1)}

-----------------------------------------------------------------------------
(* GuessingGame and HotterColder.  kw.numbers: the numbers drawn.  An      *)
(* action is an array of one number.                                       *)

GuessObs(a, number) == CASE a < number -> 1 [] a = number -> 2 [] a > number -> 3
GuessReset(kw) == {[number |-> n, count |-> 0] : n \in kw.numbers}
GuessStep(s, a) ==
  LET near == s.number - 10 < a[1] /\ a[1] < s.number + 10
      t == [s EXCEPT !.count = @ + 1]
  IN  {Out(t, GuessObs(a[1], s.number), IF near THEN 1 ELSE 0, near \/ t.count >= 200)}

\* The reward is the square of a fraction, kept as numerator and denominator.
HotterStep(s, a) ==
  LET t == [s EXCEPT !.count = @ + 1]
  IN  {Out(t, GuessObs(a[1], s.number), <<Min({a[1], s.number}) + 2000, Max({a[1], s.number}) + 2000>>, t.count >= 200)}

-----------------------------------------------------------------------------
(* The Kelly coin flip.  Bets and caps are in pennies.  Wealth is a        *)
(* floating-point number of dollars, kept in thirds of a penny: 3p is the  *)
(* number nearest to p pennies, 3p - 1 and 3p + 1 are those that rounding  *)
(* leaves just below and just above it.  It stands for sums of far less    *)
(* than 2^53 pennies, whose error stays far below a penny.                 *)

Penny == 3
Pennies(w) == (w + 1) \div Penny

\* What is bet: no more than there is.  And a bet without that bound.
BetAll(w, a) == Penny * a
Bet(w, a) == Min({Penny * a, w})

\* wealth + coinflip * bet_in_dollars: exact when nothing is bet or everything is
\* lost, otherwise rounded either way, but not past what there was.
Sums(w, bet, coinflip) ==
  IF bet = 0 THEN {w}
  ELSE IF coinflip = -1 /\ bet = w THEN {0}
  ELSE {x \in {Penny * (Pennies(w) + coinflip * Pennies(bet)) + d : d \in {-1, 0, 1}} :
          IF coinflip = 1 THEN x >= w ELSE bet < w => x > 0}
Flips(w, a) == UNION {Sums(w, Bet(w, a), coinflip) : coinflip \in {-1, 1}}

KellyObs(s) == <<<<s.wealth>>, s.rounds>>
KellyReset(kw) == {[wealth |-> Penny * kw.initial, rounds |-> kw.max_rounds]}
KellyOver(s, max) == s.wealth < Penny \/ s.wealth = Penny * max \/ s.rounds = 0
KellyStep(kw, s, a) ==
  {LET t == [wealth |-> Min({Penny * kw.max_wealth, x}), rounds |-> s.rounds - 1]
       done == KellyOver(t, kw.max_wealth)
   IN  Out(t, KellyObs(t), IF done THEN t.wealth ELSE 0, done) : x \in Flips(s.wealth, a)}

\* The generalized game draws its parameters at each reset.  A coin that comes
\* up -1 counts as a win as well: -1 is true.  And the reward is the cap.
GeneralObs(s) == <<<<s.wealth>>, s.elapsed, s.wins, s.losses, <<s.ever>>>>
GeneralReset(kw) == {[wealth |-> Penny * kw.initial, max_wealth |-> m, max_rounds |-> n, rounds |-> n,
                      elapsed |-> 0, wins |-> 0, losses |-> 0, ever |-> Penny * kw.initial]
                       : m \in kw.caps, n \in kw.lengths}
GeneralStep(s, a) ==
  {LET w == Min({Penny * s.max_wealth, x})
       t == [s EXCEPT !.wealth = w, !.rounds = @ - 1, !.elapsed = @ + 1,
                      !.ever = Max({w, @}), !.wins = @ + 1]
       done == KellyOver(t, s.max_wealth)
   IN  Out(t, GeneralObs(t), IF done THEN Penny * s.max_wealth ELSE 0, done) : x \in Flips(s.wealth, a)}

-----------------------------------------------------------------------------
(* The spaces.  Those of the generalized game depend on its draw.  A Box   *)
(* casts its bounds to float32, which has no number for most amounts.      *)

MoneyBox(max) == Interval(0, Float32[max])

ToyObsSpace(cls, kw, s) ==
  CASE cls = "FrozenLake" -> Discrete(kw.nrow * kw.ncol)
    [] cls = "CliffWalking" -> Discrete(48)
    [] cls = "Taxi" -> Discrete(500)
    [] cls = "Blackjack" -> TupleSpace(<<Discrete(32), Discrete(11), Discrete(2)>>)
    [] cls = "NChain" -> Discrete(kw.n)
    [] cls = "Roulette" -> Discrete(1)
    [] cls \in {"GuessingGame", "HotterColder"} -> Discrete(4)
    [] cls = "KellyCoinflip" -> TupleSpace(<<MoneyBox(kw.max_wealth), Discrete(kw.max_rounds + 1)>>)
    [] cls = "KellyCoinflipGeneralized" ->
         LET rounds == Discrete(s.max_rounds + 1)
         IN  TupleSpace(<<MoneyBox(s.max_wealth), rounds, rounds, rounds, MoneyBox(s.max_wealth)>>)
ToyActions(cls, kw, s) ==
  CASE cls \in {"FrozenLake", "CliffWalking"} -> Discrete(4)
    [] cls = "Taxi" -> Discrete(6)
    [] cls \in {"Blackjack", "NChain"} -> Discrete(2)
    [] cls = "Roulette" -> Discrete(kw.spots + 1)
    [] cls = "GuessingGame" -> Interval(-10000, 10000)
    [] cls = "HotterColder" -> Interval(-2000, 2000)
    [] cls = "KellyCoinflip" -> Discrete(kw.max_wealth)
    [] cls = "KellyCoinflipGeneralized" -> Discrete(s.max_wealth)

ToyReset(cls, kw) ==
  CASE cls = "FrozenLake" -> {<<s, s>> : s \in LakeStart(kw)}
    [] cls = "CliffWalking" -> {<<CliffStart, CliffStart>>}
    [] cls = "Taxi" -> {<<s, s>> : s \in TaxiStart}
    [] cls = "Blackjack" -> {<<s, BlackjackObs(s)>> : s \in BlackjackReset(kw)}
    [] cls \in {"NChain", "Roulette"} -> {<<0, 0>>}
    [] cls \in {"GuessingGame", "HotterColder"} -> {<<s, 0>> : s \in GuessReset(kw)}
    [] cls = "KellyCoinflip" -> {<<s, KellyObs(s)>> : s \in KellyReset(kw)}
    [] cls = "KellyCoinflipGeneralized" -> {<<s, GeneralObs(s)>> : s \in GeneralReset(kw)}
ToyStep(cls, kw, s, a) ==
  CASE cls = "FrozenLake" -> DiscreteStep(LakeTransitions(kw, s, a))
    [] cls = "CliffWalking" -> DiscreteStep(CliffTransitions(s, a))
    [] cls = "Taxi" -> DiscreteStep(TaxiTransitions(s, a))
    [] cls = "Blackjack" -> BlackjackStep(kw, s, a)
    [] cls = "NChain" -> NChainStep(kw, s, a)
    [] cls = "Roulette" -> RouletteStep(kw, a)
    [] cls = "GuessingGame" -> GuessStep(s, a)
    [] cls = "HotterColder" -> HotterStep(s, a)
    [] cls = "KellyCoinflip" -> KellyStep(kw, s, a)
    [] cls = "KellyCoinflipGeneralized" -> GeneralStep(s, a)
=============================================================================
