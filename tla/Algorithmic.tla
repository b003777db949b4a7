---------------------------- MODULE Algorithmic ----------------------------
(***************************************************************************)
(* gym/envs/algorithmic: an agent moves a head over an input of            *)
(* characters and writes the output the task asks for.  Grid tasks are     *)
(* those of the columns of the input; the others have a tape.              *)
(*                                                                         *)
(* The class variables min_length and reward_shortfalls are one record,    *)
(* shared, for all the environments of the process.  Rewards are counted   *)
(* in halves, so that writing a character right is worth 2.                *)
(***************************************************************************)
EXTENDS Spaces

Seqs == INSTANCE SequencesExt

AlgorithmicClasses == {"Copy", "RepeatCopy", "DuplicatedInput", "Reverse", "ReversedAddition"}
Grid(cls) == cls = "ReversedAddition"

\* The attributes of each class: how many episodes count for a promotion, how
\* far from the maximum they may be (in halves), and the starting length.
Window(cls, kw) == IF cls \in {"RepeatCopy", "Reverse"} THEN kw.last50 ELSE kw.last10
MIN_REWARD_SHORTFALL_FOR_PROMOTION(cls) == IF cls \in {"RepeatCopy", "Reverse"} THEN 0 ELSE -2
StartingMinLength(cls) == IF cls = "Reverse" THEN 1 ELSE 2

\* generate_input_data(): a character in each cell of a tape, or in each row of
\* each column; DuplicatedInput repeats each of them.
InputData(cls, kw, size) ==
  CASE cls = "DuplicatedInput" ->
         LET n == (IF size < kw.duplication THEN kw.duplication ELSE size) \div kw.duplication
         IN  {Seqs!FlattenSeq([i \in 1..n |-> [j \in 1..kw.duplication |-> f[i]]]) : f \in [1..n -> 0..(kw.base - 1)]}
    [] Grid(cls) -> [1..size -> [1..kw.rows -> 0..(kw.base - 1)]]
    [] OTHER -> [1..size -> 0..(kw.base - 1)]

\* The sum of the columns, read as digits of a number from the least one.
AddColumns(columns, base) ==
  LET Total[i \in 0..Len(columns)] ==      \* the carry into column i + 1 and the digits before it
        IF i = 0 THEN [carry |-> 0, digits |-> <<>>]
        ELSE LET before == Total[i - 1]
                 total == Seqs!FoldLeft(+, before.carry, columns[i])
             IN  [carry |-> total \div base, digits |-> Append(before.digits, total % base)]
      all == Total[Len(columns)]
  IN  IF all.carry > 0 THEN Append(all.digits, all.carry) ELSE all.digits

target_from_input_data(cls, kw, input) ==
  CASE cls = "Copy" -> input
    [] cls = "RepeatCopy" -> input \o Seqs!Reverse(input) \o input
    [] cls = "DuplicatedInput" -> [i \in 1..(Len(input) \div kw.duplication) |-> input[kw.duplication * (i - 1) + 1]]
    [] cls = "Reverse" -> Seqs!Reverse(input)
    [] cls = "ReversedAddition" -> AddColumns(input, kw.base)

\* The character under the head, or the blank one, whose number is base.  A
\* position counts from 0; that of a grid is a column and a row.
CharAt(cls, kw, input, pos) ==
  IF Grid(cls)
  THEN IF pos[1] \in 0..(Len(input) - 1) /\ pos[2] \in 0..(kw.rows - 1)
       THEN input[pos[1] + 1][pos[2] + 1] ELSE kw.base
  ELSE IF pos \in 0..(Len(input) - 1) THEN input[pos + 1] ELSE kw.base

ReadHeadStart(cls) == IF Grid(cls) THEN <<0, 0>> ELSE 0
\* Movements: 0 left, 1 right and, in a grid, 2 up, 3 down.
Move(cls, pos, m) ==
  IF ~Grid(cls) THEN IF m = 1 THEN pos + 1 ELSE pos - 1
  ELSE CASE m = 0 -> <<pos[1] - 1, pos[2]>> [] m = 1 -> <<pos[1] + 1, pos[2]>>
         [] m = 2 -> <<pos[1], pos[2] - 1>> [] m = 3 -> <<pos[1], pos[2] + 1>>

\* time_limit, with the quirk of the addition.
TimeLimitOf(cls, s) == IF Grid(cls) THEN 2 * Len(s.input) + 4 ELSE Len(s.input) + Len(s.target) + 4

AlgObsSpace(kw) == Discrete(kw.base + 1)
AlgActions(cls, kw) == TupleSpace(<<Discrete(IF Grid(cls) THEN 4 ELSE 2), Discrete(2), Discrete(kw.base)>>)
AlgObs(cls, kw, s) == CharAt(cls, kw, s.input, s.read)

-----------------------------------------------------------------------------

\* __init__() of any environment sets the class variables of all.
AlgShared(cls) == [min_length |-> StartingMinLength(cls), shortfalls |-> <<>>]

\* _check_levelup(): the last episodes, if there has been one.  The variant does
\* not wait until there are enough of them.
LastOf(seq, n) == SubSeq(seq, IF Len(seq) > n THEN Len(seq) - n + 1 ELSE 1, Len(seq))
LevelUpEarly(cls, kw, s, shared) ==
  LET falls == LastOf(Append(shared.shortfalls, s.total - 2 * Len(s.target)), Window(cls, kw))
      good == /\ \A i \in DOMAIN falls : falls[i] >= MIN_REWARD_SHORTFALL_FOR_PROMOTION(cls)
              /\ shared.min_length < 30
  IN  IF good THEN [min_length |-> shared.min_length + 1, shortfalls |-> <<>>]
      ELSE [shared EXCEPT !.shortfalls = falls]
LevelUp(cls, kw, s, shared) ==
  LET falls == LastOf(Append(shared.shortfalls, s.total - 2 * Len(s.target)), Window(cls, kw))
      good == /\ Len(falls) = Window(cls, kw)
              /\ \A i \in DOMAIN falls : falls[i] >= MIN_REWARD_SHORTFALL_FOR_PROMOTION(cls)
              /\ shared.min_length < 30
  IN  IF good THEN [min_length |-> shared.min_length + 1, shortfalls |-> <<>>]
      ELSE [shared EXCEPT !.shortfalls = falls]

\* reset(), once the episode before has been counted: inputs of one of three
\* lengths, and among those of kw.inputs (a bound; {} for all).
AlgReset(cls, kw, shared) ==
  {[read |-> ReadHeadStart(cls), write |-> 0, total |-> 0, time |-> 0, input |-> x,
    target |-> target_from_input_data(cls, kw, x)]
     : x \in {y \in UNION {InputData(cls, kw, n + shared.min_length) : n \in 0..2} :
                kw.inputs = {} \/ y \in kw.inputs}}

\* What writing pred does to the reward, and whether it ends the episode.
Writes(s, pred) ==
  LET correct == s.write < Len(s.target) /\ pred = s.target[s.write + 1]
  IN  [reward |-> IF correct THEN 2 ELSE -1, done |-> ~correct \/ s.write + 1 >= Len(s.target)]

\* step(): an action is <<movement, whether to write, the character>>.
AlgStep(cls, kw, s, a) ==
  LET w == IF a[2] = 1 THEN Writes(s, a[3]) ELSE [reward |-> 0, done |-> FALSE]
      late == s.time + 1 > TimeLimitOf(cls, s)
      reward == IF late THEN -2 ELSE w.reward
      t == [s EXCEPT !.time = @ + 1, !.write = @ + a[2], !.read = Move(cls, @, a[1]), !.total = @ + reward]
  IN  {[st |-> t, obs |-> AlgObs(cls, kw, t), reward |-> reward, done |-> late \/ w.done]}
=============================================================================
