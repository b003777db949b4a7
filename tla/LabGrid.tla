------------------------------- MODULE LabGrid -------------------------------
(***************************************************************************)
(* ObsGrid (tools/envs/obsgrid_env.py): a maze of lettered cells as a      *)
(* Markov decision process.  A grid g is a record                          *)
(*                                                                         *)
(*   rows, cols   its shape                                                *)
(*   cells        the letters, row after row                               *)
(*   rewards      letter -> reward                                         *)
(*   actdyn       action -> direction taken -> probability                 *)
(*   den          what the probabilities of actdyn add up to               *)
(*                                                                         *)
(* W is a wall, S the start, G the goal, P a pit, C a cell with a current, *)
(* where the direction taken is drawn from actdyn.  States count from 0,   *)
(* and the directions and actions are 0 left, 1 right, 2 up, 3 down.       *)
(***************************************************************************)
EXTENDS Integers, Sequences, FiniteSetsExt

Dirs == 0..3

StatesOf(g) == 0..(g.rows * g.cols - 1)
Cell(g, s) == g.cells[s + 1]
FirstState(g, letter) == CHOOSE s \in StatesOf(g) :
                            /\ Cell(g, s) = letter
                            /\ \A t \in StatesOf(g) : Cell(g, t) = letter => s <= t
StartState(g) == FirstState(g, "S")
GoalState(g) == FirstState(g, "G")

PosToState(g, x, y) == x * g.cols + y
StateToPos(g, s) == <<s \div g.cols, s % g.cols>>

\* The cell one step away, or the same one at the border or before a wall.
Lands(g, s, d) ==
  LET x == StateToPos(g, s)[1]
      y == StateToPos(g, s)[2]
      t == PosToState(g, IF d = 2 THEN Max({0, x - 1}) ELSE IF d = 3 THEN Min({g.rows - 1, x + 1}) ELSE x,
                         IF d = 0 THEN Max({0, y - 1}) ELSE IF d = 1 THEN Min({g.cols - 1, y + 1}) ELSE y)
  IN  IF Cell(g, t) = "W" THEN s ELSE t

\* The transition model, in parts of den.
T(g, s, a, ns) ==
  CASE Cell(g, s) = "W" -> 0
    [] Cell(g, s) \in {"G", "P"} -> IF ns = s THEN g.den ELSE 0
    [] Cell(g, s) = "C" -> LET drift(d) == IF Lands(g, s, d) = ns THEN g.actdyn[a][d] ELSE 0
                           IN  drift(0) + drift(1) + drift(2) + drift(3)
    [] OTHER -> IF ns = Lands(g, s, a) THEN g.den ELSE 0

\* The reward of a step is that of the cell it ends in; walls and final cells
\* pay nothing.
R(g, s, a, ns) == IF Cell(g, s) \in {"W", "G", "P"} \/ \A d \in Dirs : Lands(g, s, d) # ns
                  THEN 0 ELSE g.rewards[Cell(g, ns)]

\* The reward of a state, which the planners use.
RS(g, s) == IF Cell(g, s) = "W" THEN 0 ELSE g.rewards[Cell(g, s)]

is_terminal(g, s) == Cell(g, s) \in {"G", "R"}

\* What sample() may return.
Sample(g, s, a) == {ns \in StatesOf(g) : T(g, s, a, ns) > 0}

\* What step() may return in an episode that has not ended.
StepResults(g, s, a) == {[state |-> ns, reward |-> R(g, s, a, ns),
                          done |-> Cell(g, ns) \in {"G", "P", "R"}] : ns \in Sample(g, s, a)}

\* The norms of class Heu; the second one squared, which orders alike.
L1(p, q) == LET d(i) == IF p[i] > q[i] THEN p[i] - q[i] ELSE q[i] - p[i] IN d(1) + d(2)
L2squared(p, q) == (p[1] - q[1]) * (p[1] - q[1]) + (p[2] - q[2]) * (p[2] - q[2])

\* AquaticEnv: rewards in hundredths, probabilities in tenths.
AquaticEnv ==
  [rows |-> 10, cols |-> 10, den |-> 10,
   cells |-> << "S", "O", "O", "F", "F", "C", "R", "R", "R", "R",
                "O", "R", "R", "C", "C", "C", "F", "E", "F", "F",
                "O", "O", "F", "C", "R", "C", "F", "F", "F", "F",
                "R", "R", "F", "C", "E", "C", "F", "O", "F", "R",
                "O", "F", "F", "C", "R", "C", "F", "O", "F", "R",
                "R", "E", "F", "R", "R", "O", "F", "C", "F", "R",
                "O", "F", "C", "C", "C", "O", "F", "C", "F", "C",
                "O", "F", "F", "F", "O", "O", "O", "F", "F", "C",
                "O", "O", "O", "O", "R", "R", "R", "R", "F", "R",
                "R", "R", "R", "O", "O", "O", "O", "G", "O", "F" >>,
   rewards |-> [S |-> -1, O |-> -1, F |-> -10, C |-> -4, R |-> -1000, E |-> 10, G |-> 2000],
   actdyn |-> [a \in Dirs |-> [d \in Dirs |->
                 IF d = a THEN 8 ELSE IF {a, d} \in {{0, 1}, {2, 3}} THEN 0 ELSE 1]]]
==============================================================================
