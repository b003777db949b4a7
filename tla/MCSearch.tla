------------------------------ MODULE MCSearch ------------------------------
(* Instances of Search on small grids of LabGrid.                          *)
EXTENDS Search

Lab == INSTANCE LabGrid

Maze(rows, cols, cells) == [rows |-> rows, cols |-> cols, cells |-> cells, den |-> 10,
                            rewards |-> [x \in {"S", "O", "G", "C"} |-> 0],
                            actdyn |-> Lab!AquaticEnv.actdyn]

ProblemOf(g) ==
  LET sts == Lab!StatesOf(g)
      goal == Lab!StateToPos(g, Lab!GoalState(g))
  IN  [states |-> sts, actions |-> 4,
       sample |-> [sa \in sts \X Lab!Dirs |-> IF Lab!Cell(g, sa[1]) = "W" THEN {sa[1]} ELSE Lab!Sample(g, sa[1], sa[2])],
       start |-> Lab!StartState(g), goal |-> Lab!GoalState(g),
       l1 |-> [s \in sts |-> Lab!L1(Lab!StateToPos(g, s), goal)],
       l2 |-> [s \in sts |-> Lab!L2squared(Lab!StateToPos(g, s), goal)]]

Corridor == ProblemOf(Maze(1, 2, <<"S", "G">>))

\* A start that is the goal, an open grid, a detour round a wall, a goal walled in,
\* and a cell with a current.
MCProblems ==
  [home    |-> [Corridor EXCEPT !.goal = Corridor.start],
   open    |-> ProblemOf(Maze(3, 3, <<"S", "O", "O",
                                      "O", "O", "O",
                                      "O", "O", "G">>)),
   detour  |-> ProblemOf(Maze(3, 4, <<"S", "O", "O", "O",
                                      "O", "W", "W", "O",
                                      "O", "O", "G", "O">>)),
   blocked |-> ProblemOf(Maze(2, 3, <<"S", "W", "G",
                                      "O", "W", "O">>)),
   small   |-> ProblemOf(Maze(2, 2, <<"S", "O",
                                      "W", "G">>)),
   current |-> ProblemOf(Maze(2, 2, <<"S", "C",
                                      "O", "G">>))]
MCAlgs == Queued \cup Deepening
=============================================================================
