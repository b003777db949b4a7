----------------------------- MODULE MCNotebooks -----------------------------
(***************************************************************************)
(* Instances of Search and Learning on small grids: a behaviour runs one   *)
(* search of the notebooks or one planner or learner.                      *)
(***************************************************************************)
EXTENDS MCSearch, Learning

Rewards == [x \in {"S", "O", "C", "E", "G", "P", "R"} |->
              CASE x = "G" -> 16 [] x = "P" -> -16 [] x = "R" -> -8 [] x = "E" -> -1 [] OTHER -> -2]
Grid(rows, cols, den, cells) == [rows |-> rows, cols |-> cols, cells |-> cells, den |-> den,
                                 rewards |-> Rewards, actdyn |-> L!AquaticEnv.actdyn]

\* A pit beside the way, rocks beside it, and a current.
MCGrids == [pit   |-> Grid(2, 3, 1, <<"S", "O", "G",
                                      "O", "P", "W">>),
            rocks |-> Grid(2, 3, 1, <<"O", "E", "G",
                                      "S", "R", "R">>),
            flow  |-> Grid(1, 3, 10, <<"S", "C", "G">>)]
AllMethods == {"vi", "pi", "random", "qlearn", "sarsa"}
MCMaxErrors == {1, 3}

\* In a behaviour that plans or learns the search never starts, and in one that
\* searches the planner never does.
NoSearch == prob = "home" /\ alg = "ids"
NoPlan == world = "flow" /\ method = "pi"
Searching == ~NoSearch

SearchStep == Searching /\ Next /\ UNCHANGED learnvars
LearnStep == ~Searching /\ LearnNext /\ UNCHANGED vars

NotebookInit == Init /\ LearnInit /\ (NoSearch \/ NoPlan)
NotebookSpec == /\ NotebookInit
                /\ [][SearchStep \/ LearnStep]_<<vars, learnvars>>
                /\ WF_vars(SearchStep)
=============================================================================
