------------------------------ MODULE Learning ------------------------------
(***************************************************************************)
(* The planners and learners of the notebooks MDP_3_problem, RL_4_problem  *)
(* and AI_exam_ex_3, on the grids of LabGrid.                              *)
(*                                                                         *)
(*   vi        value_iteration(), then run_episode() of its policy         *)
(*   pi        policy_iteration(), which is not written yet, and the same  *)
(*   random    the loop that runs a random policy                          *)
(*   qlearn    q_learning(), and your_method() of the exam, the same loop  *)
(*   sarsa     sarsa()                                                     *)
(*                                                                         *)
(* Rewards are whole numbers (hundredths).  A utility after k iterations   *)
(* is kept times Scale^k, so nothing is rounded.  Q tables are learnt with *)
(* alpha = gamma = 1, which keeps them whole.                              *)
(***************************************************************************)
EXTENDS Integers, Sequences, FiniteSets

CONSTANTS Grids,      \* name -> grid
          Methods,    \* subset of {"vi", "pi", "random", "qlearn", "sarsa"}
          Discount,   \* one over the discount factor of value iteration
          MaxErrors,  \* the values of max_error to try
          MaxIters,   \* maxiters
          EpLimit,    \* limit of steps of an episode that is run
          Episodes,   \* episodes of a learner
          MaxSteps,   \* bound: steps of a learner in all its episodes
          Horizon     \* bound: steps of the plans WithinError compares with

L == INSTANCE LabGrid

\* A maze with a start, where every cell that is not a wall has a reward.
GridType(G) == /\ G.rows \in Nat /\ G.cols \in Nat
               /\ \E s \in L!StatesOf(G) : L!Cell(G, s) = "S"
               /\ \A s \in L!StatesOf(G) : L!Cell(G, s) # "W" => G.rewards[L!Cell(G, s)] \in Int

ASSUME LearningAssumption == /\ \A w \in DOMAIN Grids : GridType(Grids[w])
                             /\ Methods \subseteq {"vi", "pi", "random", "qlearn", "sarsa"}
                             /\ Discount \in Nat \ {0, 1} /\ MaxErrors \subseteq Nat
                             /\ MaxIters \in Nat \ {0} /\ EpLimit \in Nat \ {0}
                             /\ Episodes \in Nat \ {0} /\ MaxSteps \in Nat

Acts == L!Dirs

VARIABLES world, method,  \* the grid and what is run on it
          max_error,      \* the max_error of value iteration
          phase,          \* "plan", "learn", "run", "over"
          iter, U,        \* iterations done and the utilities they left
          policy,         \* state -> action
          q,              \* state -> action -> value
          episode, steps, \* the episode of a learner, and steps in all
          expl,           \* whether the exploration function may explore
          state, action,  \* where the agent is and, for SARSA, what it does next
          done, len, rew, \* of the episode: over, steps and reward
          rews            \* rewards of the episodes that have ended
agent == <<state, action, done, len, rew>>
learnvars == <<world, method, max_error, phase, iter, U, policy, q, episode, steps, expl, agent, rews>>

g == Grids[world]
States == L!StatesOf(g)
Final(s) == L!Cell(g, s) \in {"P", "G"}

\* The first of the actions of largest value: argmax().
ArgMax(f) == CHOOSE a \in Acts : /\ \A b \in Acts : f[a] >= f[b]
                                 /\ \A b \in Acts : f[b] = f[a] => a <= b
MaxOf(f) == f[ArgMax(f)]

\* epsilon_greedy() and softmax(): with exploration any action may be chosen.
Explore(f) == IF expl THEN Acts ELSE {ArgMax(f)}

Zeros == [s \in States |-> 0]
Policies == {[s \in States |-> a] : a \in Acts} \cup {[s \in States |-> s % 4]}

LearnInit ==
  /\ world \in DOMAIN Grids /\ method \in Methods
  /\ phase = CASE method \in {"vi", "pi"} -> "plan" [] method = "random" -> "run" [] OTHER -> "learn"
  /\ max_error \in IF method = "vi" THEN MaxErrors ELSE {0}
  /\ iter = 0 /\ U = Zeros
  /\ policy \in IF method = "random" THEN Policies ELSE {Zeros}
  /\ q = [s \in States |-> [a \in Acts |-> 0]]
  /\ expl \in IF method \in {"qlearn", "sarsa"} THEN BOOLEAN ELSE {FALSE}
  /\ episode = 0 /\ steps = 0
  /\ state = L!StartState(g)
  /\ action \in IF method = "sarsa" THEN Explore(q[L!StartState(g)]) ELSE {0}
  /\ done = FALSE /\ len = 0 /\ rew = 0 /\ rews = <<>>

-----------------------------------------------------------------------------
(* Planning.                                                               *)

Scale == Discount * g.den
Abs(x) == IF x < 0 THEN -x ELSE x

\* The Bellman update of a state, times Scale^(iter + 1).
Backup(s, a) == L!MapThenSumSet(LAMBDA ns : L!T(g, s, a, ns) * (L!RS(g, s) * Discount * Scale^iter + U[ns]), States)
Bellman(s) == MaxOf([a \in Acts |-> Backup(s, a)])

\* One sweep; final states have their own reward and do not count in delta.
Sweep == [s \in States |-> IF Final(s) THEN L!RS(g, s) * Scale^(iter + 1) ELSE Bellman(s)]
Deltas(V) == {Abs(V[s] - Scale * U[s]) : s \in {t \in States : ~Final(t)}}
\* The test of convergence, on the largest change.  The variant looks at the
\* change of one state.
SomeConverged(V) == \E d \in Deltas(V) : d < max_error * (Discount - 1) * Scale^(iter + 1)
Converged(V) == \A d \in Deltas(V) : d < max_error * (Discount - 1) * Scale^(iter + 1)

\* values_to_policy(): the best expected utility of the next state.
ToPolicy(V) == [s \in States |->
                  ArgMax([a \in Acts |-> L!MapThenSumSet(LAMBDA ns : L!T(g, s, a, ns) * V[ns], States)])]

Iterate == /\ phase = "plan" /\ method = "vi"
           /\ U' = Sweep /\ iter' = iter + 1
           /\ IF Converged(U') \/ iter' = MaxIters
              THEN phase' = "run" /\ policy' = ToPolicy(U')
              ELSE UNCHANGED <<phase, policy>>
           /\ UNCHANGED <<world, method, max_error, q, episode, steps, expl, agent, rews>>

\* policy_iteration() returns the policy it starts from.
PolicyIteration == /\ phase = "plan" /\ method = "pi"
                   /\ phase' = "run"
                   /\ UNCHANGED <<world, method, max_error, iter, U, policy, q, episode, steps, expl, agent, rews>>

-----------------------------------------------------------------------------
(* Episodes.                                                               *)

\* run_episode(), and the loop of the random policy.
RunStep == /\ phase = "run" /\ ~done /\ len < EpLimit
           /\ \E r \in L!StepResults(g, state, policy[state]) :
                state' = r.state /\ done' = r.done /\ rew' = rew + r.reward
           /\ len' = len + 1
           /\ UNCHANGED <<world, method, max_error, phase, iter, U, policy, q, episode, steps, expl, action, rews>>
RunEnd == /\ phase = "run" /\ (done \/ len = EpLimit)
          /\ phase' = "over" /\ rews' = Append(rews, rew)
          /\ UNCHANGED <<world, method, max_error, iter, U, policy, q, episode, steps, expl, agent>>

\* The loop of an episode is left when the environment says it is done: the
\* next one starts at once, or the learner returns its policy.
NextEpisode(table) ==
  /\ rews' = Append(rews, rew')
  /\ episode' = episode + 1
  /\ IF episode + 1 = Episodes
     THEN /\ phase' = "over" /\ policy' = [s \in States |-> ArgMax(table[s])]
          /\ UNCHANGED <<state, action, done, len>>
     ELSE /\ state' = L!StartState(g) /\ done' = FALSE /\ len' = 0
          /\ action' \in IF method = "sarsa" THEN Explore(table[L!StartState(g)]) ELSE {0}
          /\ UNCHANGED <<phase, policy>>

\* The target of the update of q[state, action]: with alpha = 1, its value.  The
\* variant looks ahead from the state that is left.
QTargetBehind(r) == r.reward + MaxOf(q[state])
QTarget(r) == r.reward + MaxOf(q[r.state])
SarsaTarget(r, next) == r.reward + q[r.state][next]

\* The end of an iteration of the loop, after the update of the table.
Learns(r, table, next) ==
  /\ steps < MaxSteps /\ steps' = steps + 1
  /\ q' = table
  /\ rew' = (IF len = 0 THEN 0 ELSE rew) + r.reward
  /\ IF r.done THEN NextEpisode(table)
     ELSE /\ state' = r.state /\ action' = next /\ len' = len + 1
          /\ UNCHANGED <<done, phase, policy, episode, rews>>
  /\ UNCHANGED <<world, method, max_error, iter, U, expl>>

QLearn == /\ phase = "learn" /\ method = "qlearn"
          /\ \E a \in Explore(q[state]) : \E r \in L!StepResults(g, state, a) :
               Learns(r, [q EXCEPT ![state][a] = QTarget(r)], 0)

\* The next action is chosen before the table is updated.
Sarsa == /\ phase = "learn" /\ method = "sarsa"
         /\ \E r \in L!StepResults(g, state, action) : \E next \in Explore(q[r.state]) :
              Learns(r, [q EXCEPT ![state][action] = SarsaTarget(r, next)], next)

LearnNext == Iterate \/ PolicyIteration \/ RunStep \/ RunEnd \/ QLearn \/ Sarsa

LearnSpec == LearnInit /\ [][LearnNext]_learnvars

-----------------------------------------------------------------------------
(* Properties.                                                             *)

\* The most that Horizon steps from s can earn in a grid without currents,
\* times Discount^Horizon, if each state pays its own reward once per step and
\* a final state pays once.
Best(s) ==
  LET Walks == [1..Horizon -> Acts]
      Earned(walk) ==
        LET At[i \in 0..Horizon] == IF i = 0 THEN s
              ELSE IF Final(At[i - 1]) THEN At[i - 1] ELSE L!Lands(g, At[i - 1], walk[i])
            Pays(i) == IF i > 0 /\ Final(At[i - 1]) THEN 0
                       ELSE L!RS(g, At[i]) * Discount^(Horizon - i)
        IN  L!MapThenSumSet(Pays, 0..Horizon - 1)
  IN  L!Max({Earned(walk) : walk \in Walks})

Certain == g.den = 1     \* no currents
Planned == method = "vi" /\ phase # "plan" /\ Certain
LargestReward == L!Max({Abs(L!RS(g, s)) : s \in States})

\* The first sweep changes the other states by their own rewards: if one of
\* those is not below the bound, a second sweep follows.
SecondSweep == \E s \in States : ~Final(s) /\ Abs(L!RS(g, s)) >= max_error * (Discount - 1)

\* max_error is "the maximum error allowed in the utility of any state"
\* (MDP_3_problem.ipynb:173), and so it is if there is a second sweep.  Final states
\* do not count in delta: if the first sweep is the last, their rewards are still
\* to spread, and the error may be as large as one of them, discounted.
FinalReward == L!Max({0} \cup {Abs(L!RS(g, s)) : s \in {t \in States : Final(t)}})
ErrorAllowed == IF SecondSweep THEN max_error
                ELSE L!Max({max_error, FinalReward \div (Discount - 1) + 1})

\* When the planning is over, the utilities are that near the best that can be
\* earned from each state, but for what the horizon of the reference leaves out.
WithinError ==
  Planned /\ phase = "run" /\ len = 0 /\ iter < MaxIters =>
    \A s \in States : L!Cell(g, s) # "W" =>
      Abs(U[s] * Discount^Horizon - Best(s) * Scale^iter)
        <= (ErrorAllowed * Discount^Horizon + 2 * LargestReward) * Scale^iter

\* An agent that follows the policy of two sweeps or more gets to the goal and
\* not to a pit or to the limit of steps.
PlanArrives == Planned /\ SecondSweep /\ phase = "over" => done /\ L!Cell(g, state) = "G"

\* <<<<w, s, a>>, x>> if n steps or fewer of grid w, from s and starting with a, can
\* earn x.  MaxSteps are all that a learner makes.
Starts == UNION {{w} \X L!StatesOf(Grids[w]) \X Acts : w \in DOMAIN Grids}
Moves == UNION {{<<c, r>> : r \in L!StepResults(Grids[c[1]], c[2], c[3])} : c \in Starts}
Earned[n \in 0..MaxSteps] ==
  LET before == IF n = 0 THEN {} ELSE Earned[n - 1]
      Rest(m) == {e \in before : ~m[2].done /\ e[1][1] = m[1][1] /\ e[1][2] = m[2].state}
  IN  IF n = 0 THEN {}
      ELSE UNION {{<<m[1], m[2].reward + x>> : x \in {0} \cup {e[2] : e \in Rest(m)}} : m \in Moves}
WalkReturns == Earned[MaxSteps]

\* A value learnt is what some walk from there really earns: nothing is
\* counted twice, nothing is credited to another pair or carried from one
\* episode to the next.  So the learners may bootstrap from the table when the
\* episode has ended: the rows of final states stay at zero.
Attainable == \A s \in States : \A a \in Acts :
                 q[s][a] = 0 \/ <<<<world, s, a>>, q[s][a]>> \in WalkReturns
==============================================================================
