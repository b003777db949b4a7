--------------------------------- MODULE Gym ---------------------------------
(***************************************************************************)
(* A program that uses gym: it makes environments by their ids, resets     *)
(* them and steps in them.  make() builds the class of the registration    *)
(* and, if it has a limit of steps, wraps it in a TimeLimit.               *)
(*                                                                         *)
(* What a program makes is a session: a sequence of records with the id,   *)
(* the keyword arguments kw, the limit it sets to the spec before make()   *)
(* (0: none), the actions it uses ({}: all that sample() of the action     *)
(* space may give) and whether it resets before the end of an episode.     *)
(***************************************************************************)
EXTENDS Registry, TLC

CONSTANTS TERRAIN_LENGTH, TERRAIN_GRASS, TERRAIN_STARTPAD, Slopes, Points,   \* those of Box2d
          Float32,    \* that of ToyText
          Sessions,   \* the sessions, a sequence of them
          MaxLevel    \* bound: the least length of inputs that is tried

ASSUME Box2dAssumption == /\ {TERRAIN_LENGTH, TERRAIN_GRASS, TERRAIN_STARTPAD, Points} \subseteq Nat \ {0}
                          /\ TERRAIN_GRASS >= 6 /\ Slopes \subseteq Int
ASSUME Float32Assumption == \A m \in DOMAIN Float32 : m \in Nat /\ Float32[m] \in Nat

Toy == INSTANCE ToyText
Alg == INSTANCE Algorithmic
Unit == INSTANCE UnitEnvs
Physics == INSTANCE Box2d
S == INSTANCE Spaces

ToyClasses == {"FrozenLake", "CliffWalking", "Taxi", "Blackjack", "NChain", "Roulette", "GuessingGame",
               "HotterColder", "KellyCoinflip", "KellyCoinflipGeneralized"}
UnitClasses == {"CubeCrash", "MemorizeDigits", "CartPole", "MountainCar", "Continuous_MountainCar",
                "Pendulum", "Acrobot"}
BoxClasses == {"LunarLander", "BipedalWalker", "CarRacing"}

VARIABLES todo,    \* what the session has still to make
          envs,    \* the environments made
          shared,  \* the class variables of the algorithmic environments
          failed   \* the exception that ended the program, "" if none
vars == <<todo, envs, shared, failed>>

Init == /\ \E k \in DOMAIN Sessions : todo = Sessions[k]
        /\ envs = <<>> /\ shared = [min_length |-> 0, shortfalls |-> <<>>] /\ failed = ""

IsAlg(e) == e.cls \in Alg!AlgorithmicClasses
BaseClass(cls) == CASE cls = "CubeCrashSparse" -> "CubeCrash"
                    [] cls = "LunarLanderContinuous" -> "LunarLander"
                    [] cls = "BipedalWalkerHardcore" -> "BipedalWalker"
                    [] OTHER -> cls

\* What reset() may leave and show, <<state, observation>>.
Resets(cls, kw, sh) ==
  CASE cls \in Alg!AlgorithmicClasses -> {<<s, Alg!AlgObs(cls, kw, s)>> : s \in Alg!AlgReset(cls, kw, sh)}
    [] cls \in ToyClasses -> Toy!ToyReset(cls, kw)
    [] cls \in UnitClasses -> Unit!UnitReset(cls, kw)
    [] cls \in BoxClasses -> Physics!BoxReset(cls, kw)
Steps(e, a) ==
  CASE IsAlg(e) -> Alg!AlgStep(e.cls, e.kw, e.st, a)
    [] e.cls \in ToyClasses -> Toy!ToyStep(e.cls, e.kw, e.st, a)
    [] e.cls \in UnitClasses -> Unit!UnitStep(e.cls, e.kw, e.st, a)
    [] e.cls \in BoxClasses -> Physics!BoxStep(e.cls, e.kw, e.st, a)
ObsSpace(e) == CASE IsAlg(e) -> Alg!AlgObsSpace(e.kw)
                 [] e.cls \in ToyClasses -> Toy!ToyObsSpace(e.cls, e.kw, e.st)
                 [] e.cls \in UnitClasses -> Unit!UnitObsSpace(e.cls)
                 [] e.cls \in BoxClasses -> Physics!BoxObsSpace(e.cls)
ActionSpace(e) == CASE IsAlg(e) -> Alg!AlgActions(e.cls, e.kw)
                    [] e.cls \in ToyClasses -> Toy!ToyActions(e.cls, e.kw, e.st)
                    [] e.cls \in UnitClasses -> Unit!UnitActions(e.cls)
                    [] e.cls \in BoxClasses -> Physics!BoxActions(e.cls, e.kw)

-----------------------------------------------------------------------------

\* FrozenLakeEnv() without a map draws one.
Constructed(entry) == IF "random" \in DOMAIN entry.kw
                      THEN {[nrow |-> 3, ncol |-> 3, slippery |-> FALSE, desc |-> m] : m \in Toy!RandomMaps(3)}
                      ELSE {entry.kw}

\* make(): the constructors of algorithmic environments set the class
\* variables and reset.  A TimeLimit does not step before a reset.
Make ==
  /\ todo # <<>> /\ failed = ""
  /\ LET entry == Head(todo)
     IN  IF Lookup(entry.id) # "found"
         THEN failed' = Lookup(entry.id) /\ UNCHANGED <<envs, shared>>
         ELSE LET spec == SetLimit(SpecOf(entry.id), entry.limit)
                  cls == BaseClass(spec.cls)
              IN  /\ shared' = IF cls \in Alg!AlgorithmicClasses THEN Alg!AlgShared(cls) ELSE shared
                  /\ \E kw \in Constructed(entry) : \E r \in Resets(cls, kw, shared') :
                       /\ cls \notin Alg!AlgorithmicClasses => r = CHOOSE x \in Resets(cls, kw, shared') : TRUE
                       /\ envs' = Append(envs, [cls |-> cls, kw |-> kw, acts |-> entry.acts, quits |-> entry.quits,
                            max_episode_steps |-> spec.max_episode_steps, elapsed |-> 0, begun |-> FALSE,
                            st |-> r[1], obs |-> r[2], rew |-> 0, done |-> FALSE, over |-> FALSE, streak |-> 0])
                  /\ UNCHANGED failed
  /\ todo' = Tail(todo)

\* An algorithmic episode is solved if all but its last character is written,
\* and nothing wrong.  streak counts the solved episodes of an environment.
Solved(e) == e.st.write >= Len(e.st.target) - 1 /\ e.st.total = 2 * e.st.write
Streak(e) == IF Solved(e) THEN e.streak + 1 ELSE 0

\* reset() of TimeLimit and of the environment.
Reset(i) ==
  LET e == envs[i]
      sh == IF IsAlg(e) THEN Alg!LevelUp(e.cls, e.kw, e.st, shared) ELSE shared
  IN  /\ todo = <<>> /\ failed = "" /\ (~e.begun \/ e.over \/ e.quits)
      /\ sh.min_length <= MaxLevel
      /\ shared' = sh
      /\ \E r \in Resets(e.cls, e.kw, sh) :
           envs' = [envs EXCEPT ![i] = [e EXCEPT !.st = r[1], !.obs = r[2], !.rew = 0, !.elapsed = 0,
                      !.begun = TRUE, !.done = FALSE, !.over = FALSE,
                      !.streak = IF ~IsAlg(e) \/ sh.min_length # shared.min_length THEN 0
                                 ELSE IF Streak(e) < Alg!Window(e.cls, e.kw) THEN Streak(e) ELSE e.streak]]
      /\ UNCHANGED <<todo, failed>>

\* step() of TimeLimit and of the environment.  The variant forgets to count.
PastLimit(e, elapsed) == e.max_episode_steps # None /\ e.max_episode_steps <= elapsed
Uncounted(e) == 0
Elapsed(e) == IF e.max_episode_steps = None THEN 0 ELSE e.elapsed + 1
Stepped(e, o) ==
  [e EXCEPT !.st = o.st, !.obs = o.obs, !.rew = o.reward, !.done = o.done, !.elapsed = Elapsed(e),
            !.over = o.done \/ PastLimit(e, Elapsed(e))]

\* The assertions of step() on its action: that of the space, and those of the
\* lander on its engines.
Accepted(e, a) == /\ S!Contains(ActionSpace(e), a)
                  /\ e.cls = "LunarLander" => Physics!PowersOK(e.kw.continuous, a)

Choices(e) == IF e.acts = {} THEN S!SampleOf(ActionSpace(e)) ELSE e.acts
Step(i, a) ==
  LET e == envs[i]
  IN  /\ todo = <<>> /\ failed = "" /\ e.begun /\ ~e.over
      /\ IF Accepted(e, a)
         THEN UNCHANGED failed /\ \E o \in Steps(e, a) : envs' = [envs EXCEPT ![i] = Stepped(e, o)]
         ELSE failed' = "AssertionError" /\ UNCHANGED envs
      /\ UNCHANGED <<todo, shared>>

Act(i) == i \in DOMAIN envs /\ \E a \in Choices(envs[i]) : Step(i, a)

Next == Make \/ \E i \in DOMAIN envs : Reset(i) \/ Act(i)

Spec == Init /\ [][Next]_vars
FairSpec == Spec /\ \A i \in 1..2 : WF_vars(Act(i))   \* a loop that steps until the episode is over

-----------------------------------------------------------------------------
(* What a session may hold.                                                *)

\* A map of FrozenLake has a way from the start to the goal.
WayToGoal(kw) ==
  LET last == kw.nrow * kw.ncol
      Grow[n \in 0..last] == IF n = 0 THEN {0}
                             ELSE LET cells == Grow[n - 1]
                                      near == UNION {Toy!NextCells(kw.ncol, c) : c \in cells}
                                  IN  cells \cup {d \in near : kw.desc[d + 1] # "H"}
  IN  last - 1 \in Grow[last]

Positive == Nat \ {0}

\* The arguments that the constructors are made for.  In one step a lander goes
\* less than three quarters of the way to the edge of the screen.
KwOK(cls, kw) ==
  /\ cls \in Alg!AlgorithmicClasses \cup ToyClasses \cup UnitClasses \cup BoxClasses
  /\ cls = "FrozenLake" => /\ {kw.nrow, kw.ncol} \subseteq Positive /\ kw.slippery \in BOOLEAN
                           /\ kw.desc \in [1..(kw.nrow * kw.ncol) -> {"S", "F", "H", "G"}] /\ WayToGoal(kw)
  /\ cls = "Blackjack" => kw.deck \subseteq 1..10 /\ kw.natural \in BOOLEAN
  /\ cls = "NChain" => kw.n \in Positive
  /\ cls = "Roulette" => kw.spots \in Positive
  /\ cls \in {"GuessingGame", "HotterColder"} => kw.numbers \subseteq Int
  /\ cls = "KellyCoinflip" => kw.max_rounds \in Positive /\ kw.max_wealth \in DOMAIN Float32 /\ kw.initial \in 1..(kw.max_wealth - 1)
  /\ cls = "KellyCoinflipGeneralized" => /\ kw.initial \in Positive /\ kw.lengths \subseteq Positive
                                         /\ kw.caps \subseteq {m \in DOMAIN Float32 : m > kw.initial}
  /\ cls = "CubeCrash" => kw.shaped \in BOOLEAN /\ kw.holes \subseteq Int
  /\ cls = "LunarLander" => kw.continuous \in BOOLEAN /\ kw.ground \in Nat /\ kw.moves \subseteq -7..7
  /\ cls = "BipedalWalker" => kw.hardcore \in BOOLEAN /\ kw.ground \in Nat /\ kw.moves \subseteq Int
  /\ cls \in Alg!AlgorithmicClasses => {kw.base, kw.rows, kw.duplication, kw.last10, kw.last50} \subseteq Positive

\* An action for a Box is a sequence of numbers.  The space of the generalized
\* Kelly game depends on the cap that is drawn.
ActOK(sp, a) == S!Contains(sp, a) /\ (sp.kind = "Box" => a \in Seq(Int))
ActsOK(cls, kw, acts) ==
  \A m \in IF cls = "KellyCoinflipGeneralized" THEN kw.caps ELSE {0} :
    \A a \in acts : ActOK(ActionSpace([cls |-> cls, kw |-> kw, st |-> [max_wealth |-> m]]), a)

EntryOK(entry) ==
  /\ entry.limit \in Nat /\ entry.quits \in BOOLEAN
  /\ Lookup(entry.id) = "found" =>
       LET cls == BaseClass(SpecOf(entry.id).cls)
       IN  /\ IF "random" \in DOMAIN entry.kw THEN cls = "FrozenLake" ELSE KwOK(cls, entry.kw)
           /\ ActsOK(cls, entry.kw, entry.acts)

ASSUME SessionsAssumption ==
  \A k \in DOMAIN Sessions : LET s == Sessions[k]
                             IN  s \in Seq({s[j] : j \in DOMAIN s}) /\ \A j \in DOMAIN s : EntryOK(s[j])

-----------------------------------------------------------------------------
(* Properties.                                                             *)

Env(i, cls) == envs[i].cls = cls

\* Where float32 has no number for the cap of a Kelly game and rounds it down, a
\* player who has more than that is outside the Box.
CutDown(max, wealth) == Float32[max] < Toy!Penny * max /\ Float32[max] < wealth
BoundLost(e) == \/ e.cls = "KellyCoinflip" /\ CutDown(e.kw.max_wealth, e.st.wealth)
                \/ e.cls = "KellyCoinflipGeneralized" /\ CutDown(e.st.max_wealth, e.st.ever)

\* Every observation, the first one and the last one of an episode included,
\* belongs to the observation space that the environment announces, which
\* test_envs.py:26 asserts, unless a bound is lost to float32; the assertions of the
\* spaces hold, and no action that sample() gives fails the assertion of step(), in
\* any order of calls and with any draw.
Shown(e) == S!Contains(ObsSpace(e), e.obs) \/ BoundLost(e)
SpacesKept == /\ \A i \in DOMAIN envs : /\ S!SpaceOK(ObsSpace(envs[i])) /\ S!SpaceOK(ActionSpace(envs[i]))
                                         /\ Shown(envs[i])
              /\ failed # "AssertionError"

\* The worlds do not drift from their rules over a whole session: what their
\* states, rewards and ends of episodes say of each other.
LakeSound(e) == IF e.begun
                THEN LET letter == e.kw.desc[e.st + 1]
                     IN  (e.done <=> letter \in {"G", "H"}) /\ (e.rew = 1 <=> letter = "G")
                ELSE WayToGoal(e.kw)
CliffSound(e) == e.st \notin Toy!Cliff /\ (e.done <=> e.st = 47)
TaxiSound(e) == LET t == Toy!decode(e.st)
                IN  t.row \in 0..4 /\ (e.done <=> t.pass = t.dest)
                      /\ (e.begun /\ e.rew = 20 => e.done /\ Toy!TaxiLocs[t.dest + 1] = <<t.row, t.col>>)
BlackjackSound(e) == LET p == Toy!sum_hand(e.st.player)
                         d == Toy!sum_hand(e.st.dealer)
                     IN  /\ ~e.done => p <= 21
                         /\ e.done => IF p > 21 THEN e.rew = -2
                                      ELSE d >= 17 /\ (e.rew > 0 <=> p > d \/ d > 21)
\* A game of Kelly ends when there is less than a penny, at the cap or after the
\* last round.  Rounding shows at both ends: one may end with what ought to be a
\* penny, and go on with wealth just below the cap.
KellyEnds(e, max) == /\ e.st.wealth \in 0..Toy!Penny * max
                     /\ e.begun => (e.done <=> \/ e.st.wealth < Toy!Penny \/ e.st.wealth = Toy!Penny * max
                                               \/ e.st.rounds = 0)
KellySound(e) == KellyEnds(e, e.kw.max_wealth) /\ (e.begun /\ e.done => e.rew = e.st.wealth)
\* The generalized game counts its rounds and the most there has been, but its
\* statistics of wins and losses (kellycoinflip.py:98-103) are not what they say:
\* a lost flip is a win too (line 173).
GeneralSound(e) == /\ KellyEnds(e, e.st.max_wealth)
                   /\ e.st.elapsed + e.st.rounds = e.st.max_rounds /\ e.st.ever >= e.st.wealth
                   /\ e.st.wins = e.st.elapsed /\ e.st.losses = 0
CubeSound(e) == /\ ~e.done => e.st.x - 1 >= 0 /\ e.st.x + 1 < 32 /\ e.st.y < 40
                /\ e.rew = 100 => Unit!Dist(e.st.x, e.st.hole) < 4 /\ e.done
CartSound(e) == e.begun => ((e.st.steps_beyond_done = "None") <=> ~e.done) /\ (e.elapsed > 0 => e.rew = 1)
TapeSound(e) == /\ e.st.total <= 2 * e.st.write /\ e.st.write <= Len(e.st.target)
                /\ ~e.done => e.st.total = 2 * e.st.write /\ e.st.time <= Alg!TimeLimitOf(e.cls, e.st)
\* A leg that reports contact touches the ground.
LegsSound(e) == \A i \in 1..2 : e.st.legs[i].ground_contact => e.st.legs[i].touching > 0
LanderSound(e) == LegsSound(e) /\ (e.begun => (e.st.game_over => e.done) /\ (e.rew = 100000 => ~e.st.awake))
\* Obstacles do not overlap, the ground is as long as it should be, and it is
\* below the top of the wall of a pit exactly between that wall and its pair.
TerrainSound(t) ==
  LET walls == {b \in t.boxes : b[4] - b[3] = 16 /\ b[2] = b[1] + 1}
      first == {b \in walls : \E c \in walls : c[4] = b[4] /\ c[1] \in b[1] + 3..b[1] + 4}
  IN  /\ Len(t.terrain_y) = TERRAIN_LENGTH
      /\ \A b \in first : \E c \in walls :
            /\ c[4] = b[4] /\ c[1] \in {b[1] + 3, b[1] + 4}
            /\ \A i \in b[1]..c[2] : i < TERRAIN_LENGTH =>
                  t.terrain_y[i + 1] = IF b[2] <= i /\ i <= c[1] THEN b[3] ELSE b[4]
      /\ \A b, c \in t.boxes : b # c /\ b[1] <= c[1] => b[2] <= c[1]
WalkerSound(e) == LegsSound(e) /\ TerrainSound(e.st.terrain) /\ (e.rew = -100 => e.done)
\* Each tile is paid once, whatever the wheels do, and a wheel is only on
\* tiles that were paid.
RacingSound(e) ==
  /\ e.st.tile_visited_count = Cardinality(e.st.road_visited) /\ e.st.track > 0
  /\ e.st.reward = (10000 \div e.st.track) * Cardinality(e.st.road_visited) - e.elapsed
  /\ UNION {e.st.wheels[w] : w \in DOMAIN e.st.wheels} \subseteq e.st.road_visited
WorldSound ==
  \A i \in DOMAIN envs :
    CASE Env(i, "FrozenLake") -> LakeSound(envs[i])
      [] Env(i, "CliffWalking") -> CliffSound(envs[i])
      [] Env(i, "Taxi") -> TaxiSound(envs[i])
      [] Env(i, "Blackjack") -> BlackjackSound(envs[i])
      [] Env(i, "KellyCoinflip") -> KellySound(envs[i])
      [] Env(i, "KellyCoinflipGeneralized") -> GeneralSound(envs[i])
      [] Env(i, "CubeCrash") -> CubeSound(envs[i])
      [] Env(i, "CartPole") -> CartSound(envs[i])
      [] Env(i, "LunarLander") -> LanderSound(envs[i])
      [] Env(i, "BipedalWalker") -> WalkerSound(envs[i])
      [] Env(i, "CarRacing") -> RacingSound(envs[i])
      [] IsAlg(envs[i]) -> TapeSound(envs[i])
      [] OTHER -> TRUE

\* Inputs get longer, by one, only "after an environment has been consistently
\* solved over some window of episodes", and only when no other algorithmic
\* environment is alive do they never get shorter.
LevelsEarned ==
  [][Len(envs) = 1 /\ Len(envs') = 1 /\ shared'.min_length # shared.min_length =>
       /\ shared'.min_length = shared.min_length + 1
       /\ Streak(envs[1]) >= Alg!Window(envs[1].cls, envs[1].kw)]_vars

\* Episodes end by themselves: whatever the agent does, if it goes on acting
\* and does not reset.  CliffWalking and MemorizeDigits are the ones without a
\* limit of steps whose episodes need not end.
Ends(i) == i \in DOMAIN envs /\ ~envs[i].quits /\ envs[i].cls \notin {"CliffWalking", "MemorizeDigits"}
EpisodesEnd == \A i \in 1..2 : (Ends(i) /\ envs[i].begun) ~> (i \in DOMAIN envs /\ envs[i].over)
==============================================================================
