------------------------------ MODULE Registry ------------------------------
(***************************************************************************)
(* gym/envs: the registry of environments and what gym registers in it.    *)
(*                                                                         *)
(* A registration is <<name, version, class, max_episode_steps>>; the id   *)
(* is the name and the version, and no limit of steps is 0.                *)
(***************************************************************************)
EXTENDS Integers, Sequences, FiniteSets

None == 0

\* The entries of one class, of versions that differ in their limit.
Class(cls, names, version, steps) == {<<n, version, cls, steps>> : n \in names}
Same(names, version, steps) == {<<n, version, n, steps>> : n \in names}

RegisteredAlgorithmic ==
  Same({"Copy", "RepeatCopy", "ReversedAddition", "DuplicatedInput", "Reverse"}, 0, 200)
    \cup Class("ReversedAddition", {"ReversedAddition3"}, 0, 200)
RegisteredClassic ==
  Same({"CartPole", "MountainCar", "Pendulum"}, 0, 200)
    \cup Class("CartPole", {"CartPole"}, 1, 500)
    \cup Class("Continuous_MountainCar", {"MountainCarContinuous"}, 0, 999)
    \cup Same({"Acrobot"}, 1, 500)
RegisteredBox2d ==
  Same({"LunarLander", "LunarLanderContinuous"}, 2, 1000) \cup Same({"BipedalWalker"}, 2, 1600)
    \cup Same({"BipedalWalkerHardcore"}, 2, 2000) \cup Same({"CarRacing"}, 0, 1000)
RegisteredToyText ==
  Same({"Blackjack", "KellyCoinflip", "KellyCoinflipGeneralized", "CliffWalking"}, 0, None)
    \cup Same({"FrozenLake", "Roulette"}, 0, 100) \cup Class("FrozenLake", {"FrozenLake8x8"}, 0, 200)
    \cup Same({"NChain"}, 0, 1000) \cup Same({"Taxi"}, 2, 200)
    \cup Same({"GuessingGame", "HotterColder"}, 0, 200)
RegisteredMujoco ==
  Same({"Reacher"}, 2, 50) \cup Same({"Pusher", "Thrower", "Striker"}, 2, 100)
    \cup Same({"InvertedPendulum", "InvertedDoublePendulum", "HumanoidStandup"}, 2, 1000)
    \cup UNION {Same({"HalfCheetah", "Hopper", "Swimmer", "Walker2d", "Ant", "Humanoid"}, v, 1000) : v \in {2, 3}}
RegisteredRobotics ==
  LET Both(cls, names, version, steps) == Class(cls, {n \o suffix : n \in names, suffix \in {"", "Dense"}}, version, steps)
  IN  Both("HandReach", {"HandReach"}, 0, 50)
        \cup Both("HandBlock", {"HandManipulateBlock" \o x : x \in {"", "RotateZ", "RotateParallel", "RotateXYZ", "Full"}}, 0, 100)
        \cup Both("HandEgg", {"HandManipulateEgg" \o x : x \in {"", "Rotate", "Full"}}, 0, 100)
        \cup Both("HandPen", {"HandManipulatePen" \o x : x \in {"", "Rotate", "Full"}}, 0, 100)
        \cup (UNION {Both(n, {n}, 1, 50) : n \in {"FetchSlide", "FetchPickAndPlace", "FetchReach", "FetchPush"}})
        \cup UNION {Both("Hand" \o o \o "TouchSensors", {"HandManipulate" \o o \o "TouchSensors"}, 0, 100) : o \in {"Block", "Egg", "Pen"}}
AtariGames ==
  {"Adventure", "AirRaid", "Alien", "Amidar", "Assault", "Asterix", "Asteroids", "Atlantis", "BankHeist",
   "BattleZone", "BeamRider", "Berzerk", "Bowling", "Boxing", "Breakout", "Carnival", "Centipede",
   "ChopperCommand", "CrazyClimber", "Defender", "DemonAttack", "DoubleDunk", "ElevatorAction", "Enduro",
   "FishingDerby", "Freeway", "Frostbite", "Gopher", "Gravitar", "Hero", "IceHockey", "Jamesbond",
   "JourneyEscape", "Kangaroo", "Krull", "KungFuMaster", "MontezumaRevenge", "MsPacman", "NameThisGame",
   "Phoenix", "Pitfall", "Pong", "Pooyan", "PrivateEye", "Qbert", "Riverraid", "RoadRunner", "Robotank",
   "Seaquest", "Skiing", "Solaris", "SpaceInvaders", "StarGunner", "Tennis", "TimePilot", "Tutankham",
   "UpNDown", "Venture", "VideoPinball", "WizardOfWor", "YarsRevenge", "Zaxxon"}
RegisteredAtari ==
  UNION {LET Frames == IF game = "SpaceInvaders" THEN 3 ELSE 4
         IN  Class("Atari", {game \o obs}, 0, 10000) \cup Class("Atari", {game \o obs}, 4, 100000)
               \cup UNION {Class("Atari", {game \o obs \o "Deterministic"}, v, 100000)
                           \cup Class("Atari", {game \o obs \o "NoFrameskip"}, v, Frames * 100000) : v \in {0, 4}}
           : game \in AtariGames, obs \in {"", "-ram"}}
RegisteredUnitTest == Same({"CubeCrash", "CubeCrashSparse", "CubeCrashScreenBecomesBlack", "MemorizeDigits"}, 0, None)

Registrations == RegisteredAlgorithmic \cup RegisteredClassic \cup RegisteredBox2d \cup RegisteredToyText
                   \cup RegisteredMujoco \cup RegisteredRobotics \cup RegisteredAtari \cup RegisteredUnitTest

Id(r) == <<r[1], r[2]>>

\* register() raises if the id is there already, and importing gym with it.
ASSUME NoIdTwice == Cardinality({Id(r) : r \in Registrations}) = Cardinality(Registrations)

\* EnvSpec: the limit of steps that TimeLimit gets, and the setter of
\* timestep_limit, which an experiment may use before make().
Spec0(r) == [name |-> r[1], version |-> r[2], cls |-> r[3], max_episode_steps |-> r[4]]
SetLimit(spec, steps) == IF steps = None THEN spec ELSE [spec EXCEPT !.max_episode_steps = steps]

\* spec(): the environment of that id, or why there is none.
Lookup(id) == IF \E r \in Registrations : Id(r) = id THEN "found"
              ELSE IF \E r \in Registrations : r[1] = id[1] THEN "DeprecatedEnv" ELSE "UnregisteredEnv"
SpecOf(id) == Spec0(CHOOSE r \in Registrations : Id(r) = id)
=============================================================================
