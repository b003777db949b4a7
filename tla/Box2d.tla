-------------------------------- MODULE Box2d --------------------------------
(***************************************************************************)
(* gym/envs/box2d: LunarLander, BipedalWalker and CarRacing.               *)
(*                                                                         *)
(* The physics engine is a choice: how far a body goes in a step, and      *)
(* which contacts begin and end, in any order.  What the code makes of     *)
(* them is its own, and so are the track and the terrain it draws.         *)
(* Distances are tenths of half a screen for the lander and TERRAIN_STEPs  *)
(* for the walker, whose ground is measured in quarters of one.  Rewards   *)
(* are thousandths for the lander and tenths for the car.                  *)
(***************************************************************************)
EXTENDS Spaces, FiniteSets

CONSTANTS TERRAIN_LENGTH, TERRAIN_GRASS, TERRAIN_STARTPAD,   \* 200, 10 and 20 in the code
          Slopes,    \* bound: how much the grass may rise from one point to the next
          Points     \* bound: points of the walk that the track is cut from

BoxOut(s, obs, reward, done) == [st |-> s, obs |-> obs, reward |-> reward, done |-> done]
Abs(x) == IF x < 0 THEN -x ELSE x
Bit(b) == IF b THEN 1 ELSE 0

-----------------------------------------------------------------------------
(* ContactDetector.  A leg may touch two pieces of the ground at a time;   *)
(* ground_contact is what the last event of any of them said.              *)

Airborne == [touching |-> 0, ground_contact |-> FALSE]
\* After a step in which some contacts begin and some end.
Touches(leg, max) ==
  {[touching |-> leg.touching + c[1] - c[2], ground_contact |-> c[3]] :
     c \in {d \in (0..(max - leg.touching)) \X (0..leg.touching) \X BOOLEAN :
              /\ d[1] = 0 /\ d[2] = 0 => d[3] = leg.ground_contact
              /\ d[1] > 0 /\ d[2] = 0 => d[3]
              /\ d[1] = 0 /\ d[2] > 0 => ~d[3]}}

-----------------------------------------------------------------------------
(* LunarLander.  An action of the continuous one is two tenths.            *)

Clipped(v, low, high) == IF v < low THEN low ELSE IF v > high THEN high ELSE v
\* The power of the engines, in thousandths, and the assertions on it.
m_power(continuous, a) == IF ~continuous THEN IF a = 2 THEN 1000 ELSE 0
                          ELSE IF a[1] > 0 THEN (Clipped(a[1], 0, 10) + 10) * 50 ELSE 0
s_power(continuous, a) == IF ~continuous THEN IF a \in {1, 3} THEN 1000 ELSE 0
                          ELSE IF Abs(a[2]) > 5 THEN Clipped(Abs(a[2]), 5, 10) * 100 ELSE 0
PowersOK(continuous, a) == {m_power(continuous, a), s_power(continuous, a)} \subseteq {0} \cup 500..1000

Shaping(s) == 10000 * (Bit(s.legs[1].ground_contact) + Bit(s.legs[2].ground_contact) - Abs(s.x))

\* reset() steps once, high above the ground.
LanderReset == {[x |-> 0, legs |-> <<Airborne, Airborne>>, game_over |-> FALSE, awake |-> TRUE]}
LanderObs(s) == <<s.x, Bit(s.legs[1].ground_contact), Bit(s.legs[2].ground_contact)>>
LanderStep(kw, s, a) ==
  {LET t == [x |-> x, legs |-> legs, game_over |-> s.game_over \/ crashes, awake |-> awake]
       fuel == (3 * m_power(kw.continuous, a)) \div 10 + (3 * s_power(kw.continuous, a)) \div 100
       over == t.game_over \/ Abs(x) >= 10
   IN  BoxOut(t, LanderObs(t), IF ~awake THEN 100000 ELSE IF over THEN -100000 ELSE Shaping(t) - Shaping(s) - fuel,
              over \/ ~awake)
     : x \in {s.x + d : d \in kw.moves}, legs \in Touches(s.legs[1], kw.ground) \X Touches(s.legs[2], kw.ground),
       crashes \in BOOLEAN, awake \in BOOLEAN}

-----------------------------------------------------------------------------
(* BipedalWalker: _generate_terrain(), a point at a time.  g holds the     *)
(* local variables; a box is <<from, to, bottom, top>>.                    *)

\* Obstacles that are begun (oneshot) or gone on with, at point i.
Pit(g, i) ==
  IF g.oneshot THEN {[g EXCEPT !.counter = c + 2, !.original_y = g.y,
                        !.boxes = @ \cup {<<i, i + 1, g.y - 16, g.y>>, <<i + c, i + c + 1, g.y - 16, g.y>>}] : c \in 3..4}
  ELSE {[g EXCEPT !.y = g.original_y - IF g.counter > 1 THEN 16 ELSE 0]}
Stump(g, i) ==
  IF g.oneshot THEN {[g EXCEPT !.counter = c, !.boxes = @ \cup {<<i, i + c, g.y, g.y + 4 * c>>}] : c \in 1..2}
  ELSE {g}
\* The ground of the stairs is a slope: s / stair_width is no whole number.
Stairs(g, i) ==
  IF g.oneshot THEN {[g EXCEPT !.counter = n * 4, !.original_y = g.y, !.stair_height = h, !.stair_steps = n,
                        !.boxes = @ \cup {<<i + 4 * s, i + 4 * (s + 1), g.y + 4 * (s * h - 1), g.y + 4 * s * h>> : s \in 0..(n - 1)}]
                       : h \in {1, -1}, n \in 3..4}
  ELSE {[g EXCEPT !.y = g.original_y + (g.stair_steps * 4 - g.counter - g.stair_height) * g.stair_height]}
Grass(g, i) == IF g.oneshot \/ i <= TERRAIN_STARTPAD THEN {g} ELSE {[g EXCEPT !.y = @ + d] : d \in Slopes}

Point(g, i) == CASE g.state = "GRASS" -> Grass(g, i) [] g.state = "PIT" -> Pit(g, i)
                 [] g.state = "STUMP" -> Stump(g, i) [] g.state = "STAIRS" -> Stairs(g, i)

\* The end of the loop's body: the point is kept, and the state may change.
NextPoint(g, hardcore) ==
  LET h == [g EXCEPT !.oneshot = FALSE, !.terrain_y = Append(@, g.y), !.counter = @ - 1]
  IN  IF h.counter # 0 THEN {h}
      ELSE {[h EXCEPT !.counter = c, !.oneshot = TRUE, !.state = st] :
              c \in (TERRAIN_GRASS \div 2)..(TERRAIN_GRASS - 1),
              st \in IF g.state = "GRASS" /\ hardcore THEN {"STUMP", "STAIRS", "PIT"} ELSE {"GRASS"}}

TerrainsOf(hardcore) ==
  LET Drawn[i \in 0..TERRAIN_LENGTH] ==
        IF i = 0 THEN {[state |-> "GRASS", counter |-> TERRAIN_STARTPAD, oneshot |-> FALSE, y |-> 0, original_y |-> 0,
                        stair_height |-> 0, stair_steps |-> 0, boxes |-> {}, terrain_y |-> <<>>]}
        ELSE LET before == Drawn[i - 1]
             IN  UNION {UNION {NextPoint(h, hardcore) : h \in Point(g, i - 1)} : g \in before}
  IN  {[boxes |-> g.boxes, terrain_y |-> g.terrain_y] : g \in Drawn[TERRAIN_LENGTH]}
Terrains == [hardcore \in BOOLEAN |-> TerrainsOf(hardcore)]

WalkerReset(kw) == {[terrain |-> t, x |-> TERRAIN_STARTPAD \div 2, legs |-> <<Airborne, Airborne>>, game_over |-> FALSE]
                      : t \in Terrains[kw.hardcore]}
WalkerObs(s) == <<Bit(s.legs[1].ground_contact), Bit(s.legs[2].ground_contact)>>
WalkerStep(kw, s) ==
  {LET t == [s EXCEPT !.x = @ + dx, !.legs = legs, !.game_over = @ \/ falls]
       failed == t.game_over \/ t.x < 0
   IN  BoxOut(t, WalkerObs(t), IF failed THEN -100 ELSE 0, failed \/ t.x > TERRAIN_LENGTH - TERRAIN_GRASS)
     : dx \in kw.moves, legs \in Touches(s.legs[1], kw.ground) \X Touches(s.legs[2], kw.ground), falls \in BOOLEAN}

-----------------------------------------------------------------------------
(* CarRacing.                                                              *)

\* _create_track(): past[i] says whether point i of the walk, from 0, is past
\* start_alpha.  The closed loop is between the last two times it gets there;
\* without two, or without luck, another track is drawn.
Crossings(past) == {i \in 1..(Points - 1) : past[i] /\ ~past[i - 1]}
Largest(S) == CHOOSE i \in S : \A j \in S : j <= i
LoopLength(past) == LET i2 == Largest(Crossings(past))
                        i1 == Largest(Crossings(past) \ {i2})
                    IN  (i2 - 1) - i1
Tracks == {LoopLength(past) : past \in {p \in [0..(Points - 1) -> BOOLEAN] : Cardinality(Crossings(p)) >= 2}}

\* FrictionDetector: what each wheel is on, in sets of tiles, after a step.  A
\* tile is paid the first time any wheel gets on it.
Onto(s, wheels) ==
  LET begun == UNION {wheels[w] \ s.wheels[w] : w \in DOMAIN wheels}
      fresh == begun \ s.road_visited
  IN  [s EXCEPT !.wheels = wheels, !.road_visited = @ \cup fresh,
                !.tile_visited_count = @ + Cardinality(fresh),
                !.reward = @ + Cardinality(fresh) * (10000 \div s.track)]
Rolls(s) == {Onto(s, wheels) : wheels \in [DOMAIN s.wheels -> SUBSET (1..s.track)]}

\* reset() steps without an action, which pays nothing yet.
CarReset(kw) ==
  UNION {Rolls([track |-> n, wheels |-> [w \in 1..kw.wheels |-> {}], road_visited |-> {}, tile_visited_count |-> 0,
                reward |-> 0, prev_reward |-> 0]) : n \in Tracks}
CarStep(s) ==
  {LET t == [r EXCEPT !.reward = @ - 1, !.prev_reward = r.reward - 1]
   IN  BoxOut(t, <<>>, IF off THEN -1000 ELSE t.reward - s.prev_reward, off \/ t.tile_visited_count = t.track)
     : r \in Rolls(s), off \in BOOLEAN}

-----------------------------------------------------------------------------

BoxObsSpace(cls) ==
  LET Any(n) == [i \in 1..n |-> 1000]      \* stands for infinity
      None(n) == [i \in 1..n |-> -1000]
  IN  CASE cls = "LunarLander" -> Box(None(3), Any(3), TRUE)
        [] cls = "BipedalWalker" -> Box(None(2), Any(2), TRUE)
        [] cls = "CarRacing" -> Box(<<>>, <<>>, FALSE)      \* its pixels are left out
BoxActions(cls, kw) ==
  CASE cls = "LunarLander" -> IF kw.continuous THEN Box(<<-10, -10>>, <<10, 10>>, TRUE) ELSE Discrete(4)
    [] cls = "BipedalWalker" -> Box(<<-1, -1, -1, -1>>, <<1, 1, 1, 1>>, TRUE)
    [] cls = "CarRacing" -> Box(<<-1, 0, 0>>, <<1, 1, 1>>, TRUE)
BoxReset(cls, kw) ==
  CASE cls = "LunarLander" -> {<<s, LanderObs(s)>> : s \in LanderReset}
    [] cls = "BipedalWalker" -> {<<s, WalkerObs(s)>> : s \in WalkerReset(kw)}
    [] cls = "CarRacing" -> {<<s, <<>>>> : s \in CarReset(kw)}
BoxStep(cls, kw, s, a) ==
  CASE cls = "LunarLander" -> LanderStep(kw, s, a)
    [] cls = "BipedalWalker" -> WalkerStep(kw, s)
    [] cls = "CarRacing" -> CarStep(s)
==============================================================================
