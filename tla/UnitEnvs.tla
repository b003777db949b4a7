------------------------------ MODULE UnitEnvs ------------------------------
(***************************************************************************)
(* gym/envs/unittest and gym/envs/classic_control.                         *)
(*                                                                         *)
(* An image is abstracted to what it shows, or left out.  The equations   *)
(* of motion are abstracted to how far one step may go; the limits that    *)
(* the code puts on positions and speeds, and the ends of episodes, are    *)
(* its own.  Units: tenths of a threshold for CartPole, 0.05 for           *)
(* MountainCar, 1 radian per second for Pendulum, an eighth of a turn for  *)
(* Acrobot.                                                                *)
(***************************************************************************)
EXTENDS Spaces, FiniteSetsExt

UOut(s, obs, reward, done) == [st |-> s, obs |-> obs, reward |-> reward, done |-> done]

FIELD_W == 32
FIELD_H == 40
HOLE_WIDTH == 8

\* CubeCrash.  Rewards in hundredths; CubeCrashSparse has no shaped reward.
Dist(x, hole) == IF x > hole THEN x - hole ELSE hole - x

\* step(0), which reset() calls, finds no potential and gives no reward.
CubeReset(kw) ==
  {[x |-> x, y |-> y + 1, hole |-> h, potential |-> Dist(x, h)]
     : x \in 3..(FIELD_W - 4), y \in 3..((FIELD_H \div 6) - 1), h \in kw.holes}
CubeStep(kw, s, a) ==
  LET x == CASE a = 0 -> s.x [] a = 1 -> s.x - 1 [] a = 2 -> s.x + 1
      y == s.y + 1
      dist == Dist(x, s.hole)
      t == [s EXCEPT !.x = x, !.y = y, !.potential = dist]
      shaped == IF kw.shaped THEN s.potential - dist ELSE 0
      Ends(reward, done) == {UOut(t, <<>>, reward, done)}
  IN  IF x - 1 < 0 \/ x + 1 >= FIELD_W THEN Ends(-100, TRUE)
      ELSE IF y + 1 >= FIELD_H - 5 /\ dist >= HOLE_WIDTH \div 2 THEN Ends(-100, TRUE)
      ELSE IF y + 1 >= FIELD_H - 5 /\ y = FIELD_H THEN Ends(100, TRUE)
      ELSE Ends(shaped, FALSE)

\* MemorizeDigits: the image shows the digit that the next action must name.
DigitsReset == {[digit |-> d, step_n |-> 1] : d \in 0..9}
DigitsStep(s, a) ==
  LET n == Min({s.step_n + 1, 21})     \* only whether it is past 20 matters
  IN  {UOut([digit |-> d, step_n |-> n], d, IF s.digit = a THEN 1 ELSE -1, done)
         : d \in 0..9, done \in IF n > 20 THEN BOOLEAN ELSE {FALSE}}

-----------------------------------------------------------------------------
(* Classic control.                                                        *)

Clip(v, low, high) == Max({low, Min({v, high})})
Around(v, far) == (v - far)..(v + far)

\* CartPole: how far the cart and the pole are from the middle.
CartDone(s) == s.x < -10 \/ s.x > 10 \/ s.theta < -10 \/ s.theta > 10
CartReset == {[x |-> 0, theta |-> 0, steps_beyond_done |-> "None"]}
CartStep(s) ==
  {LET t == [x |-> x, theta |-> theta, steps_beyond_done |-> s.steps_beyond_done]
   IN  IF ~CartDone(t) THEN UOut(t, <<x, theta>>, 1, FALSE)
       ELSE UOut([t EXCEPT !.steps_beyond_done = IF @ = "None" THEN "0" ELSE "more"], <<x, theta>>,
                 IF s.steps_beyond_done = "None" THEN 1 ELSE 0, TRUE)
     : x \in {s.x - 5, s.x, s.x + 5}, theta \in {s.theta - 5, s.theta, s.theta + 5}}

\* MountainCar and its continuous version, whose goal is a little nearer.
CarReset == {[position |-> p, velocity |-> 0] : p \in -12..-8}
CarGoal(cls) == IF cls = "MountainCar" THEN 10 ELSE 9
CarStep(cls, s, a) ==
  {LET v == Clip(pushed, -2, 2)
       p == Clip(s.position + v, -24, 12)
       t == [position |-> p, velocity |-> IF p = -24 /\ v < 0 THEN 0 ELSE v]
       done == p >= CarGoal(cls)
   IN  UOut(t, <<t.position, t.velocity>>,
            IF cls = "MountainCar" THEN -10 ELSE (IF done THEN 1000 ELSE 0) - a[1] * a[1], done)
     : pushed \in Around(s.velocity, 1)}

\* Pendulum: its angle is not limited, and its episodes have no end.
PendulumReset == {[thdot |-> v] : v \in -1..1}
PendulumStep(s) == {LET w == Clip(v, -8, 8) IN UOut([thdot |-> w], <<w>>, 0, FALSE) : v \in Around(s.thdot, 2)}

\* Acrobot: angles are brought back between -pi and pi and speeds are bound.
wrap(x, m, top) == IF x > top THEN x - (top - m) ELSE IF x < m THEN x + (top - m) ELSE x
Cosine(x) == LET d == x % 8 IN CASE d = 0 -> 100 [] d \in {1, 7} -> 71 [] d \in {2, 6} -> 0
                                 [] d \in {3, 5} -> -71 [] d = 4 -> -100
Terminal(s) == -Cosine(s.theta1) - Cosine(s.theta1 + s.theta2) > 100
AcrobotReset == {[theta1 |-> 0, theta2 |-> 0]}
AcrobotStep(s) ==
  {LET t == [theta1 |-> wrap(x, -4, 4), theta2 |-> wrap(y, -4, 4)]
   IN  UOut(t, <<Cosine(t.theta1), Cosine(t.theta2), Clip(v, -12, 12)>>, IF Terminal(t) THEN 0 ELSE -1, Terminal(t))
     : x \in Around(s.theta1, 1), y \in Around(s.theta2, 1), v \in {-15, 15}}

-----------------------------------------------------------------------------

UnitObsSpace(cls) ==
  CASE cls = "CubeCrash" -> Box(<<>>, <<>>, FALSE)   \* its pixels are left out
    [] cls = "MemorizeDigits" -> Discrete(10)       \* the images there are
    [] cls = "CartPole" -> Box(<<-20, -20>>, <<20, 20>>, TRUE)
    [] cls \in {"MountainCar", "Continuous_MountainCar"} -> Box(<<-24, -2>>, <<12, 2>>, TRUE)
    [] cls = "Pendulum" -> Interval(-8, 8)
    [] cls = "Acrobot" -> Box(<<-100, -100, -12>>, <<100, 100, 12>>, TRUE)
UnitActions(cls) ==
  CASE cls \in {"CubeCrash", "MountainCar", "Acrobot"} -> Discrete(3)
    [] cls = "MemorizeDigits" -> Discrete(10)
    [] cls = "CartPole" -> Discrete(2)
    [] cls = "Continuous_MountainCar" -> Interval(-1, 1)
    [] cls = "Pendulum" -> Interval(-2, 2)

UnitReset(cls, kw) ==
  CASE cls = "CubeCrash" -> {<<s, <<>>>> : s \in CubeReset(kw)}
    [] cls = "MemorizeDigits" -> {<<s, s.digit>> : s \in DigitsReset}
    [] cls = "CartPole" -> {<<s, <<s.x, s.theta>>>> : s \in CartReset}
    [] cls \in {"MountainCar", "Continuous_MountainCar"} -> {<<s, <<s.position, s.velocity>>>> : s \in CarReset}
    [] cls = "Pendulum" -> {<<s, <<s.thdot>>>> : s \in PendulumReset}
    [] cls = "Acrobot" -> {<<s, <<100, 100, 0>>>> : s \in AcrobotReset}
UnitStep(cls, kw, s, a) ==
  CASE cls = "CubeCrash" -> CubeStep(kw, s, a)
    [] cls = "MemorizeDigits" -> DigitsStep(s, a)
    [] cls = "CartPole" -> CartStep(s)
    [] cls \in {"MountainCar", "Continuous_MountainCar"} -> CarStep(cls, s, a)
    [] cls = "Pendulum" -> PendulumStep(s)
    [] cls = "Acrobot" -> AcrobotStep(s)
=============================================================================
