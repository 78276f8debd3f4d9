------------------------------- MODULE Vehicle -------------------------------
(***************************************************************************)
(* The state of a driven vehicle, UserVehicleState, and what the session   *)
(* manager and the VR engine do to it.                                     *)
(*                                                                         *)
(* Units.  A blow of force k deals 5k points of damage, of which armour    *)
(* takes up to four fifths and half of what it took is spared the health:  *)
(* armour is counted in points and health in half points, so that all of   *)
(* it is integers.  The vehicle drives on a line; heading and the several  *)
(* amplitudes of the vibration are not told apart.                         *)
(***************************************************************************)
EXTENDS Integers

CONSTANT Full    \* points of a sound vehicle: 100 percent

ASSUME VehicleAssumption == Full \in Nat \ {0}

Larger(a, b) == IF a > b THEN a ELSE b
Smaller(a, b) == IF a < b THEN a ELSE b
Abs(a) == Larger(a, -a)

FullHealth == 2 * Full

Vehicles == [health : 0 .. FullHealth, armor : 0 .. Full, impacts : Nat,
             x : Int, odometer : Nat, speed : Int, shaken : BOOLEAN]

NewVehicle ==
  [health |-> FullHealth, armor |-> Full, impacts |-> 0,
   x |-> 0, odometer |-> 0, speed |-> 0, shaken |-> FALSE]

\* An entry for key k in one of the maps that sessions are kept in.
With(f, k, x) == [i \in DOMAIN f \union {k} |-> IF i = k THEN x ELSE f[i]]

\* apply_action: throttle and brake set the speed; steering is not seen here.
AtSpeed(v, s) == [v EXCEPT !.speed = s]
AtStart(v) == [v EXCEPT !.x = 0, !.speed = 0]

\* move_vehicle; dt may be any number a client sends.
Moved(v, dt) ==
  [v EXCEPT !.x = @ + v.speed * dt, !.odometer = @ + Abs(v.speed * dt)]

\* What armour takes of a blow.
Absorbed(v, k) == Smaller(v.armor, 4 * k)

\* Mutants of Struck: armour spares the health all it takes; a worn armour
\* still takes its share.
StruckSpared(v, k) ==
  [v EXCEPT !.impacts = @ + 1,
            !.armor = @ - Absorbed(v, k),
            !.health = Larger(0, @ - Larger(0, 10 * k - 2 * Absorbed(v, k))),
            !.shaken = TRUE]

StruckThrough(v, k) ==
  [v EXCEPT !.impacts = @ + 1,
            !.armor = @ - 4 * k,
            !.health = Larger(0, @ - 6 * k),
            !.shaken = TRUE]

\* update_state_from_attack.  A shock has an amplitude above zero, and adds
\* to that of the vibration that is still there.
Struck(v, k) ==
  [v EXCEPT !.impacts = @ + 1,
            !.armor = @ - Absorbed(v, k),
            !.health = Larger(0, @ - Larger(0, 10 * k - Absorbed(v, k))),
            !.shaken = TRUE]

\* The damage that shows, in half points: all of it until health is used up.
Worn(v) == (FullHealth - v.health) + (Full - v.armor)
Accounts(v, dealt) ==
  /\ Worn(v) <= 10 * dealt
  /\ v.health > 0 => Worn(v) = 10 * dealt
=============================================================================
