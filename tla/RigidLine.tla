------------------------------ MODULE RigidLine ------------------------------
(***************************************************************************)
(* The rigid-transform arithmetic of libs/vrmRig, on a line.               *)
(*                                                                         *)
(* The solver only uses that a transform is a rotation followed by a       *)
(* translation, that rotations preserve length, compose and invert, and    *)
(* that a float may stop being finite.  The rigid transforms of the line   *)
(* keep all of that with integers: a rotation is 1 or -1, a position an    *)
(* integer, and an integer outside -FloatMax .. FloatMax stands for a      *)
(* value that overflowed.  A rotation of 0 stands for a quaternion that is *)
(* not a unit quaternion.                                                  *)
(***************************************************************************)
EXTENDS Integers

CONSTANT FloatMax

ASSUME FloatMaxAssumption == FloatMax \in Nat

Transform == [translation : Int, rotation : Int]

Finite(v) == v \in -FloatMax .. FloatMax

ValidTransform(t) == Finite(t.translation) /\ t.rotation \in {-1, 1}

Identity == [translation |-> 0, rotation |-> 1]

Magnitude(v) == IF v < 0 THEN -v ELSE v

Point(t, p) == t.translation + t.rotation * p

InversePoint(t, p) == t.rotation * (p - t.translation)

Compose(parent, local) ==
    [translation |-> Point(parent, local.translation),
     rotation    |-> parent.rotation * local.rotation]

Unit(v, fallback) == IF v = 0 THEN fallback ELSE IF v < 0 THEN -1 ELSE 1

\* The rotation that takes one unit direction to the other.
FromTo(from, to) == from * to

=============================================================================
