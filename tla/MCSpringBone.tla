----------------------------- MODULE MCSpringBone -----------------------------
(* A three-joint skeleton, the rigs that tell the solver's branches apart, and   *)
(* poses that rotate each joint, move and turn the model, and overflow.          *)
EXTENDS SpringBoneSolver

Rest(translation) == [translation |-> translation, rotation |-> 1]

Parameters(stiffness, drag, gravity, hitRadius) ==
    [stiffness |-> stiffness, drag |-> drag, gravity |-> gravity, hitRadius |-> hitRadius]

Sphere(joint, offset, radius) ==
    [joint |-> joint, shape |-> "sphere", offset |-> offset, tail |-> 0, radius |-> radius]

Capsule(joint, offset, tail, radius) ==
    [joint |-> joint, shape |-> "capsule", offset |-> offset, tail |-> tail, radius |-> radius]

Chain(joints, parameters, groups, center) ==
    [joints |-> joints, rootJoints |-> << >>, parameters |-> parameters,
     groups |-> groups, center |-> center]

Roots(roots, parameters, groups, center) ==
    [joints |-> << >>, rootJoints |-> roots, parameters |-> parameters,
     groups |-> groups, center |-> center]

Rig(parents, colliders, springs) ==
    [parents |-> parents, rest |-> <<Rest(0), Rest(1), Rest(1)>>,
     colliders |-> colliders, groups |-> <<[c \in DOMAIN colliders |-> c]>>,
     springs |-> springs]

Line == <<0, 1, 2>>
Fork == <<0, 1, 1>>

Limp   == Parameters(0, 0, 0, 0)
Stiff  == Parameters(1, 1, 0, 0)
Heavy  == Parameters(1, 0, -2, 1)
Swing  == Parameters(1, 0, 0, 0)

WholeChain    == Rig(Line, << >>, <<Chain(<<1, 2, 3>>, <<Swing, Limp, Stiff>>, << >>, 0)>>)
Drifting      == Rig(Line, << >>, <<Roots(<<2>>, <<Limp>>, << >>, 0)>>)
CentredRoot   == Rig(Line, <<Capsule(1, -1, 1, 1)>>, <<Roots(<<2>>, <<Swing>>, <<1, 1>>, 1)>>)
SelfCentred   == Rig(Line, << >>, <<Roots(<<1>>, <<Swing>>, << >>, 1)>>)
WorldCollider == Rig(Fork, <<Sphere(0, 1, 2), Capsule(0, -2, 0, 1)>>,
                     <<Roots(<<3, 2>>, <<Heavy, Swing>>, <<1>>, 0)>>)
OutOfOrder    == Rig(Fork, << >>, <<Roots(<<3>>, <<Swing>>, << >>, 0),
                                    Chain(<<1, 2>>, <<Heavy, Limp>>, << >>, 0)>>)
Rejected      == Rig(Line, <<Sphere(3, 0, 1)>>, <<Roots(<<2>>, <<Swing>>, <<1>>, 0)>>)

Pose(a, b, place, turn) ==
    [locals |-> <<[translation |-> 0, rotation |-> a], [translation |-> 1, rotation |-> b],
                  [translation |-> 1, rotation |-> 1]>>,
     placement |-> [translation |-> place, rotation |-> turn]]

Moved == [locals |-> <<Rest(0), Rest(0), Rest(1)>>, placement |-> Identity]

(* spring_solve: every rig of one or two springs over a line and a fork with one *)
(* collider, and the hand-written ones, under poses that turn a joint, move and  *)
(* turn the whole model, and leave the rest translations.                        *)

Springs(groups, centers) ==
    {Chain(joints, [k \in DOMAIN joints |-> Parameters(k, 0, 0, 0)], g, center) :
       joints \in {<<1, 2>>, <<2, 3>>, <<1, 2, 3>>, <<1, 3>>},
       g \in groups, center \in centers}
    \union
    {Roots(roots, [k \in DOMAIN roots |-> Parameters(k, 0, 0, 0)], g, center) :
       roots \in {<<1>>, <<2>>, <<3>>, <<2, 1>>, <<1, 2>>, <<2, 3>>, <<3, 3>>},
       g \in groups, center \in centers}

AnySpring   == Springs({<< >>, <<1>>}, 0 .. 2)
PlainSpring == Springs({<< >>}, {0})

SolveRigs ==
    {WholeChain, Drifting, CentredRoot, SelfCentred, WorldCollider, OutOfOrder, Rejected}
      \union
    {Rig(parents, <<Sphere(joint, 0, 0)>>, springs) :
       parents \in {Line, Fork}, joint \in {1, 3},
       springs \in {<<s>> : s \in AnySpring}
                      \union {<<s, t>> : s \in AnySpring, t \in PlainSpring}}

SolvePoses == {Pose(1, -1, 0, 1), Pose(1, 1, 0, 1), Pose(1, 1, 3, 1), Pose(1, 1, 2, -1),
               Moved, NoPose}

\* One rig for the whole life of a solver.
ConfigureOnce ==
    \/ \E c \in Solvers : ~solver[c].configured /\ \E rig \in Rigs : Configure(c, rig)
    \/ \E c \in Solvers, pose \in Poses :
          Reset(c, pose, TRUE) \/ \E seconds \in Durations : Step(c, pose, seconds, TRUE)

SolveSpec == Init /\ [][ConfigureOnce]_vars

(* spring_copies: two copies, every call, every refusal.                         *)

Leaf          == Rig(Fork, << >>, <<Roots(<<3>>, <<Stiff>>, << >>, 0)>>)
CopyRigs      == {CentredRoot, Leaf, Rejected}
CopyPoses     == {Pose(1, 1, 0, 1), Pose(1, 1, 3, 1)}
CopySymmetry  == Permutations(Solvers)

=============================================================================
