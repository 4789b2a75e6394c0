---------------------------- MODULE SpringBoneRig ----------------------------
(***************************************************************************)
(* What SpringBoneSolver::Configure accepts, and the solver joints it      *)
(* derives from an accepted rig.                                           *)
(*                                                                         *)
(* Joints are numbered from 1 in skeleton order and 0 is the source's -1   *)
(* (no parent, no centre, a collider attached to the world).               *)
(***************************************************************************)
EXTENDS RigidLine, Places, SequencesExt

CONSTANT LeafLength    \* the 7 cm continuation of a childless VRM 0.x joint

ASSUME LeafLengthAssumption == LeafLength \in Nat

SpringBoneParameters == [stiffness : Int, drag : Int, gravity : Int, hitRadius : Int]

SpringBoneCollider ==
    [joint : Int, shape : STRING, offset : Int, tail : Int, radius : Int]

Spring ==
    [joints : Seq(Int), rootJoints : Seq(Int), parameters : Seq(SpringBoneParameters),
     groups : Seq(Int), center : Int]

\* What a caller can pass: vectors of any length, not yet looked at.
AnyRig ==
    [parents : Seq(Int), rest : Seq(Transform), colliders : Seq(SpringBoneCollider),
     groups : Seq(Seq(Int)), springs : Seq(Spring)]

ValidParameters(p) ==
    /\ p.stiffness >= 0
    /\ p.drag \in 0 .. 1
    /\ p.hitRadius >= 0
    /\ Finite(p.gravity)

Skeleton(rig) == 1 .. Len(rig.parents)

TopologicalSkeleton(rig) ==
    /\ Len(rig.rest) = Len(rig.parents)
    /\ \A i \in Skeleton(rig) :
          /\ rig.parents[i] \in 0 .. i - 1
          /\ ValidTransform(rig.rest[i])

ValidColliders(rig) ==
    /\ \A c \in DOMAIN rig.colliders :
          /\ rig.colliders[c].joint \in {0} \union Skeleton(rig)
          /\ Finite(rig.colliders[c].offset)
          /\ Finite(rig.colliders[c].tail)
          /\ rig.colliders[c].radius >= 0
          /\ rig.colliders[c].shape \in {"sphere", "capsule"}
    /\ \A g \in DOMAIN rig.groups :
          \A k \in DOMAIN rig.groups[g] : rig.groups[g][k] \in DOMAIN rig.colliders

\* The joint and everything above it, by walking parents to a root.
AncestorsOrSelf(rig) ==
    LET up[i \in Skeleton(rig)] ==
          IF rig.parents[i] = 0 THEN {i} ELSE {i} \union up[rig.parents[i]]
    IN  up

Children(rig, i) == {j \in Skeleton(rig) : rig.parents[j] = i}

FirstChild(rig, i) == CHOOSE j \in Children(rig, i) : \A k \in Children(rig, i) : j <= k

IsRootSpring(spring) == spring.rootJoints # << >>

Declaration(spring) ==
    IF IsRootSpring(spring) THEN spring.rootJoints ELSE spring.joints

ValidDeclaration(rig, spring) ==
    LET declared == Declaration(spring) IN
    /\ (spring.joints = << >>) # (spring.rootJoints = << >>)
    /\ Len(spring.parameters) = Len(declared)
    /\ \A k \in DOMAIN declared :
          /\ declared[k] \in Skeleton(rig)
          /\ ValidParameters(spring.parameters[k])
          /\ ~IsRootSpring(spring) /\ k > 1
                => rig.parents[declared[k]] = declared[k - 1]

ValidCenter(rig, spring) ==
    spring.center # 0 =>
      /\ spring.center \in Skeleton(rig)
      /\ \A k \in DOMAIN Declaration(spring) :
            spring.center \in AncestorsOrSelf(rig)[Declaration(spring)[k]]

ValidGroups(rig, spring) ==
    \A g \in DOMAIN spring.groups : spring.groups[g] \in DOMAIN rig.groups

\* Every collider of the spring's groups, each once, in first-use order.
\* Order matters: the pushes of Step do not commute.
SpringColliders(rig, spring) ==
    LET used == FlattenSeq([g \in DOMAIN spring.groups |-> rig.groups[spring.groups[g]]])
        first == InOrder({n \in DOMAIN used : \A m \in DOMAIN used : used[m] = used[n] => n <= m})
    IN  [k \in DOMAIN first |-> used[first[k]]]

DistinctDeclaration(spring) == IsInjective(Declaration(spring))

\* Variant: the nearest declared root wins.
NearestRootIndex(rig, spring) ==
    LET declared == Declaration(spring)
        index[i \in Skeleton(rig)] ==
          IF Contains(declared, i) THEN CHOOSE k \in DOMAIN declared : declared[k] = i
          ELSE IF IsRootSpring(spring) /\ rig.parents[i] # 0 THEN index[rig.parents[i]] ELSE 0
    IN  index

\* Where in the declaration joint i takes its parameters from; 0 for a joint the
\* spring does not claim.  A root spring hands its index down, so that the
\* highest declared ancestor wins over a nested root whatever their order.
ParameterIndex(rig, spring) ==
    LET declared == Declaration(spring)
        own(i) == IF Contains(declared, i) THEN CHOOSE k \in DOMAIN declared : declared[k] = i
                                           ELSE 0
        index[i \in Skeleton(rig)] ==
          IF IsRootSpring(spring) /\ rig.parents[i] # 0 /\ index[rig.parents[i]] # 0
          THEN index[rig.parents[i]]
          ELSE own(i)
    IN  index

Claimed(rig, spring) == {i \in Skeleton(rig) : ParameterIndex(rig, spring)[i] # 0}

\* The last joint of a chain is a tail: claimed, never driven.
IsChainTail(rig, spring, i) ==
    ~IsRootSpring(spring) /\ ParameterIndex(rig, spring)[i] = Len(Declaration(spring))

LocalTail(rig, spring, i) ==
    IF ~IsRootSpring(spring)
    THEN rig.rest[Declaration(spring)[ParameterIndex(rig, spring)[i] + 1]].translation
    ELSE IF Children(rig, i) # {}
    THEN rig.rest[FirstChild(rig, i)].translation
    ELSE rig.rest[i].rotation * Unit(rig.rest[i].translation, 0) * LeafLength

SolverJoint(rig, spring, i) ==
    [index      |-> i,
     center     |-> spring.center,
     tail       |-> LocalTail(rig, spring, i),
     parameters |-> spring.parameters[ParameterIndex(rig, spring)[i]],
     colliders  |-> SpringColliders(rig, spring),
     current    |-> 0,
     previous   |-> 0]

\* The joints a spring drives.
Simulated(rig, spring) ==
    {i \in Claimed(rig, spring) : ~IsChainTail(rig, spring, i)}

\* The spring that claims joint i: one at most, when the owners are exclusive.
Owner(rig, i) ==
    CHOOSE s \in DOMAIN rig.springs : i \in Claimed(rig, rig.springs[s])

\* Variant: left in declaration order.
UnsortedJoints(rig) ==
    FlattenSeq([s \in DOMAIN rig.springs |->
                  LET order == InOrder(Simulated(rig, rig.springs[s]))
                  IN  [k \in DOMAIN order |-> SolverJoint(rig, rig.springs[s], order[k])]])

\* Sorted by skeleton index: Step walks the skeleton with one cursor into it.
SolverJoints(rig) ==
    LET order == InOrder(UNION {Simulated(rig, rig.springs[s]) : s \in DOMAIN rig.springs})
    IN  [k \in DOMAIN order |-> SolverJoint(rig, rig.springs[Owner(rig, order[k])], order[k])]

ValidSpring(rig, spring) ==
    /\ ValidDeclaration(rig, spring)
    /\ ValidCenter(rig, spring)
    /\ ValidGroups(rig, spring)
    /\ DistinctDeclaration(spring)

ExclusiveOwners(rig) ==
    \A s, t \in DOMAIN rig.springs :
      s # t => Claimed(rig, rig.springs[s]) \intersect Claimed(rig, rig.springs[t]) = {}

NonzeroTails(rig) ==
    \A s \in DOMAIN rig.springs : \A i \in Simulated(rig, rig.springs[s]) :
      LET tail == LocalTail(rig, rig.springs[s], i) IN tail # 0 /\ Finite(tail)

Driven(joints) == {joints[k].index : k \in DOMAIN joints}

\* Variant: only the joint itself is looked at.
IsDriven(rig, joints, i) == i \in Driven(joints)

HasDrivenAncestor(rig, joints, i) ==
    i # 0 /\ AncestorsOrSelf(rig)[i] \intersect Driven(joints) # {}

\* A centre may be simulated itself, but nothing above it may be.
CentersAboveSimulation(rig, joints) ==
    \A k \in DOMAIN joints :
      joints[k].center # 0 =>
        ~HasDrivenAncestor(rig, joints, rig.parents[joints[k].center])

CollidersOutsideSimulation(rig, joints) ==
    \A k \in DOMAIN joints : \A n \in DOMAIN joints[k].colliders :
      ~HasDrivenAncestor(rig, joints, rig.colliders[joints[k].colliders[n]].joint)

\* The checks of Configure, in its order.
Accepts(rig) ==
    /\ TopologicalSkeleton(rig)
    /\ ValidColliders(rig)
    /\ \A s \in DOMAIN rig.springs : ValidSpring(rig, rig.springs[s])
    /\ ExclusiveOwners(rig)
    /\ NonzeroTails(rig)
    /\ CentersAboveSimulation(rig, SolverJoints(rig))
    /\ CollidersOutsideSimulation(rig, SolverJoints(rig))

=============================================================================
