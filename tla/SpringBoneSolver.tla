-------------------------- MODULE SpringBoneSolver --------------------------
(***************************************************************************)
(* libs/vrmRig SpringBoneSolver: Configure, Reset and Step on value copies *)
(* of a solver, each call with the caller's own result object.             *)
(*                                                                         *)
(* A solver is a plain value, so "trial" copies are first-class: Copy is   *)
(* the C++ copy assignment.  The caller may pass any rig, any pose, any    *)
(* duration and a null result; every early return of the code is a         *)
(* conjunct of Accepts, CanReset or CanStep, and the call is then refused. *)
(***************************************************************************)
EXTENDS SpringBoneRig

CONSTANTS Solvers,    \* the solver objects a caller owns
          Rigs,       \* the rigs a caller may configure
          Poses,      \* the poses a caller may pass
          Durations   \* the step durations a caller may pass

AnyPose == [locals : Seq(Transform), placement : Transform]

ASSUME CallersAssumption ==
    /\ Rigs \subseteq AnyRig
    /\ Poses \subseteq AnyPose
    /\ Durations \subseteq Int

VARIABLES solver,     \* solver[c]: the value of the solver object c
          result,     \* result[c]: the caller's result object for c
          call        \* the last call and whether it returned true (auxiliary)

vars == <<solver, result, call>>

EmptyRig == [parents |-> << >>, rest |-> << >>, colliders |-> << >>,
             groups |-> << >>, springs |-> << >>]

Unconfigured == [rig |-> EmptyRig, joints |-> << >>,
                 configured |-> FALSE, initialized |-> FALSE]

EmptyResult == [rotations |-> << >>, tails |-> << >>]

NoPose == [locals |-> << >>, placement |-> Identity]

Call(op, c, pose, ok) == [op |-> op, solver |-> c, pose |-> pose, ok |-> ok]

Init ==
    /\ solver = [c \in Solvers |-> Unconfigured]
    /\ result = [c \in Solvers |-> EmptyResult]
    /\ \E c \in Solvers : call = Call("none", c, NoPose, TRUE)

\* A solver joint with its simulation state replaced.
WithHistory(joint, current, previous) ==
    [index |-> joint.index, center |-> joint.center, tail |-> joint.tail,
     parameters |-> joint.parameters, colliders |-> joint.colliders,
     current |-> current, previous |-> previous]

\* A solver whose joints were replaced by a successful Reset or Step.
Solving(s, joints) ==
    [rig |-> s.rig, joints |-> joints, configured |-> s.configured, initialized |-> TRUE]

-----------------------------------------------------------------------------
(* Poses *)

World(rig, pose) ==
    LET world[i \in Skeleton(rig)] ==
          Compose(IF rig.parents[i] = 0 THEN pose.placement ELSE world[rig.parents[i]],
                  pose.locals[i])
    IN  world

\* The animated frame of a joint, or the world's: what a collider hangs from.
Frame(world, joint) == IF joint = 0 THEN Identity ELSE world[joint]

\* Variant: a centre read as the world.
WorldCenter(world, joint) == Identity

Center(world, joint) == Frame(world, joint.center)

\* Variant: the _configured guard forgotten.
ValidPoseUnconfigured(s, pose) ==
    /\ Len(pose.locals) = Len(s.rig.parents)
    /\ LET world == World(s.rig, pose)
       IN  \A i \in Skeleton(s.rig) : ValidTransform(world[i])

ValidPose(s, pose) ==
    /\ s.configured
    /\ Len(pose.locals) = Len(s.rig.parents)
    /\ ValidTransform(pose.placement)
    /\ \A i \in DOMAIN pose.locals :
          /\ ValidTransform(pose.locals[i])
          /\ pose.locals[i].translation = s.rig.rest[i].translation
    /\ LET world == World(s.rig, pose)
       IN  \A i \in Skeleton(s.rig) : ValidTransform(world[i])

-----------------------------------------------------------------------------
(* Reset *)

RestTail(s, pose, k) == Point(World(s.rig, pose)[s.joints[k].index], s.joints[k].tail)

\* Variant: the history kept in world space.
WorldHistory(s, pose, k) == RestTail(s, pose, k)

RestHistory(s, pose, k) ==
    InversePoint(Center(World(s.rig, pose), s.joints[k]), RestTail(s, pose, k))

\* Variant: no overflow check.
CanResetUnchecked(s, pose) == ValidPose(s, pose)

CanReset(s, pose) ==
    /\ ValidPose(s, pose)
    /\ \A k \in DOMAIN s.joints :
          Finite(RestTail(s, pose, k)) /\ Finite(RestHistory(s, pose, k))

\* Variant: the old velocity survives.
KeepPrevious(s, pose) ==
    Solving(s, [k \in DOMAIN s.joints |->
                  WithHistory(s.joints[k], RestHistory(s, pose, k), s.joints[k].previous)])

AfterReset(s, pose) ==
    Solving(s, [k \in DOMAIN s.joints |->
                  WithHistory(s.joints[k], RestHistory(s, pose, k), RestHistory(s, pose, k))])

ResetResult(s, pose) ==
    [rotations |-> [i \in Skeleton(s.rig) |-> pose.locals[i].rotation],
     tails |-> [k \in DOMAIN s.joints |->
                  [joint |-> s.joints[k].index, position |-> RestTail(s, pose, k)]]]

-----------------------------------------------------------------------------
(* Step *)

\* How many solver joints the walk has consumed once it has visited joint i.
Cursor(s) ==
    LET cursor[i \in 0 .. Len(s.rig.parents)] ==
          IF i = 0 THEN 0
          ELSE IF cursor[i - 1] < Len(s.joints) /\ s.joints[cursor[i - 1] + 1].index = i
          THEN cursor[i - 1] + 1
          ELSE cursor[i - 1]
    IN  cursor

\* The solver joint the walk updates at skeleton joint i, 0 for none.
Turn(s, i) ==
    LET cursor == Cursor(s) IN IF cursor[i] = cursor[i - 1] THEN 0 ELSE cursor[i]

\* The point of a collider nearest to a tail; on the line a capsule is the
\* interval between its ends.
Closest(collider, attachment, tail) ==
    LET a == Point(attachment, collider.offset)
        b == Point(attachment, collider.tail)
        low == IF a < b THEN a ELSE b
        high == IF a < b THEN b ELSE a
    IN  IF collider.shape = "sphere" THEN a
        ELSE IF tail < low THEN low ELSE IF tail > high THEN high ELSE tail

Project(head, tail, direction, length) == head + Unit(tail - head, direction) * length

\* One collider: push the tail out along the line of centres, then restore the
\* bone length.  The perpendicular used for coincident centres has no extent on
\* the line.
Push(s, joint, collider, animated, head, direction, tail) ==
    LET closest == Closest(collider, Frame(animated, collider.joint), tail)
        delta   == tail - closest
        radius  == collider.radius + joint.parameters.hitRadius
    IN  IF Magnitude(delta) < radius
        THEN Project(head, closest + Unit(delta, 0) * radius, direction, Magnitude(joint.tail))
        ELSE tail

Pushed(s, joint, animated, head, direction, tail) ==
    LET push[n \in 0 .. Len(joint.colliders)] ==
          IF n = 0 THEN tail
          ELSE Push(s, joint, s.rig.colliders[joint.colliders[n]], animated, head, direction,
                    push[n - 1])
    IN  push[Len(joint.colliders)]

\* Verlet: the velocity is the last displacement, in centre space.
Inertial(joint, direction, center, seconds) ==
    Point(center, joint.current + (joint.current - joint.previous) * (1 - joint.parameters.drag))
      + direction * joint.parameters.stiffness * seconds + joint.parameters.gravity * seconds

\* The joint's new local rotation and frame, once its tail is known.
Turning(joint, here, parent, local, center, direction, inertial, next) ==
    LET rotation == local.rotation
                      * FromTo(Unit(joint.tail, 0),
                               here.rotation * Unit(next - here.translation, direction))
    IN  [world |-> Compose(parent, [local EXCEPT !.rotation = rotation]), rotation |-> rotation,
         inertial |-> inertial, next |-> next, current |-> InversePoint(center, next)]

Integrated(s, joint, here, parent, local, animated, direction, inertial) ==
    Turning(joint, here, parent, local, Center(animated, joint), direction, inertial,
            Pushed(s, joint, animated, here.translation, direction,
                   Project(here.translation, inertial, direction, Magnitude(joint.tail))))

\* One solver joint at the simulated frame "here".
Integrate(s, joint, here, parent, local, animated, direction, seconds) ==
    Integrated(s, joint, here, parent, local, animated, direction,
               Inertial(joint, direction, Center(animated, joint), seconds))

\* One skeleton joint, k the solver joint whose turn it is.
Visit(s, k, here, parent, local, animated, seconds) ==
    IF k = 0
    THEN [world |-> here, rotation |-> local.rotation, inertial |-> 0, next |-> 0, current |-> 0]
    ELSE Integrate(s, s.joints[k], here, parent, local, animated,
                   here.rotation * Unit(s.joints[k].tail, 0), seconds)

VisitBelow(s, i, parent, local, animated, seconds) ==
    Visit(s, Turn(s, i), Compose(parent, local), parent, local, animated, seconds)

\* The walk over the skeleton: a joint's simulated frame is composed from its
\* parent's simulated frame, and a driven joint is turned before its children.
Walk(s, pose, animated, seconds) ==
    LET sim[i \in Skeleton(s.rig)] ==
          VisitBelow(s, i,
                     IF s.rig.parents[i] = 0 THEN pose.placement ELSE sim[s.rig.parents[i]].world,
                     pose.locals[i], animated, seconds)
    IN  sim

Simulate(s, pose, seconds) == Walk(s, pose, World(s.rig, pose), seconds)

\* The skeleton joints the walk updates.
Turned(s) == {i \in Skeleton(s.rig) : Turn(s, i) # 0}

\* An inertial position that overflowed is not a number from there on.
FiniteSimulation(s, sim) ==
    \A i \in Turned(s) :
      /\ Finite(sim[i].inertial) /\ Finite(sim[i].next) /\ Finite(sim[i].current)
      /\ ValidTransform(sim[i].world)

CanStep(s, pose, seconds) ==
    /\ ValidPose(s, pose)
    /\ s.initialized
    /\ seconds > 0
    /\ FiniteSimulation(s, Simulate(s, pose, seconds))

\* Only the joints the cursor reached are updated; the others keep their history.
StepJoint(s, sim, k, visit) ==
    IF visit = {} THEN s.joints[k]
    ELSE WithHistory(s.joints[k], sim[CHOOSE i \in visit : TRUE].current, s.joints[k].current)

StepJoints(s, sim) ==
    [k \in DOMAIN s.joints |-> StepJoint(s, sim, k, {i \in Turned(s) : Turn(s, i) = k})]

AfterStep(s, pose, seconds) == Solving(s, StepJoints(s, Simulate(s, pose, seconds)))

ReportedTails(sim, order) ==
    [n \in DOMAIN order |-> [joint |-> order[n], position |-> sim[order[n]].next]]

Report(s, sim) ==
    [rotations |-> [i \in Skeleton(s.rig) |-> sim[i].rotation],
     tails |-> ReportedTails(sim, InOrder(Turned(s)))]

StepResult(s, pose, seconds) == Report(s, Simulate(s, pose, seconds))

-----------------------------------------------------------------------------
(* The calls *)

Refuse(op, c, pose) ==
    /\ call' = Call(op, c, pose, FALSE)
    /\ UNCHANGED <<solver, result>>

Configured(c, rig) ==
    /\ solver' = [solver EXCEPT ![c] = [rig |-> rig, joints |-> SolverJoints(rig),
                                        configured |-> TRUE, initialized |-> FALSE]]
    /\ call' = Call("Configure", c, NoPose, TRUE)
    /\ UNCHANGED result

\* Variant: a refused rig still ends the running simulation.
ConfigureEagerly(c, rig) ==
    IF Accepts(rig) THEN Configured(c, rig)
    ELSE /\ solver' = [solver EXCEPT ![c].initialized = FALSE]
         /\ call' = Call("Configure", c, NoPose, FALSE)
         /\ UNCHANGED result

Configure(c, rig) ==
    IF Accepts(rig) THEN Configured(c, rig) ELSE Refuse("Configure", c, NoPose)

Reset(c, pose, hasResult) ==
    IF hasResult /\ CanReset(solver[c], pose)
    THEN /\ solver' = [solver EXCEPT ![c] = AfterReset(solver[c], pose)]
         /\ result' = [result EXCEPT ![c] = ResetResult(solver[c], pose)]
         /\ call' = Call("Reset", c, pose, TRUE)
    ELSE Refuse("Reset", c, pose)

Step(c, pose, seconds, hasResult) ==
    IF hasResult /\ CanStep(solver[c], pose, seconds)
    THEN /\ solver' = [solver EXCEPT ![c] = AfterStep(solver[c], pose, seconds)]
         /\ result' = [result EXCEPT ![c] = StepResult(solver[c], pose, seconds)]
         /\ call' = Call("Step", c, pose, TRUE)
    ELSE Refuse("Step", c, pose)

\* Variant: a copy that shares the history but not the rig.
CopyHistory(from, to) ==
    /\ solver' = [solver EXCEPT ![to].joints = solver[from].joints]
    /\ call' = Call("Copy", to, NoPose, TRUE)
    /\ UNCHANGED result

\* Copy assignment: the copy takes the rig, the history and the flags.
Copy(from, to) ==
    /\ solver' = [solver EXCEPT ![to] = solver[from]]
    /\ call' = Call("Copy", to, NoPose, TRUE)
    /\ UNCHANGED result

Next ==
    \/ \E c \in Solvers, rig \in Rigs : Configure(c, rig)
    \/ \E c \in Solvers, pose \in Poses, hasResult \in BOOLEAN : Reset(c, pose, hasResult)
    \/ \E c \in Solvers, pose \in Poses, seconds \in Durations, hasResult \in BOOLEAN :
          Step(c, pose, seconds, hasResult)
    \/ \E from, to \in Solvers : from # to /\ Copy(from, to)

Spec == Init /\ [][Next]_vars

-----------------------------------------------------------------------------
(* Properties *)

\* Every object holds a value with its two flags, and is initialized only when it is
\* configured: a Reset on a solver without a rig is refused, whatever was copied before.
TypeOK ==
    /\ DOMAIN solver = Solvers /\ DOMAIN result = Solvers
    /\ \A c \in Solvers :
          /\ solver[c].configured \in BOOLEAN /\ solver[c].initialized \in BOOLEAN
          /\ solver[c].initialized => solver[c].configured

\* No call, failed or not, leaves a non-finite position where a later Step would
\* integrate from it (the overflow checks of Reset and Step).
HistoryFinite ==
    \A c \in Solvers : solver[c].initialized =>
      \A k \in DOMAIN solver[c].joints :
        Finite(solver[c].joints[k].current) /\ Finite(solver[c].joints[k].previous)

\* Only the history of a joint ever changes: index, centre, tail, parameters and
\* colliders stay those Configure derived from the rig the solver now holds, in
\* every copy, so a history is never read against another rig.
JointsMatchRig ==
    \A c \in Solvers : solver[c].configured =>
      /\ Accepts(solver[c].rig)
      /\ DOMAIN solver[c].joints = DOMAIN SolverJoints(solver[c].rig)
      /\ \A k \in DOMAIN solver[c].joints :
            WithHistory(solver[c].joints[k], 0, 0)
              = WithHistory(SolverJoints(solver[c].rig)[k], 0, 0)

\* With nested VRM 0.x roots a joint takes the parameters of the highest declared
\* root above it, in whatever order the roots were declared.
HighestDeclaredRootOwns ==
    \A c \in Solvers : solver[c].configured =>
      LET rig == solver[c].rig IN
      \A s \in DOMAIN rig.springs : IsRootSpring(rig.springs[s]) =>
        \A d \in DOMAIN rig.springs[s].rootJoints :
          LET roots == ToSet(rig.springs[s].rootJoints)
              top == rig.springs[s].rootJoints[d]
          IN  AncestorsOrSelf(rig)[top] \intersect roots = {top} =>
                \A k \in DOMAIN solver[c].joints :
                  top \in AncestorsOrSelf(rig)[solver[c].joints[k].index] =>
                    solver[c].joints[k].parameters = rig.springs[s].parameters[d]

Solved == call.ok /\ call.op \in {"Reset", "Step"}

\* The pose a caller obtains by writing the result's rotations over its own.
SolvedPose ==
    [call.pose EXCEPT !.locals =
       [i \in DOMAIN call.pose.locals |->
          [call.pose.locals[i] EXCEPT !.rotation = result[call.solver].rotations[i]]]]

\* The two halves of a result agree, for every joint the rig simulates: posing the
\* skeleton with the reported rotations puts each tail at its reported position.
\* A joint the cursor skipped, or a bone whose length drifted, breaks it.
TailsFollowRotations ==
    Solved =>
      LET s == solver[call.solver]
          tails == result[call.solver].tails
          world == World(s.rig, SolvedPose)
      IN  /\ Len(tails) = Len(s.joints)
          /\ \A k \in DOMAIN tails :
                /\ tails[k].joint = s.joints[k].index
                /\ tails[k].position
                     = Point(world[s.joints[k].index], s.joints[k].tail)

\* What the solver remembers is what it reported: the stored centre-space position
\* is the reported tail seen from the animated centre.
HistoryIsReportedTail ==
    Solved =>
      LET s == solver[call.solver]
          animated == World(s.rig, call.pose)
      IN  \A k \in DOMAIN s.joints :
            Point(Center(animated, s.joints[k]), s.joints[k].current)
              = result[call.solver].tails[k].position

\* Step reads colliders and centres in the animated pose.  For an accepted rig that
\* is the simulated pose as well: the solve moves no collider and no centre's
\* parent.
AnimatedFramesAreSimulated ==
    Solved =>
      LET s == solver[call.solver]
          solved == World(s.rig, SolvedPose)
          animated == World(s.rig, call.pose)
          still(i) == i # 0 => solved[i] = animated[i]
      IN  \A k \in DOMAIN s.joints :
            /\ s.joints[k].center # 0 => still(s.rig.parents[s.joints[k].center])
            /\ \A n \in DOMAIN s.joints[k].colliders :
                  still(s.rig.colliders[s.joints[k].colliders[n]].joint)

Free(s) ==
    \A k \in DOMAIN s.joints :
      s.joints[k].parameters.gravity = 0 /\ s.joints[k].colliders = << >>

\* "Reset zeroes velocity at the supplied current animated pose": a Step over the
\* same pose, without gravity or colliders, reports exactly what Reset reported.
ResetIsAtRest ==
    [][ /\ call.op = "Reset" /\ call'.op = "Step" /\ call.ok /\ call'.ok
        /\ call.solver = call'.solver /\ call.pose = call'.pose
        /\ Free(solver[call.solver])
        => result'[call.solver] = result[call.solver] ]_vars

Centred(s) ==
    \A k \in DOMAIN s.joints :
      /\ s.joints[k].center # 0 /\ s.joints[k].parameters.gravity = 0
      /\ \A n \in DOMAIN s.joints[k].colliders :
            s.rig.colliders[s.joints[k].colliders[n]].joint # 0

\* A spring with a centre does not react to the model being moved or turned as a
\* whole: whatever its history, two placements of one pose give one set of rotations.
CentreHidesPlacement ==
    \A c \in Solvers : solver[c].initialized /\ Centred(solver[c]) =>
      \A pose, moved \in Poses, seconds \in Durations :
        /\ pose.locals = moved.locals
        /\ CanStep(solver[c], pose, seconds) /\ CanStep(solver[c], moved, seconds)
        => StepResult(solver[c], pose, seconds).rotations
             = StepResult(solver[c], moved, seconds).rotations

Phase(s) == IF s.initialized THEN "ready" ELSE IF s.configured THEN "configured" ELSE "raw"

Contract ==
    INSTANCE SpringSolverContract
      WITH phase  <- [c \in Solvers |-> Phase(solver[c])],
           memory <- [c \in Solvers |-> [rig |-> solver[c].rig, joints |-> solver[c].joints]],
           answer <- result,
           ok     <- call.ok

\* The solver implements its contract: Configure, then Reset, then Step; values
\* independent of one another; "failed calls change neither state nor the caller's
\* result".
ImplementsContract == Contract!Spec

=============================================================================
