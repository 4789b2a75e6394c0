------------------------------ MODULE ExecRig ------------------------------
(***************************************************************************)
(* execVrm: the nine computations OpenExec evaluates on a humanoid, its    *)
(* rig and its clip, as a graph over what the stage states, the time and   *)
(* a driver's overrides.  A computation answers a value or nothing at all, *)
(* for a reason it posts, and a relationship's fan-in loses what answers   *)
(* nothing without a word.  Poses are told apart by the bones they drive.  *)
(***************************************************************************)
EXTENDS Places, SequencesExt

CONSTANTS
    Stages,           \* the stages a driver edits its way through
    Times,            \* the instants, and Default
    Drivers,          \* the overrides a driver may set: node -> outcome
    Bones,            \* HumanJoint's vocabulary, in order
    RequiredBones,    \* vrmRig::GetRequiredBones
    Default, NotFinite, None

\* The vocabulary names each bone once.
ASSUME BonesAssumption == Bones \in Seq(Range(Bones)) /\ IsInjective(Bones)

\* Relationships and joints are lists, the humanoid is a prim, and a namespace has no cycle.
ASSUME StagesAssumption ==
    \A s \in Stages :
        LET typed(type) == {p \in DOMAIN s.prims : s.prims[p].type = type}
        IN  /\ s.humanoid.path \in typed("humanoid")
            /\ \A targets \in {s.humanoid.skeleton, s.humanoid.sourceSkeleton} :
                  targets \in Seq(Range(targets))
            /\ \A p \in typed("skeleton") \cup typed("binding") :
                  /\ s.prims[p].ancestor \in typed("binding") \cup {None}
                  /\ s.prims[p].animationSource \in Seq(Range(s.prims[p].animationSource))
            /\ \A p \in typed("skeleton") :
                  s.prims[p].joints # None =>
                      s.prims[p].joints \in Seq(Range(s.prims[p].joints))
            /\ \A ps \in (SUBSET typed("binding")) \ {{}} :
                  \E p \in ps : s.prims[p].ancestor \notin ps

VARIABLES stage, time, overrides, requested, answers

vars == <<stage, time, overrides, requested, answers>>

Answer(value) == [answered |-> TRUE, value |-> value]

\* VdfContext::SetEmptyOutput, and the reason.
Refuse(reason) == [answered |-> FALSE, reason |-> reason]

Humanoid == stage.humanoid

RigComputations ==
    {"vrm.computeHumanoidMap", "vrm.computeRestPoseCorrection", "vrm.humanoidRetarget",
     "vrm.computeJointLocalTransforms", "vrm.computeRigDiagnostics",
     "vrm.computeRetargetDiagnostics"}

\* The schemas the bundle registers on, and the sampler of the bundle it requires.
Provided(type) ==
    CASE type = "skeleton" -> {"vrm.computeTargetSkeleton", "vrm.computeBoundPose"}
      [] type = "binding" -> {"vrm.computeBindingPose"}
      [] type = "humanoid" -> RigComputations
      [] type = "animation" -> IF stage.execMotion THEN {"motion.sampleAnimation"} ELSE {}
      [] OTHER -> {}

Nodes == UNION {{<<c, p>> : c \in Provided(stage.prims[p].type)} : p \in DOMAIN stage.prims}

\* A relationship read for computePath: a target without a prim is not there.
Reached(targets) ==
    Entries(targets, {i \in DOMAIN targets : targets[i] \in DOMAIN stage.prims})

\* A relationship read for a computation: a target that does not provide it is dropped too.
FanIn(targets, computation) ==
    LET providing == {i \in DOMAIN targets : <<computation, targets[i]>> \in Nodes}
        providers == Entries(targets, providing)
    IN  [i \in DOMAIN providers |-> <<computation, providers[i]>>]

Animations(p) == FanIn(stage.prims[p].animationSource, "motion.sampleAnimation")

Targets == FanIn(Humanoid.skeleton, "vrm.computeTargetSkeleton")

Sources == FanIn(Humanoid.sourceSkeleton, "vrm.computeTargetSkeleton")

BoundPoses == FanIn(Humanoid.sourceSkeleton, "vrm.computeBoundPose")

Own(computation) == <<computation, Humanoid.path>>

\* NamespaceAncestor: the nearest prim above that provides the computation.
Inherited(p) ==
    LET above == stage.prims[p].ancestor
    IN  IF above = None THEN << >> ELSE <<<<"vrm.computeBindingPose", above>>>>

\* The inputs each registration declares.
BoundPoseInputs(p) == Animations(p) \o Inherited(p)

CorrectionInputs == <<Own("vrm.computeHumanoidMap")>> \o Targets \o Sources

RetargetInputs == CorrectionInputs \o BoundPoses

JointTransformsInputs == <<Own("vrm.humanoidRetarget")>> \o Targets

RigDiagnosticsInputs == <<Own("vrm.computeHumanoidMap")>> \o Targets

RetargetDiagnosticsInputs == RetargetInputs \o <<Own("vrm.computeRigDiagnostics")>>

Inputs(node) ==
    CASE node[1] \in {"vrm.computeBoundPose", "vrm.computeBindingPose"} -> BoundPoseInputs(node[2])
      [] node[1] = "vrm.computeHumanoidMap" -> Targets
      [] node[1] = "vrm.computeRestPoseCorrection" -> CorrectionInputs
      [] node[1] = "vrm.humanoidRetarget" -> RetargetInputs
      [] node[1] = "vrm.computeJointLocalTransforms" -> JointTransformsInputs
      [] node[1] = "vrm.computeRigDiagnostics" -> RigDiagnosticsInputs
      [] node[1] = "vrm.computeRetargetDiagnostics" -> RetargetDiagnosticsInputs
      [] OTHER -> << >>

\* The values that came back of some inputs.
Back(nodes, up) ==
    LET answered == Entries(nodes, {i \in DOMAIN nodes : up[nodes[i]].answered})
    IN  [i \in DOMAIN answered |-> up[answered[i]].value]

-----------------------------------------------------------------------------

\* An attribute without a value arrives as one fallback of its type.
Arrives(values, fallback) == IF values = None THEN <<fallback>> ELSE values

IdentityRest == [turned |-> FALSE, scale |-> 1]

\* The external BuildSkeletonDescriptor: no joints is a skeleton, whatever its rests.
TargetSkeletonFromRest(p) ==
    LET joints == Arrives(p.joints, "")
        rests == Arrives(p.restTransforms, IdentityRest)
    IN  IF joints = << >> THEN Answer([joints |-> << >>, rests |-> << >>])
        ELSE IF Len(joints) # Len(rests) THEN Refuse(<<"RestTransformCount">>)
        ELSE IF "" \in ToSet(joints) THEN Refuse(<<"EmptyJointToken">>)
        ELSE Answer([joints |-> joints, rests |-> rests])

\* The external sampler: at the default time code a pose of nothing, stamped 0.
SampleAnimation(p) ==
    IF ~p.sound THEN Refuse(<<"sampler">>)
    ELSE IF time = Default THEN Answer([timestamp |-> 0, bones |-> {}])
    ELSE Answer([timestamp |-> time, bones |-> p.bones])

\* One animation bound here, else what the nearest ancestor binds.
BoundPoseFor(p, up) ==
    LET reached == Reached(stage.prims[p].animationSource)
        poses == Back(Animations(p), up)
        inherited == Back(Inherited(p), up)
    IN  IF reached = << >>
        THEN IF inherited # << >> THEN Answer(inherited[1]) ELSE Refuse(<<"NoAnimation">>)
        ELSE IF Len(reached) > 1 THEN Refuse(<<"SeveralAnimations">>)
        ELSE IF Len(poses) # 1 THEN Refuse(<<"AnimationUnanswered">>)
        ELSE Answer(poses[1])

Bound == {b \in ToSet(Bones) : Humanoid.humanBones[b] # ""}

\* A mutant: two bones on one joint are the library's to report.
NoneShared(bound) == {}

\* FindDuplicateJointIndices: the bones another bone shares its joint with.
Shared(bound) ==
    {b \in bound : \E c \in bound \ {b} : Humanoid.humanBones[b] = Humanoid.humanBones[c]}

\* The humanoid's bones on the one skeleton it names; an empty token binds nothing.
HumanoidMapFor(up) ==
    LET reached == Reached(Humanoid.skeleton)
        skeletons == Back(Targets, up)
        unknown == {b \in Bound : Humanoid.humanBones[b] \notin ToSet(skeletons[1].joints)}
    IN  IF reached = << >> THEN Refuse(<<"NoSkeleton">>)
        ELSE IF Len(reached) > 1 THEN Refuse(<<"SeveralSkeletons">>)
        ELSE IF Len(skeletons) # 1 THEN Refuse(<<"SkeletonUnanswered">>)
        ELSE IF unknown # {} THEN Refuse(<<"UnknownJoint", unknown>>)
        ELSE IF Shared(Bound) # {} THEN Refuse(<<"DuplicateJoint", Shared(Bound)>>)
        ELSE Answer([b \in Bound |-> Humanoid.humanBones[b]])

\* The source is a semantic skeleton: a joint's leaf is its bone, each bone once.
SourceRestFromSkeleton(skeleton) ==
    LET joints == skeleton.joints
        bones == Entries(joints, {i \in DOMAIN joints : joints[i] \in ToSet(Bones)})
    IN  IF bones = << >> THEN <<"SourceRest", "NoHumanBone">>
        ELSE IF ~IsInjective(bones) THEN <<"SourceRest", "DuplicateBone">> ELSE << >>

\* What vrm:retarget:sourceSkeleton reached, judged once for every reader of it.
SourceFor(up) ==
    LET reached == Reached(Humanoid.sourceSkeleton)
        sources == Back(Sources, up)
    IN  IF reached = << >> THEN <<"NoSource">>
        ELSE IF Len(reached) > 1 THEN <<"SeveralSources">>
        ELSE IF Len(sources) # 1 THEN <<"SourceUnanswered">>
        ELSE SourceRestFromSkeleton(sources[1])

RigAnswers(up) == up[Own("vrm.computeHumanoidMap")].answered /\ Len(Back(Targets, up)) = 1

Map(up) == up[Own("vrm.computeHumanoidMap")].value

Target(up) == Back(Targets, up)[1]

RestPoseCorrectionFor(up) ==
    IF ~RigAnswers(up) THEN Refuse(<<"RigUnanswered">>)
    ELSE IF SourceFor(up) # << >> THEN Refuse(SourceFor(up))
    ELSE Answer([from |-> Back(Sources, up)[1], onto |-> Target(up), map |-> Map(up)])

\* The four statements; one the prim does not have keeps the library's default.
RootMotionRefusal(target) ==
    LET s == Humanoid.statements
    IN  IF s.rootMotion \notin {None, "hips", "root", "ignore"} THEN <<"RootMotion", "UnknownMode">>
        ELSE IF s.rootMotion = "root" /\ s.rootJoint \in {None, ""}
        THEN <<"RootMotion", "NoRootJoint">>
        ELSE IF s.rootMotion = "root" /\ s.rootJoint \notin ToSet(target.joints)
        THEN <<"RootMotion", "UnknownRootJoint">>
        ELSE IF s.translationScale = NotFinite THEN <<"RootMotion", "TranslationScale">> ELSE << >>

Or(value, fallback) == IF value = None THEN fallback ELSE value

RootMotionOptions ==
    [mode |-> Or(Humanoid.statements.rootMotion, "hips"),
     scale |-> Or(Humanoid.statements.translationScale, 1),
     preserveTargetHeight |-> Or(Humanoid.statements.preserveTargetHeight, FALSE)]

\* The external PoseRetargeter: each joint follows the bone mapped to it, or rests.
Retargeted(pose, target, map) ==
    LET local(j) == {b \in DOMAIN map \cap pose.bones : map[b] = j}
        locals == [i \in DOMAIN target.joints |-> local(target.joints[i])]
    IN  [timestamp |-> pose.timestamp, root |-> RootMotionOptions,
         rotations |-> locals, translations |-> locals]

\* The first reason the retarget has to refuse, in its order.
RetargetRefusal(up) ==
    IF ~RigAnswers(up) THEN <<"RigUnanswered">>
    ELSE IF RootMotionRefusal(Target(up)) # << >> THEN RootMotionRefusal(Target(up))
    ELSE IF SourceFor(up) # << >> THEN SourceFor(up)
    ELSE IF Len(Back(BoundPoses, up)) # 1 THEN <<"PoseUnanswered">>
    ELSE IF time = Default THEN <<"NoInstant">> ELSE << >>

HumanoidRetargetFor(up) ==
    IF RetargetRefusal(up) # << >> THEN Refuse(RetargetRefusal(up))
    ELSE Answer(Retargeted(Back(BoundPoses, up)[1], Target(up), Map(up)))

\* Some bones, in the vocabulary's order.
Listed(bones) == Entries(Bones, {i \in DOMAIN Bones : Bones[i] \in bones})

\* The external DiagnoseRig.
DiagnoseRig(target, map) ==
    LET missing == Listed(RequiredBones \ DOMAIN map)
        shared == \E b, c \in DOMAIN map : b # c /\ map[b] = map[c]
        invalid == /\ Humanoid.statements.rootMotion = "root"
                   /\ Humanoid.statements.rootJoint \notin ToSet(target.joints)
    IN  [i \in DOMAIN missing |-> <<"MissingRequiredBone", missing[i]>>]
            \o (IF shared THEN <<<<"DuplicateTarget">>>> ELSE << >>)
            \o (IF invalid THEN <<<<"InvalidRootJoint">>>> ELSE << >>)

RigDiagnosticsFor(up) ==
    IF ~RigAnswers(up) THEN Refuse(<<"RigUnanswered">>)
    ELSE IF RootMotionRefusal(Target(up)) # << >> THEN Refuse(RootMotionRefusal(Target(up)))
    ELSE Answer(DiagnoseRig(Target(up), Map(up)))

\* The external report of one pose, behind what is there: a code and subject once.
PoseDiagnostics(before, pose, map) ==
    LET unmapped == Listed(pose.bones \ DOMAIN map)
        reports == [i \in DOMAIN unmapped |-> <<"UnmappedBone", unmapped[i]>>]
                       \o (IF RootMotionOptions.mode = "hips" /\ "hips" \notin DOMAIN map
                           THEN <<<<"MissingRequiredBone", "hips">>>> ELSE << >>)
    IN  before \o Entries(reports, {i \in DOMAIN reports : reports[i] \notin ToSet(before)})

\* The retarget again, seeded with the rig's list: it refuses first, and for its own reason.
RetargetDiagnosticsFor(up) ==
    LET rig == up[Own("vrm.computeRigDiagnostics")]
    IN  IF RetargetRefusal(up) # << >> THEN Refuse(RetargetRefusal(up))
        ELSE IF ~rig.answered THEN Refuse(<<"RigDiagnosticsUnanswered">>)
        ELSE Answer(PoseDiagnostics(rig.value, Back(BoundPoses, up)[1], Map(up)))

\* The retarget as a sample: the rig's tokens, the pose's arrays, the rests' scales.
JointLocalTransformsFor(up) ==
    LET pose == up[Own("vrm.humanoidRetarget")]
        target == Target(up)
    IN  IF ~pose.answered THEN Refuse(<<"PoseUnanswered">>)
        ELSE IF Len(Back(Targets, up)) # 1 THEN Refuse(<<"RigUnanswered">>)
        ELSE IF \/ Len(pose.value.rotations) # Len(target.joints)
                \/ Len(pose.value.translations) # Len(target.joints)
        THEN Refuse(<<"JointCount">>)
        ELSE Answer([timestamp |-> pose.value.timestamp, joints |-> target.joints,
                     translations |-> pose.value.translations, rotations |-> pose.value.rotations,
                     scales |-> [i \in DOMAIN target.rests |-> target.rests[i].scale]])

Callback(node, up) ==
    LET prim == stage.prims[node[2]]
    IN  CASE node[1] = "vrm.computeTargetSkeleton" -> TargetSkeletonFromRest(prim)
          [] node[1] = "motion.sampleAnimation" -> SampleAnimation(prim)
          [] node[1] \in {"vrm.computeBoundPose", "vrm.computeBindingPose"} ->
                 BoundPoseFor(node[2], up)
          [] node[1] = "vrm.computeHumanoidMap" -> HumanoidMapFor(up)
          [] node[1] = "vrm.computeRestPoseCorrection" -> RestPoseCorrectionFor(up)
          [] node[1] = "vrm.humanoidRetarget" -> HumanoidRetargetFor(up)
          [] node[1] = "vrm.computeJointLocalTransforms" -> JointLocalTransformsFor(up)
          [] node[1] = "vrm.computeRigDiagnostics" -> RigDiagnosticsFor(up)
          [] OTHER -> RetargetDiagnosticsFor(up)

-----------------------------------------------------------------------------

\* What a request evaluates: what is above an override is not asked.
Needed(node) ==
    LET above[n \in Nodes] ==
            {n} \cup IF n \in DOMAIN overrides THEN {}
                     ELSE UNION {above[m] : m \in ToSet(Inputs(n))}
    IN  above[node]

Evaluate(node) ==
    LET out[n \in Nodes] ==
            IF n \in DOMAIN overrides THEN overrides[n]
            ELSE Callback(n, [m \in ToSet(Inputs(n)) |-> out[m]])
    IN  [n \in Needed(node) |-> out[n]]

NoAnswers == [n \in {} |-> 0]

NoOverrides == [n \in {} |-> 0]

Init ==
    /\ stage \in Stages
    /\ time = Default
    /\ overrides = NoOverrides
    /\ requested = None
    /\ answers = NoAnswers

\* What was answered is stale: the driver asks again.
Forget == requested' = None /\ answers' = NoAnswers

\* An override is of one network, and an edit compiles another.
Edit ==
    /\ stage' \in Stages \ {stage}
    /\ overrides' = NoOverrides
    /\ Forget /\ UNCHANGED time

ChangeTime ==
    /\ time' \in Times \ {time}
    /\ Forget /\ UNCHANGED <<stage, overrides>>

Override ==
    /\ \E driver \in Drivers :
           /\ DOMAIN driver \subseteq Nodes
           /\ overrides # driver
           /\ overrides' = driver
    /\ Forget /\ UNCHANGED <<stage, time>>

Compute ==
    /\ requested = None
    /\ \E c \in RigComputations :
           /\ requested' = Own(c)
           /\ answers' = Evaluate(Own(c))
    /\ UNCHANGED <<stage, time, overrides>>

Next == Edit \/ ChangeTime \/ Override \/ Compute

Spec == Init /\ [][Next]_vars

-----------------------------------------------------------------------------

Refused(node) == ~answers[node].answered /\ node \notin DOMAIN overrides

\* A mutant: an unbound skeleton is as ordinary as an unbound ancestor.
IsOrdinary(node) == answers[node].reason = <<"NoAnimation">>

\* The one refusal without a word: an ancestor that binds nothing.
IsSilent(node) == node[1] = "vrm.computeBindingPose" /\ answers[node].reason = <<"NoAnimation">>

\* The refusals posted as errors.
Posts(node) == Refused(node) /\ node[1] # "motion.sampleAnimation" /\ ~IsSilent(node)

\* The reasons that send their reader to another node.
Propagated == {"RigUnanswered", "PoseUnanswered", "RigDiagnosticsUnanswered"}

\* A missing answer is never silent: the request posts its refusal, and a refusal that only
\* says another node answered nothing has that node's own beside it -- down to one that
\* states what is wrong with the stage -- unless a driver took the value away (the reports of
\* each callback, _ForwardBoundPose's reportUnbound).
RefusalsAreExplained ==
    \A n \in DOMAIN answers :
        /\ n = requested /\ Refused(n) => Posts(n)
        /\ Posts(n) /\ answers[n].reason[1] \in Propagated =>
               \E m \in ToSet(Inputs(n)) : Posts(m) \/ m \in DOMAIN overrides

Outcome(computation) == Evaluate(Own(computation))[Own(computation)]

Reports(outcome) == IF outcome.answered THEN ToSet(outcome.value) ELSE {}

\* Only a driver can tell the retarget's readers apart from it: without an override the
\* sample's diagnostics and the joint transforms answer exactly when the retarget does, the
\* diagnostics for its very reason and with the rig's list in front, the pose is of an
\* instant, and no list holds a code a node upstream refuses (ExecVrmRig.h: rigUnanswered,
\* JointTransformsRefusal, RigDiagnosticsFor).
OnlyADriverSeparatesThem ==
    (requested # None /\ overrides = NoOverrides) =>
        LET retarget == Outcome("vrm.humanoidRetarget")
            sample == Outcome("vrm.computeRetargetDiagnostics")
            rig == Outcome("vrm.computeRigDiagnostics")
            joints == Outcome("vrm.computeJointLocalTransforms")
        IN  /\ sample.answered = retarget.answered /\ joints.answered = retarget.answered
            /\ retarget.answered =>
                   /\ retarget.value.timestamp = time /\ rig.answered
                   /\ IsPrefix(rig.value, sample.value) /\ IsInjective(sample.value)
                   /\ \A i \in DOMAIN joints.value.rotations :
                          Cardinality(joints.value.rotations[i]) <= 1
            /\ ~retarget.answered => sample.reason = retarget.reason
            /\ \A r \in Reports(rig) \cup Reports(sample) :
                   r[1] \notin {"DuplicateTarget", "InvalidRootJoint"}
=============================================================================
