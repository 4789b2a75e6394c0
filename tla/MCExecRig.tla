----------------------------- MODULE MCExecRig -----------------------------
(* One avatar and one clip, sound, and with each statement the layer cannot honour. *)
EXTENDS ExecRig

MCBones == <<"hips", "spine", "head">>

Rest(scale) == [turned |-> FALSE, scale |-> scale]

Skeleton(joints, rests) ==
    [type |-> "skeleton", joints |-> joints, restTransforms |-> rests,
     animationSource |-> << >>, ancestor |-> None]

Binding(targets, ancestor) ==
    [type |-> "binding", animationSource |-> targets, ancestor |-> ancestor]

Animation == [type |-> "animation", sound |-> TRUE, bones |-> {"hips", "head"}]

NoStatements ==
    [rootMotion |-> None, rootJoint |-> None, translationScale |-> None,
     preserveTargetHeight |-> None]

\* The clip is bound on the root above its skeleton's parent.
Prims ==
    [avatar |-> [type |-> "humanoid"], mesh |-> [type |-> "other"],
     rig |-> Skeleton(<<"J_root", "J_hips", "J_head">>, <<Rest(1), Rest(1), Rest(2)>>),
     clip |-> [Skeleton(<<"hips", "other", "head">>, <<Rest(1), Rest(1), Rest(1)>>) EXCEPT
                  !.ancestor = "group"],
     group |-> Binding(<< >>, "skelRoot"), skelRoot |-> Binding(<<"walk">>, None),
     walk |-> Animation, run |-> Animation]

Sound ==
    [execMotion |-> TRUE, prims |-> Prims,
     humanoid |-> [path |-> "avatar", skeleton |-> <<"rig", "nothing">>,
                   sourceSkeleton |-> <<"clip">>, statements |-> NoStatements,
                   humanBones |-> [hips |-> "J_hips", spine |-> "", head |-> "J_head"]]]

Targeted(targets) == [Sound EXCEPT !.humanoid.skeleton = targets]

From(targets) == [Sound EXCEPT !.humanoid.sourceSkeleton = targets]

Stated(mode, joint, scale) ==
    [Sound EXCEPT !.humanoid.statements =
        [NoStatements EXCEPT !.rootMotion = mode, !.rootJoint = joint, !.translationScale = scale]]

MCStages ==
    {Sound, [Sound EXCEPT !.execMotion = FALSE],
     Targeted(<<"nothing">>), Targeted(<<"rig", "clip">>), Targeted(<<"mesh">>),
     From(<< >>), From(<<"clip", "rig">>), From(<<"mesh">>), From(<<"rig">>),
     [Sound EXCEPT !.prims.rig.restTransforms = None], [Sound EXCEPT !.prims.rig.joints = None],
     [Sound EXCEPT !.prims.rig.joints = << >>],
     [Sound EXCEPT !.prims.rig.joints = None, !.prims.rig.restTransforms = None],
     [Sound EXCEPT !.prims.clip.joints = <<"hips", "head", "hips">>],
     [Sound EXCEPT !.prims.clip.animationSource = <<"run">>],
     [Sound EXCEPT !.prims.clip.animationSource = <<"walk", "run">>],
     [Sound EXCEPT !.prims.group.animationSource = <<"walk", "run">>],
     [Sound EXCEPT !.prims.skelRoot.animationSource = <<"nothing">>],
     [Sound EXCEPT !.prims.skelRoot.animationSource = <<"mesh">>],
     [Sound EXCEPT !.prims.walk.sound = FALSE],
     [Sound EXCEPT !.humanoid.humanBones.spine = "J_tail"],
     [Sound EXCEPT !.humanoid.humanBones.spine = "J_head"],
     [Sound EXCEPT !.humanoid.humanBones.hips = ""],
     Stated("root", "J_root", 2), Stated("root", None, None), Stated("root", "J_tail", None),
     Stated("ignore", None, NotFinite), Stated("", None, None)}

Pose(n) ==
    [timestamp |-> 9, root |-> [mode |-> "hips", scale |-> 1, preserveTargetHeight |-> FALSE],
     rotations |-> [i \in 1 .. n |-> {}], translations |-> [i \in 1 .. n |-> {}]]

MCDrivers ==
    {<<"motion.sampleAnimation", "walk">> :> Answer([timestamp |-> 5, bones |-> {"spine"}]),
     <<"vrm.computeBoundPose", "clip">> :> Answer([timestamp |-> 6, bones |-> {"hips"}]),
     <<"vrm.computeHumanoidMap", "avatar">> :> Refuse(<<"driver">>),
     <<"vrm.humanoidRetarget", "avatar">> :> Answer(Pose(3)),
     <<"vrm.humanoidRetarget", "avatar">> :> Answer(Pose(2)),
     <<"vrm.computeRigDiagnostics", "avatar">> :> Refuse(<<"driver">>)}
=============================================================================
