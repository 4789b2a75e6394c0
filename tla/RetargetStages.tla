--------------------------- MODULE RetargetStages ---------------------------
(***************************************************************************)
(* What motion_retarget reads off its two stages (StageIo): the avatar's   *)
(* skeleton, humanoid map, expressions, blend-shape tokens and look-at,    *)
(* and the clip's poses with the vrm: tracks on them.  A stage is a record *)
(* of its prims in traversal order, and of the layers it composes besides  *)
(* its root, each with what the materials are once it is empty; a track is *)
(* [samples, default], None being no value (a blocked sample).  A refusal  *)
(* is an exit code.                                                        *)
(***************************************************************************)
EXTENDS Places, SequencesExt

CONSTANTS Unit, NaN, None

\* A weight counts parts of one, or is the NaN.
Number == Int \cup {NaN}

ASSUME WeightAssumption ==
    Unit \in Nat \ {0} /\ NaN \notin Int /\ None \notin Number

\* What a stage holds of each kind: lists of prims, and attributes of their types.
IsSequence(s) == s \in Seq(Range(s))

IsTrack(track) ==
    /\ track.default \in Number \cup {None}
    /\ \A t \in DOMAIN track.samples : track.samples[t] \in Number \cup {None}

IsExpression(p) ==
    /\ p.name \in STRING /\ p.isBinary \in BOOLEAN
    /\ p.targets \in Seq(STRING) /\ p.weights \in Seq(Number)
    /\ IsTrack(p.weight)

IsStatedMap(m) ==
    /\ m.inputMaxValue \in Int \cup {None} /\ m.outputScale \in Int \cup {None}
    /\ m.curve \in Seq([time : Int, value : Int, inTangent : Int, outTangent : Int])

IsBlock(block) == \A m \in DOMAIN block.maps : IsStatedMap(block.maps[m])

IsStage(file) ==
    /\ IsSequence(file.expressions) /\ \A p \in Range(file.expressions) : IsExpression(p)
    /\ IsSequence(file.lookAts)
    /\ \A p \in Range(file.lookAts) : p.block # None => IsBlock(p.block)
    /\ file.channels \in Seq([name : STRING, value : Number])
    /\ \A i, k \in DOMAIN file.channels : file.channels[i].name = file.channels[k].name => i = k

E == INSTANCE ExpressionResolver
L == INSTANCE LookAt

InvalidUserInput == 1
UnsupportedSourceFeature == 2
StageFailure == 3
RetargetContractViolation == 4
OutputAuthoringFailure == 5

Opens(file) == file.kind = "file" /\ file.format /\ file.sound

\* Why a stage did not open: the path, or the layer that is there.
FailToOpen(file) == IF file.kind = "file" THEN StageFailure ELSE InvalidUserInput

NoSkeleton == [path |-> "", joints |-> << >>, rests |-> << >>, inside |-> FALSE,
               ordered |-> TRUE, headResolves |-> TRUE]

\* The skeleton named, or the first of the stage.
FindSkeleton(skeletons, named, absent) ==
    LET fit == SelectSeq(skeletons, LAMBDA s : named \in {"", s.path})
    IN  IF fit # << >> THEN [code |-> 0, skeleton |-> fit[1]]
        ELSE [code |-> IF named = "" THEN absent ELSE InvalidUserInput, skeleton |-> NoSkeleton]

RestPose == [turned |-> FALSE, scale |-> 1]

\* Rest transforms that do not pair with the joints are replaced by identity.
ReadSkeletonRest(s) ==
    IF Len(s.rests) = Len(s.joints) THEN s.rests ELSE [i \in DOMAIN s.joints |-> RestPose]

ReadEyeJoint(joints, token) == IF token \in ToSet(joints) THEN token ELSE ""

\* The binds: a missing weight is full, a colour short of its slot or value is skipped.
MorphBinds(p) ==
    [i \in DOMAIN p.targets |->
        [target |-> p.targets[i], weight |-> IF i <= Len(p.weights) THEN p.weights[i] ELSE Unit]]

ColorBinds(p) ==
    LET indices == IF p.indices = None THEN [i \in DOMAIN p.materials |-> i - 1] ELSE p.indices
        paired == Min({Len(indices), Len(p.slots), Len(p.values)})
        bind(i) == [material |-> p.materials[indices[i] + 1], colorType |-> p.slots[i],
                    targetValue |-> p.values[i]]
        sound == SelectSeq([i \in 1 .. paired |-> i],
                           LAMBDA i : 0 <= indices[i] /\ indices[i] < Len(p.materials))
    IN  [k \in DOMAIN sound |-> bind(sound[k])]

ReadExpressionDefinition(p) ==
    [isBinary |-> p.isBinary,
     override |-> [c \in E!Categories |-> E!ParseOverride(p.override[c]).mode],
     morphTargets |-> MorphBinds(p), materialColors |-> ColorBinds(p)]

\* The expressions of the rig: an unnamed one is none, a name twice is the first.
ReadExpressions(prims) ==
    FoldLeft(LAMBDA rig, p : E!Add(rig, p.name, ReadExpressionDefinition(p)),
             [n \in {} |-> 0], prims)

\* The token each blend shape answers to: the first of a shape, the first shape of a token.
ReadBlendShapeTokens(meshes) ==
    LET pairs(m) == [i \in 1 .. Min({Len(m.names), Len(m.targets)}) |-> <<m.targets[i], m.names[i]>>]
    IN  FoldLeft(LAMBDA tokens, p :
                     IF p[1] \in DOMAIN tokens \/ p[2] \in {tokens[t] : t \in DOMAIN tokens}
                     THEN tokens ELSE (p[1] :> p[2]) @@ tokens,
                 [t \in {} |-> ""], FlattenSeq([m \in DOMAIN meshes |-> pairs(meshes[m])]))

IsLookAtPrim(p) == p.type # None /\ (p.eyes["left"] # None \/ p.eyes["right"] # None \/ p.block # None)

\* The first look-at prim: its preserved block, then vrm:type over it, then the eyes.
ReadLookAt(prims, joints) ==
    LET found == {i \in DOMAIN prims : IsLookAtPrim(prims[i])}
        p == prims[Min(found)]
        parsed == IF p.block = None THEN L!DefaultRig
                  ELSE L!ParseLookAtRangeMaps(p.block, L!DefaultRig).rig
    IN  IF found = {} THEN [has |-> FALSE, rig |-> L!DefaultRig]
        ELSE [has |-> TRUE,
              rig |-> [parsed EXCEPT
                         !.type = IF p.type \in {"bone", "expression"} THEN p.type ELSE @,
                         !.leftEye = ReadEyeJoint(joints, p.eyes["left"]),
                         !.rightEye = ReadEyeJoint(joints, p.eyes["right"])]]

\* The humanoid map: the stage's tokens the skeleton has, the file's over them.
HumanoidMap(bones, extra, joints) ==
    LET staged == {b \in DOMAIN bones : bones[b] \in ToSet(joints)}
    IN  [b \in staged \cup DOMAIN extra |-> IF b \in DOMAIN extra THEN extra[b] ELSE bones[b]]

AvatarRefusal(file, named, found, map, extra) ==
    LET s == found.skeleton
    IN  IF ~Opens(file) THEN FailToOpen(file)
        ELSE IF file.defaultPrim = "" THEN RetargetContractViolation
        ELSE IF found.code # 0 THEN IF named # "" THEN found.code ELSE RetargetContractViolation
        ELSE IF ~s.inside \/ s.joints = << >> \/ "" \in ToSet(s.joints)
        THEN RetargetContractViolation
        ELSE IF \E b \in DOMAIN extra : extra[b] \notin ToSet(s.joints) THEN InvalidUserInput
        ELSE IF DOMAIN map = {} THEN RetargetContractViolation ELSE 0

ReadAvatar(file, named, extra) ==
    LET found == FindSkeleton(file.skeletons, IF named # "" THEN named ELSE file.humanoid.skeleton,
                              RetargetContractViolation)
        s == found.skeleton
        map == HumanoidMap(file.humanoid.bones, extra, s.joints)
        lookAt == ReadLookAt(file.lookAts, s.joints)
        code == AvatarRefusal(file, named, found, map, extra)
    IN  IF code # 0 THEN [code |-> code]
        ELSE [code |-> 0, skeleton |-> [s EXCEPT !.rests = ReadSkeletonRest(s)], map |-> map,
              expressionRig |-> ReadExpressions(file.expressions),
              blendShapeTokens |-> ReadBlendShapeTokens(file.meshes),
              hasLookAt |-> lookAt.has, lookAtRig |-> lookAt.rig, materials |-> file.materials,
              layers |-> file.layers]

Keys(track) == DOMAIN track.samples

\* What a map holds once own is written into it.
Over(own, other) ==
    [x \in DOMAIN own \cup DOMAIN other |-> IF x \in DOMAIN own THEN own[x] ELSE other[x]]

HasValue(track) == track.default # None \/ Keys(track) # {}

Mix(a, b, n, d) == IF NaN \in {a, b} THEN NaN ELSE (a * (d - n) + b * n) \div d

MixPoints(p, q, n, d) == [axis \in L!Axes |-> Mix(p[axis], q[axis], n, d)]

\* UsdAttribute::Get: a blocked sample has no value, two sound ones interpolate.
ValueAt(track, t, isPoint) ==
    LET before == {k \in Keys(track) : k <= t}
        after == Keys(track) \ before
        a == track.samples[Max(before)]
        b == track.samples[Min(after)]
    IN  IF Keys(track) = {} THEN track.default
        ELSE IF before = {} THEN b
        ELSE IF after = {} \/ a = None \/ b = None \/ Max(before) = t THEN a
        ELSE IF isPoint THEN MixPoints(a, b, t - Max(before), Min(after) - Max(before))
        ELSE Mix(a, b, t - Max(before), Min(after) - Max(before))

\* MotionChannelSet::Set: a name already there gets the new value in its place.
SetChannel(channels, name, value) ==
    IF \E c \in ToSet(channels) : c.name = name
    THEN [i \in DOMAIN channels |->
             IF channels[i].name = name THEN [channels[i] EXCEPT !.value = value] ELSE channels[i]]
    ELSE Append(channels, [name |-> name, value |-> value])

\* The clip's driven expressions: declared and never driven is no weight of zero.
ClipExpressions(prims) ==
    LET Drives(p) == p.name # "" /\ HasValue(p.weight)
        first == {i \in DOMAIN prims :
                     /\ Drives(prims[i])
                     /\ \A j \in 1 .. i - 1 : Drives(prims[j]) => prims[j].name # prims[i].name}
        ordered == InOrder(first)
    IN  [n \in DOMAIN ordered |-> prims[ordered[n]]]

\* The clip's gaze: the first prim that states a target or an offset.
ClipLookAt(prims) ==
    LET stating == SelectSeq(prims, LAMBDA p : HasValue(p.target) \/ p.offset # None)
    IN  IF stating = << >> THEN [target |-> [samples |-> << >>, default |-> None], offset |-> None]
        ELSE stating[1]

VrmTimes(file) ==
    UNION {Keys(p.weight) : p \in ToSet(ClipExpressions(file.expressions))}
        \cup Keys(ClipLookAt(file.lookAts).target)

\* The poses the library keyed: the body's keys, or the start when there is none -- a start
\* that gives way to the keys of the vrm: tracks.
LibraryTimes(file) ==
    IF file.bodyKeys # {} THEN file.bodyKeys
    ELSE IF VrmTimes(file) = {} THEN {file.start} ELSE {}

PoseTimes(file) == LibraryTimes(file) \cup VrmTimes(file)

\* One pose: the library's channels where it keyed one, the vrm: tracks over them.
Pose(file, t) ==
    [timestamp |-> t, bones |-> file.animated,
     lookAtTarget |-> ValueAt(ClipLookAt(file.lookAts).target, t, TRUE),
     channels |->
         FoldLeft(LAMBDA channels, p :
                      LET weight == ValueAt(p.weight, t, FALSE)
                      IN  IF weight = None THEN channels ELSE SetChannel(channels, p.name, weight),
                  IF t \in LibraryTimes(file) THEN file.channels ELSE << >>,
                  ClipExpressions(file.expressions))]

NamesBonesOnce(joints) ==
    LET bones == SelectSeq(joints, LAMBDA j : j # "other") IN bones # << >> /\ IsInjective(bones)

ClipRefusal(file, found) ==
    IF ~Opens(file) THEN FailToOpen(file)
    ELSE IF found.code # 0 THEN found.code
    ELSE IF ~file.semantic \/ "" \in ToSet(found.skeleton.joints)
            \/ ~NamesBonesOnce(found.skeleton.joints)
    THEN UnsupportedSourceFeature ELSE 0

ReadClip(file, named) ==
    LET found == FindSkeleton(file.skeletons, named, UnsupportedSourceFeature)
        code == ClipRefusal(file, found)
        times == InOrder(PoseTimes(file))
    IN  IF code # 0 THEN [code |-> code]
        ELSE [code |-> 0, samples |-> [i \in DOMAIN times |-> Pose(file, times[i])],
              hasLookAtTrack |-> HasValue(ClipLookAt(file.lookAts).target),
              lookAtOffset |-> ClipLookAt(file.lookAts).offset]
=============================================================================
