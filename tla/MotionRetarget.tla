--------------------------- MODULE MotionRetarget ---------------------------
(***************************************************************************)
(* The motion_retarget tool: one clip baked onto one avatar, in the steps  *)
(* of main(), with the process killed or a write failing where it may.     *)
(* Runs follow one another over one disk, each a new process.  Disk maps a *)
(* file to what is in it.  A run writes to it where CreateNew saves a new  *)
(* layer still empty, where Save saves the bake, and on its way out, where *)
(* it reports the modules it loaded; the layer it authors is in memory.    *)
(* A path has two identities: the name the layer registry resolves it to,  *)
(* which follows no link, and the file it reaches, which is what is read   *)
(* and written.                                                            *)
(***************************************************************************)
EXTENDS RetargetStages

CONSTANTS
    CommandLines,    \* the argument lists runs are started with
    Files,           \* path -> what it reaches: its registry id, its file, and what that is
    Rewritten,       \* the stages a path may compose to once a run wrote one of its layers
    MaxRuns          \* bound: how many runs follow one another

\* The arguments that name the files of a run.
Paths == {"--avatar", "--animation", "--output"}

FileFlags == Paths \cup {"--load-report"}

\* A path reaches a file or a place for one; a flag may also come without its value.
ASSUME CommandLinesAssumption ==
    \A words \in CommandLines :
        /\ words \in Seq(Range(words))
        /\ \A i \in DOMAIN words :
              words[i][1] \in FileFlags => words[i][2] \in DOMAIN Files \cup {None}

\* A stage's attributes have their types, its layers are files, and a clip's tracks have
\* finitely many keys, at whole ticks.
IsInput(file) ==
    Opens(file) =>
        /\ IsStage(file)
        /\ DOMAIN file.layers \subseteq DOMAIN Files
        /\ file.semantic => PoseTimes(file) \subseteq Int /\ IsFiniteSet(PoseTimes(file))

ASSUME FilesAssumption == \A file \in Range(Files) \cup Rewritten : IsInput(file)

VARIABLES pc, arguments, options, avatar, clip, source, retargeted, gaze, expressions,
          layer, disk, exit, runs

inputs == <<arguments, options, avatar, clip, source>>
baked == <<retargeted, gaze, expressions, layer>>
vars == <<pc, inputs, baked, disk, exit, runs>>

NoValue == [none |-> TRUE]

Id(path) == Files[path].id

File(path) == Files[path].file

\* The exit of a process that never reached one.
Killed == -1

ValueFlags == {"--avatar", "--animation", "--output", "--humanoid-map", "--skeleton",
               "--clip-skeleton", "--animation-name", "--root-motion", "--root-joint",
               "--resample", "--translation-scale", "--load-report"}

Switches == {"--no-expressions", "--no-look-at", "--quiet", "--preserve-target-height"}

EndFlags == {"--help", "--version", "--build-info"}

Flags == ValueFlags \cup Switches

Default(flag) ==
    CASE flag \in Switches -> FALSE
      [] flag = "--animation-name" -> "RetargetedAnimation"
      [] flag = "--root-motion" -> "hips"
      [] flag = "--resample" -> 0
      [] flag = "--translation-scale" -> 1
      [] OTHER -> ""

DefaultOptions == [flag \in Flags |-> Default(flag)]

\* A value the flag takes: present, of its vocabulary, a number where one is asked for.
Takes(flag, value) ==
    /\ value # None
    /\ flag = "--root-motion" => value \in {"hips", "root", "ignore"}
    /\ flag \in {"--resample", "--translation-scale"} => value \in Int
    /\ flag = "--resample" => value > 0

\* One argument after those read: --help and its like end the parse, an error ends it too.
ReadArgument(parsed, argument) ==
    LET flag == argument[1]
    IN  IF parsed.outcome # "reading" THEN parsed
        ELSE IF flag \in EndFlags THEN [parsed EXCEPT !.outcome = "information"]
        ELSE IF flag \in Switches THEN [parsed EXCEPT !.options[flag] = TRUE]
        ELSE IF flag \in ValueFlags /\ Takes(flag, argument[2])
        THEN [parsed EXCEPT !.options[flag] = argument[2]]
        ELSE [parsed EXCEPT !.outcome = "error"]

Complete(o) ==
    /\ \A flag \in Paths : o[flag] # ""
    /\ o["--root-motion"] = "root" => o["--root-joint"] # ""

ParseOptions(words) ==
    LET read[n \in 0 .. Len(words)] ==
            IF n = 0 THEN [outcome |-> "reading", options |-> DefaultOptions]
            ELSE ReadArgument(read[n - 1], words[n])
        parsed == read[Len(words)]
    IN  IF parsed.outcome # "reading" THEN parsed
        ELSE [parsed EXCEPT !.outcome = IF Complete(parsed.options) THEN "run" ELSE "error"]

ResolveOptions == [clampWeights |-> TRUE, binaryThreshold |-> Unit \div 2]

Joints == ToSet(avatar.skeleton.joints)

JointIndex(token) == IndexFirstSubSeq(<<token>>, avatar.skeleton.joints)

RestOf(token) == avatar.skeleton.rests[JointIndex(token)]

EmptyLayer ==
    [reference |-> "", animations |-> [n \in {} |-> 0], colors |-> [k \in {} |-> << >>],
     binding |-> << >>]

\* A mutant: a bake over an earlier one authors into what is there.
NotCleared(old) == old

\* SdfLayer::Clear: nothing of what was there is left.
Cleared(old) == EmptyLayer

\* What a file holds that is no layer: nothing, what the user keeps in it, or a load report,
\* whole or cut short.
NoFile == [kind |-> "none"]
OtherFile == [kind |-> "other"]
LoadReport == [kind |-> "report"]

IsLayer(content) == content \notin {NoFile, OtherFile, LoadReport}

\* What a user's layer holds before any bake.
UserLayer ==
    [EmptyLayer EXCEPT !.reference = "theirs",
                       !.animations = "Theirs" :> [samples |-> << >>, blendShapes |-> << >>]]

\* The disk before the first run.
FirstDisk ==
    [f \in {File(p) : p \in DOMAIN Files} |->
        LET reaching == {Files[p] : p \in {q \in DOMAIN Files : File(q) = f}}
        IN  IF \E r \in reaching : r.kind = "absent" THEN NoFile
            ELSE IF \E r \in reaching : Opens(r) THEN UserLayer ELSE OtherFile]

\* The process starts on one of the command lines.
Start(words) ==
    /\ pc' = "parse"
    /\ arguments' = words
    /\ options' = DefaultOptions
    /\ avatar' = NoValue /\ clip' = NoValue
    /\ source' = << >> /\ retargeted' = << >> /\ gaze' = << >> /\ expressions' = << >>
    /\ layer' = EmptyLayer
    /\ exit' = None

Init ==
    /\ pc = "parse"
    /\ arguments \in CommandLines
    /\ options = DefaultOptions
    /\ avatar = NoValue /\ clip = NoValue
    /\ source = << >> /\ retargeted = << >> /\ gaze = << >> /\ expressions = << >>
    /\ layer = EmptyLayer
    /\ disk = FirstDisk
    /\ exit = None
    /\ runs = 1

NextRun ==
    /\ pc = "exited" /\ runs < MaxRuns
    /\ runs' = runs + 1
    /\ \E words \in CommandLines : Start(words)
    /\ UNCHANGED disk

\* The end of a process that reports nothing: there are no options yet, or it is killed.
Exit(code) ==
    /\ pc' = "exited"
    /\ exit' = code

\* A return from main once there are options, which LoadReportAtExit is still to follow.
Return(code) ==
    /\ pc' = "return"
    /\ exit' = code

Continue(step) ==
    /\ pc' = step
    /\ exit' = exit

\* A refusal returns the code of the input at fault, and anything else goes on.
RefuseOr(code, step) == IF code # 0 THEN Return(code) ELSE Continue(step)

Parse ==
    /\ pc = "parse"
    /\ LET parsed == ParseOptions(arguments)
       IN  /\ options' = parsed.options
           /\ CASE parsed.outcome = "error" -> Exit(InvalidUserInput)
                [] parsed.outcome = "information" -> Exit(0)
                [] OTHER -> Continue("avatar")
    /\ UNCHANGED <<arguments, avatar, clip, source, baked, disk, runs>>

NoMap == [parses |-> TRUE, entries |-> [b \in {} |-> ""]]

Unwritten(path) == disk[File(path)] = FirstDisk[File(path)]

\* --humanoid-map: a file that is not an object of known bone names to tokens is refused, and
\* neither a layer nor a load report is one.
MapFile ==
    LET path == options["--humanoid-map"]
    IN  IF path = "" THEN NoMap
        ELSE IF path \in DOMAIN Files /\ Files[path].kind = "map" /\ Unwritten(path)
        THEN Files[path]
        ELSE [NoMap EXCEPT !.parses = FALSE]

\* A path the registry opens as a layer: of a format, and a layer is there.
Readable(path) == Files[path].format /\ IsLayer(disk[File(path)])

Unreadable == [kind |-> "file", format |-> TRUE, sound |-> FALSE]

Layers(path) == {path} \cup IF Opens(Files[path]) THEN DOMAIN Files[path].layers ELSE {}

\* What a path may open as: its stage while no layer of it was written, another once one was,
\* and nothing where what was written is no layer.
Stages(path) ==
    IF \A l \in Layers(path) : Unwritten(l) THEN {Files[path]}
    ELSE IF Readable(path) THEN Rewritten ELSE {Unreadable}

OpenAvatar ==
    /\ pc = "avatar"
    /\ \E stage \in Stages(options["--avatar"]) :
           avatar' = IF ~MapFile.parses THEN [code |-> InvalidUserInput]
                     ELSE ReadAvatar(stage, options["--skeleton"], MapFile.entries)
    /\ RefuseOr(avatar'.code, "clip")
    /\ UNCHANGED <<arguments, options, clip, source, baked, disk, runs>>

\* The external resampler: a pose each step from the first to the last, the last one standing.
Resample(samples, step) ==
    LET first == samples[1].timestamp
        count == (Last(samples).timestamp - first) \div step
        at(t) == samples[Max({i \in DOMAIN samples : samples[i].timestamp <= t})]
    IN  [i \in 1 .. count + 1 |->
            [at(first + (i - 1) * step) EXCEPT !.timestamp = first + (i - 1) * step]]

OpenClip ==
    /\ pc = "clip"
    /\ \E stage \in Stages(options["--animation"]) :
           clip' = ReadClip(stage, options["--clip-skeleton"])
    /\ source' = IF clip'.code # 0 THEN << >>
                 ELSE IF options["--resample"] > 0
                 THEN Resample(clip'.samples, options["--resample"]) ELSE clip'.samples
    /\ RefuseOr(clip'.code, "retarget")
    /\ UNCHANGED <<arguments, options, avatar, baked, disk, runs>>

\* The external retargeter: a joint mapped to a bone the clip moves follows it.
Retarget(pose) ==
    [timestamp |-> pose.timestamp,
     rotations |->
         [j \in Joints |->
             IF \E b \in DOMAIN avatar.map : avatar.map[b] = j /\ b \in pose.bones
             THEN [kind |-> "body", at |-> pose.timestamp] ELSE [kind |-> "rest"]]]

RetargetBody ==
    /\ pc = "retarget"
    /\ LET rooted == options["--root-motion"] = "root"
           code == IF rooted /\ options["--root-joint"] \notin Joints THEN InvalidUserInput ELSE 0
       IN  /\ retargeted' = IF code # 0 THEN << >>
                            ELSE [i \in DOMAIN source |-> Retarget(source[i])]
           /\ RefuseOr(code, "gaze")
    /\ UNCHANGED <<inputs, gaze, expressions, layer, disk, runs>>

GazeDrivesExpressions == avatar.lookAtRig.type = "expression"

\* --no-expressions takes an expression-driven gaze along with the face.
GazeIsBaked ==
    /\ ~options["--no-look-at"] /\ avatar.hasLookAt
    /\ ~options["--no-expressions"] \/ ~GazeDrivesExpressions

\* Where the head is: the external forward kinematics of the retargeted pose.
HeadAt(pose) == [position |-> L!Point(0, 1, 0), turned |-> 1]

\* One result per sample, and none at all for a rig whose head cannot be placed.
EvaluateGaze ==
    IF "head" \notin DOMAIN avatar.map \/ ~avatar.skeleton.headResolves THEN << >>
    ELSE [i \in DOMAIN source |->
             L!Evaluate(avatar.lookAtRig, source[i].lookAtTarget, HeadAt(retargeted[i]),
                        clip.lookAtOffset).gaze]

EyeRotation(eye) == [kind |-> "gaze", yaw |-> eye.yaw, pitch |-> eye.pitch, rest |-> RestOf(eye.joint)]

\* What a gaze tells a joint: of two eyes on one joint, the last.
Told(g, token) == {n \in DOMAIN g.eyeRotations : g.eyeRotations[n].joint = token}

GazeHold(held, g) ==
    Over([token \in {j \in Joints : Told(g, j) # {}} |->
             EyeRotation(g.eyeRotations[Max(Told(g, token))])], held)

NoneHeld == [j \in {} |-> 0]

\* A mutant: a sample that says nothing snaps the eyes back to the body's pose.
HeldForOneSample(gazes) ==
    [i \in 0 .. Len(gazes) |-> IF i = 0 THEN NoneHeld ELSE GazeHold(NoneHeld, gazes[i])]

\* The last gaze each eye was given stands over the samples that say nothing.
Held(gazes) ==
    LET held[i \in 0 .. Len(gazes)] ==
            IF i = 0 THEN NoneHeld ELSE GazeHold(held[i - 1], gazes[i])
    IN  held

ApplyEyeRotations(gazes) ==
    [i \in DOMAIN retargeted |->
        IF i > Len(gazes) THEN retargeted[i]
        ELSE [retargeted[i] EXCEPT !.rotations = Over(Held(gazes)[i], @)]]

EvaluateLookAt ==
    /\ pc = "gaze"
    /\ gaze' = IF GazeIsBaked THEN EvaluateGaze ELSE << >>
    /\ retargeted' = IF GazeIsBaked /\ ~GazeDrivesExpressions THEN ApplyEyeRotations(gaze')
                     ELSE retargeted
    /\ Continue("face")
    /\ UNCHANGED <<inputs, expressions, layer, disk, runs>>

\* A sample's weights: the gaze's four set over the clip's own where it has a gaze.
Weights(i) ==
    IF ~GazeDrivesExpressions \/ i > Len(gaze) \/ ~gaze[i].hasGaze THEN source[i].channels
    ELSE FoldLeft(LAMBDA channels, w : SetChannel(channels, w.name, w.value),
                  source[i].channels, gaze[i].expressions)

ResolveExpressions ==
    /\ pc = "face"
    /\ expressions' =
           IF options["--no-expressions"] THEN << >>
           ELSE [i \in DOMAIN source |->
                    E!Resolve(avatar.expressionRig, Weights(i), ResolveOptions).resolved]
    /\ Continue("open")
    /\ UNCHANGED <<inputs, retargeted, gaze, layer, disk, runs>>

\* A mutant: the paths are compared and not the layers they open.
OutputIsSpelledOtherwise ==
    /\ options["--animation-name"] # "not an identifier"
    /\ options["--output"] \notin {options["--avatar"], options["--animation"]}

\* The animation's name and the output, which is refused if it is an input's root layer.
OutputIsSound ==
    /\ options["--animation-name"] # "not an identifier"
    /\ Id(options["--output"]) \notin {Id(options["--avatar"]), Id(options["--animation"])}

\* An output that is a layer is opened, and cleared in memory.
ClearOutput ==
    /\ Readable(options["--output"])
    /\ layer' = Cleared(disk[File(options["--output"])])
    /\ UNCHANGED disk
    /\ Continue("author") \/ Return(OutputAuthoringFailure)

\* One that is none is created, over whatever is there, and CreateNew saves it before anything
\* is in it; or it cannot be.
CreateOutput ==
    /\ ~Readable(options["--output"])
    /\ layer' = EmptyLayer
    /\ \/ /\ Files[options["--output"]].format
          /\ disk' = [disk EXCEPT ![File(options["--output"])] = EmptyLayer]
          /\ Continue("author") \/ Return(OutputAuthoringFailure)
       \/ /\ UNCHANGED disk
          /\ Return(OutputAuthoringFailure)

OpenOutput ==
    /\ pc = "open"
    /\ \/ /\ OutputIsSound
          /\ ClearOutput \/ CreateOutput
       \/ /\ ~OutputIsSound
          /\ UNCHANGED <<layer, disk>>
          /\ Return(InvalidUserInput)
    /\ UNCHANGED <<inputs, retargeted, gaze, expressions, runs>>

\* One slot for each blend shape a sample drives and a mesh names by a token.
Slots ==
    {t \in DOMAIN avatar.blendShapeTokens :
        \E i \in DOMAIN expressions : t \in DOMAIN expressions[i].morphTargets}

\* Every sample authors every slot, one it did not resolve at the value before.
BlendShapeWeights ==
    LET row[i \in 0 .. Len(expressions)] ==
            [t \in Slots |->
                IF i = 0 THEN 0
                ELSE IF t \in DOMAIN expressions[i].morphTargets
                THEN expressions[i].morphTargets[t] ELSE row[i - 1][t]]
    IN  [i \in DOMAIN expressions |-> row[i]]

\* VRM 1.0's colour slots and the schema whose attribute each one is.
ColorSlots ==
    [color |-> "VrmMaterialAPI", emissionColor |-> "VrmMaterialAPI",
     shadeColor |-> "VrmMToonAPI", matcapColor |-> "VrmMToonAPI",
     rimColor |-> "VrmMToonAPI", outlineColor |-> "VrmMToonAPI"]

\* The avatar's materials as the output composes them: where the output is a layer of the
\* avatar's own, without what that layer held of them before it was cleared.
ComposedMaterials ==
    LET own == {l \in DOMAIN avatar.layers : Id(l) = Id(options["--output"])}
    IN  IF own = {} THEN avatar.materials ELSE avatar.layers[CHOOSE l \in own : TRUE]

\* The colours that have an attribute to land on: the slot, the material, its schema, a value.
ColorTargets ==
    {k \in UNION {DOMAIN expressions[i].materialColors : i \in DOMAIN expressions} :
        /\ k[2] \in DOMAIN ColorSlots
        /\ k[1] \in DOMAIN ComposedMaterials
        /\ ColorSlots[k[2]] \in ComposedMaterials[k[1]].schemas
        /\ k[2] \in DOMAIN ComposedMaterials[k[1]].values}

\* A colour's values, at the samples that resolved one.
ColorSamples(k) ==
    LET stating == InOrder({i \in DOMAIN expressions : k \in DOMAIN expressions[i].materialColors})
        sample(i) == [timestamp |-> source[i].timestamp,
                      value |-> E!Apply(expressions[i].materialColors[k],
                                        ComposedMaterials[k[1]].values[k[2]])]
    IN  [n \in DOMAIN stating |-> sample(stating[n])]

MaterialColors == [k \in ColorTargets |-> ColorSamples(k)]

Animation == [samples |-> retargeted, blendShapes |-> BlendShapeWeights]

\* The animation, the face on the same samples, and the binding over the referenced avatar.
Author ==
    /\ pc = "author"
    /\ layer' = [reference |-> options["--avatar"],
                 animations |-> Over([name \in {options["--animation-name"]} |-> Animation],
                                     layer.animations),
                 colors |-> Over(MaterialColors, layer.colors),
                 binding |-> <<avatar.skeleton.path, options["--animation-name"]>>]
    /\ Continue("save") \/ Return(OutputAuthoringFailure)
    /\ UNCHANGED <<inputs, retargeted, gaze, expressions, disk, runs>>

Save ==
    /\ pc = "save"
    /\ \/ /\ disk' = [disk EXCEPT ![File(options["--output"])] = layer]
          /\ Return(0)
       \/ /\ UNCHANGED disk
          /\ Return(OutputAuthoringFailure)
    /\ UNCHANGED <<inputs, baked, runs>>

\* The load report is written over whatever --load-report names, or cannot be.
WriteLoadReport ==
    \/ UNCHANGED disk
    \/ /\ options["--load-report"] # ""
       /\ disk' = [disk EXCEPT ![File(options["--load-report"])] = LoadReport]

\* LoadReportAtExit: the report is tried on every return, whatever it returns.
Leave ==
    /\ pc = "return"
    /\ WriteLoadReport
    /\ Exit(exit)
    /\ UNCHANGED <<inputs, baked, runs>>

\* The process is killed, in the middle of its report or with nothing more on disk.
Kill ==
    /\ pc # "exited"
    /\ IF pc = "return" THEN WriteLoadReport ELSE UNCHANGED disk
    /\ Exit(Killed)
    /\ UNCHANGED <<inputs, baked, runs>>

Done ==
    /\ pc = "exited" /\ runs = MaxRuns
    /\ UNCHANGED vars

Next ==
    \/ Parse \/ OpenAvatar \/ OpenClip \/ RetargetBody \/ EvaluateLookAt \/ ResolveExpressions
    \/ OpenOutput \/ Author \/ Save \/ Leave \/ Kill \/ NextRun \/ Done

Spec == Init /\ [][Next]_vars

-----------------------------------------------------------------------------

ReportsTo(f) == options["--load-report"] # "" /\ f = File(options["--load-report"])

\* A run writes to no file but the two its arguments name.  The report comes when the run is
\* over and may replace anything.  The output is never the root layer of the avatar or of the
\* clip, however it is spelled (WriteRetargetedAnimation's collision check, on the registry's
\* identity); and a layer there is replaced by no step but the save a run returns 0 from -- a
\* refusal, a failure or a kill before it leaves at most an empty layer, where none was.
OnlyNamedFilesAreWritten ==
    [][\A f \in DOMAIN disk :
           disk'[f] # disk[f] =>
               \/ pc = "return" /\ ReportsTo(f) /\ disk'[f] = LoadReport
               \/ /\ f = File(options["--output"])
                  /\ Id(options["--output"]) \notin
                         {Id(options["--avatar"]), Id(options["--animation"])}
                  /\ exit' = 0 \/ (~IsLayer(disk[f]) /\ disk'[f] = EmptyLayer)]_vars

\* The last sample up to i in which a predicate holds, or 0.
LastWith(i, Test(_)) == Max({0} \cup {k \in 1 .. i : Test(k)})

Aims(token, k) == k <= Len(gaze) /\ Told(gaze[k], token) # {}

\* A bone-driven eye is at the last gaze the clip gave, however long ago, and until the
\* first one where the body's retarget put it (ApplyEyeRotations' held map).
EyesHoldTheLastGaze ==
    (pc = "open" /\ gaze # << >> /\ ~GazeDrivesExpressions) =>
        \A i \in DOMAIN retargeted, token \in Joints :
            LET k == LastWith(i, LAMBDA n : Aims(token, n))
            IN  retargeted[i].rotations[token] =
                    IF k = 0 THEN Retarget(source[i]).rotations[token]
                    ELSE EyeRotation(gaze[k].eyeRotations[Max(Told(gaze[k], token))])

\* A reported weight as its own expression resolves it, and the rate of a category among all
\* the weights a sample reports, neither of which knows an order.
Own(i, n) ==
    LET c == CHOOSE w \in ToSet(Weights(i)) : w.name = n
    IN  E!OwnWeight(avatar.expressionRig[n], c.value, ResolveOptions)

Reported(i) == {c.name : c \in ToSet(Weights(i))} \cap DOMAIN avatar.expressionRig

Rate(i, category) ==
    Max({0} \cup {E!OverrideRate(avatar.expressionRig[n].override[category], Own(i, n)) :
                      n \in Reported(i)})

\* What is left of an expression's weight once the categories are settled.
Left(i, n) ==
    LET rate == IF E!CategoryOf(n) = "none" THEN 0 ELSE Rate(i, E!CategoryOf(n))
    IN  IF rate = 0 THEN Own(i, n)
        ELSE E!Rounded(avatar.expressionRig[n], E!Times(Own(i, n), Unit - rate), ResolveOptions)

\* The part of a weight that a list of binds gives one shape, each bind its own.
Bound(binds, weight, target) ==
    FoldLeft(LAMBDA total, b : IF b.target # target THEN total
                               ELSE E!Plus(total, E!Times(weight, b.weight)),
             0, binds)

Share(i, n, target) == Bound(avatar.expressionRig[n].morphTargets, Left(i, n), target)

\* The sum over a set of names, a NaN if a share is one.
SumOf(share, names) ==
    MapThenFoldSet(LAMBDA a, b : E!Plus(a, b), 0, LAMBDA n : share[n],
                   LAMBDA s : CHOOSE n \in s : TRUE, names)

\* Every blend shape has the sum of its expressions' weights, each suppressed once by the
\* largest override of its category, a suppressed expression still overriding -- whatever
\* the order the sample reports them in -- and a shape no reported expression binds has no
\* entry (ExpressionResolver::Resolve on the weights the gaze and the clip give).
FaceIsArbitratedOnce ==
    (pc = "open" /\ expressions # << >>) =>
        \A i \in DOMAIN source :
            /\ DOMAIN expressions[i].morphTargets =
                   UNION {{b.target : b \in ToSet(avatar.expressionRig[n].morphTargets)} \ {""} :
                             n \in Reported(i)}
            /\ \A target \in DOMAIN expressions[i].morphTargets :
                   expressions[i].morphTargets[target] =
                       SumOf([n \in Reported(i) |-> Share(i, n, target)], Reported(i))

States(target, k) == target \in DOMAIN expressions[k].morphTargets

\* What a successful run leaves is its own bake and nothing of a layer before it: one
\* animation, the binding to it, and blend-shape weights that stay at the last value a
\* sample stated (Clear, AuthorBlendShapeWeights) -- unless the load report was asked for at
\* the output's own place, and has taken it.
OutputIsThisBake ==
    (/\ exit = 0 /\ layer # EmptyLayer
     /\ ~(pc = "exited" /\ ReportsTo(File(options["--output"])))) =>
        LET saved == disk[File(options["--output"])]
            name == options["--animation-name"]
            rows == saved.animations[name].blendShapes
        IN  /\ DOMAIN saved.animations = {name}
            /\ saved.binding = <<avatar.skeleton.path, name>>
            /\ DOMAIN saved.colors = ColorTargets
            /\ Len(rows) = Len(expressions)
            /\ \A i \in DOMAIN rows, target \in Slots :
                   LET k == LastWith(i, LAMBDA n : States(target, n))
                   IN  rows[i][target] = IF k = 0 THEN 0 ELSE expressions[k].morphTargets[target]
=============================================================================
