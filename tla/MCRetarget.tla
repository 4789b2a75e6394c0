----------------------------- MODULE MCRetarget -----------------------------
(* Three avatars and three clips, every pair baked, the command lines that fail, the reports
   and the outputs that meet another file. *)
EXTENDS MotionRetarget

NoTrack == [samples |-> [t \in {} |-> 0], default |-> None]

Track(samples) == [NoTrack EXCEPT !.samples = samples]

NoOverride == [c \in E!Categories |-> ""]

Morph(target, weight) == [targets |-> <<target>>, weights |-> <<weight>>]

Expression(name, morph) ==
    [name |-> name, isBinary |-> FALSE, override |-> NoOverride, targets |-> morph.targets,
     weights |-> morph.weights, materials |-> << >>, indices |-> None, slots |-> << >>,
     values |-> << >>, weight |-> NoTrack]

\* A clip's expression, which drives a weight and binds nothing.
Driven(name, track) == [Expression(name, Morph("", 8)) EXCEPT !.weight = track]

\* A face whose mouth blocks the blink, whose blink blends the mouth away, and one look.
Face ==
    << [Expression("aa", Morph("A", 8)) EXCEPT !.override["blink"] = "block"],
       [Expression("blink", Morph("B", 8)) EXCEPT !.override["mouth"] = "blend"],
       [Expression("blink", Morph("C", 8)) EXCEPT !.isBinary = TRUE],
       [Expression("blinkLeft", [targets |-> <<"B", "C">>, weights |-> <<4>>]) EXCEPT
           !.isBinary = TRUE, !.override["blink"] = "blend"],
       [Expression("happy", Morph("A", 4)) EXCEPT
           !.override["mouth"] = "half", !.override["lookAt"] = "blend",
           !.materials = <<"skin", "hair">>, !.indices = <<0, 0, 2, 1, 0>>,
           !.slots = <<"color", "rimColor", "color", "color", "">>, !.values = <<8, 8, 0, 8, 8>>],
       Expression("lookLeft", Morph("D", 8)),
       Expression("lookRight", [targets |-> <<"", "E">>, weights |-> <<8, NaN>>]),
       Expression("", Morph("A", 8)) >>

\* B is bound twice by other tokens, D's token is A's: an animation cannot name it.
Meshes ==
    << [names |-> <<"a", "b">>, targets |-> <<"A", "B", "C">>],
       [names |-> <<"bb", "c", "a">>, targets |-> <<"B", "C", "D">>] >>

Materials ==
    [skin |-> [schemas |-> {"VrmMaterialAPI"}, values |-> [color |-> 4, rimColor |-> 4]],
     hair |-> [schemas |-> {"VrmMaterialAPI"}, values |-> [rimColor |-> 4]]]

Rig(inside) ==
    [path |-> "/A/rig", joints |-> <<"root", "head", "eyeL", "eyeR">>, inside |-> inside,
     rests |-> <<RestPose, RestPose, RestPose, [RestPose EXCEPT !.turned = TRUE]>>,
     ordered |-> TRUE, headResolves |-> TRUE]

Stated(range, scale) == [inputMaxValue |-> range, outputScale |-> scale, curve |-> << >>,
                         whole |-> TRUE]

Key(time, value, in, out) == [time |-> time, value |-> value, inTangent |-> in, outTangent |-> out]

Block1 == [object |-> TRUE, keys |-> "1.0", offset |-> L!Point(0, 1, 0), type |-> "bone",
           maps |-> [horizontalInner |-> Stated(90, 10), verticalUp |-> Stated(0, 10)]]

Block0 == [object |-> TRUE, keys |-> "0.x", offset |-> None, type |-> "BlendShape",
           maps |-> [horizontalOuter |->
                        [Stated(90, 16) EXCEPT !.curve = <<Key(0, 0, 0, 1), Key(8, 8, 1, 0)>>],
                     verticalDown |-> [Stated(None, None) EXCEPT !.whole = FALSE]]]

LookAtPrim(type, block, left, right) ==
    [type |-> type, block |-> block, eyes |-> [left |-> left, right |-> right],
     target |-> NoTrack, offset |-> None]

\* A clip's look-at, which has a target and no rig.
Target(track, offset) ==
    [LookAtPrim(None, None, None, None) EXCEPT !.target = track, !.offset = offset]

StageFile(id) ==
    [id |-> id, file |-> id, kind |-> "file", format |-> TRUE, sound |-> TRUE,
     layers |-> [l \in {} |-> 0], skeletons |-> <<Rig(TRUE)>>,
     semantic |-> FALSE, expressions |-> << >>, lookAts |-> << >>, defaultPrim |-> "A",
     humanoid |-> [skeleton |-> "", bones |-> [b \in {} |-> ""]], meshes |-> << >>,
     materials |-> [m \in {} |-> 0], bodyKeys |-> {}, start |-> 0, animated |-> {},
     channels |-> << >>]

Bones == [hips |-> "root", head |-> "head", leftEye |-> "eyeL", jaw |-> "missing"]

BoneAvatar ==
    [defaultPrim |-> "A", humanoid |-> [skeleton |-> "/A/rig", bones |-> Bones], meshes |-> Meshes,
     materials |-> Materials, expressions |-> Face,
     lookAts |-> <<LookAtPrim("aim", None, None, None), LookAtPrim("bone", Block1, "eyeL", "eyeR"),
                   LookAtPrim("expression", Block0, "eyeL", None)>>] @@ StageFile("avatar")

FaceAvatar ==
    [BoneAvatar EXCEPT !.id = "face", !.file = "face",
                       !.lookAts = <<LookAtPrim("expression", Block0, "eyeX", None)>>]

\* A plain rig, mapped by a file: no humanoid prim, no face, no look-at.
PlainAvatar ==
    [BoneAvatar EXCEPT !.id = "plain", !.file = "plain",
                       !.humanoid = [skeleton |-> "", bones |-> [b \in {} |-> ""]],
                       !.expressions = << >>, !.lookAts = << >>,
                       !.skeletons = <<[Rig(TRUE) EXCEPT !.rests = << >>]>>]

ClipSkeleton(joints) == [Rig(TRUE) EXCEPT !.joints = joints]

\* A gaze that starts late, is blocked, and comes back; weights keyed between the body's.
Gazing ==
    [semantic |-> TRUE, bodyKeys |-> {2, 6}, start |-> 0, animated |-> {"hips", "leftEye"},
     channels |-> <<[name |-> "happy", value |-> 8], [name |-> "aa", value |-> 4]>>,
     skeletons |-> <<ClipSkeleton(<<"hips", "other", "head">>)>>,
     expressions |->
         << Driven("blink", Track(2 :> 0 @@ 4 :> 8)),
            Driven("aa", Track(0 :> 8 @@ 3 :> None @@ 6 :> 4)),
            Driven("blink", Track(5 :> 8)), Driven("ou", NoTrack),
            Driven("lookLeft", [NoTrack EXCEPT !.default = 8]),
            Driven("blinkLeft", Track(3 :> 6 @@ 6 :> 12)) >>,
     lookAts |->
         << Target(Track(3 :> L!Point(2, 1, 0) @@ 4 :> None @@ 6 :> L!Point(0, 3, 2)
                         @@ 8 :> L!Point(0, 2, 0)),
                   L!Point(0, 1, 0)),
            Target(Track(1 :> L!Point(0, 0, -2)), None) >>] @@ StageFile("gazing")

\* One pose at the start, and a face stated once; and a clip keyed by its face alone.
Still ==
    [Gazing EXCEPT !.id = "still", !.file = "still", !.bodyKeys = {}, !.lookAts = << >>,
                   !.expressions = <<Driven("blink", [NoTrack EXCEPT !.default = -2]),
                                     Driven("happy", [NoTrack EXCEPT !.default = NaN])>>]

Talking == [Gazing EXCEPT !.id = "talking", !.file = "talking", !.bodyKeys = {},
                          !.lookAts = <<Target(NoTrack, L!Point(0, 2, 0))>>]

\* The same rig in a stage that composes another's layer, which alone has the hair's colours.
Dressed ==
    [BoneAvatar EXCEPT !.id = "dressed", !.file = "dressed",
                       !.layers = "bone" :> [Materials EXCEPT !["hair"].values = [v \in {} |-> 0]]]

\* A new layer of a stage with nothing in it.
Blank ==
    [PlainAvatar EXCEPT !.defaultPrim = "", !.skeletons = << >>]

New(id, format) == [id |-> id, file |-> id, kind |-> "absent", format |-> format]

MapOf(id, parses, entries) ==
    [id |-> id, file |-> id, kind |-> "map", format |-> FALSE, parses |-> parses, entries |-> entries]

MCFiles ==
    [bone |-> BoneAvatar, bone2 |-> BoneAvatar, face |-> FaceAvatar, plain |-> PlainAvatar,
     outside |-> [BoneAvatar EXCEPT !.skeletons = <<Rig(FALSE)>>],
     unmapped |-> [PlainAvatar EXCEPT !.skeletons = <<Rig(TRUE)>>],
     rootless |-> [BoneAvatar EXCEPT !.defaultPrim = ""],
     misnamed |-> [BoneAvatar EXCEPT !.humanoid.skeleton = "/A/mesh"],
     gazing |-> Gazing, still |-> Still, talking |-> Talking, missing |-> New("missing", TRUE),
     unregistered |-> [StageFile("vrma") EXCEPT !.format = FALSE],
     prose |-> [Gazing EXCEPT !.skeletons = << >>],
     twice |-> [Gazing EXCEPT !.skeletons = <<ClipSkeleton(<<"hips", "head", "hips">>)>>],
     map |-> MapOf("map", TRUE, [hips |-> "root", head |-> "head"]),
     strayMap |-> MapOf("strayMap", TRUE, [hips |-> "tail"]),
     badMap |-> MapOf("badMap", FALSE, [b \in {} |-> ""]),
     out |-> New("out", TRUE),
     link |-> [BoneAvatar EXCEPT !.id = "link"], dressed |-> Dressed,
     broken |-> [StageFile("broken") EXCEPT !.sound = FALSE], report |-> New("report", FALSE)]

MCRewritten == {BoneAvatar, Blank, Gazing}

Bake(a, c, o, more) ==
    <<<<"--avatar", a>>, <<"--animation", c>>, <<"--output", o>>>> \o more

Baked ==
    {Bake(a, c, "out", << >>) : a \in {"bone", "face"}, c \in {"gazing", "still", "talking"}} \cup
    {Bake("plain", c, "out", <<<<"--humanoid-map", "map">>>>) : c \in {"gazing", "talking"}} \cup
    {Bake(a, "gazing", "out", more) :
        a \in {"bone", "face"},
        more \in {<<<<"--resample", 2>>>>, <<<<"--no-expressions", None>>>>,
                  <<<<"--no-look-at", None>>, <<"--animation-name", "Second">>>>}}

Refused ==
    {Bake(a, "gazing", "out", << >>) :
        a \in {"missing", "unregistered", "outside", "unmapped", "rootless", "misnamed"}} \cup
    {Bake("bone", c, "out", << >>) : c \in {"missing", "unregistered", "prose", "twice", "face"}} \cup
    {Bake("gazing", "still", "out", << >>)} \cup
    {Bake("bone2", "gazing", o, << >>) : o \in {"bone", "gazing"}} \cup
    {Bake("bone", "gazing", "out", <<more>>) :
        more \in {<<"--humanoid-map", "strayMap">>, <<"--humanoid-map", "badMap">>,
                  <<"--humanoid-map", "missing">>, <<"--skeleton", "/A/tail">>,
                  <<"--resample", 0>>, <<"--root-motion", "root">>, <<"--verbose", None>>,
                  <<"--help", None>>, <<"--output", None>>,
                  <<"--animation-name", "not an identifier">>}} \cup
    {Bake("bone", "gazing", "out", <<<<"--root-motion", "root">>, <<"--root-joint", j>>>>) :
        j \in {"tail", "root"}} \cup {<<<<"--avatar", "bone">>>>}

\* Reports beside the bake and over its output, an input and the map; refused, and unparsed.
Reporting ==
    {Bake(a, "gazing", o, <<<<"--load-report", r>>>>) :
        a \in {"bone", "missing"}, o \in {"out"}, r \in {"report", "out", "bone"}} \cup
    {Bake("bone2", "gazing", "bone", <<<<"--load-report", "bone">>>>),
     Bake("plain", "talking", "out", <<<<"--humanoid-map", "map">>, <<"--load-report", "map">>>>),
     Bake("bone", "gazing", "out", <<<<"--load-report", "report">>, <<"--verbose", None>>>>)}

\* Outputs that are no layer yet, that link to the avatar, and that the avatar composes; and
\* an earlier output read as an avatar.
Elsewhere ==
    {Bake("bone", "gazing", o, << >>) : o \in {"broken", "report", "link"}} \cup
    {Bake("dressed", "gazing", "bone", << >>), Bake("out", "gazing", "missing", << >>)}

MCCommandLines == Baked \cup Refused \cup Reporting \cup Elsewhere
=============================================================================
