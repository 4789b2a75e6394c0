------------------------------ MODULE VrmScene ------------------------------
(***************************************************************************)
(* CgltfVrmDocumentReader, what is read on top of the skeleton, the meshes *)
(* and the expressions: materials, colour binds, look-at, animations,      *)
(* springs and constraints, each a function of the file and of the joints. *)
(* A number the file gives is told by where it stands in the file.         *)
(***************************************************************************)
EXTENDS VrmDocumentReader, Places, PathNames, KeyTracks

\* file.names[n] and file.materials[m].name are raw names, file.clips, file.secondary and
\* file.constraints the blocks of their extensions, file.colours[x] the colour binds of
\* expression entry x, file.properties the 0.x materialProperties.  0 is no node or index.

IsArray(s) == s \in Seq(Range(s))

\* A raw name is a list of parts.
IsName(raw) == IsArray(raw.name)

ASSUME SceneAssumption ==
    \A f \in Files :
        /\ \A n \in Nodes : IsName(f.names[n])
        /\ \A q \in DOMAIN f.prims :
              /\ IsName(f.prims[q].named)
              /\ \A t \in DOMAIN f.prims[q].targetNames : IsName(f.prims[q].targetNames[t])
        /\ IsArray(f.materials)
        /\ \A m \in DOMAIN f.materials : IsName(f.materials[m].name)
        /\ \A x \in DOMAIN f.expressions : IsArray(f.colours[x])
        /\ IsArray(f.clips)
        /\ \A a \in DOMAIN f.clips : IsName(f.clips[a].name)
        /\ IsArray(f.secondary.springs)
        /\ \A spring \in Range(f.secondary.springs) : IsName(spring.name) /\ IsArray(spring.nodes)
        /\ IsArray(f.constraints)
        /\ \A c \in Range(f.constraints) : c.node \in Nodes

SceneWarning(code, at, why) == Warning(code, <<at, why>>)

-----------------------------------------------------------------------------
(* Materials *)

IsMToon0(i) ==
    Parsed /\ file.version = "Vrm0" /\ i \in DOMAIN file.properties /\ file.properties[i].mtoon

QueuesOf(mode) ==
    {file.properties[i].queue :
        i \in {k \in DOMAIN file.materials : IsMToon0(k) /\ file.properties[k].mode = mode}}

Clamped(rank) == Min({rank, 9})

\* The queues of a mode are ranked: 0 and down for transparent, 0 and up with z-write.
QueueOffset(i) ==
    LET p == file.properties[i]
        rank(Passes(_, _)) == Clamped(Cardinality({q \in QueuesOf(p.mode) : Passes(q, p.queue)}))
    IN  CASE p.mode = "transparent" -> -rank(LAMBDA q, own : q > own)
          [] p.mode = "zWrite"      -> rank(LAMBDA q, own : q < own)
          [] OTHER                  -> 0

RawMaterialNames == [i \in DOMAIN file.materials |-> file.materials[i].name]

Materials ==
    LET names == VrmMakeUniqueNames(RawMaterialNames, "Material")
    IN  [i \in DOMAIN file.materials |->
            [name |-> names[i], source |-> i,
             isMToon |-> file.materials[i].mtoon \/ IsMToon0(i),
             queue |-> IF IsMToon0(i) THEN QueueOffset(i) ELSE 0]]

Slots == {"color", "emissionColor", "shadeColor", "rimColor", "outlineColor"}

\* _Vrm0MaterialColorBind: why an entry is no colour bind.
Vrm0Refusal(c) ==
    IF c.slot \notin Slots THEN "slot"
    ELSE IF c.named \notin ToSet(RawMaterialNames) THEN "name"
    ELSE IF ~c.sound THEN "target" ELSE ""

\* The first material of that name.
MaterialNamed(raw) ==
    Min({i \in DOMAIN file.materials : file.materials[i].name = raw})

BoundMaterial(c) ==
    IF file.version = "Vrm0" THEN IF Vrm0Refusal(c) = "" THEN MaterialNamed(c.named) ELSE 0
    ELSE IF c.material \in DOMAIN file.materials THEN c.material ELSE 0

ColourBinds(e) ==
    LET colours == file.colours[e.source]
        kept == Entries(colours, {i \in DOMAIN colours : BoundMaterial(colours[i]) # 0})
    IN  [i \in DOMAIN kept |-> [material |-> BoundMaterial(kept[i]), slot |-> kept[i].slot]]

ColourWarnings ==
    {SceneWarning("ExpressionVrm0MaterialValues", p[1].source, Vrm0Refusal(p[2])) :
        p \in {p \in Range(expressions) \X UNION {Range(c) : c \in Range(file.colours)} :
                /\ file.version = "Vrm0" /\ Vrm0Refusal(p[2]) # ""
                /\ p[2] \in Range(file.colours[p[1].source])}}

\* The binds in their order, each the file's bind's weight on a mesh of its target.
MorphBinds(e) ==
    LET entries == file.expressions[e.source].binds
        driven(b) == InOrder({bind.mesh : bind \in Fan(entries[b])})
    IN  FlattenSeq([b \in DOMAIN entries |->
            [i \in DOMAIN driven(b) |->
                [mesh |-> driven(b)[i], morph |-> entries[b].morph, weight |-> b]]])

-----------------------------------------------------------------------------
(* Look-at *)

\* The joint of the bone of that name, 0 when it has none.
JointOfBone(name) ==
    LET named == {b \in DOMAIN bones : bones[b].bone = name}
    IN  IF named = {} THEN 0 ELSE bones[Max(named)].joint

ReadLookAt ==
    [present |-> Parsed /\ file.lookAt # "none", type |-> file.lookAt,
     leftEye |-> JointOfBone("leftEye"), rightEye |-> JointOfBone("rightEye")]

-----------------------------------------------------------------------------
(* Animations *)

Paths == {"translation", "rotation", "scale"}

\* The places of the channels that move a joint.
JointChannels(clip) ==
    {i \in DOMAIN clip.channels :
        NodeJoint(clip.channels[i].node) # 0 /\ clip.channels[i].path \in Paths}

\* chT, chR, chS: of the channels of one joint and path the last.
ClipTracks(clip) ==
    LET track(i) == <<NodeJoint(clip.channels[i].node), clip.channels[i].path>>
        last(k) == Max({i \in JointChannels(clip) : track(i) = k})
    IN  [k \in {track(i) : i \in JointChannels(clip)} |-> clip.channels[last(k)].sampler]

\* The keys of every track.
ClipTimes(clip) == UNION {Range(clip.channels[i].sampler.input) : i \in JointChannels(clip)}

\* A component of a joint's local transform: its track, or else what it is at rest.
Component(tracks, joint, path, t) ==
    IF <<joint, path>> \in DOMAIN tracks
    THEN [from |-> "track", value |-> Sample(tracks[<<joint, path>>], t)]
    ELSE [from |-> "rest", value |-> joint]

ReadClip(name, clip) ==
    LET tracks == ClipTracks(clip)
        animated == InOrder({k[1] : k \in DOMAIN tracks})
    IN  [name |-> name, joints |-> animated,
         pose |-> [t \in ClipTimes(clip) |->
                     [k \in DOMAIN animated |->
                        [p \in Paths |-> Component(tracks, animated[k], p, t)]]]]

ReadAnimations ==
    LET names == VrmMakeUniqueNames([a \in DOMAIN file.clips |-> file.clips[a].name], "Clip")
        clips == [a \in DOMAIN file.clips |-> ReadClip(names[a], file.clips[a])]
    IN  IF joints = << >> THEN << >>
        ELSE Entries(clips, {a \in DOMAIN clips : DOMAIN clips[a].pose # {}})

AnimationWarnings ==
    {SceneWarning("AnimationCubicSpline", a, "") :
        a \in {a \in DOMAIN file.clips : joints # << >> /\
                 \E i \in JointChannels(file.clips[a]) :
                     file.clips[a].channels[i].sampler.interpolation = "cubic"}}

-----------------------------------------------------------------------------
(* Secondary motion *)

\* A name the block lacks is numbered by its place.
Or(raw, kind, i) == IF raw = NoName THEN Raw(<<Word(kind), Numeral(i - 1)>>, FALSE) ELSE raw

\* 0.x groups own their colliders, 1.0 groups name them by index.
OwnedBefore(g) ==
    Cardinality(UNION {{k} \X (1 .. file.secondary.groups[k].own) : k \in 1 .. g - 1})

ReadColliders ==
    IF file.version = "Vrm1" THEN file.secondary.colliders
    ELSE FlattenSeq([g \in DOMAIN file.secondary.groups |->
            [i \in 1 .. file.secondary.groups[g].own |->
                [node |-> file.secondary.groups[g].node, shape |-> "sphere"]]])

ReadGroups ==
    [g \in DOMAIN file.secondary.groups |->
        LET group == file.secondary.groups[g]
        IN  IF file.version = "Vrm1"
            THEN [name |-> Or(group.name, "ColliderGroup", g), colliders |-> group.colliders]
            ELSE [name |-> Or(NoName, "ColliderGroup", g),
                  colliders |-> [i \in 1 .. group.own |-> OwnedBefore(g) + i]]]

ReadSprings ==
    [s \in DOMAIN file.secondary.springs |->
        LET spring == file.secondary.springs[s]
        IN  [name |-> Or(spring.name, "Spring", s), center |-> spring.center,
             nodes |-> spring.nodes,
             groups |-> Entries(spring.groups,
                                {i \in DOMAIN spring.groups :
                                    spring.groups[i] \in DOMAIN file.secondary.groups})]]

SpringWarnings ==
    {SceneWarning("SpringColliderGroupOutOfRange", s, "") :
        s \in {s \in DOMAIN file.secondary.springs :
                 ~(Range(file.secondary.springs[s].groups) \subseteq DOMAIN file.secondary.groups)}}

\* The springs of 1.0 are an extension of their own; those of 0.x need the VRM block.
HasSecondary ==
    file.secondary.present /\ (file.version = "Vrm1" \/ (Parsed /\ file.version = "Vrm0"))

-----------------------------------------------------------------------------
(* Constraints *)

\* An entry names the node it stands at, its type, "none" if it states none, and its source.
Stated(c) == file.version = "Vrm1" /\ c.type # "none"

ReadConstraints ==
    LET all == file.constraints
    IN  Entries(all, {i \in DOMAIN all : Stated(all[i]) /\ all[i].source \in Nodes})

ConstraintWarnings ==
    {SceneWarning("ConstraintNoSource", c.node, "") :
        c \in {c \in Range(file.constraints) : Stated(c) /\ c.source \notin Nodes}}

-----------------------------------------------------------------------------

\* The rest of the document.
Scene ==
    [materials |-> Materials,
     lookAt |-> ReadLookAt,
     animations |-> ReadAnimations,
     colliders |-> IF HasSecondary THEN ReadColliders ELSE << >>,
     groups |-> IF HasSecondary THEN ReadGroups ELSE << >>,
     springs |-> IF HasSecondary THEN ReadSprings ELSE << >>,
     constraints |-> ReadConstraints,
     warnings |-> ColourWarnings \cup AnimationWarnings \cup ConstraintWarnings
                     \cup IF HasSecondary THEN SpringWarnings ELSE {}]
=============================================================================
