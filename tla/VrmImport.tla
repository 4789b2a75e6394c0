------------------------------ MODULE VrmImport ------------------------------
(***************************************************************************)
(* UsdVrmFileFormat::Read: a .vrm file is read into a document, UsdVrm-    *)
(* Authorer writes the document as a stage, and the stage's text becomes   *)
(* the layer being loaded.                                                 *)
(***************************************************************************)
EXTENDS VrmScene

CONSTANTS Spelled,      \* an expression's name -> its raw name
          None          \* no value

VARIABLES phase,        \* how far the load is
          scene,        \* the document beside the reader's variables
          usda,         \* what the authoring thread wrote
          layer         \* the layer being loaded

\* Every expression's name has a raw name.
ASSUME SpelledAssumption ==
    \A f \in Files : \A x \in DOMAIN f.expressions : IsName(Spelled[f.expressions[x].name])

importVars == <<vars, phase, scene, usda, layer>>

HasSkel == joints # << >>

-----------------------------------------------------------------------------
(* Spaces.  A transform is the product of what it is made of, innermost first; *)
(* a point or a direction is turned or not.                                    *)

FrontTurn == [of |-> "front", value |-> 0]

\* VRM 0.x faces -Z: its data is turned about Y.
BakeFront == file.version = "Vrm0"

FrontBake == IF BakeFront THEN <<FrontTurn>> ELSE << >>

Locals(nodes) == [k \in DOMAIN nodes |-> [of |-> "local", value |-> nodes[k]]]

\* _NodeWorld: leaf to root.
WorldOf(n) == Locals(<<n>> \o file.above[n])

\* The nodes from n to below the ancestor whose frame it is given in.
UpTo(n, frame) ==
    <<n>> \o SubSeq(file.above[n], 1,
                    IF frame = 0 THEN Len(file.above[n])
                    ELSE (CHOOSE k \in DOMAIN file.above[n] : file.above[n][k] = frame) - 1)

\* Variant: every joint is taken for a root.
EveryJoint(i) == TRUE

IsRootJoint(i) == joints[i].parent = 0

RestTransform(i) == Locals(UpTo(joints[i].node, joints[i].frame))

BindTransform(i) ==
    IF joints[i].bind.of = "node" THEN WorldOf(joints[i].bind.value) ELSE <<joints[i].bind>>

-----------------------------------------------------------------------------
(* Names *)

\* Prims defined in turn: a name defined again is the prim that is there, written over.
Define(prims) ==
    [n \in {prims[i].name : i \in DOMAIN prims} |->
        prims[Max({i \in DOMAIN prims : prims[i].name = n})]]

RawMeshName(p) ==
    IF p.parts > 1 THEN Raw(Append(p.named.name, Numeral(p.part)), p.named.foreign) ELSE p.named

MeshNames ==
    VrmMakeUniqueNames([k \in DOMAIN file.prims |-> RawMeshName(file.prims[k])], "Mesh")

MeshName(k) == MeshNames[meshes[k].source]

JointNames ==
    VrmMakeUniqueNames([k \in DOMAIN jointNodes |-> file.names[jointNodes[k]]], "Joint")

\* The segment of joint i, named before the joints were sorted.
JointName(i) ==
    JointNames[CHOOSE k \in DOMAIN jointNodes : jointNodes[k] = joints[i].node]

\* _BuildJointPaths
JointPaths ==
    LET path[i \in DOMAIN joints] ==
            IF joints[i].parent = 0 THEN <<JointName(i)>>
            ELSE Append(path[joints[i].parent], JointName(i))
    IN  path

\* jointTok: the joint of the node, or else the node's own name.
JointTok(n) ==
    IF NodeJoint(n) # 0 THEN JointPaths[NodeJoint(n)]
    ELSE IF n \in Nodes /\ file.names[n] # NoName THEN <<Spelling(file.names[n])>>
    ELSE <<<<Word("node"), Numeral(n)>>>>

RawMorphName(k, t) ==
    LET named == file.prims[meshes[k].source].targetNames
    IN  IF t \in DOMAIN named /\ named[t] # NoName
        THEN Raw(MeshName(k) \o named[t].name, named[t].foreign)
        ELSE Raw(Append(MeshName(k), Numbered("morph", t - 1)), FALSE)

Morphs == FlattenSeq([k \in DOMAIN meshes |-> [t \in DOMAIN meshes[k].morphs |-> <<k, t>>]])

MorphNames ==
    VrmMakeUniqueNames([c \in DOMAIN Morphs |-> RawMorphName(Morphs[c][1], Morphs[c][2])], "Morph")

\* blendPath, which is empty without a skeleton: the name under the cursor.
MorphName(k, t) == MorphNames[CHOOSE c \in DOMAIN Morphs : Morphs[c] = <<k, t>>]

-----------------------------------------------------------------------------
(* The stage *)

IsSkinned(k) == Skinned(file.prims[meshes[k].source])

Turned(k) == BakeFront /\ IsSkinned(k)

\* Skinned points are turned, other meshes by the place of their node.
GeoPrim(k) ==
    LET material == file.prims[meshes[k].source].material
    IN  [name |-> MeshName(k), source |-> meshes[k].source,
         points |-> meshes[k].points, turned |-> Turned(k),
         place |-> IF IsSkinned(k) THEN << >> ELSE WorldOf(meshes[k].node) \o FrontBake,
         skeleton |-> HasSkel /\ (IsSkinned(k) \/ meshes[k].morphs # << >>),
         material |-> IF material \in DOMAIN scene.materials
                      THEN scene.materials[material].name ELSE None,
         blendShapes |-> IF HasSkel THEN [t \in DOMAIN meshes[k].morphs |-> MorphName(k, t)]
                         ELSE << >>]

GeoPrims == Define([k \in DOMAIN meshes |-> GeoPrim(k)])

MaterialPrims == Define(scene.materials)

BlendShapePrim(c) ==
    LET k == Morphs[c][1]
        t == Morphs[c][2]
    IN  [name |-> MorphNames[c], mesh |-> k, morph |-> t, offsets |-> meshes[k].morphs[t],
         turned |-> Turned(k)]

BlendShapePrims ==
    IF HasSkel THEN Define([c \in DOMAIN Morphs |-> BlendShapePrim(c)]) ELSE << >>

Skeleton ==
    [paths |-> JointPaths,
     bind |-> [i \in DOMAIN joints |-> BindTransform(i) \o FrontBake],
     rest |-> [i \in DOMAIN joints |->
                 IF IsRootJoint(i) THEN RestTransform(i) \o FrontBake ELSE RestTransform(i)]]

HumanoidPrim ==
    IF bones = << >> \/ ~HasSkel THEN << >>
    ELSE Define([b \in DOMAIN bones |-> [name |-> bones[b].bone,
                                         joint |-> JointPaths[bones[b].joint]]])

\* SetTargets: a relationship holds each target once, at its first place.
Targets(paths) ==
    Entries(paths, {i \in DOMAIN paths : \A k \in 1 .. i - 1 : paths[k] # paths[i]})

IndexOf(x, s) == CHOOSE i \in DOMAIN s : s[i] = x

ExpressionPrim(name, e) ==
    LET binds == IF HasSkel THEN MorphBinds(e) ELSE << >>
        colours == ColourBinds(e)
        painted == [i \in DOMAIN colours |-> scene.materials[colours[i].material].name]
    IN  [name |-> name, expressionName |-> e.name,
         morphTargets |-> Targets([i \in DOMAIN binds |-> MorphName(binds[i].mesh, binds[i].morph)]),
         weights |-> [i \in DOMAIN binds |-> binds[i].weight],
         colourTargets |-> Targets(painted),
         colourIndices |-> [i \in DOMAIN painted |-> IndexOf(painted[i], Targets(painted))],
         slots |-> [i \in DOMAIN colours |-> colours[i].slot]]

ExpressionPrims ==
    LET names == VrmMakeUniqueNames(
                     [i \in DOMAIN expressions |-> Spelled[expressions[i].name]], "Expression")
    IN  Define([i \in DOMAIN expressions |-> ExpressionPrim(names[i], expressions[i])])

LookAtPrim ==
    IF ~scene.lookAt.present THEN None
    ELSE LET eye(joint) == IF joint = 0 THEN << >> ELSE JointPaths[joint]
         IN  [type |-> scene.lookAt.type, leftEye |-> eye(scene.lookAt.leftEye),
              rightEye |-> eye(scene.lookAt.rightEye)]

\* A clip moves a root joint from the skeleton's space, which is turned.
ClipPrim(a) ==
    LET clip == scene.animations[a]
    IN  [name |-> clip.name, order |-> a,
         joints |-> [k \in DOMAIN clip.joints |-> JointPaths[clip.joints[k]]],
         turned |-> [k \in DOMAIN clip.joints |-> BakeFront /\ IsRootJoint(clip.joints[k])],
         pose |-> clip.pose]

ClipPrims == Define([a \in DOMAIN scene.animations |-> ClipPrim(a)])

AnimationSource ==
    IF HasSkel /\ scene.animations # << >> THEN scene.animations[1].name ELSE None

NamesOf(entries, prefix) ==
    VrmMakeUniqueNames([i \in DOMAIN entries |-> entries[i].name], prefix)

\* An index past the colliders is dropped.
GroupPrims ==
    Define([g \in DOMAIN scene.groups |->
        LET colliders == scene.groups[g].colliders
            held == Entries(colliders,
                            {i \in DOMAIN colliders : colliders[i] \in DOMAIN scene.colliders})
        IN  [name |-> NamesOf(scene.groups, "ColliderGroup")[g],
             colliders |-> [i \in DOMAIN held |->
                              [node |-> JointTok(scene.colliders[held[i]].node),
                               shape |-> scene.colliders[held[i]].shape]]]])

SpringPrim(s) ==
    LET spring == scene.springs[s]
        groupNames == NamesOf(scene.groups, "ColliderGroup")
    IN  [name |-> NamesOf(scene.springs, "Spring")[s],
         roots |-> file.version = "Vrm0",
         joints |-> [i \in DOMAIN spring.nodes |-> JointTok(spring.nodes[i])],
         gravityTurned |-> BakeFront,
         center |-> IF spring.center = 0 THEN None ELSE JointTok(spring.center),
         groups |-> Targets([i \in DOMAIN spring.groups |-> groupNames[spring.groups[i]]])]

SpringPrims == Define([s \in DOMAIN scene.springs |-> SpringPrim(s)])

RawConstraintName(c) ==
    LET raw == file.names[c.node] IN Raw(Append(raw.name, Word(c.type)), raw.foreign)

ConstraintPrims ==
    LET names == VrmMakeUniqueNames(
                     [i \in DOMAIN scene.constraints |-> RawConstraintName(scene.constraints[i])],
                     "Constraint")
    IN  Define([i \in DOMAIN scene.constraints |->
            [name |-> names[i], type |-> scene.constraints[i].type,
             constrained |-> JointTok(scene.constraints[i].node),
             source |-> JointTok(scene.constraints[i].source)]])

AuthoringWarnings ==
    {Warning(w, 0) : w \in (IF Morphs # << >> /\ ~HasSkel THEN {"MorphNoSkeleton"} ELSE {})
                           \cup (IF bones # << >> /\ ~HasSkel THEN {"HumanoidNoSkeleton"} ELSE {})}

Stage ==
    [version |-> file.version, frontAxisNormalized |-> BakeFront,
     mtl |-> MaterialPrims, geo |-> GeoPrims,
     skeleton |-> IF HasSkel THEN Skeleton ELSE None,
     blendShapes |-> BlendShapePrims, humanoid |-> HumanoidPrim,
     expressions |-> ExpressionPrims, lookAt |-> LookAtPrim,
     animations |-> ClipPrims, animationSource |-> AnimationSource,
     colliderGroups |-> IF scene.springs = << >> /\ scene.colliders = << >> THEN << >>
                        ELSE GroupPrims,
     springs |-> SpringPrims, constraints |-> ConstraintPrims,
     warnings |-> warnings \cup scene.warnings \cup AuthoringWarnings]

-----------------------------------------------------------------------------
(* The load *)

ImportInit ==
    /\ Init
    /\ phase = "idle"
    /\ scene = None /\ usda = None /\ layer = None

\* The file is opened and read whole, and it is a GLB that cgltf takes.
Sound == file.opens /\ file.whole /\ file.gltf

OpenFile ==
    /\ phase = "idle"
    /\ phase' = IF Sound THEN "reading" ELSE "failed"
    /\ UNCHANGED <<vars, scene, usda, layer>>

ReadPass ==
    /\ phase = "reading"
    /\ Next
    /\ UNCHANGED <<phase, scene, usda, layer>>

ReadScene ==
    /\ phase = "reading"
    /\ step = "done"
    /\ scene' = Scene
    /\ phase' = "authoring"
    /\ UNCHANGED <<vars, usda, layer>>

\* WriteToString, on another thread while the caller waits.
Author ==
    /\ phase = "authoring"
    /\ \/ usda' = Stage /\ phase' = "importing"
       \/ usda' = usda /\ phase' = "failed"
    /\ UNCHANGED <<vars, scene, layer>>

\* ImportFromString into a layer of its own, and TransferContent only if it parses.
Transfer ==
    /\ phase = "importing"
    /\ \/ layer' = usda /\ phase' = "loaded"
       \/ layer' = layer /\ phase' = "failed"
    /\ UNCHANGED <<vars, scene, usda>>

ImportNext == OpenFile \/ ReadPass \/ ReadScene \/ Author \/ Transfer

ImportSpec == ImportInit /\ [][ImportNext]_importVars
-----------------------------------------------------------------------------
(* Properties *)

Authored == phase \in {"importing", "loaded", "failed"} /\ usda # None

\* Every entry has a prim of its own.
Whole(scope, entries) == Cardinality(DOMAIN scope) = Len(entries)

\* The file's primitive and morph target behind a blend shape prim, and those the binds name.
ShapeOf(name) ==
    LET shape == usda.blendShapes[name] IN <<meshes[shape.mesh].source, shape.morph>>

ShapesNamed(x) ==
    UNION {{<<q, b.morph>> : q \in {q \in {m.source : m \in Range(meshes)} :
                /\ b.target = IF file.version = "Vrm1" THEN file.prims[q].node
                              ELSE file.prims[q].mesh
                /\ b.morph \in DOMAIN file.prims[q].morphs}} :
            b \in Range(file.expressions[x].binds)}

\* The materials and slots the file's colour binds name.
IsNamed(m, c) ==
    IF file.version = "Vrm1" THEN m = c.material
    ELSE /\ c.slot \in Slots /\ c.sound
         /\ file.materials[m].name = c.named
         /\ \A i \in 1 .. m - 1 : file.materials[i].name # c.named

ColoursNamed(x) ==
    UNION {{<<m, c.slot>> : m \in {m \in DOMAIN file.materials : IsNamed(m, c)}} :
            c \in Range(file.colours[x])}

FacesAreTheFiles ==
    \A e \in Range(expressions) : \E p \in Range(usda.expressions) :
        /\ p.expressionName = e.name
        /\ HasSkel => {ShapeOf(n) : n \in Range(p.morphTargets)} = ShapesNamed(e.source)
        /\ {<<usda.mtl[p.colourTargets[p.colourIndices[i]]].source, p.slots[i]>> :
                i \in DOMAIN p.slots} = ColoursNamed(e.source)

\* Whether a token of the stage reads as the node the file gives.
Names(token, n) ==
    NodeJoint(n) # 0 =>
        {usda.skeleton.paths[i] : i \in {k \in DOMAIN joints : joints[k].node = n}} = {token}

TokensAreTheFiles ==
    /\ HasSkel => IsInjective(usda.skeleton.paths)
    /\ HasSecondary => \A s \in DOMAIN file.secondary.springs :
          LET declared == file.secondary.springs[s]
              p == usda.springs[NamesOf(scene.springs, "Spring")[s]]
          IN  /\ Len(p.joints) = Len(declared.nodes)
              /\ \A i \in DOMAIN declared.nodes : Names(p.joints[i], declared.nodes[i])
              /\ declared.center # 0 => Names(p.center, declared.center)
    /\ \A c \in Range(scene.constraints) : \E p \in Range(usda.constraints) :
          Names(p.constrained, c.node) /\ Names(p.source, c.source) /\ p.type = c.type
    /\ \A p \in Range(usda.humanoid) : \E b \in Range(file.bones) :
          b.bone = p.name /\ Names(p.joint, b.node)

(***************************************************************************)
(* The stage says what the file says, whatever names it gives its prims:   *)
(* none is defined over another, an expression reaches the morph targets   *)
(* and the material slots its binds name and no others, and a joint token  *)
(* is the path of the joint of the node the file names -- although names   *)
(* repeat, collide with numbered ones, primitives were skipped and the     *)
(* joints were sorted (VrmMakeUniqueNames, blendPath, jointTok).           *)
(***************************************************************************)
StageNamesWhatTheFileNames ==
    Authored =>
        /\ Whole(usda.geo, meshes) /\ Whole(usda.mtl, file.materials)
        /\ Whole(usda.expressions, expressions) /\ Whole(usda.animations, scene.animations)
        /\ Whole(usda.springs, scene.springs) /\ Whole(usda.constraints, scene.constraints)
        /\ HasSkel => Whole(usda.blendShapes, Morphs)
        /\ \A k \in DOMAIN meshes :
              LET m == usda.geo[MeshName(k)]
              IN  /\ m.source = meshes[k].source
                  /\ HasSkel => \A t \in DOMAIN meshes[k].morphs :
                        ShapeOf(m.blendShapes[t]) = <<m.source, t>>
        /\ FacesAreTheFiles
        /\ TokensAreTheFiles

Fronts(product) == Cardinality({k \in DOMAIN product : product[k] = FrontTurn})

\* Where the stage's skeleton puts joint i at rest.
AtRest ==
    LET world[i \in DOMAIN joints] ==
            IF joints[i].parent = 0 THEN usda.skeleton.rest[i]
            ELSE usda.skeleton.rest[i] \o world[joints[i].parent]
    IN  world

\* The turns joint i is given when the clip plays: the joints it does not move are at rest.
TurnsInClip(clip) ==
    LET own(i) == IF JointPaths[i] \in Range(clip.joints)
                  THEN IF clip.turned[IndexOf(JointPaths[i], clip.joints)] THEN 1 ELSE 0
                  ELSE Fronts(usda.skeleton.rest[i])
        turns[i \in DOMAIN joints] ==
            IF joints[i].parent = 0 THEN own(i) ELSE own(i) + turns[joints[i].parent]
    IN  turns

(***************************************************************************)
(* A VRM 0.x avatar faces the other way as a whole: skinned points and     *)
(* their offsets, every joint's bind, every joint at rest and in every     *)
(* clip, and what hangs from a node are each turned once and in no other   *)
(* version at all, and each joint rests where its node stands in the file  *)
(* (the front bake of UsdVrmAuthorer over the joints' parents).            *)
(***************************************************************************)
FrontIsTurnedOnce ==
    Authored =>
        LET turns == IF file.version = "Vrm0" THEN 1 ELSE 0
            turn == IF file.version = "Vrm0" THEN <<FrontTurn>> ELSE << >>
        IN  /\ \A i \in DOMAIN joints :
                  /\ AtRest[i] = WorldOf(joints[i].node) \o turn
                  /\ usda.skeleton.bind[i] =
                        (IF BindOf(joints[i].node).of = "ibm" THEN <<BindOf(joints[i].node)>>
                         ELSE WorldOf(joints[i].node)) \o turn
            /\ \A m \in Range(usda.geo) :
                  (IF m.turned THEN 1 ELSE 0) + Fronts(m.place) = turns
            /\ \A b \in Range(usda.blendShapes) :
                  b.turned <=> \E m \in Range(usda.geo) : m.turned /\ b.name \in Range(m.blendShapes)
            /\ \A clip \in Range(usda.animations), i \in DOMAIN joints :
                  TurnsInClip(clip)[i] = turns
            /\ \A s \in Range(usda.springs) : s.gravityTurned <=> turns = 1

(***************************************************************************)
(* SCHEMA_CONTRACT: vrm:morphTargets "plus parallel vrm:morphTarget-       *)
(* Weights": each weight is that of a bind of the target in its place.  It *)
(* does not hold: a relationship holds a target two binds name once.       *)
(***************************************************************************)
MorphWeightsAreParallel ==
    Authored /\ HasSkel =>
        \A e \in Range(expressions) : \A p \in Range(usda.expressions) :
            p.expressionName = e.name =>
                /\ Len(p.morphTargets) = Len(p.weights)
                /\ \A i \in DOMAIN p.weights :
                      [mesh |-> usda.blendShapes[p.morphTargets[i]].mesh,
                       morph |-> usda.blendShapes[p.morphTargets[i]].morph]
                          \in Fan(file.expressions[e.source].binds[p.weights[i]])
=============================================================================
