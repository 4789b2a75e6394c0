------------------------------ MODULE VrmaClip ------------------------------
(***************************************************************************)
(* The .vrma importer: CgltfVrmaDocumentReader reads a clip file into a    *)
(* document, UsdVrmaAuthorer writes the document as a layer on another     *)
(* thread, and UsdVrmaFileFormat::Read gives it to the layer being loaded, *)
(* while the file on disk is replaced.  A place is a coordinate on a line, *)
(* which is also the X a weight is read from; a rotation is a number.      *)
(***************************************************************************)
EXTENDS KeyTracks, Places, PathNames

CONSTANTS
    Files,          \* the contents the file on disk takes
    Bones,          \* the humanoid's joints, in HumanJoint order
    Identifier,     \* an expression's name -> the USD identifier it makes
    None            \* no value

ASSUME NoneAssumption == None \notin Int

ASSUME BonesAssumption == Bones \in Seq(Range(Bones))

\* Keys ascend, with a value to each, or three: what glTF asks of a sampler.
Keyed(s) ==
    /\ s.input \in Seq(Int) /\ s.output \in Seq(Int)
    /\ Len(s.output) = IF s.interpolation = "cubic" THEN 3 * Len(s.input) ELSE Len(s.input)
    /\ \A i, k \in DOMAIN s.input : i < k => s.input[i] < s.input[k]

\* Nodes have numbers, what is declared is listed, and its names make identifiers.
ASSUME FilesAssumption ==
    \A f \in Files :
        /\ DOMAIN f.nodes \subseteq Nat
        /\ \A n \in DOMAIN f.nodes :
              /\ f.nodes[n].translation = None \/ f.nodes[n].translation \in Int
              /\ f.nodes[n].matrix = None \/ f.nodes[n].matrix.move \in Int
        /\ \A declared \in {f.preset, f.custom} :
              /\ declared \in Seq(Range(declared))
              /\ \A e \in Range(declared) : Identifier[e.name] \in Seq(Range(Identifier[e.name]))
        /\ f.channels # None =>
              /\ f.channels \in Seq(Range(f.channels))
              /\ \A c \in Range(f.channels) : c.whole => Keyed(c.sampler)

VARIABLES pc, disk, bytes, document, usda, layer, loaded

vars == <<pc, disk, bytes, document, usda, layer, loaded>>

NoMap == [x \in {} |-> 0]

Usable(file, n) == n \in DOMAIN file.nodes

Identity == [scale |-> 1, move |-> 0]

Or(value, fallback) == IF value = None THEN fallback ELSE value

\* A matrix stated, or the stated parts of translation, rotation and scale.
NodeLocal(node) ==
    Or(node.matrix, [scale |-> Or(node.scale, 1), move |-> Or(node.translation, 0)])

Ancestors(nodes, n) ==
    LET up[k \in DOMAIN nodes] ==
            LET parent == nodes[k].parent
            IN  IF parent = None THEN << >> ELSE <<parent>> \o up[parent]
    IN  up[n]

States(node) == node.translation # None \/ node.matrix # None

\* The file placed a node if it placed it or anything above it, wherever that is.
StatesPlacement(nodes, n) ==
    \E k \in {n} \cup ToSet(Ancestors(nodes, n)) : States(nodes[k])

At(transform, place) == place * transform.scale + transform.move

AncestorTransform(nodes, n) ==
    FoldLeft(LAMBDA all, k :
                 LET up == NodeLocal(nodes[k])
                 IN  [scale |-> all.scale * up.scale, move |-> At(up, all.move)],
             Identity, Ancestors(nodes, n))

-----------------------------------------------------------------------------

IsMapping(file, e) == e.name \in ToSet(Bones) /\ Usable(file, e.node)

\* The bones the file maps to a node it has; nothing keeps two of them off one node.
BoneNodes(file) ==
    LET sound == {e \in ToSet(file.humanBones) : IsMapping(file, e)}
    IN  [b \in {e.name : e \in sound} |-> (CHOOSE e \in sound : e.name = b).node]

IsBone(file, n) == \E b \in DOMAIN BoneNodes(file) : BoneNodes(file)[b] = n

NodesOf(expressions) == {e.node : e \in ToSet(expressions)}

NamesOf(expressions) == {e.name : e \in ToSet(expressions)}

\* Why an expression is not taken, after those taken before it.
WarningFor(file, sofar, e) ==
    CASE ~Usable(file, e.node) -> "VRMA105"
      [] Usable(file, e.node) /\ (IsBone(file, e.node) \/ e.node \in NodesOf(sofar)) -> "VRMA106"
      [] OTHER -> IF e.name \in NamesOf(sofar) THEN "VRMA107" ELSE ""

\* The presets, then the customs.
Declarations(file) ==
    LET typed(entries, type) ==
            [i \in DOMAIN entries |->
                [name |-> entries[i].name, node |-> entries[i].node, type |-> type]]
    IN  typed(file.preset, "preset") \o typed(file.custom, "custom")

\* The node taken first and the name used first keep it.
Expressions(file) ==
    LET all == Declarations(file)
        taken[n \in 0 .. Len(all)] ==
            IF n = 0 THEN << >>
            ELSE LET sofar == taken[n - 1]
                 IN  IF WarningFor(file, sofar, all[n]) = "" THEN Append(sofar, all[n]) ELSE sofar
    IN  taken[Len(all)]

IsDriven(file, n) == IsBone(file, n) \/ n \in NodesOf(Expressions(file))

\* The node watched, when the block names one that nothing else drives.
LookAtNode(file) ==
    IF file.lookAt = None THEN None
    ELSE IF Usable(file, file.lookAt.node) /\ ~IsDriven(file, file.lookAt.node)
    THEN file.lookAt.node ELSE None

JointNames(file) ==
    Entries(Bones, {i \in DOMAIN Bones : Bones[i] \in DOMAIN BoneNodes(file)})

\* The file with what its declarations come to.
Scanned(file) ==
    [nodes |-> file.nodes, boneNodes |-> BoneNodes(file), expressions |-> Expressions(file),
     lookAtNode |-> LookAtNode(file), jointNames |-> JointNames(file)]

Joints(scan) ==
    [i \in DOMAIN scan.jointNames |->
        [bone |-> scan.jointNames[i],
         rest |-> NodeLocal(scan.nodes[scan.boneNodes[scan.jointNames[i]]])]]

\* jointByNode: of the bones on one node, the last has its channels.
JointOf(scan, n) ==
    LET on == {i \in DOMAIN scan.jointNames : scan.boneNodes[scan.jointNames[i]] = n}
    IN  scan.jointNames[Max(on)]

Nothing == << >>

\* What a channel drives of the clip.
Drives(scan, c) ==
    IF c.node = None \/ ~c.whole THEN Nothing
    ELSE IF c.node = scan.lookAtNode
    THEN IF c.path = "translation" THEN <<"lookAt">> ELSE Nothing
    ELSE IF c.node \in NodesOf(scan.expressions)
    THEN IF c.path = "translation" THEN <<"weight", c.node>> ELSE Nothing
    ELSE IF \A b \in DOMAIN scan.boneNodes : scan.boneNodes[b] # c.node THEN Nothing
    ELSE IF c.path = "rotation" THEN <<"rotation", JointOf(scan, c.node)>>
    ELSE IF c.path = "translation" /\ JointOf(scan, c.node) = "hips" THEN <<"root">> ELSE Nothing

\* The places of the channels that drive that.
Driving(file, scan, thing) ==
    {i \in DOMAIN file.channels : Drives(scan, file.channels[i]) = thing}

Accepted(file, scan) == DOMAIN file.channels \ Driving(file, scan, Nothing)

\* The track of each thing driven: of its channels the last.
Tracks(file, scan) ==
    [thing \in {Drives(scan, file.channels[i]) : i \in Accepted(file, scan)} |->
        file.channels[Max(Driving(file, scan, thing))].sampler]

\* keepKeys: the keys of every channel accepted, one set for all.
TimeSet(file) ==
    UNION {ToSet(file.channels[i].sampler.input) : i \in Accepted(file, Scanned(file))}

\* The weight an un-animated node states: absent is not zero.
ConstantWeight(scan, tracks, e) ==
    IF <<"weight", e.node>> \in DOMAIN tracks \/ ~States(scan.nodes[e.node]) THEN None
    ELSE NodeLocal(scan.nodes[e.node]).move

\* Likewise of the node watched, which its ancestors may have placed.
ConstantTarget(scan, tracks) ==
    LET n == scan.lookAtNode
    IN  IF n = None \/ <<"lookAt">> \in DOMAIN tracks THEN None
        ELSE IF StatesPlacement(scan.nodes, n)
        THEN At(AncestorTransform(scan.nodes, n), NodeLocal(scan.nodes[n]).move) ELSE None

\* One instant of all the tracks: a joint no channel turns is at rest.
Pose(scan, tracks, t) ==
    LET told(thing, otherwise) ==
            IF thing \in DOMAIN tracks THEN Sample(tracks[thing], t) ELSE otherwise
        taken(name) == CHOOSE e \in ToSet(scan.expressions) : e.name = name
        weight(e) == told(<<"weight", e.node>>, ConstantWeight(scan, tracks, e))
    IN  [timestamp |-> t,
         rotations |-> [b \in ToSet(scan.jointNames) |-> told(<<"rotation", b>>, 0)],
         root |-> told(<<"root">>, None),
         channels |-> [name \in NamesOf(scan.expressions) |-> weight(taken(name))],
         lookAtTarget |->
             IF <<"lookAt">> \in DOMAIN tracks
             THEN At(AncestorTransform(scan.nodes, scan.lookAtNode),
                     Sample(tracks[<<"lookAt">>], t))
             ELSE ConstantTarget(scan, tracks)]

\* The errors of Read, the first of them in its order.
Refusal(file) ==
    IF file.sound # "" THEN file.sound
    ELSE IF file.extension # "object"
    THEN IF file.extension = "missing" THEN "VRMA001" ELSE "VRMA002"
    ELSE IF file.specVersion # "1.0" THEN "VRMA003"
    ELSE IF file.humanBones = None THEN "VRMA004"
    ELSE IF BoneNodes(file) = NoMap THEN "VRMA005"
    ELSE IF file.channels = None THEN "VRMA006"
    ELSE IF TimeSet(file) = {} THEN "VRMA007" ELSE ""

Document(file) ==
    LET scan == Scanned(file)
        tracks == Tracks(file, scan)
        times == InOrder(TimeSet(file))
    IN  [joints |-> Joints(scan),
         expressions |->
             [i \in DOMAIN scan.expressions |->
                 LET e == scan.expressions[i]
                 IN  [name |-> e.name, type |-> e.type,
                      constantWeight |-> ConstantWeight(scan, tracks, e),
                      isAnimated |-> <<"weight", e.node>> \in DOMAIN tracks]],
         lookAt |-> [present |-> file.lookAt # None,
                     offset |-> IF file.lookAt = None THEN 0 ELSE Or(file.lookAt.offset, 0),
                     constantTarget |-> ConstantTarget(scan, tracks),
                     isAnimated |-> <<"lookAt">> \in DOMAIN tracks],
         samples |-> [i \in DOMAIN times |-> Pose(scan, tracks, times[i])]]

-----------------------------------------------------------------------------

\* Each a name no expression before has: its identifier, or the first numbered one free.
PrimNames(expressions) ==
    AllDifferent([i \in DOMAIN expressions |-> Identifier[expressions[i].name]])

SampleAt(samples, t) == CHOOSE s \in ToSet(samples) : s.timestamp = t

Times(samples) == {s.timestamp : s \in ToSet(samples)}

\* An attribute: stated once, keyed at every pose, or declared and never given.
Track(constant, isAnimated, keyed) ==
    IF constant # None THEN [default |-> constant, samples |-> NoMap]
    ELSE [default |-> None, samples |-> IF isAnimated THEN keyed ELSE NoMap]

ExpressionPrim(e, samples) ==
    [name |-> e.name, type |-> e.type,
     weight |-> Track(e.constantWeight, e.isAnimated,
                      [t \in Times(samples) |-> SampleAt(samples, t).channels[e.name]])]

\* An expression defined over another's prim writes what is there.
ExpressionPrims(d) ==
    LET names == PrimNames(d.expressions)
    IN  [name \in Range(names) |->
            ExpressionPrim(d.expressions[Max({i \in DOMAIN names : names[i] = name})], d.samples)]

LookAtPrim(d) ==
    IF ~d.lookAt.present THEN None
    ELSE [offset |-> d.lookAt.offset,
          target |-> Track(d.lookAt.constantTarget, d.lookAt.isAnimated,
                           [t \in Times(d.samples) |-> SampleAt(d.samples, t).lookAtTarget])]

\* The hips are where the root is, every other joint at its rest.
Body(d) ==
    [i \in DOMAIN d.samples |->
        LET s == d.samples[i]
        IN  [timestamp |-> s.timestamp,
             translations |-> [k \in DOMAIN d.joints |->
                                  IF d.joints[k].bone = "hips" /\ s.root # None THEN s.root
                                  ELSE d.joints[k].rest.move],
             rotations |-> [k \in DOMAIN d.joints |-> s.rotations[d.joints[k].bone]]]]

\* The layer of a document, None for one without joints or samples.
WriteToString(d) ==
    IF d.joints = << >> \/ d.samples = << >> THEN None
    ELSE [start |-> d.samples[1].timestamp, end |-> Last(d.samples).timestamp,
          joints |-> d.joints, body |-> Body(d), expressions |-> ExpressionPrims(d),
          lookAt |-> LookAtPrim(d)]

-----------------------------------------------------------------------------

\* What the layer holds before its first load.
Init ==
    /\ pc = "idle" /\ disk \in Files
    /\ bytes = None /\ document = None /\ usda = None /\ layer = None /\ loaded = None

\* Another program replaces the file, at any time.
Replace ==
    /\ disk' \in Files \ {disk}
    /\ UNCHANGED <<pc, bytes, document, usda, layer, loaded>>

CanRead(file) == file.extensionName = "vrma" /\ file.readable /\ file.magic

\* The end of a load, whose bytes, document and text are its own.
Finish(result) ==
    /\ pc' = "idle" /\ loaded' = result
    /\ bytes' = None /\ document' = None /\ usda' = None

\* A load, first or again: the file is taken by its magic, opened and read whole.
ReadBytes ==
    /\ pc = "idle" /\ CanRead(disk)
    /\ IF disk.size = 0 THEN Finish("failed")
       ELSE pc' = "read" /\ bytes' = disk /\ UNCHANGED <<document, usda, loaded>>
    /\ UNCHANGED <<disk, layer>>

ReadDocument ==
    /\ pc = "read"
    /\ IF Refusal(bytes) # "" THEN Finish("failed")
       ELSE pc' = "author" /\ document' = Document(bytes) /\ UNCHANGED <<bytes, usda, loaded>>
    /\ UNCHANGED <<disk, layer>>

\* The other thread authors while the caller waits for it.
AuthorDocument ==
    /\ pc = "author"
    /\ IF WriteToString(document) = None THEN Finish("failed")
       ELSE /\ pc' = "import" /\ usda' = WriteToString(document)
            /\ UNCHANGED <<bytes, document, loaded>>
    /\ UNCHANGED <<disk, layer>>

\* A mutant: what the generated layer is imported into is the layer being loaded.
ImportInto(old) == None

\* An import that fails leaves the layer alone.
LeftBy(old) == old

\* ImportFromString into a layer of its own, and TransferContent only if it parses.
Import ==
    /\ pc = "import"
    /\ \/ layer' = usda /\ Finish("loaded")
       \/ layer' = LeftBy(layer) /\ Finish("failed")
    /\ UNCHANGED disk

Next == Replace \/ ReadBytes \/ ReadDocument \/ AuthorDocument \/ Import

Spec == Init /\ [][Next]_vars

-----------------------------------------------------------------------------

\* The layer changes only by a load that succeeds, to one version of the file: a refusal, a
\* failed import or a file replaced half way leave what was there (Read's early returns and
\* TransferContent last).
LayerIsOneVersion ==
    [][layer' # layer =>
           /\ loaded' = "loaded" /\ bytes \in Files
           /\ Refusal(bytes) = "" /\ layer' = WriteToString(Document(bytes))]_vars

\* The channels of a file that give a node a position.
Moving(file, n) ==
    {i \in DOMAIN file.channels :
        LET c == file.channels[i] IN c.whole /\ c.node = n /\ c.path = "translation"}

\* A track says what a node says: at its channel's keys their values, to either side of them
\* the first and the last; without a channel one value if the file placed it, else nothing.
SaysWhat(track, file, n, placed, transform) ==
    LET s == file.channels[Max(Moving(file, n))].sampler
        value(k) == At(transform, s.output[IF s.interpolation = "cubic" THEN 3 * k - 1 ELSE k])
        nearest(t, k) == \/ t = s.input[k]
                         \/ k = 1 /\ t < s.input[k]
                         \/ k = Len(s.input) /\ t > s.input[k]
    IN  IF Moving(file, n) = {}
        THEN track = [default |-> IF placed THEN At(transform, NodeLocal(file.nodes[n]).move)
                                  ELSE None, samples |-> NoMap]
        ELSE /\ track.default = None
             /\ Range(s.input) \subseteq DOMAIN track.samples
             /\ \A t \in DOMAIN track.samples, k \in DOMAIN s.input :
                    nearest(t, k) => track.samples[t] = value(k)

\* An entry that could be an expression, and two that could not both be.
Usual(file, e) == Usable(file, e.node) /\ ~IsBone(file, e.node)

Rivals(e, f) == e.name = f.name \/ e.node = f.node

\* The layer's face and gaze are the file's: every expression has a prim of its own, of the
\* entry that names and drives it, each entry that could be one is or has a rival before it,
\* and each track, though sampled at the keys of all, says what its own node does -- where
\* the file says nothing, nothing is authored (the claims of nodes and names, the union of
\* times, the constant weights and target, WriteToString's claimed names).
ClipSaysWhatTheFileSays ==
    pc = "import" =>
        LET prims == usda.expressions
            all == Declarations(bytes)
            watched == LookAtNode(bytes)
        IN  /\ \E place \in [DOMAIN prims -> DOMAIN all] :
                  /\ \A p \in DOMAIN prims :
                        LET e == all[place[p]]
                        IN  /\ prims[p].name = e.name /\ prims[p].type = e.type /\ Usual(bytes, e)
                            /\ SaysWhat(prims[p].weight, bytes, e.node,
                                        States(bytes.nodes[e.node]), Identity)
                  /\ \A p, q \in DOMAIN prims : p # q => ~Rivals(all[place[p]], all[place[q]])
                  /\ \A i \in DOMAIN all :
                        Usual(bytes, all[i]) =>
                            \E p \in DOMAIN prims : place[p] <= i /\ Rivals(all[place[p]], all[i])
            /\ watched # None =>
                   SaysWhat(usda.lookAt.target, bytes, watched,
                            \E k \in {watched} \cup ToSet(Ancestors(bytes.nodes, watched)) :
                                States(bytes.nodes[k]),
                            AncestorTransform(bytes.nodes, watched))
            /\ bytes.lookAt # None /\ watched = None =>
                   usda.lookAt.target = [default |-> None, samples |-> NoMap]
            /\ \A i \in DOMAIN usda.body, k \in DOMAIN usda.joints :
                   usda.joints[k].bone # "hips" =>
                       usda.body[i].translations[k] = usda.joints[k].rest.move
=============================================================================
