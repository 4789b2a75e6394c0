----------------------------- MODULE VrmMeshes -----------------------------
(***************************************************************************)
(* CgltfVrmDocumentReader, second part: one mesh for every primitive of    *)
(* every node with a mesh, its vertices' joints moved to the one skeleton  *)
(* and its arrays cut down to the vertices its triangles use.              *)
(* A vertex's data is its number in the file's accessor.                   *)
(***************************************************************************)
EXTENDS VrmSkeleton, SequencesExt

VARIABLE meshes       \* VrmCanonicalDocument::meshes

\* file.prims holds one entry for every (node, primitive) of the two loops, in their order:
\* the node and the mesh, the node's skin (0: none), the number of POSITION elements, of
\* NORMAL elements and of POSITION elements of each morph target, the indices (empty: no
\* index accessor) and JOINTS_0, one slot of the four (empty: unskinned).

\* The slots are read for every point; the other accessors of a primitive have as many
\* elements as its points, or none, as glTF requires.
Accessors(p) ==
    /\ p.points \in Nat
    /\ p.normals \in {0, p.points}
    /\ p.morphs \in Seq({0, p.points})
    /\ p.indices \in Seq(Nat \ {0})
    /\ p.slots \in Seq(Nat \ {0})
    /\ Len(p.slots) \in {0, p.points}

ASSUME PrimitivesAssumption ==
    \A f \in Files :
        /\ f.prims \in Seq({f.prims[q] : q \in DOMAIN f.prims})
        /\ \A q \in DOMAIN f.prims : f.prims[q].node \in Nodes /\ Accessors(f.prims[q])

\* What an array is given for a vertex it does not have.
Zero == 0

-----------------------------------------------------------------------------
(* Skinning *)

\* The joints of skin s, which follow those of the skins before it.
SkinJoints(s) ==
    LET before == {k \in DOMAIN file.slots : file.slots[k].skin < s}
        own == {k \in DOMAIN file.slots : file.slots[k].skin = s}
    IN [slot \in 1 .. Cardinality(own) |-> file.slots[Cardinality(before) + slot]]

Skinned(p) == p.skin # 0 /\ joints # << >> /\ p.slots # << >>

OutOfSkin(p) == \E v \in DOMAIN p.slots : p.slots[v] > Len(SkinJoints(p.skin))

\* JOINTS_0 in the skeleton's order; a slot outside the skin is the first joint.
Unified(p, slot) ==
    LET skin == SkinJoints(p.skin)
    IN IF slot \in DOMAIN skin THEN jointOf[skin[slot].node] ELSE 1

-----------------------------------------------------------------------------
(* Compaction *)

Corners(p) == IF p.indices = << >> THEN [v \in 1 .. p.points |-> v] ELSE p.indices

\* The vertices the corners name, in the order they first name them.
Used(corners) ==
    LET used[n \in 0 .. Len(corners)] ==
            IF n = 0 THEN << >>
            ELSE LET earlier == used[n - 1]
                 IN IF corners[n] \in Range(earlier) THEN earlier
                    ELSE Append(earlier, corners[n])
    IN used[Len(corners)]

Renumbered(corners) ==
    LET used == Used(corners)
    IN [c \in DOMAIN corners |-> CHOOSE i \in DOMAIN used : used[i] = corners[c]]

\* Variant: arrays are cut to the length of the vertices used.
Truncate(array, used, missing) ==
    [i \in DOMAIN used |-> IF i \in DOMAIN array THEN array[i] ELSE missing]

Gather(array, used, missing) ==
    [i \in DOMAIN used |-> IF used[i] \in DOMAIN array THEN array[used[i]] ELSE missing]

Identity(used, points) == used = [v \in 1 .. points |-> v]

\* The first n vertices of an accessor.
Elements(n) == [v \in 1 .. n |-> v]

MeshOf(p) ==
    LET used == Used(Corners(p))
        vertexJoints == IF Skinned(p) THEN [v \in DOMAIN p.slots |-> Unified(p, p.slots[v])]
                        ELSE << >>
        Kept(array, missing) == IF array = << >> \/ Identity(used, p.points) THEN array
                                ELSE Gather(array, used, missing)
    IN [source |-> cursor, node |-> p.node, mesh |-> p.mesh,
        points |-> Kept(Elements(p.points), Zero),
        normals |-> Kept(Elements(p.normals), Zero),
        corners |-> Renumbered(Corners(p)),
        joints |-> Kept(vertexJoints, 1),
        morphs |-> [t \in DOMAIN p.morphs |-> Kept(Elements(p.morphs[t]), Zero)]]

-----------------------------------------------------------------------------
(* The pass *)

Reading == step = "meshes" /\ cursor <= Len(file.prims)

Primitive == file.prims[cursor]

Skip(code) ==
    /\ warnings' = warnings \cup {Warning(code, cursor)}
    /\ cursor' = cursor + 1
    /\ UNCHANGED <<file, step, skeletonVars, meshes>>

SkipNotTriangles ==
    /\ Reading
    /\ ~Primitive.triangles
    /\ Skip("PrimitiveNotTriangles")

SkipNoPosition ==
    /\ Reading
    /\ Primitive.triangles
    /\ Primitive.points = 0
    /\ Skip("PrimitiveNoPosition")

ReadPrimitive ==
    /\ Reading
    /\ Primitive.triangles
    /\ Primitive.points > 0
    /\ meshes' = Append(meshes, MeshOf(Primitive))
    /\ warnings' = IF Skinned(Primitive) /\ OutOfSkin(Primitive)
                   THEN warnings \cup {Warning("SkinJointIndexOutOfRange", cursor)}
                   ELSE warnings
    /\ cursor' = cursor + 1
    /\ UNCHANGED <<file, step, skeletonVars>>

MeshesNext == SkipNotTriangles \/ SkipNoPosition \/ ReadPrimitive

-----------------------------------------------------------------------------
(* Properties of the meshes *)

\* The element of an array the file gives vertex v.
VertexOf(n, v) == IF v \in 1 .. n THEN v ELSE Zero

(***************************************************************************)
(* A triangle corner means the same vertex before and after the arrays are *)
(* cut down: its point, its normal and its offset in every morph target    *)
(* are those of the vertex the file's index names, or zero when the file   *)
(* has no such vertex.  Every array has one element for each point, and    *)
(* every point is used, which is what Hydra demands of vertex primvars.    *)
(***************************************************************************)
CornersKeepTheirVertex ==
    \A m \in Range(meshes) :
        LET p == file.prims[m.source] IN
        /\ Range(m.corners) = DOMAIN m.points
        /\ DOMAIN m.normals \in {{}, DOMAIN m.points}
        /\ \A c \in DOMAIN m.corners :
             LET v == Corners(p)[c]
                 i == m.corners[c]
             IN /\ m.points[i] = VertexOf(p.points, v)
                /\ p.normals # 0 => m.normals[i] = VertexOf(p.normals, v)
                /\ \A t \in DOMAIN p.morphs :
                     p.morphs[t] # 0 => m.morphs[t][i] = VertexOf(p.morphs[t], v)

(***************************************************************************)
(* A corner of a skinned mesh follows the node its skin's list names: the  *)
(* joint kept for it belongs, in the reordered skeleton, to the node in    *)
(* the JOINTS_0 slot of its vertex.  A slot outside the skin falls on a    *)
(* root joint, and the file's user is warned.                              *)
(***************************************************************************)
CornersFollowTheirNode ==
    \A m \in Range(meshes) :
        LET p == file.prims[m.source] IN
        m.joints # << >> =>
            \A c \in DOMAIN m.corners :
                LET v == Corners(p)[c]
                    joint == joints[m.joints[m.corners[c]]]
                IN IF v \notin DOMAIN p.slots THEN joint.parent = 0
                   ELSE IF p.slots[v] \in DOMAIN SkinJoints(p.skin)
                   THEN joint.node = SkinJoints(p.skin)[p.slots[v]].node
                   ELSE /\ joint.parent = 0
                        /\ Warning("SkinJointIndexOutOfRange", m.source) \in warnings
=============================================================================
