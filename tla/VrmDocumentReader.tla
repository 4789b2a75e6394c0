------------------------- MODULE VrmDocumentReader -------------------------
(***************************************************************************)
(* CgltfVrmDocumentReader, third part and the whole: the humanoid bones    *)
(* and the expressions of the VRM extension, resolved against the skeleton *)
(* and the meshes the first two parts built.                               *)
(***************************************************************************)
EXTENDS VrmMeshes

VARIABLES bones,        \* VrmCanonicalDocument::humanoidBones
          seen,         \* the names a duplicate is recognised by
          expressions   \* VrmCanonicalDocument::expressions

vars == <<file, step, cursor, skeletonVars, warnings, meshes, bones, seen, expressions>>

\* file.version is "Vrm0", "Vrm1" or "Unknown", file.json is whether the extension's JSON
\* parses, file.bones and file.expressions are its declarations in the order the reader
\* meets them: [bone, node], and [name, binds], a bind naming its target (a node in 1.0, a
\* mesh in 0.x) and a morph target; 0 stands for an index the file lacks.

ASSUME ExtensionAssumption ==
    \A f \in Files :
        /\ f.version \in {"Vrm0", "Vrm1", "Unknown"}
        /\ f.bones \in Seq([bone : STRING, node : Nat])
        /\ f.expressions \in Seq([name : STRING, binds : Seq([target : Nat, morph : Nat])])

Init ==
    /\ SkeletonInit
    /\ meshes = << >>
    /\ bones = << >>
    /\ seen = {}
    /\ expressions = << >>

Document == <<skeletonVars, meshes, bones, expressions>>

StartExtension ==
    /\ step = "meshes"
    /\ cursor > Len(file.prims)
    /\ warnings' = warnings
         \cup (IF file.version = "Unknown" THEN {Warning("NoVrmExtension", 0)} ELSE {})
         \cup (IF file.version # "Unknown" /\ ~file.json
               THEN {Warning("VrmJsonParseFailed", 0)} ELSE {})
    /\ step' = IF file.version # "Unknown" /\ file.json THEN "bones" ELSE "done"
    /\ cursor' = 1
    /\ UNCHANGED <<file, Document, seen>>

-----------------------------------------------------------------------------
(* Humanoid bones *)

\* Variant: every node is taken for a joint.
ShiftedJoint(n) == IF n \in Nodes THEN jointOf[n] + 1 ELSE 0

\* nodeIndexToJoint
NodeJoint(n) == IF n \in Nodes THEN jointOf[n] ELSE 0

BoneEntry == file.bones[cursor]

MapBone(entry) ==
    IF NodeJoint(entry.node) # 0
    THEN /\ bones' = Append(bones, [bone |-> entry.bone, joint |-> NodeJoint(entry.node)])
         /\ UNCHANGED warnings
    ELSE /\ warnings' = warnings \cup {Warning("HumanoidBoneUnmapped", cursor)}
         /\ UNCHANGED bones

ReadBone ==
    /\ step = "bones"
    /\ cursor <= Len(file.bones)
    /\ IF file.version = "Vrm0" /\ BoneEntry.bone \in seen
       THEN /\ warnings' = warnings \cup {Warning("HumanoidBoneDuplicate", cursor)}
            /\ UNCHANGED <<bones, seen>>
       ELSE /\ MapBone(BoneEntry)
            /\ seen' = IF file.version = "Vrm0" THEN seen \cup {BoneEntry.bone} ELSE seen
    /\ cursor' = cursor + 1
    /\ UNCHANGED <<file, step, skeletonVars, meshes, expressions>>

EndBones ==
    /\ step = "bones"
    /\ cursor > Len(file.bones)
    /\ step' = "expressions"
    /\ cursor' = 1
    /\ seen' = {}
    /\ UNCHANGED <<file, Document, warnings>>

-----------------------------------------------------------------------------
(* Expressions *)

\* Variant: meshes are counted as the file counts primitives, the skipped ones included.
CountedMeshes(target) ==
    {k \in DOMAIN meshes :
        target = IF file.version = "Vrm1" THEN file.prims[k].node ELSE file.prims[k].mesh}

\* nodeToPrims in 1.0, meshToPrims in 0.x
TargetMeshes(target) ==
    {k \in DOMAIN meshes :
        target = IF file.version = "Vrm1" THEN meshes[k].node ELSE meshes[k].mesh}

\* addBinds: one bind for every mesh of the target that has the morph target.
Fan(bind) ==
    {[mesh |-> k, morph |-> bind.morph] :
        k \in {t \in TargetMeshes(bind.target) : bind.morph \in DOMAIN meshes[t].morphs}}

\* Variant: a bind is lost when no mesh has the target.
WithoutMesh(bind) == TargetMeshes(bind.target) = {} /\ bind.morph # 0

OutOfRange(bind) == TargetMeshes(bind.target) # {} /\ Fan(bind) = {} /\ bind.morph # 0

Claimed(name) == name \in seen

ReadExpression ==
    /\ step = "expressions"
    /\ cursor <= Len(file.expressions)
    /\ LET entry == file.expressions[cursor] IN
       IF Claimed(entry.name)
       THEN /\ warnings' = warnings \cup {Warning("ExpressionDuplicateName", cursor)}
            /\ UNCHANGED <<expressions, seen>>
       ELSE /\ seen' = seen \cup {entry.name}
            /\ expressions' = Append(expressions,
                 [name |-> entry.name, source |-> cursor,
                  binds |-> UNION {Fan(bind) : bind \in Range(entry.binds)}])
            /\ warnings' = warnings \cup
                 {Warning("ExpressionMorphIndexOutOfRange", <<cursor, b>>) :
                      b \in {b \in DOMAIN entry.binds : OutOfRange(entry.binds[b])}}
    /\ cursor' = cursor + 1
    /\ UNCHANGED <<file, step, skeletonVars, meshes, bones>>

Finish ==
    /\ step = "expressions"
    /\ cursor > Len(file.expressions)
    /\ step' = "done"
    /\ UNCHANGED <<file, cursor, Document, seen, warnings>>

Next ==
    \/ SkeletonNext /\ UNCHANGED <<meshes, bones, seen, expressions>>
    \/ MeshesNext /\ UNCHANGED <<bones, seen, expressions>>
    \/ StartExtension
    \/ ReadBone
    \/ EndBones
    \/ ReadExpression
    \/ Finish

Spec == Init /\ [][Next]_vars

-----------------------------------------------------------------------------
(* Properties *)

(***************************************************************************)
(* Joint indices stay within the arrays they index in every pass.          *)
(***************************************************************************)
TypeOK ==
    /\ step \in {"skins", "binds", "meshes", "bones", "expressions", "done"}
    /\ cursor \in Nat \ {0}
    /\ SkeletonTypeOK
    /\ bones \in Seq([bone : STRING, joint : DOMAIN joints])
    /\ expressions \in Seq([name : STRING, source : Nat,
                            binds : SUBSET [mesh : DOMAIN meshes, morph : Nat]])

Parsed == step = "done" /\ file.version # "Unknown" /\ file.json

Drives(e, k, t) == [mesh |-> k, morph |-> t] \in e.binds

\* An entry's bind names the node (VRM 1.0) or the mesh (0.x) that mesh k was read from.
Asks(e, k, t) ==
    LET p == file.prims[meshes[k].source] IN
    \E b \in Range(file.expressions[e.source].binds) :
        b.morph = t /\ b.target = IF file.version = "Vrm1" THEN p.node ELSE p.mesh

(***************************************************************************)
(* A bind drives the meshes it names and no other: the meshes bound by an  *)
(* expression are exactly those read from a primitive of the bind's node   *)
(* (VRM 1.0) or mesh (0.x) that have the morph target, although primitives *)
(* the reader skipped shift the meshes' indices.                           *)
(***************************************************************************)
BindsNameTheirMesh ==
    \A e \in Range(expressions) : \A k \in DOMAIN meshes : \A t \in DOMAIN meshes[k].morphs :
        Drives(e, k, t) <=> Asks(e, k, t)

Warned(code, at) == Warning(code, at) \in warnings

\* Whether bone entry i was mapped.
Mapped(i) ==
    \E b \in Range(bones) : b = [bone |-> file.bones[i].bone,
                                 joint |-> NodeJoint(file.bones[i].node)]

(***************************************************************************)
(* Nothing the file declares is lost without a warning: a primitive is a   *)
(* mesh, a bone is mapped, an expression is kept and a bind of a kept      *)
(* expression on a mesh that was read drives something, or the warnings    *)
(* name it.                                                                *)
(***************************************************************************)
LossesAreReported ==
    Parsed =>
        /\ \A q \in DOMAIN file.prims :
             \/ \E m \in Range(meshes) : m.source = q
             \/ Warned("PrimitiveNotTriangles", q)
             \/ Warned("PrimitiveNoPosition", q)
        /\ \A i \in DOMAIN file.bones :
             \/ Mapped(i)
             \/ Warned("HumanoidBoneUnmapped", i)
             \/ Warned("HumanoidBoneDuplicate", i)
        /\ \A x \in DOMAIN file.expressions :
             LET binds == file.expressions[x].binds IN
             \/ Warned("ExpressionDuplicateName", x)
             \/ \E e \in Range(expressions) :
                  /\ e.source = x
                  /\ \A b \in DOMAIN binds :
                       \/ binds[b].morph = 0 \/ TargetMeshes(binds[b].target) = {}
                       \/ \E d \in e.binds : d \in Fan(binds[b])
                       \/ Warned("ExpressionMorphIndexOutOfRange", <<x, b>>)

(***************************************************************************)
(* VRM141: "duplicate humanoid bone; keeping the first mapping": a bone    *)
(* reported as a duplicate has a mapping.  It does not hold: the first     *)
(* entry of a bone claims the name before its node is known to be a joint. *)
(***************************************************************************)
DuplicateHasMapping ==
    \A i \in DOMAIN file.bones :
        Warned("HumanoidBoneDuplicate", i)
            => \E b \in Range(bones) : b.bone = file.bones[i].bone
=============================================================================
