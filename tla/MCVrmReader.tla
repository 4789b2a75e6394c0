---------------------------- MODULE MCVrmReader ----------------------------
(* The reader over files that vary in their skins, their meshes, or their extension. *)
EXTENDS VrmDocumentReader

MCNodes == 1 .. 3

Above(parent) ==
    [n \in MCNodes |->
        IF parent[n] = 0 THEN << >>
        ELSE IF parent[parent[n]] = 0 THEN <<parent[n]>>
        ELSE <<parent[n], parent[parent[n]]>>]

\* Three roots, a root with a child, a root with two children, a chain.
Forests == {Above(p) : p \in {<<0, 0, 0>>, <<0, 1, 0>>, <<0, 1, 1>>, <<0, 1, 2>>}}

SkinSlots(s, list, ibm) ==
    [k \in DOMAIN list |-> [skin |-> s, node |-> list[k], ibm |-> ibm]]

TwoSkins(list, ibm, other, otherIbm) ==
    SkinSlots(1, list, ibm) \o SkinSlots(2, other, otherIbm)

File(above, slots, prims, version, json, declaredBones, declaredExpressions) ==
    [above |-> above, slots |-> slots, prims |-> prims, version |-> version, json |-> json,
     bones |-> declaredBones, expressions |-> declaredExpressions]

Triangles(node, mesh, skin, slots, morphs) ==
    [node |-> node, mesh |-> mesh, skin |-> skin, triangles |-> TRUE, points |-> 3,
     normals |-> 3, indices |-> <<3, 1, 1>>, slots |-> slots, morphs |-> morphs]

-----------------------------------------------------------------------------
(* Skins *)

Lists == {<< >>, <<3, 2, 1>>} \cup {<<n>> : n \in MCNodes} \cup (MCNodes \X MCNodes)

SkinnedTwice ==
    <<Triangles(1, 1, 1, <<2, 3, 1>>, << >>), Triangles(2, 2, 2, <<1, 2, 3>>, <<3>>)>>

SkinFiles ==
    {File(a, TwoSkins(l, i, m, j), SkinnedTwice, "Unknown", TRUE, << >>, << >>) :
        a \in Forests, l \in Lists, i \in {0, 1}, m \in Lists, j \in 0 .. 2}

-----------------------------------------------------------------------------
(* Meshes: the joints are 2, 1, 3 in the skin and 1, 2, 3 in the skeleton. *)

Chain == Above(<<0, 1, 2>>)

ChainSlots == SkinSlots(1, <<2, 1, 3>>, 1)

Primitives ==
    {[node |-> 1, mesh |-> 1, skin |-> 1, triangles |-> t, points |-> n, normals |-> m,
      indices |-> i, slots |-> s, morphs |-> d] :
        t \in BOOLEAN, n \in {0, 2, 3}, m \in {0, 3}, i \in [1 .. 3 -> 1 .. 4] \cup {<< >>},
        s \in {<< >>, <<2, 3, 1>>, <<1, 4, 2>>}, d \in {<< >>, <<3>>, <<0, 3>>}}

\* Accessors of one primitive have one length.
WellFormed(p) ==
    /\ p.normals \in {0, p.points}
    /\ Len(p.slots) \in {0, p.points}
    /\ \A t \in DOMAIN p.morphs : p.morphs[t] \in {0, p.points}

MeshFiles ==
    {File(Chain, ChainSlots, <<p>>, "Vrm1", FALSE, << >>, << >>) :
        p \in {q \in Primitives : WellFormed(q)}}

-----------------------------------------------------------------------------
(* The extension: node 3 is no joint. *)

PairSlots == SkinSlots(1, <<2, 1>>, 0)

NoPrims == << >>

Skipped(p) == [p EXCEPT !.triangles = FALSE]

NoPoints(p) ==
    [p EXCEPT !.points = 0, !.normals = 0, !.slots = << >>, !.morphs = [t \in DOMAIN @ |-> 0]]

\* The first and the second are primitives of one mesh, the third instances it at another node.
First == Triangles(1, 1, 0, << >>, <<3>>)
Second == Triangles(1, 1, 1, <<1, 2, 1>>, <<3, 3>>)
Third == Triangles(2, 1, 0, << >>, <<3, 3>>)
Fourth == Triangles(3, 2, 0, << >>, <<3>>)

PrimLists ==
    {<<a, b, c, Fourth>> : a \in {First, Skipped(First)}, b \in {Second, NoPoints(Second)},
                           c \in {Third, Skipped(Third)}}

BoneEntries == [bone : {"hips", "head"}, node : {0, 2, 3}]

Declared(entries, most) == UNION {[1 .. n -> entries] : n \in 0 .. most}

DistinctBones(s) == \A i, k \in DOMAIN s : s[i].bone = s[k].bone => i = k

BoneFiles ==
    {File(Chain, PairSlots, NoPrims, "Vrm0", TRUE, s, << >>) : s \in Declared(BoneEntries, 3)}
    \cup {File(Chain, PairSlots, NoPrims, "Vrm1", TRUE, s, << >>) :
            s \in {d \in Declared(BoneEntries, 2) : DistinctBones(d)}}

Binds == [target : {0, 1, 2}, morph : 0 .. 2]

ExpressionEntries ==
    [name : {"happy", "sad"}, binds : {<<b>> : b \in Binds} \cup {<<b, [target |-> 2, morph |-> 1]>> : b \in Binds}]

Plain == [name : {"happy", "sad"}, binds : {<< >>}]

ExpressionFiles ==
    {File(Chain, PairSlots, l, v, TRUE, << >>, s) :
        l \in PrimLists, v \in {"Vrm0", "Vrm1"},
        s \in Declared(ExpressionEntries, 1) \cup Declared(Plain, 3)}

ExtensionFiles == BoneFiles \cup ExpressionFiles

ScenarioFiles == SkinFiles \cup MeshFiles
=============================================================================
