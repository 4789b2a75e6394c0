----------------------------- MODULE MCVrmImport -----------------------------
(* The reader's files loaded whole, and files whose names, materials, clips, springs and
   constraints meet. *)
EXTENDS VrmImport, MCVrmReader

MCSpelled ==
    [happy |-> Raw(<<Word("happy")>>, FALSE), sad |-> Raw(<<Word("a"), Word("b")>>, FALSE),
     angry |-> Raw(<<Word("a"), Word("b")>>, TRUE),
     relaxed |-> Raw(<<Word("a"), Word("b"), Numeral(2)>>, FALSE)]

Simple(w) == Raw(<<Word(w)>>, FALSE)

NoSecondary ==
    [present |-> FALSE, colliders |-> << >>, groups |-> << >>, springs |-> << >>]

NoScene(f) ==
    [opens |-> TRUE, whole |-> TRUE, gltf |-> TRUE,
     names |-> [n \in MCNodes |-> Simple("joint")], materials |-> << >>, properties |-> << >>,
     colours |-> [x \in DOMAIN f.expressions |-> << >>], lookAt |-> "none", clips |-> << >>,
     secondary |-> NoSecondary, constraints |-> << >>]

NamedPrims(prims, material) ==
    [k \in DOMAIN prims |->
        prims[k] @@ [named |-> Simple("Face"), parts |-> 1, part |-> 0, material |-> material,
                     targetNames |-> << >>]]

Extended(f) == [f EXCEPT !.prims = NamedPrims(f.prims, 0)] @@ NoScene(f)

-----------------------------------------------------------------------------
(* Scenes: 2 stands between the joints 1 and 3, or every node is a joint, or none is. *)

GapSlots == SkinSlots(1, <<3, 1>>, 1)

FullSlots == SkinSlots(1, <<2>>, 0) \o SkinSlots(2, <<3, 1>>, 2)

Renamed(w, foreign) == Raw(<<Word(w), Numeral(2)>>, foreign)

NodeNames ==
    {<<Simple("hair"), Simple("hair"), Renamed("hair", FALSE)>>,
     <<Renamed("hair", TRUE), NoName, Renamed("hair", FALSE)>>}

A == Simple("A")

Skull == [Triangles(1, 1, 1, <<1, 2, 1>>, <<3, 3, 3>>) EXCEPT !.indices = << >>]
            @@ [named |-> Simple("Face"), parts |-> 2, part |-> 2, material |-> 1,
                targetNames |-> <<A, A, Renamed("A", FALSE)>>]

Strands == [Skull EXCEPT !.triangles = FALSE, !.part = 1]

Hat == Triangles(3, 2, 0, << >>, <<3, 0>>)
           @@ [named |-> Renamed("Face", FALSE), parts |-> 1, part |-> 0, material |-> 2,
               targetNames |-> << >>]

Key(node, path, sampler) == [node |-> node, path |-> path, sampler |-> sampler]

Ramp(mode) == [interpolation |-> mode, input |-> <<0, 4>>, output |-> <<0, 2, 0, 0, 6, 0>>]

Clips ==
    <<[name |-> Simple("run"), channels |-> <<Key(2, "scale", Ramp("step"))>>],
      [name |-> Simple("run"),
       channels |-> <<Key(1, "rotation", Ramp("linear")), Key(1, "rotation", Ramp("cubic")),
                      Key(3, "translation", [Ramp("step") EXCEPT !.input = <<1, 2>>])>>],
      [name |-> NoName, channels |-> <<Key(0, "scale", Ramp("step")), Key(3, "weights", Ramp("step"))>>]>>

Secondary ==
    [present |-> TRUE,
     colliders |-> <<[node |-> 3, shape |-> "capsule"], [node |-> 2, shape |-> "sphere"]>>,
     groups |-> <<[name |-> Simple("body"), node |-> 1, own |-> 1, colliders |-> <<2, 5>>],
                  [name |-> Simple("body"), node |-> 3, own |-> 2, colliders |-> <<1>>]>>,
     springs |-> <<[name |-> NoName, center |-> 1, nodes |-> <<3, 2>>, groups |-> <<2, 2, 4>>],
                   [name |-> Raw(<<Word("Spring"), Numeral(0)>>, FALSE), center |-> 0,
                    nodes |-> <<0, 1>>, groups |-> <<1>>]>>]

Faces ==
    <<[name |-> "happy", binds |-> <<[target |-> 1, morph |-> 3], [target |-> 3, morph |-> 1]>>],
      [name |-> "sad", binds |-> <<[target |-> 1, morph |-> 2]>>],
      [name |-> "sad", binds |-> <<[target |-> 1, morph |-> 1]>>],
      [name |-> "angry", binds |-> <<[target |-> 1, morph |-> 1], [target |-> 2, morph |-> 1]>>],
      [name |-> "relaxed", binds |-> << >>]>>

Colour(material, named, slot) ==
    [material |-> material, named |-> Simple(named), slot |-> slot, sound |-> TRUE]

Colours ==
    <<<<Colour(2, "skin", "color"), Colour(2, "cloth", "shadeColor"), Colour(1, "skin", "rimColor")>>,
      <<Colour(3, "cloth", "color"), Colour(9, "none", "color"), Colour(1, "skin", "_MainTex_ST")>>,
      << >>, <<[Colour(1, "skin", "color") EXCEPT !.sound = FALSE]>>, << >>>>

Painted ==
    <<[name |-> Simple("skin"), mtoon |-> FALSE], [name |-> Simple("skin"), mtoon |-> TRUE],
      [name |-> Simple("cloth"), mtoon |-> FALSE]>>

Toon(mode, queue) == [mtoon |-> TRUE, mode |-> mode, queue |-> queue]

Properties ==
    <<Toon("transparent", 5), Toon("transparent", -1), Toon("zWrite", 7), Toon("opaque", 0)>>

Constraints ==
    <<[node |-> 1, type |-> "roll", source |-> 3], [node |-> 1, type |-> "none", source |-> 2],
      [node |-> 2, type |-> "aim", source |-> 0], [node |-> 3, type |-> "rotation", source |-> 2]>>

Avatar(slots, version, json, names, clips, secondary) ==
    [above |-> Chain, slots |-> slots, prims |-> <<Strands, Skull, Hat>>, version |-> version,
     json |-> json,
     bones |-> <<[bone |-> "hips", node |-> 1], [bone |-> "leftEye", node |-> 3],
                 [bone |-> "rightEye", node |-> 2]>>,
     expressions |-> Faces, opens |-> TRUE, whole |-> TRUE, gltf |-> TRUE, names |-> names,
     materials |-> Painted, properties |-> Properties, colours |-> Colours, lookAt |-> "bone",
     clips |-> clips, secondary |-> secondary, constraints |-> Constraints]

Avatars ==
    {Avatar(slots, version, json, names, clips, secondary) :
        slots \in {GapSlots, FullSlots, << >>}, version \in {"Vrm0", "Vrm1", "Unknown"},
        json \in BOOLEAN, names \in NodeNames, clips \in {<< >>, Clips},
        secondary \in {NoSecondary, Secondary}}

Unreadable ==
    {[Avatar(f[1], "Vrm1", TRUE, [n \in MCNodes |-> NoName], << >>, NoSecondary)
        EXCEPT !.opens = f[2] # 1, !.whole = f[2] # 2, !.gltf = f[2] # 3] :
        f \in {<<GapSlots, 1>>, <<GapSlots, 2>>, <<GapSlots, 3>>}}

ImportFiles ==
    {Extended(f) : f \in ScenarioFiles \cup ExtensionFiles \cup Avatars \cup Unreadable}

\* An expression that binds one morph target twice.
TwiceFiles ==
    {[a EXCEPT !.expressions[1].binds =
        <<[target |-> 1, morph |-> 1], [target |-> 1, morph |-> 1], [target |-> 1, morph |-> 2]>>] :
        a \in {Avatar(FullSlots, v, TRUE, n, << >>, NoSecondary) :
                v \in {"Vrm0", "Vrm1"}, n \in NodeNames}}
=============================================================================
