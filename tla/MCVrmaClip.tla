----------------------------- MODULE MCVrmaClip -----------------------------
(* Clips that share nodes, names and instants, and the files Read refuses. *)
EXTENDS VrmaClip

MCBones == <<"hips", "spine", "head">>

\* Three spellings of one identifier, one of them another's numbered name.
MCIdentifier ==
    [happy |-> <<Word("happy")>>, smile |-> <<Word("happy")>>,
     happy_2 |-> <<Word("happy"), Numeral(2)>>, aa |-> <<Word("aa")>>]

Node(parent) == [parent |-> parent, matrix |-> None, translation |-> None, scale |-> None]

Placed(parent, x) == [Node(parent) EXCEPT !.translation = x]

Entry(name, node) == [name |-> name, node |-> node]

Sampler(mode, input, output) == [interpolation |-> mode, input |-> input, output |-> output]

Channel(node, path, sampler) == [node |-> node, path |-> path, whole |-> TRUE, sampler |-> sampler]

\* 0 the scene, 1-3 bones, 4-7 weights, 8 the target under 9 under 0.
Nodes ==
    0 :> [Node(None) EXCEPT !.scale = 2] @@ 1 :> Placed(0, 3) @@ 2 :> Placed(1, 1)
    @@ 3 :> Node(2) @@ 4 :> Node(0) @@ 5 :> Placed(0, 0) @@ 6 :> [Node(0) EXCEPT
        !.matrix = [scale |-> 1, move |-> 4], !.translation = 7]
    @@ 7 :> Placed(0, 12) @@ 8 :> Node(9) @@ 9 :> Placed(0, 5)

Turn == Channel(1, "rotation", Sampler("linear", <<2, 6>>, <<2, 10>>))

Weigh(node) == Channel(node, "translation", Sampler("step", <<0, 3, 4>>, <<8, 0, 6>>))

Clip ==
    [extensionName |-> "vrma", readable |-> TRUE, magic |-> TRUE, size |-> 1, sound |-> "",
     extension |-> "object", specVersion |-> "1.0", nodes |-> Nodes,
     humanBones |-> <<Entry("hips", 1), Entry("spine", 2), Entry("tail", 3), Entry("head", 30)>>,
     preset |-> <<Entry("aa", 4), Entry("happy", 5), Entry("happy_2", 6)>>,
     custom |-> <<Entry("smile", 7), Entry("happy", 3), Entry("aa", 5)>>,
     lookAt |-> [node |-> 8, offset |-> 1],
     channels |-> <<Turn, Weigh(4), Channel(1, "translation", Sampler("cubic", <<1, 5>>,
                                                                    <<0, 3, 0, 0, 7, 0>>))>>]

\* A gaze that moves, weights that are not where their names say, channels that carry nothing.
Gazing ==
    [Clip EXCEPT
        !.preset = <<Entry("aa", 1), Entry("happy", 4), Entry("smile", 4), Entry("happy_2", -1)>>,
        !.custom = <<Entry("smile", 6)>>,
        !.channels = <<Channel(8, "translation", Sampler("linear", <<3, 7>>, <<1, 5>>)),
                       Channel(8, "rotation", Sampler("linear", <<9>>, <<1>>)),
                       Channel(2, "translation", Sampler("linear", <<9>>, <<1>>)),
                       Channel(2, "scale", Sampler("linear", <<9>>, <<1>>)),
                       Channel(9, "translation", Sampler("linear", <<9>>, <<1>>)),
                       Channel(6, "rotation", Sampler("linear", <<9>>, <<1>>)),
                       Channel(None, "rotation", Sampler("linear", <<9>>, <<1>>)),
                       [Turn EXCEPT !.whole = FALSE], Weigh(6),
                       Channel(6, "translation", Sampler("linear", <<1, 5>>, <<4, 0>>)),
                       Channel(4, "translation", Sampler("linear", <<5>>, <<-2>>))>>]

Blind ==
    [Clip EXCEPT !.lookAt.node = 5, !.lookAt.offset = None, !.channels = <<Turn>>,
                 !.humanBones = <<Entry("head", 1), Entry("spine", 1)>>]

Still == [Clip EXCEPT !.lookAt = None, !.preset = << >>, !.channels = <<Turn>>]

Lost == [Clip EXCEPT !.lookAt.node = 40, !.custom = << >>, !.channels = <<Weigh(5)>>]

Unplaced == [Clip EXCEPT !.nodes[9] = Node(0), !.nodes[8].parent = 4]

MCFiles ==
    {Clip, Gazing, Blind, Still, Lost, Unplaced,
     [Clip EXCEPT !.extensionName = "glb"], [Clip EXCEPT !.magic = FALSE],
     [Clip EXCEPT !.size = 0], [Clip EXCEPT !.sound = "VRMA container"],
     [Clip EXCEPT !.extension = "missing"], [Clip EXCEPT !.extension = "array"],
     [Clip EXCEPT !.specVersion = "1.1"], [Clip EXCEPT !.humanBones = None],
     [Clip EXCEPT !.humanBones = <<Entry("tail", 1)>>], [Clip EXCEPT !.channels = None],
     [Clip EXCEPT !.channels = << >>]}
=============================================================================
