-------------------------- MODULE MCPackageResolver --------------------------
(* Four contents, two of one hash; packages that lose, gain, rename or repeat *)
(* an image, or cannot be read.                                               *)
EXTENDS PackageResolver, TLC

CONSTANTS t1, t2, avatar, c1, c2, face, hair, twin, blob

MCHash == face :> "h1" @@ hair :> "h2" @@ twin :> "h1" @@ blob :> "h2"
MCSniffed == face :> "png" @@ hair :> "jpg" @@ twin :> "png" @@ blob :> "none"

View(bytes, mime) == [stored |-> "view", bytes |-> bytes, mime |-> mime]

Broken == [readable |-> FALSE, images |-> <<View(face, "png")>>]
Faces  == [readable |-> TRUE, images |-> <<View(hair, "png"), View(face, "jpg")>>]
Twins  == [readable |-> TRUE, images |-> <<[stored |-> "range", bytes |-> hair, mime |-> "jpg"],
                                           View(face, "png"), View(twin, "jpg"), View(blob, "jpg"),
                                           [stored |-> "uri", bytes |-> hair, mime |-> "jpg"]>>]
Symmetry == Permutations({t1, t2}) \cup Permutations({c1, c2})

MCContainers == {Broken, Faces, Twins}

MCRequests == {[hash |-> "h1", ext |-> "png"]}
=============================================================================
