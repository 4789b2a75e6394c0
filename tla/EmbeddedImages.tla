--------------------------- MODULE EmbeddedImages ---------------------------
(***************************************************************************)
(* The images of a .vrm container: which of them the package resolver      *)
(* indexes and under which name, and which name the importer authors for   *)
(* each.  The two are separate code (usdVrmPackageResolver and             *)
(* CgltfVrmDocumentReader) joined only by vrmContainer's content hash.     *)
(***************************************************************************)
EXTENDS Naturals, Sequences

CONSTANTS Bytes,      \* the contents an image may have
          Hashes,     \* the values of the content hash
          Hash,       \* Hash[b]: HashBytes of a content
          Sniffed     \* Sniffed[b]: the format its magic bytes say

Formats == {"png", "jpg"}

ASSUME ImagesAssumption ==
    /\ Hash \in [Bytes -> Hashes]
    /\ Sniffed \in [Bytes -> Formats \cup {"none"}]

(* How the image is stored: in a buffer view inside its buffer, in one that
   leaves it, or outside the container. *)
Image == [stored : {"view", "range", "uri"}, bytes : Bytes,
          mime : Formats \cup {"none"}]

(* What a read of the package gives.  `readable` is FALSE when the file cannot
   be opened, is no GLB, is no glTF, or its buffers do not load. *)
Container == [readable : BOOLEAN, images : Seq(Image)]

MakeEmbeddedResourcePath(bytes, ext) == [hash |-> Hash[bytes], ext |-> ext]

Names == [hash : Hashes, ext : Formats]

-----------------------------------------------------------------------------
(* usdVrmPackageResolver *)

ImageExt(image) == image.mime

\* Variant: the declared type trusted before the magic bytes.
DeclaredImageExt(image) ==
    IF image.mime # "none" THEN image.mime ELSE Sniffed[image.bytes]

SniffImageExt(image) ==
    IF Sniffed[image.bytes] # "none" THEN Sniffed[image.bytes] ELSE ImageExt(image)

Indexed(container) ==
    {i \in DOMAIN container.images :
        /\ container.readable
        /\ container.images[i].stored = "view"
        /\ SniffImageExt(container.images[i]) # "none"}

Key(container, i) ==
    MakeEmbeddedResourcePath(container.images[i].bytes, SniffImageExt(container.images[i]))

\* images[name] = ...: a later image of the same name replaces an earlier one.
LastNamed(container, name) ==
    CHOOSE i \in Indexed(container) :
        /\ Key(container, i) = name
        /\ \A j \in Indexed(container) : Key(container, j) = name => j <= i

\* Variant: an index that pairs each name with the container's first image.
FirstImageIndex(container) ==
    [name \in {Key(container, i) : i \in Indexed(container)} |->
        container.images[1].bytes]

PackageIndex(container) ==
    [name \in {Key(container, i) : i \in Indexed(container)} |->
        container.images[LastNamed(container, name)].bytes]

-----------------------------------------------------------------------------
(* The importer (CgltfVrmDocumentReader::Read) *)

ImporterExt(image) ==
    IF Sniffed[image.bytes] # "none" THEN Sniffed[image.bytes] ELSE image.mime

\* The images the importer references inside the package, and their names.
Authored(container) ==
    {MakeEmbeddedResourcePath(container.images[i].bytes, ImporterExt(container.images[i])) :
        i \in {k \in DOMAIN container.images :
                  /\ container.readable
                  /\ container.images[k].stored = "view"
                  /\ ImporterExt(container.images[k]) # "none"}}
=============================================================================
