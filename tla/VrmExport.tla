----------------------------- MODULE VrmExport -----------------------------
(***************************************************************************)
(* vrm_export: several exports, each a process of its own, into one output *)
(* directory.  A name is a triple: <<"textures", bytes, ext>> and          *)
(* <<"avatar", of, refs>> stand for the content hashes the code makes file *)
(* names of, equal contents having equal names.  A file is replaced as a   *)
(* whole or not at all (WriteMode::Replace, external).                     *)
(***************************************************************************)
EXTENDS Integers, Sequences

CONSTANTS Jobs,       \* the export processes
          Requests,   \* what a process may be asked
          Disks       \* what may be in the output directory before

VARIABLES req,        \* req[p]: the arguments, and what the input holds
          pc,         \* pc[p]: the step p takes next
          exit,       \* exit[p]: the exit code, or Running
          layer,      \* layer[p]: the asset paths of the layer visited so far
          localized,  \* localized[p]: anchored path -> name
          written,    \* written[p]: the texture names written
          assets,     \* assets[p]: the names in ExportResult::assets
          staged,     \* staged[p]: the files of the package being assembled
          reported,   \* reported[p]: the dependency report printed
          touched,    \* touched[p]: the files p wrote in the directory (auxiliary)
          disk        \* the output directory: name -> content

local == <<layer, localized, written, assets, staged>>

vars == <<req, pc, exit, local, reported, touched, disk>>

Running == -1

Success == 0
UnexpectedFailure == 1
InvalidArguments == 2
InputOpenFailure == 3
ExportFailure == 4
PackagingFailure == 5
ValidationFailure == 6

-----------------------------------------------------------------------------
(* Files *)

NoFiles == << >>

Put(files, name, content) ==
    [n \in DOMAIN files \cup {name} |-> IF n = name THEN content ELSE files[n]]

Texture(bytes, ext) == <<"textures", bytes, ext>>

\* Variant: every avatar layer is avatar.usdc.
FixedAvatarName(of, refs) == <<"avatar", "usdc", << >> >>

AvatarName(of, refs) == <<"avatar", of, refs>>

Content(kind, of, motion, refs, files) ==
    [kind |-> kind, of |-> of, motion |-> motion, refs |-> refs, files |-> files]

Image(bytes) == Content("image", bytes, FALSE, << >>, NoFiles)

\* A layer with the avatar's prims and asset paths.
AvatarLayer(of, motion, refs) == Content("avatar", of, motion, refs, NoFiles)

\* The bake: it references an avatar layer.
BindingLayer(of, refs) == Content("binding", of, TRUE, refs, NoFiles)

Package(root, files) == Content("package", root.of, root.motion, <<root>>, files)

\* A content that is what the name says: any content, but for the name of a hash.
IsNamedFor(name, content) ==
    /\ name[1] = "textures" => content = Image(name[2])
    /\ name[1] = "avatar" => content = AvatarLayer(name[2], FALSE, name[3])

\* The asset paths of the exported layer, and the name of the avatar layer that holds them.
Refs(r) ==
    [i \in DOMAIN r.input.paths |->
        IF r.input.paths[i].kind = "empty" THEN << >>
        ELSE Texture(r.input.paths[i].bytes, r.input.paths[i].ext)]

OwnAvatarName(r) == AvatarName(r.input.of, Refs(r))

IsSeparate(r) == r.motion = "clip" /\ ~r.flatten

RequestOutputs == {r.output : r \in Requests}

\* One path is one asset throughout an export; an output is named by its user, who does
\* not name it as a texture or as the avatar layer of another export.
ASSUME RequestsAssumption ==
    \A r \in Requests :
        /\ r.command \in {"export", "help", "malformed"}
        /\ r.input.paths \in Seq({r.input.paths[i] : i \in DOMAIN r.input.paths})
        /\ \A i, j \in DOMAIN r.input.paths :
               r.input.paths[i].path = r.input.paths[j].path =>
                   r.input.paths[i] = r.input.paths[j]
        /\ \A i \in DOMAIN r.input.paths :
               r.input.paths[i].kind = "empty" => r.input.paths[i].bytes = "none"
        /\ r.output[1] # "textures"
        /\ \A s \in Requests : IsSeparate(s) /\ OwnAvatarName(s) = r.output => s.output = r.output

\* What the directory holds is whole, as an earlier export leaves it, and nobody has put
\* other bytes under the name of a hash.
ASSUME DisksAssumption ==
    \A d \in Disks : \A n \in DOMAIN d :
        /\ IsNamedFor(n, d[n])
        /\ d[n].kind = "avatar" =>
               \A i \in DOMAIN d[n].refs :
                   d[n].refs[i] = << >> \/ (d[n].refs[i] \in DOMAIN d /\ d[n].refs[i][1] = "textures")
        /\ d[n].kind = "binding" =>
               LET avatar == d[n].refs[1]
               IN  avatar \in DOMAIN d \ RequestOutputs /\ d[avatar].kind = "avatar"

-----------------------------------------------------------------------------
(* The operation *)

Separate(p) == IsSeparate(req[p])

Packaged(p) == req[p].format = "usdz"

Init ==
    /\ req \in [Jobs -> Requests]
    /\ disk \in Disks
    /\ pc = [p \in Jobs |-> "parse"]
    /\ exit = [p \in Jobs |-> Running]
    /\ layer = [p \in Jobs |-> << >>]
    /\ localized = [p \in Jobs |-> << >>]
    /\ written = [p \in Jobs |-> {}]
    /\ assets = [p \in Jobs |-> {}]
    /\ staged = [p \in Jobs |-> NoFiles]
    /\ reported = [p \in Jobs |-> {}]
    /\ touched = [p \in Jobs |-> {}]

Goto(p, step) == pc' = [pc EXCEPT ![p] = step]

\* The process is gone, and with it what only its memory held.
Forget(p) ==
    /\ layer' = [layer EXCEPT ![p] = << >>]
    /\ localized' = [localized EXCEPT ![p] = << >>]
    /\ written' = [written EXCEPT ![p] = {}]
    /\ assets' = [assets EXCEPT ![p] = {}]
    /\ staged' = [staged EXCEPT ![p] = NoFiles]

\* Its temporary directories, which nothing else reads, it tries to remove.
Leave(p, code) ==
    /\ Goto(p, "done")
    /\ exit' = [exit EXCEPT ![p] = code]
    /\ Forget(p)

Return(p, code) == Leave(p, code) /\ UNCHANGED <<req, reported, touched, disk>>

ParseOptions(p) ==
    /\ pc[p] = "parse"
    /\ CASE req[p].command = "malformed" -> Return(p, InvalidArguments)
         [] req[p].command = "help"      -> Return(p, Success)
         [] OTHER -> /\ Goto(p, "arguments")
                     /\ UNCHANGED <<req, exit, local, reported, touched, disk>>

\* Variant: an existing output is not looked for.
InvalidNames(p) ==
    \/ req[p].format = "unknown"
    \/ ~req[p].vrm
    \/ req[p].motion = "other"
    \/ req[p].output \in DOMAIN disk /\ disk[req[p].output].kind = "directory"

InvalidRequest(p) ==
    \/ req[p].format = "unknown"
    \/ ~req[p].vrm
    \/ req[p].motion = "other"
    \/ /\ req[p].output \in DOMAIN disk
       /\ disk[req[p].output].kind = "directory" \/ ~req[p].overwrite

\* ExportVrm up to the open stage.
CheckArguments(p) ==
    /\ pc[p] = "arguments"
    /\ IF InvalidRequest(p) THEN Return(p, InvalidArguments)
       ELSE IF ~req[p].input.opens THEN Return(p, InputOpenFailure)
       ELSE /\ Goto(p, IF req[p].motion = "clip" THEN "motion" ELSE "materialize")
            /\ UNCHANGED <<req, exit, local, reported, touched, disk>>

\* The clip does not open, or its temporary directory is not made, or the bake can begin.
OpenMotion(p) ==
    /\ pc[p] = "motion"
    /\ \/ Return(p, InputOpenFailure)
       \/ Return(p, ExportFailure)
       \/ /\ Goto(p, "bake")
          /\ UNCHANGED <<req, exit, local, reported, touched, disk>>

(* motion_retarget is spawned, waited for, and its output read. *)
BakeMotion(p) ==
    /\ pc[p] = "bake"
    /\ \/ Return(p, ExportFailure)
       \/ /\ Goto(p, "materialize")
          /\ UNCHANGED <<req, exit, local, reported, touched, disk>>

\* The new layer, the directories it and its dependencies go to.
Materialize(p) ==
    /\ pc[p] = "materialize"
    /\ \/ Return(p, ExportFailure)
       \/ /\ Goto(p, "localize")
          /\ UNCHANGED <<req, exit, local, reported, touched, disk>>

\* WriteBytes into rootDir: the package's directory, or the output's.
Write(p, name, content) ==
    IF Packaged(p)
    THEN /\ staged' = [staged EXCEPT ![p] = Put(@, name, content)]
         /\ UNCHANGED <<disk, touched>>
    ELSE /\ disk' = Put(disk, name, content)
         /\ touched' = [touched EXCEPT ![p] = @ \cup {name}]
         /\ UNCHANGED staged

Visited(p) == Len(layer[p])

Paths(p) == req[p].input.paths

Visiting(p) == pc[p] = "localize" /\ Visited(p) < Len(Paths(p))

VisitAs(p, name) == layer' = [layer EXCEPT ![p] = Append(@, name)]

\* An asset path that stays as it is.
VisitEmpty(p) ==
    /\ Visiting(p)
    /\ Paths(p)[Visited(p) + 1].kind = "empty"
    /\ VisitAs(p, << >>)
    /\ UNCHANGED <<req, pc, exit, localized, written, assets, staged,
                   reported, touched, disk>>

\* A path that was localized before.
VisitKnown(p) ==
    LET path == Paths(p)[Visited(p) + 1].path
    IN  /\ Visiting(p)
        /\ path \in DOMAIN localized[p]
        /\ VisitAs(p, localized[p][path])
        /\ UNCHANGED <<req, pc, exit, localized, written, assets, staged,
                       reported, touched, disk>>

\* Variant: an image keeps the name it has at its source.
SourceName(p, asset) == Texture(asset.path, asset.ext)

\* The name an image is localized to.
LocalName(p, asset) == Texture(asset.bytes, asset.ext)

VisitImage(p) ==
    LET asset == Paths(p)[Visited(p) + 1]
        name == LocalName(p, asset)
    IN  /\ Visiting(p)
        /\ asset.kind = "image"
        /\ asset.path \notin DOMAIN localized[p]
        /\ VisitAs(p, name)
        /\ localized' = [localized EXCEPT ![p] = Put(@, asset.path, name)]
        /\ assets' = [assets EXCEPT ![p] = @ \cup {name}]
        /\ written' = [written EXCEPT ![p] = @ \cup {name}]
        /\ IF name \in written[p] THEN UNCHANGED <<staged, touched, disk>>
           ELSE Write(p, name, Image(asset.bytes))
        /\ UNCHANGED <<req, pc, exit, reported>>

\* A dependency this export does not localize, or that cannot be read.
Refused(asset) == asset.kind \in {"layer", "unreadable"}

(* A path that fails the export: a refused dependency, or one whose directory
   or file cannot be written. *)
VisitFailing(p) ==
    LET asset == Paths(p)[Visited(p) + 1]
    IN  /\ Visiting(p)
        /\ asset.kind # "empty"
        /\ asset.path \notin DOMAIN localized[p]
        /\ Refused(asset) \/ (asset.kind = "image" /\ LocalName(p, asset) \notin written[p])
        /\ Return(p, ExportFailure)

\* LocalizeDependencies returns.
EndLocalize(p) ==
    /\ pc[p] = "localize"
    /\ Visited(p) = Len(Paths(p))
    /\ Goto(p, IF Separate(p) THEN "avatar" ELSE "export")
    /\ UNCHANGED <<req, exit, local, reported, touched, disk>>

(* The avatar layer beside the root, named after its content.  An output of
   that name is refused. *)
WriteAvatar(p) ==
    LET content == AvatarLayer(req[p].input.of, FALSE, layer[p])
        name == AvatarName(req[p].input.of, layer[p])
    IN  /\ pc[p] = "avatar"
        /\ \/ Return(p, ExportFailure)
           \/ name = req[p].output /\ Return(p, InvalidArguments)
           \/ /\ name # req[p].output
              /\ Write(p, name, content)
              /\ assets' = [assets EXCEPT ![p] = @ \cup {name}]
              /\ Goto(p, "bind")
              /\ UNCHANGED <<req, exit, layer, localized, written, reported>>

\* The bake's layer refers to the avatar layer, unless it has no default prim.
Bind(p) ==
    /\ pc[p] = "bind"
    /\ \/ Return(p, ExportFailure)
       \/ /\ Goto(p, "export")
          /\ UNCHANGED <<req, exit, local, reported, touched, disk>>

Root(p) ==
    IF Separate(p)
    THEN BindingLayer(req[p].input.of, <<AvatarName(req[p].input.of, layer[p])>>)
    ELSE AvatarLayer(req[p].input.of, req[p].motion = "clip", layer[p])

Publish(p, content) ==
    /\ disk' = Put(disk, req[p].output, content)
    /\ touched' = [touched EXCEPT ![p] = @ \cup {req[p].output}]
    /\ Goto(p, "check")
    /\ UNCHANGED <<req, exit, local, reported>>

\* The root layer is written: beside the output's textures, or to be packaged.
ExportLayer(p) ==
    /\ pc[p] = "export"
    /\ \/ Return(p, ExportFailure)
       \/ ~Packaged(p) /\ Publish(p, Root(p))
       \/ /\ Packaged(p)
          /\ Goto(p, "package")
          /\ UNCHANGED <<req, exit, local, reported, touched, disk>>

CreatePackage(p) ==
    /\ pc[p] = "package"
    /\ \/ Return(p, PackagingFailure)
       \/ Publish(p, Package(Root(p), staged[p]))

Resolves(files, refs) == \A i \in DOMAIN refs : refs[i] = << >> \/ refs[i] \in DOMAIN files

(* CheckOutput: the output reopened, and everything it depends on resolved.  A
   package is validated by OpenUSD as well, which may find what it likes. *)
Valid(files, root) ==
    /\ root.kind \in {"avatar", "binding"}
    /\ Resolves(files, root.refs)
    /\ root.kind = "binding" => Resolves(files, files[root.refs[1]].refs)

Holds(content) ==
    IF content.kind = "package" THEN Valid(content.files, content.refs[1])
    ELSE Valid(disk, content)

CheckOutput(p) ==
    /\ pc[p] = "check"
    /\ \/ /\ req[p].check => Holds(disk[req[p].output])
          /\ Goto(p, "report")
          /\ UNCHANGED <<req, exit, local, reported, touched, disk>>
       \/ /\ req[p].check
          /\ Packaged(p) \/ ~Holds(disk[req[p].output])
          /\ Return(p, ValidationFailure)

\* Variant: the inventory is what was written this time.
WrittenNames(p) == written[p]

\* CreateDependencyReport
DependencyReport(p) == assets[p]

Report(p) ==
    /\ pc[p] = "report"
    /\ \/ /\ Leave(p, Success)
          /\ reported' = [reported EXCEPT ![p] = IF req[p].report THEN DependencyReport(p) ELSE {}]
          /\ UNCHANGED <<req, touched, disk>>
       \/ req[p].report /\ Return(p, ExportFailure)

\* A std::exception out of ExportVrm.
Throw(p) ==
    /\ pc[p] \notin {"parse", "report", "done", "crashed"}
    /\ Return(p, UnexpectedFailure)

(* The process is killed: no destructor runs. *)
Crash(p) ==
    /\ pc[p] \notin {"done", "crashed"}
    /\ Goto(p, "crashed")
    /\ Forget(p)
    /\ UNCHANGED <<req, exit, reported, touched, disk>>

Next ==
    \E p \in Jobs :
        \/ ParseOptions(p) \/ CheckArguments(p)
        \/ OpenMotion(p) \/ BakeMotion(p) \/ Materialize(p)
        \/ VisitEmpty(p) \/ VisitKnown(p) \/ VisitImage(p) \/ VisitFailing(p)
        \/ EndLocalize(p) \/ WriteAvatar(p) \/ Bind(p)
        \/ ExportLayer(p) \/ CreatePackage(p) \/ CheckOutput(p) \/ Report(p)
        \/ Throw(p) \/ Crash(p)

Spec == Init /\ [][Next]_vars

-----------------------------------------------------------------------------
(* What a reader sees in the directory *)

Images(files, refs) ==
    [i \in DOMAIN refs |-> IF refs[i] = << >> THEN "none"
                           ELSE IF refs[i] \in DOMAIN files THEN files[refs[i]].of
                           ELSE "missing"]

Artifact(avatar, clip, images) == [avatar |-> avatar, clip |-> clip, images |-> images]

Clip(content) == IF content.motion THEN content.of ELSE "none"

ShownLayer(files, root) ==
    CASE root.kind = "avatar" -> Artifact(root.of, Clip(root), Images(files, root.refs))
      [] root.kind = "binding" /\ root.refs[1] \in DOMAIN files ->
            LET avatar == files[root.refs[1]]
            IN  Artifact(avatar.of, Clip(root), Images(files, avatar.refs))
      [] OTHER -> Artifact(root.kind, root.of, << >>)

Shown(content) ==
    IF content.kind = "package" THEN ShownLayer(content.files, content.refs[1])
    ELSE ShownLayer(disk, content)

Outputs == {req[p].output : p \in Jobs}

Nothing == Artifact("nothing", "none", << >>)

Seen == [o \in Outputs |-> IF o \in DOMAIN disk THEN Shown(disk[o]) ELSE Nothing]

\* What a request asks for.
Ordered(r) ==
    [output |-> r.output, check |-> r.check, report |-> r.report, help |-> r.command = "help",
     artifact |-> Artifact(r.input.of, IF r.motion = "clip" THEN r.input.of ELSE "none",
                           [i \in DOMAIN r.input.paths |-> r.input.paths[i].bytes])]

Contract ==
    INSTANCE ExportContract WITH
        orders <- [p \in Jobs |-> Ordered(req[p])],
        seen <- Seen,
        published <- {p \in Jobs : req[p].output \in touched[p]},
        ended <- exit

(* At every output a reader sees the old artifact or the new one, whole: the
   avatar that was asked for, its clip and each of its images, whichever
   exports share the directory, fail, or are killed half-way; and an exit code
   says whether the output was written. *)
ImplementsContract == Contract!Spec

-----------------------------------------------------------------------------
(* Properties *)

(* A file that has the name of a content keeps that content: the exports that
   share a directory never change a file another's output depends on. *)
ContentNamesKeep ==
    [][\A n \in DOMAIN disk \ Outputs : n \in DOMAIN disk' /\ disk'[n] = disk[n]]_vars

(* Without --overwrite an export replaces no file, but for one that another
   export wrote after it had looked. *)
ReplacesOnlyWhenAsked ==
    [][\A p \in Jobs :
          /\ req[p].output \in touched'[p] \ touched[p]
          /\ req[p].output \in DOMAIN disk
          /\ ~req[p].overwrite
          => \E q \in Jobs \ {p} : req[p].output \in touched[q]]_vars

\* Everything the output of a request depends on.
Inventory(r) ==
    ({Refs(r)[i] : i \in DOMAIN Refs(r)} \ {<< >>})
        \cup (IF IsSeparate(r) THEN {OwnAvatarName(r)} ELSE {})

(* The dependency report names every file the output depends on and no other,
   once, whatever was shared or already there, and a failed export has none. *)
ReportIsInventory ==
    \A p \in Jobs :
        reported[p] = IF exit[p] = Success /\ req[p].command = "export" /\ req[p].report
                      THEN Inventory(req[p]) ELSE {}

(* VrmExport.cpp:537: "The arguments first, and nothing written until all of
   them hold." *)
RefusalWritesNothing == \A p \in Jobs : exit[p] = InvalidArguments => touched[p] = {}
=============================================================================
