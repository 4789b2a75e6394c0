# Verification of usd-vrm-plugins

TLA+ models of the usd-vrm-plugins libraries, plug-ins and tools, the TLC configurations that check
them on small instances, and proofs of the theorems about them that TLAPS checks for every value of
the constants. Paths below are relative to the repository's root.

| Part of the system | Modules | Runs | Proved |
| --- | --- | --- | --- |
| `libs/vrmRig`: the spring-bone solver | `RigidLine`, `SpringBoneRig`, `SpringBoneSolver`, `SpringSolverContract`, `Recursion`, `SpringBoneProofs` | `spring_solve`, `spring_copies` | every property of the runs |
| `plugins/usdVrmPackageResolver` | `EmbeddedImages`, `PackageResolver`, `ContainerProofs` | `package_scopes` | every property of the run |
| `libs/vrmContainer`: GLB parsing | `GlbContainer`, `ContainerProofs` | `glb_parse` | what is accepted, the views, progress of the cursor |
| `tools/vrmExport`: `vrm_export` | `VrmExport`, `ExportContract`, `VrmExportProofs` | `export_shared_directory`, `export_late_refusal` | every property of the passing run, the contract among them |
| `plugins/usdVrmFileFormat`: the reader | `VrmSkeleton`, `VrmMeshes`, `VrmDocumentReader`, `VrmScene`, `Recursion`, `VrmReaderProofs` | `vrm_import`, `reader_duplicate_bone` | every property of the reader: the skeleton, the vertices, binds, losses, types |
| `plugins/usdVrmFileFormat`: the load and the author | `Places`, `PathNames`, `KeyTracks`, `VrmImport`, `VrmReaderProofs` | `vrm_import`, `parallel_morph_weights` | a load is a behaviour of the reader; every property of a load: the reader's theorems throughout it, names, turns |
| `plugins/usdVrmaFileFormat` | `KeyTracks`, `Places`, `PathNames`, `VrmaClip`, `Recursion`, `VrmaClipProofs` | `vrma_clip` | every property of the run |
| `tools/motionRetarget`, `libs/vrmRig`: expressions, look-at, colour slots | `ExpressionResolver`, `LookAt`, `RetargetStages`, `MotionRetarget`, `Recursion`, `MotionRetargetProofs` | `retarget_bake` | every property of the run |
| `plugins/execVrm` | `Places`, `ExecRig`, `Recursion`, `ExecRigProofs` | `exec_rig` | every property of the run |

`MC*` modules give the constants their values for TLC. Run one with `tlc -workers 2 -config
MCSpringSolve.cfg MCSpringBone`, check proofs with `tlapm SpringBoneProofs.tla`. `PROJECT.json`
maps every definition that stands for code to the lines it stands for, and lists the runs, the
hazards, the mutants and the theorems.

## 1. The system

```text
 .vrm ─▶ usdVrmFileFormat reader ─▶ canonical document ─▶ author (own thread) ─▶ USD layer
   │        (cgltf, vrmContainer)                              │ asset paths avatar.vrm[images/<hash>.<ext>]
   └──────────────▶ usdVrmPackageResolver ◀── Resolve, OpenAsset ┘
 .vrma ─▶ usdVrmaFileFormat ─▶ semantic clip ─┐
 avatar layer ─▶ motion_retarget (vrmRig) ◀───┘ ─▶ baked UsdSkelAnimation
 .vrm (+ clip) ─▶ vrm_export ─▶ .usda, .usdc, .usdz     (runs motion_retarget as a child)
 stage ─▶ execVrm (OpenExec computations over vrmRig), vrmImaging (Hydra data sources)
```

The importers author data and never evaluate it; evaluation is `vrmRig`'s, called by
`motion_retarget`, by `execVrm`, or by a runtime outside this repository.

### Inventory

**vrmRig SpringBoneSolver** (`libs/vrmRig/src/SpringBoneSolver.cpp`). *State*: a plain value - the
rig, the solver joints with the current and the previous tail in centre space, two flags.
*Operations*: `Configure`, `Reset`, `Step`, and C++ copies, with which a caller tries a step and
throws it away. *Hard*: call sequences (reconfiguring a running solver, a refused call between two
good ones), a step that overflows at a late joint after the earlier ones were integrated, one
cursor that walks solver joints and skeleton together, colliders read from the animated pose and
heads from the simulated one, history kept in a space that moves. *Correct when*: refused calls
change nothing, the history stays finite and is the tail last reported, each joint has one owner, a
motion of the whole model about a centre is invisible to its springs.

**vrmRig ExpressionResolver** (`libs/vrmRig/src/ExpressionResolver.cpp`). *State*: a rig of sorted
definitions. *Operations*: `Add`, `Resolve`: the weights clamped or rounded, suppressed category by
category, accumulated over morphs and colours. *Hard*: arbitration reads the weights of before any
suppression, and a producer may report them in any order. *Correct when*: the result does not
depend on that order, and a binary expression is 0 or 1 at the end as well.

**vrmRig LookAtEvaluator** (`libs/vrmRig/src/LookAtEvaluator.cpp`): no state; yaw and pitch from a
target, range maps, bone or expression output. **MaterialColorSlots, RequiredBones**: constant
tables.

**vrmContainer** (`libs/vrmContainer/src/GlbContainer.cpp`). *State*: `ParseGlb`'s cursor and the
two chunks found. *Operations*: `ParseGlb`, `MakeBufferView`, `HashBytes`,
`MakeEmbeddedResourcePath`. *Hard*: file-chosen 32-bit lengths in `size_t` arithmetic, chunk order,
files that end anywhere. *Correct when*: exactly the well-formed containers are accepted, no view
leaves the file, and the loop ends.

**usdVrmPackageResolver** (`plugins/usdVrmPackageResolver/src/UsdVrmPackageResolver.cpp`). *State*:
per thread a stack of cache scopes, each cache an unlocked map from package to index. *Operations*:
`Resolve`, `OpenAsset`, `BeginCacheScope`, `EndCacheScope`. *Interaction*: Ar calls it on any
thread for paths the importer authored; it and the importer name an image independently. *Hard*:
two threads that share scope data, a package rewritten or unreadable between `Resolve` and
`OpenAsset`, failed reads that are cached. *Correct when*: what is served has the name it was asked
by, a resolved name opens, no answer is older than its scope, and authored names resolve.

**usdVrmFileFormat reader** (`plugins/usdVrmFileFormat/src/io/CgltfVrmDocumentReader.cpp`).
*State*: the canonical document and maps from glTF's indices to its own, filled pass by pass.
*Operations*: the skeleton, materials, meshes, the VRM 0.x or 1.0 extension (humanoid, expressions,
look-at, springs, constraints), animations. *Hard*: index spaces (nodes, slots of a skin, joints,
file meshes, document meshes, corners) that later passes translate between after a sort, skips and
a compaction, and partial losses that must be reported. *Correct when*: no index is mixed up or
dangling, parents precede children, and nothing is lost without a warning.

**usdVrmFileFormat authoring** (`plugins/usdVrmFileFormat/src/usd/UsdVrmAuthorer.cpp`, materials,
`util/PathUtil.cpp`, `UsdVrmFileFormat.cpp`). *State*: the stage being authored. *Operations*:
unique prim names, skeleton, meshes, expressions, material networks. *Hard*: authored on a thread
of its own because the caller's may be inside a reload's change block; names that collide after
sanitising; a VRM 0.x avatar faces backwards and is turned where each thing is authored, in some
ten places. *Correct when*: what the stage names is what the file named, and everything of a 0.x
avatar is turned exactly once.

**usdVrmaFileFormat** (`plugins/usdVrmaFileFormat/src/io/CgltfVrmaDocumentReader.cpp`,
`usd/UsdVrmaAuthorer.cpp`, `UsdVrmaFileFormat.cpp`). *State*: the clip document, and the layer
other stages have composed. *Operations*: claims of nodes by bones, expressions and look-at, the
union of all tracks' key times, each track evaluated at each; authoring; the transfer. *Hard*: two
claims of one node, tracks asked outside their keys, a reload that fails half way. *Correct when*:
the layer says what the file says of each node and nothing where it says nothing, and changes only
by a load that succeeds.

**motion_retarget** (`tools/motionRetarget/src/main.cpp`, `StageIo.cpp`, `Options.cpp`,
`Provenance.cpp`). *State*: the options, the clip, the rig, the gaze held per eye. *Operations*:
parse, load, map, retarget, apply expressions and gaze, write, report what was loaded. *Hard*: gaze
held over samples that say nothing, tracks keyed at other times than the body, an output that is
there already or is an input in another spelling, one that is created before it is authored, a
report written last. *Correct when*: eyes and face follow the clip, the output holds this bake and
no remnant of one before, no input's root layer is replaced by a bake, and a layer that was there
is replaced only by a bake that is complete.

**vrm_export** (`tools/vrmExport/src/export/VrmExport.cpp`, `MotionBake.cpp`, `main.cpp`,
`Options.cpp`). *State*: the export's maps, its own temporary directories, and the output directory it
may share with other processes. *Operations*: check arguments, open, bake, localize textures, write
the avatar layer, write or package the root, validate, report. *Hard*: kills and failures between
files, two exports under one directory, an output checked long before it is written. *Correct
when*: an output is replaced whole or not at all and only when asked, everything it refers to is
there, the exit code and report tell what happened.

**execVrm** (`plugins/execVrm/src/ExecVrmRegistration.cpp`, `ExecVrmRig.cpp`): computations on
`UsdSkelSkeleton`, `UsdSkelBindingAPI` and `VrmHumanoidAPI` prims as a dataflow graph; each refusal
is a posted error and an empty output, and a fan-in drops empty outputs without a word. *Correct
when*: an answer that is missing is explained by what was posted, and the retarget, its
diagnostics and its joint transforms agree with one another.

**vrmImaging** (`plugins/vrmImaging/src/*.cpp`): Hydra data sources over schema tables, and the
edits that invalidate them. **vrmSchema**: generated accessors. **vrmSchemaSdk**: build rules.
**cgltf**: vendored. **scripts, CI and developer tools**: outside the program.

## 2. The modules and the code

### Spring bones

`SpringBoneRig` is `Configure` as a function: `Accepts(rig)` conjoins its validations in the code's
order, `SolverJoints(rig)` is the list it derives: declaration order with roots expanded, one owner
a joint, then skeleton order. `SpringBoneSolver` has three variables: `solver` (the values of the
caller's objects), `result` (their result objects) and the auxiliary `call`. Its actions are
`Configure`, `Reset`, `Step` and `Copy`, each with every early return of the code as a refusal. A
rig is validated before it is assigned and a step is computed on copies before it is committed, so
a refused call keeps the solver it was made on. `SpringSolverContract` is the header's promise:
three phases, calls that either succeed or change nothing. `ImplementsContract` refines the one to
the other.

*Abstraction*. Rigid transforms are those of the line (`RigidLine`): a translation is an integer, a
rotation is 1 or -1. Composition does not commute with the order of frames there either, which is
what the properties tell apart. A solver's arithmetic saturates into "overflowed" above `FloatMax`,
so a check the code makes on finiteness is a real branch. Joint 0 is the source's -1.

### Package resolver

`EmbeddedImages` is the name of an image: both the resolver's index and the importer's authored
path, each translated from its own source, so that they can disagree. `PackageResolver` has an
action for each step of a call that another thread can come between: begin, find in the cache, read
the file, insert, answer; for opening, sharing and closing a scope; and for a rewrite of the
package. `ArThreadLocalScopedCache` is external. A data race in a shared scope is a missed lookup
or a lost entry; a corrupted map that ends the process is not modelled. `face` and `twin` have one
hash: the properties promise the hash, not the bytes.

### GLB

`GlbContainer` is `ParseGlb` step by step on a file of words, with `size_t` arithmetic modulo
`SizeMod`: header, length checks, one action per branch of a chunk, and the two views.
`AcceptsExactly` compares the answer with a definition of well-formed files that reads the file as
a whole and not with a cursor.

### Export

Each of `Jobs` is a process with a `pc` over the steps of `ExportVrm` and `main`; they share
`disk`. Every step may fail as the code's calls fail, throw (`Throw`), or be the last before a kill
(`Crash`). A name is a term made of what the code hashes. `ExportContract` says what a reader sees
at an output: one change at most from each process, to the artifact asked for, and an exit code
that tells. `Seen` follows references through the directory: an output whose texture or avatar
layer is gone shows it missing. Left out are the two temporary directories, where the bake and the
clip are staged: their names are unique, nobody but the export that made one reads it, and its
removal discards its error (`VrmExport.cpp:341`), so nothing could be said of what is left; that
one cannot be made is among the failures of its step. Assumed: OpenUSD writes a layer and `WriteMode::Replace` an asset
whole or not at all; and `motion_retarget` ends. `RequestsAssumption`: a path is one asset throughout
an export, and no request names its output as a texture or as another's avatar layer (a 64-bit hash
in a file name; the one case of an output named as the export's *own* avatar layer is there: the
code refuses it). `DisksAssumption`: the directory before holds whole artifacts, as exports leave
them, and nobody put other bytes under a content name.

### Reader and author of `.vrm`

One state machine from the file to the layer. `VrmSkeleton` joins the skins' joints, binds them to
the first inverse-bind matrix that can be read, and sorts them, parents first; `VrmMeshes` flattens
the primitives, compacts vertices an index list does not use, maps the skin's slots to joints;
`VrmDocumentReader` maps bones and morph binds of both versions and is the composition. Nodes carry
their list of ancestors (`above`), so no recursion is needed to say which joint is above another.
`VrmScene` has what is read on top of these, each part a function of the file and of the joints:
materials with the render queues of 0.x, colour binds, look-at, animation clips, springs with
their colliders and groups, constraints. `VrmImport` is `UsdVrmFileFormat::Read` around all of it:
`OpenFile`, `ReadPass` (a step of the reader), `ReadScene`, `Author` and `Transfer`, each with its
failures, and the stage `UsdVrmAuthorer` writes as one value: prims, unique names, joint paths,
expressions, clips, springs, warnings. `PathNames` is `PathUtil`. `Places` says which entries of a
list a loop keeps by the places they stand at, for this and for the other components.

*Abstraction*. One of the four `JOINTS_0` slots is modelled and weights are left out. A number of
the file is told by where it stands in it, a transform is the product of the named factors the code
multiplies, with the half turn of the front bake among them; a name is the parts its underscores
join, which is what numbering can make collide. Names that begin with a digit, attribute tables
and the raw JSON kept verbatim are left out. Assumed of cgltf's validation: the nodes form a forest, and the accessors of one
primitive have one length (`Accessors`). The authoring thread is one action: the caller waits
for it and it shares nothing else.

*Seen while modelling, and no property*: an expression's collider index or a 1.0 colour bind's
material that is out of range is dropped without a warning; a joint whose raw name is another
joint's path makes a token that names either; the clip track of a joint under a node that is no
joint holds the node's local transform, while its rest is relative to the joint above.

### Clips (`.vrma`)

`VrmaClip` is the file format's `Read` in its steps while the file on disk is replaced by other
`Files`: the bytes, the reader (`Document`, with every refusal), the authoring thread
(`WriteToString`), the transfer. `KeyTracks` is the evaluation of a sampler, shared with `VrmImport`,
whose code does the same. Its keys ascend, as glTF asks and neither importer checks; a file whose
keys do not is outside `FilesAssumption`. A place is a coordinate on a line and is the X a weight is read from too;
a rotation is a number. Warnings are left out but for those that drop an expression. Two things the
model has because the code does: a track interpolated by steps is authored at the union of the
keys like any other, and of two bones that share a node the last has its channels.

### motion_retarget, expressions and look-at

`ExpressionResolver` and `LookAt` are the two `vrmRig` components as operators; `RetargetStages` is
what `StageIo` reads of both stages, with every refusal; `MotionRetarget` is `main`: an action for
each step (`Parse`, `OpenAvatar`, `OpenClip`, `RetargetBody`, `EvaluateLookAt`,
`ResolveExpressions`, `OpenOutput`, `Author`, `Save`, and `Leave`, which is `LoadReportAtExit`), a
kill at any of them, writes that fail, and `NextRun`, a new process over the disk the last one left.

A path has two identities: the name the layer registry resolves it to (`Id`), which is what the
collision check compares and which follows no link, and the file it reaches (`File`), which is what
is read and written. Two spellings have one `Id`; a link has another `Id` and the same file. A
stage has, besides its root, the layers it composes. `OpenOutput` writes: `SdfLayer::CreateNew`
saves the new layer empty, over a file that does not open as one (`CreateOutput`), while a layer
that is there is cleared in memory (`ClearOutput`). Every return once there are options passes
through `"return"`, where the report is written over whatever `--load-report` names or fails to be;
a usage error and `--help` exit before that, without a report. What a run wrote is what a later one reads
(`Stages`): a stage none of whose layers was written is the stage it was; one with a rewritten
layer may be any of `Rewritten`, which is more than a bake or an empty layer composes to; a file
that is no longer a layer does not open, nor is it a humanoid map. An output that is one of the
avatar's own layers leaves the avatar without the colours it held (`ComposedMaterials`). Assumed:
OpenUSD saves a layer whole or not at all, through links and over no other name of the file; what
it saved it can open; and a run's files are written by nobody else while it lasts.

A weight counts parts of one (`Unit`) or is `NaN`,
which is no integer and stays what it is through every sum and product; the rounding of single
floats is left out, so sums do not depend on an order here that their last bit may depend on in the
code. Directions are taken to the nearest octant. External, and modelled
from their use: the motion library's retargeting (a joint follows the bone that is mapped to it),
resampling and clip reader, `UsdAttribute::Get` between samples (linear), the head's forward
kinematics (one fixed place). Defined and not run: the resolver's verbatim weights, which no
program here asks for. Left out: `EvaluateDirection`, which nothing calls, messages on stderr, what
the load report says, stage metrics.

*Seen while modelling, and no property*: the load report may replace the bake it reports on, the
avatar or the clip, for its path is compared with no other; an output that links to an input, or
that an input composes, is cleared and saved over; a command line that is refused by the parser
writes no report although `--load-report` was on it.

### execVrm

`ExecRig` has the nine registered computations as one function from what they read to what they
answer: a value, or nothing for a reason. `Edit` replaces the stage by another of `Stages`,
`ChangeTime` and `Override` are a driver's, `Compute` asks for one computation and evaluates
everything it pulls. External: OpenExec's fan-in, which loses what answers nothing, its traversal
to a namespace ancestor, and its caching, which is taken to be exact. Values are told apart by the
bones they drive. Of the joint transforms the comments say "one identity scale per joint"
(`plugins/execVrm/src/ExecVrmRegistration.cpp:913`, `ExecVrmRig.h:780`), while the code gives each
joint its rest's scale (`ExecVrmRig.cpp:495`); the model follows the code.

Operators commented *Variant* (`FixedAvatarName`, `ShiftedJoint`, ...) are plausible bugs:
`PROJECT.json` names them as the mutants with which each property was seen to fail.

## 3. What the runs check

| Run | Question | Bounds | Distinct states |
| --- | --- | --- | --- |
| `spring_solve` | Does one solver, over any rig, simulate what it says it does? | skeletons of 3 joints (chain, fork); 1 or 2 springs of 4 chains or 7 root lists, with or without a collider and a centre, and 7 hand-written rigs; 6 poses; `FloatMax` 6; one rig a solver | 20,256 |
| `spring_copies` | Do call sequences on two copies keep the contract? | 3 rigs (one refused), 2 poses, durations 0 and 1, `FloatMax` 4 | 3,293 |
| `package_scopes` | Are resolver answers right, fresh and lasting under threads and rewrites? | 2 threads, 2 caches, 1 package, scopes 2 deep, 1 rewrite, 3 containers, 1 name | 212,558 |
| `glb_parse` | Does `ParseGlb` accept exactly the valid files, and end? | every file of up to 5 words of {0, 1, 2, 4, 8, 56}, those that go on with up to 4 words after a JSON chunk, all header faults; `size_t` modulo 64 | 40,421 |
| `export_shared_directory` | What do readers and callers see while two exports share a directory? | 2 processes, 17 requests, 4 directories: empty, with the output there as a user's file or as a directory, and as an earlier export left it | 171,586 |
| `vrm_import` | Does a load keep joints, vertices, binds, names and the half turn straight, from the file to the layer, and report its losses? | 3 nodes, 4 forests, 2 skins, each none, one or two of the nodes in any order or all three reversed, matrices in either or neither; index lists of 3 over 4 points of which one does not exist; up to 3 bone entries and 3 expressions, 4 primitives of 2 meshes, each skippable; and whole avatars of both versions whose names, materials, clips, springs and constraints meet | 152,490 |
| `vrma_clip` | Does a clip's layer say what one version of the file says? | 17 contents of the file, replaced at any step; 3 bones, up to 3 expressions, one look-at, tracks of all three interpolations | 6,426 |
| `retarget_bake` | Is what a bake leaves this clip on this avatar, and nothing else touched? | 2 runs after one another over one disk; 55 command lines: 3 avatars and 3 clips under the options, each refusal, reports and outputs that meet an input, a link, a composed layer or each other; 3 stages a rewritten one may read as | 23,375 |
| `exec_rig` | Do the nine computations agree, and explain what they do not answer? | 28 stages, 3 times, 6 overrides, one request between edits | 4,095 |
| `export_late_refusal`, `reader_duplicate_bone`, `parallel_morph_weights` | disagreements, section 5 | as their siblings | - |

*Why these bounds*. Spring: three joints are the least with a joint strictly between two, a fork
and a chain, and a skipped joint, so each cursor, nesting and ownership mistake shows; the
two-spring rigs have both declaration orders. Resolver: a race needs two threads, staleness one
rewrite, and nesting two scopes; packages do not interact. GLB: a second chunk after JSON needs
three further words; 56 is -8 modulo 64, the one length that could hold the cursor still. Export:
the processes interact only through names, so two show every pair of writers. Import: three joints
as for springs; two skins, since a third repeats "already joined"; three names, the least with which
a numbered name meets a name that is numbered already. Clip: two tracks with keys of their own, on
both sides of each other's. Retarget: two runs, since a third meets a disk like the second's; clips
whose tracks start late, are blocked, and lie between the body's keys, and poses of two and of one
sample. execVrm: each stage states one thing wrong, since the first refusal on a path ends it.

The properties, by run:

- `spring_solve`: `HighestDeclaredRootOwns` (nested VRM 0.x roots, in either order, give a joint
  the highest root's parameters), `TailsFollowRotations` (reported tails are where the reported
  rotations put them, so no joint is skipped by the cursor), `HistoryIsReportedTail`,
  `AnimatedFramesAreSimulated` (a collider's or a centre's frame is not one a spring moves later in
  the same solve), `CentreHidesPlacement` (placing the model elsewhere changes nothing a centred
  spring does), `ResetIsAtRest`.
- `spring_copies`: `HistoryFinite`, `JointsMatchRig`, `ImplementsContract`.
- `package_scopes`: `ServedUnderItsName`, `ResolvedOpens` (in a private scope, a name that resolved
  opens, whatever happens to the file), `NeverStale`, `AuthoredResolves`.
- `glb_parse`: `AcceptsExactly`, `ViewsInside`, `Terminates`.
- `export_shared_directory`: `ImplementsContract`, `ContentNamesKeep` (a file under a content name
  is never changed), `ReplacesOnlyWhenAsked` (without `--overwrite`, what is lost was written by
  the other export while this one ran), `ReportIsInventory`.
- `vrm_import`, of the reader: `ParentsPrecedeChildren`, `JointsKeepTheirNode`,
  `CornersKeepTheirVertex`, `CornersFollowTheirNode` (a corner's joint is still its node's after the
  sort), `BindsNameTheirMesh`, `LossesAreReported`. Of the stage: `StageNamesWhatTheFileNames` (no
  prim over another, expressions reach the targets and slots their binds name, a joint token is its
  node's joint, whatever collides), `FrontIsTurnedOnce` (everything of a 0.x avatar is turned once
  and nothing of another, and joints rest where their nodes stand).
- `vrma_clip`: `ClipSaysWhatTheFileSays` (each expression its own prim, each track its own node's
  values although sampled at the keys of all, nothing where the file says nothing),
  `LayerIsOneVersion` (the layer changes only by a load that succeeds, to one version of the file).
- `retarget_bake`: `EyesHoldTheLastGaze` (an eye is at the last gaze given, and before the first
  where the body put it), `FaceIsArbitratedOnce` (weights suppressed once by what was reported,
  in whatever order, and summed), `OutputIsThisBake` (nothing of an earlier bake outlives the
  second), `OnlyNamedFilesAreWritten` (the report at the end, and the output, which is no input's
  root layer and where a layer is replaced only by the save a run returns 0 from).
- `exec_rig`: `RefusalsAreExplained` (a missing answer leads to a posted error that states what is
  wrong with the stage, or to an override), `OnlyADriverSeparatesThem` (without overrides the
  retarget, its diagnostics and its joint transforms answer together, for one reason).

*Fairness*. Only `GlbContainer` assumes any, `WF_glbVars(GlbNext)`: the caller waits for a function that
nothing blocks. Every other property is a safety property and needs none; that the export ends
depends on its child, and nothing in the code bounds it. *Deadlock* is checked for the resolver,
the clip loads, the computations and the bakes (which end in a step of their own once `MaxRuns`
are done); it is off where a parse, an import or an export returns, and for the solver's runs,
where the calls offered may all be stutters.

## 4. What is proved

By TLAPS, for every value of the constants that satisfies the named assumptions:

**Recursion.** What the proofs about recursive functions rest on: a set of natural numbers has a
least member (`LeastMember`), so an interval lies in each set that holds a number once it holds
those below (`StrongInduction`); a step that reads only the values below its point defines a
function (`RecursiveFunction`), and so does a value taken through a list of steps (`Iteration`).
`InOrderLists`: `InOrder` lists a finite set of numbers once each and ascending, by their ranks;
`EntriesAre`: the entries at some places of a list are exactly those that stand there;
`GreatestMember`: a loop's last hit is one. `DifferentNames`: unique names differ, by induction
along the list, since among one number more than there are names claimed one is free
(`FreeNameIsFree`); both importers' proofs rest on it.
They are stated over sets and functions, since no prover here can instantiate an operator.

**SpringBoneProofs.** For every set of rigs, poses, durations and solver objects, under
`CallersAssumption` (the values the C++ types can hold), `FloatMaxAssumption` and
`LeafLengthAssumption` (both bounds are natural numbers). `TypeCorrect`, `HistoryStaysFinite`,
`JointsAlwaysMatchRig` and `SolverImplementsContract` are about calls: `TypeOK` (initialized implies
configured) carries the others; `HistoryFinite` is inductive with it because `Step` commits nothing
when an integrated position overflowed, and `JointsMatchRig` because `Reset` and `Step` replace only
a joint's history and `Copy` takes rig and joints together. The refinement maps a solver's flags and
value to the contract's three phases.

The other six are about what a solve computes. Three inductive invariants bring them there:
`RigsHeld`, a solver only holds rigs its caller passed to `Configure`; `LastAnswer`, the last answer
stands beside the value it was computed by, since no other copy's call touches that value; and
`Rested`, what `Reset` left is at rest until the next call on it. Below them are lemmas about the
operators, by induction along the skeleton, whose parents precede their children. `Configure`'s
parameter index is the highest declared root above a joint, whatever the order of declaration
(`HighestDeclaredRootAlwaysOwns`). The walk through the skeleton visits each joint after its parent
and, when the joint is a solver's, takes that solver joint and no other, because both lists are in
skeleton order: this is the cursor's invariant, and `TailsAlwaysFollowRotations` and
`HistoryIsAlwaysReportedTail` are read off what a visit leaves. `AnimatedFramesAreAlwaysSimulated`
is that no joint above a collider or a centre is driven by then. `CentreAlwaysHidesPlacement` runs
two walks in step, one displaced by a rigid motion, and shows each visit commutes with it; it needs
that rigid motions compose, associate and cancel, the laws of `RigidLine`. `ResetIsAlwaysAtRest` is
the same kind of argument for a `Step` after a `Reset`: no inertia, a stiffness that pulls along the
bone, hence the same rotation.

**ContainerProofs, the resolver.** `ScopesCorrect` is the inductive invariant `ScopeInvariant`: `TypeOK`; a
cache that is not shared is on one thread's stack (`ScopesOwned`); a call works on the cache of its
thread's innermost scope, which does not have the package yet unless it is shared (`CallsInScope`);
granted names are in the index that granted them (`GrantsKept`); indexes in caches and in calls are
snapshots of a version no older than their scope or call (`CachesFresh`, `CallsFresh`). Ownership
is what makes a grant last: only another thread's insert into a shared cache can replace the index
that granted it. `ContentMatchesName`, `ResolvedNamesOpen`, `AnswersAreFresh` and
`AuthoredNamesResolve` follow from it, for any number of threads, packages, caches and rewrites.

**ContainerProofs, the parser.** `GlbInvariant`: the file is as `Files` says, the cursor is aligned and
inside, and both chunks lie before it. `ViewsStayInside` follows, for every width of `size_t`.
`ChunksAdvance`: a step that stays in the loop moves the cursor forward; it is the measure behind
`Terminates`, whose own proof needs fairness and is left to TLC. `ParsesExactly` needs a relation
between the parser and a format stated without one: up to the cursor the file is well formed
(`WellFormedTo`), and `sawJson`, `sawBin` and the two payloads are what those chunks say
(`PrefixInv`). `PrefixGrows` shows that a chunk that passes the tests makes such a prefix one chunk
longer, the new one being the only chunk of the format between the two cursors (its chunks are a
least set, so any set closed under what follows bounds them); `WellFormedGoesOn` that in a
well-formed file no test fails; `WholeIsWellFormed` that the prefix that ends with the file is all
of it.

**VrmReaderProofs.** `SkeletonInvariant`: the joint list and the map from nodes are inverse to each
other (`UnionInv`, `JoinedInv`), each placed joint hangs from the nearest joint above its node
(`PlacedInv`), joints not bound yet have all their matrices ahead (`BoundInv`), and what is sorted
is sorted (`OrderedInv`). `JointsTopological` and `JointsNotMixedUp` follow for every forest and
list of skins; `TypeCorrectness` adds that the indexes of bones and binds exist. `DocumentInv` adds
`LossInv`, the part about meshes and expressions: a mesh is of the node and the mesh its primitive
is of (`SourceInv`); an expression has exactly its entry's binds, on every mesh of the node they
ask for (`FansInv`); what each pass has met is in the document or warned of (`PassInv`).
`BindsOnTheirMeshes` follows from the first two, with `PrimitivesAssumption` (the file's primitives
are a sequence) besides the reader's, and `LossesHaveWarnings` from the third.

What a vertex is, is `CornersInv`: it needs that the list of used vertices has no repetition and
has exactly what the index list names (`UsedLists`, by induction along the index list), so that a
renumbered corner leads back to its vertex in each array cut down by it (`KeptVertices`); and that
the map from nodes to joints, by which the slots of a skin are read, still is the inverse of the
joint list after the sort, with the node of every slot in it (`SkinFacts`, `NamedInv`). Meshes are
read after the sort and never changed again, so an invariant of one `ReadPrimitive` stays one.
`CornersAlwaysKeepTheirVertex` and `CornersAlwaysFollowTheirNode` follow, for every index list, also
one that names vertices the file does not have, and every list of skins.

`ImportReads`: every step of a load is a step of the reader or leaves the reader's variables alone,
so each behaviour of `ImportSpec` is one of the reader's `Spec`. What is proved of the reader
therefore holds at every point of the load, up to the stage in the layer: `ImportSkeleton`,
`ImportTopological`, `ImportNotMixedUp`, `ImportTypeOK`, `ImportBinds`, `ImportLosses`,
`ImportKeepsVertices`, `ImportFollowsNodes`.

`FrontAlwaysTurnedOnce` is about the stage, under `SceneAssumption` as well (lists of the file are
lists). Two more invariants bring it there. `StageInv`: from the author's step on, the stage is the
value `Stage` of the document and of the scene read with it; nothing it reads changes any more.
`EntriesInv` says which entry of the file each joint, mesh, bone and expression of the document is
of. The rest is about that value. Unique names differ (`UniqueNames`), so what stands at a mesh's or a
blend shape's name is that mesh's or that target's own prim (`GeoOfStage`, `BlendShapesOfStage`) and
has its turn. A joint rests relative to its parent joint, and the nodes between the two are those
whose transforms its rest holds; by induction along the parents (`JointsRestInPlace`) the rests from
the root down multiply to what places the joint's node in the world, with the one half turn above
the root. `ClipsTurnOnce` is the same induction for the poses of a clip, whatever joints it has
tracks for. No mesh, rest or pose of an avatar that needs no turn has one.

`StageAlwaysNamesTheFile` is about the same value, under `SceneAssumption` and `SpelledAssumption`
(the file's lists are lists, its names lists of parts, a constraint stands at a node) and with
`NamesInv`: each joint was named by a skin, and expressions are read from an extension of a known
version only. A scope has as many prims as entries because its names differ (`NamesDiffer`,
`ScopeIsWhole`). A joint's path ends in a name no other joint has (`PathsDiffer`), so the token of a
node is the path of its joint and of no other (`TokensName`). What an expression reaches is taken
apart along the way the author goes: the fan of each bind over the meshes (`MorphBindsAre`), their
blend shapes' names and the targets of the relationship, which keeps each once (`TargetsHold`), then
back from a name to the primitive and the morph target it is of (`ShapesOfStage`); and for colours
from the entry to the first material of its name (`BoundIsNamed`) and from its place among the
targets back to that material (`ColoursAre`).

**VrmaClipProofs.** `LoadIsOfOneVersion`: at every step of a load its bytes are one version of the
file, its document is that version's and its text the document's. `LayerStaysOneVersion` follows,
for every set of contents and in every order of loads and replacements: only the transfer writes
the layer, and what it writes is such a text.

`ClipAlwaysSaysWhatTheFileSays` is about that text, under `NoneAssumption` and `FilesAssumption`:
nodes have numbers and are placed at numbers, what is declared is listed, and a whole channel has
ascending keys with a value to each. Two inductions carry it. `ExpressionsTaken`, along the
declarations: what is taken so far are entries that can be expressions, none a rival of another for
its name or its node, and each such entry is among them or has a rival before it. `DifferentNames`,
along what was taken: so the prim at a name is one expression's (`PrimsAre`). The tracks need
neither. The channels that drive an expression's weight, or the gaze, are those that move its node
(`WeightChannels`, `GazeChannels`), because no node has two claims; the last of them is its track;
the poses are at the keys of all accepted channels, one at each (`PosesAre`); and a track sampled at
one of its own keys, or beyond the first or last, holds that key's value (`NearestKeyIsRead`).

**MotionRetargetProofs.** For every disk, every set of command lines, clips and avatars and any
number of runs that satisfy `CommandLinesAssumption`, `FilesAssumption` (the attributes of a stage,
rewritten or not, have the types their schemas give them, a clip has finitely many keys and expression times, all at
whole ticks, and its library reader gives each channel once) and `WeightAssumption` (a weight has at
least one part, the NaN is no integer, `None` is no number).
`OnlyNamedFilesAreEverWritten`: three steps write (`TheStepsThatWrite`). `OpenOutput` does where it
checks, and creates only where there is no layer; what has to be remembered from its check to
`Save`'s write is that the options saved by are ones that passed it (`CheckPassed`); the report has
only the name it was given. It claims nothing for an input reached through a link or composed by
another, nor for one the report is aimed at.

`EveryOutputIsItsBake` rests on `RunInv`: a run is of the command line it started with (`Running`,
`Parsed`), what is on the disk has the places the command lines may name (`DiskHasPlaces`), the
times are the window's (`Sampled`), what was authored is the new root and no track of an earlier
bake (`Authored`), and a run that saved left that at its output until it reports over it (`Saved`).
The window comes from
ranks (`InOrderLists`).
`BakedEyesHoldTheLastGaze` adds `EyesInv`: what is carried from sample to sample is the last gaze
given so far. That is an induction along the samples (`Iteration` of `Recursion`), once for the
index of the gaze (`IsLast`) and once for the eyes it sets (`HoldsLast`).

`EveryFaceIsArbitratedOnce` compares what the resolver does, folds over lists in the order they
have, with a statement that knows no order. A fold of the community modules is a recursive function
on the parts of a list's places, chosen by its equation; `FoldOver` shows by induction on the size
of a part that a function with that equation exists, and `FoldRuns` that its value on the whole list
is the last of a run along the list. With those, `OverridesAreTheMost` reads the overrides off the
contributions, `AddMorphsAdds` what one list of binds adds to a shape, and `MergedSums` what all of
them do. On the other side `SumTakesAnyFirst` shows that the sum of the property is the same
whichever name is taken off first, so it can follow the resolver's order. What the resolver is given
has to be numbers: `RigIsRead`, `LookAtIsRead`, `ClipSounds`, `ResampleSounds` and `GazeSays` show it
of the avatar's rig and look-at, of the clip, of the clip resampled and of the gaze; `OverIsSample`
that the gaze's weights over the clip's still report no name twice. `FaceInv` carries these from
`OpenAvatar` to the faces.

**VrmExportProofs.** For any number of processes, any requests and any directory that
satisfy `RequestsAssumption` and `DisksAssumption`. `DirectoryInvariant` is the first
inductive invariant: content names are honest, and an export that was not told to overwrite
finds at its output, once it has looked, only what an export wrote meanwhile. It rests on
one lemma, `DirectoryWrites`: whatever step a process takes, it writes at its own output or
under the name of the content it writes. `SharedFilesKeep` and `OverwritesOnlyWhenAsked`
follow. `ExportInv` adds what the contract needs: a process has localized exactly a prefix
of its asset paths and holds the names of that prefix (`ProcessInv`); where it writes, each
of them is there, honest, and nobody's output (`FilesInv`); and every output in the
directory is whole without the other outputs (`Whole`), which is what lets one export
replace its output without changing what is seen at another's. Each action is shown to be
silent, an end, or a publication, and to leave the other processes alone (`Good`, `Apart`);
`ExportImplementsContract` maps the three to a stutter, `End` and `Publish`, and
`ReportsAreInventories` reads the report off `ProcessInv`.

**ExecRigProofs.** For every set of stages, times, overrides and vocabularies that satisfy
`StagesAssumption` (relationships and joints are lists, the humanoid is a prim, and no prim is its
own namespace ancestor) and `BonesAssumption` (the vocabulary names each bone once). `Evaluate` and
`Needed` are recursive functions on the network, so the first thing to show is that each node has
one answer. Every computation reads computations of a lower level only, except a binding, which
reads the binding above it in the namespace: so among any nodes there is one that reads none of
them (`Grounded`), any two solutions of the network agree, and the union of the solutions below a
node is one (`NetworkSolved`). What an answer is then can be read off the node's callback
(`Reads`), and what is asked for is closed under what it reads (`NeededClosed`).
`EveryRefusalIsExplained` follows by looking at each refusal that passes on another's: the node it
blames is among its inputs, and cannot be the one that is allowed to be silent, because an ancestor
is only ever read by a binding (`Explained`). The invariant has to carry the stage alone, since an
edit, a move in time or an override forgets the answers.

`OnlyADriverEverSeparates` needs in addition that a map that answers has no joint of two bones
(`MapIs`); that a pose that reached the skeleton, through however many ancestors, has the instant
that was asked for (`PosesAreNow`, again by `Grounded`); that a skeleton that answers has a list of
joints, so that the counts the joint transforms compare agree (`TargetJoints`, `JointsAnswer`); and
that the rig's list and what a pose adds have no entry in common (`RigReports`, `PoseReports`).

*Only model-checked*, and why:

- `Terminates` of `GlbContainer`: liveness, which needs `ENABLED`. `ChunksAdvance` proves the
  decrease it rests on.

Every safety invariant and every action property of the passing runs is proved. The provers cannot
instantiate the library's induction theorems, which take an operator as a parameter; where a
recursion is a function (the solver's walk, index compaction, the samples of a bake, unique names,
the claims of expressions, the folds of the resolver) the lemmas of `Recursion`, and those on folds,
replace them.

## 5. Where the code and its words differ

- `export_late_refusal`: with `--motion` and a loose output named `avatar_<hash>.usdc`, with the
  avatar layer's own hash, the export writes the textures and only then refuses its arguments
  (`tools/vrmExport/src/export/VrmExport.cpp:712`), against the comment at line 537 of the file.
- `reader_duplicate_bone`: a VRM 0.x bone's first entry claims its name even when it cannot be
  mapped, so the warning that says the first mapping is kept comes with no mapping
  (`plugins/usdVrmFileFormat/src/io/CgltfVrmDocumentReader.cpp:1680`,
  `plugins/usdVrmFileFormat/docs/DIAGNOSTICS.md:53`).
- `parallel_morph_weights`: the schema's contract has `vrm:morphTargetWeights` parallel to
  `vrm:morphTargets` (`plugins/vrmSchema/docs/SCHEMA_CONTRACT.md:413`), but two binds of one target
  make one target of the relationship and two weights
  (`plugins/usdVrmFileFormat/src/usd/UsdVrmAuthorer.cpp:653`); from there on each weight stands by
  another bind's target. The author's comment on colour binds at line 661 of that file says why a
  relationship cannot be paired by position, and colour binds have an index instead.

## 6. Plan

In order; what is built is in section 2. Left to model:

1. `vrmImaging`: fields resolved when they are asked for and edits that make them dirty; property:
   no edit of a field's inputs leaves it clean.
2. What of the reader is data so far: MToon parameters and textures, where one has a rule of its
   own.

Left to prove: nothing of what the runs check but `Terminates`.

### Not modelled

The shader networks (`MtlxRealization`, `PreviewRealization` and their tables): inputs written once
per material and read by renderers only, without state or a later reader in this repository.
`RequiredBones`: one list. `vrmSchema`: generated. `vrmSchemaSdk`, scripts and CI: build rules and
developers' checks outside the program. `cgltf`: vendored; the assumptions on it are in section 2.
The motion library and OpenUSD: external, modelled from how this code uses them. Trigonometry of
look-at beyond the octant. The authoring thread of the `.vrm` importer and OpenUSD's change block
meet in locks this repository does not show, so that the first never waits for the second is not
a property of any model here.
