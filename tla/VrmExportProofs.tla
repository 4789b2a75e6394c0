--------------------------- MODULE VrmExportProofs ---------------------------
(***************************************************************************)
(* vrm_export, proved for any number of processes, any requests and any    *)
(* directory in which the names of hashes are honest: what the exports do  *)
(* to one another's files, and that what is seen at the outputs follows    *)
(* ExportContract.  All writes to the directory go through one lemma       *)
(* (DirectoryWrites); the rest is what each process remembers.             *)
(***************************************************************************)
EXTENDS VrmExport, TLAPS

\* The steps of ExportVrm after its arguments were checked.
Exporting ==
    {"motion", "bake", "materialize", "localize", "avatar", "bind", "export", "package", "check"}

Shape ==
    /\ DOMAIN req = Jobs /\ DOMAIN pc = Jobs /\ DOMAIN exit = Jobs
    /\ DOMAIN layer = Jobs /\ DOMAIN localized = Jobs /\ DOMAIN written = Jobs
    /\ DOMAIN assets = Jobs /\ DOMAIN staged = Jobs
    /\ DOMAIN reported = Jobs /\ DOMAIN touched = Jobs

LEMMA InitShape == Init => Shape
  BY DEF Init, Shape

(***************************************************************************)
(* Every way a process returns ends it and leaves the directory alone.     *)
(***************************************************************************)
LEMMA ReturnEnds ==
  ASSUME Shape, NEW p \in Jobs, NEW code, Return(p, code)
  PROVE  /\ Shape'
         /\ pc' = [pc EXCEPT ![p] = "done"]
         /\ UNCHANGED <<req, reported, touched, disk>>
  BY DEF Return, Leave, Goto, Forget, Shape

(***************************************************************************)
(* What a step other than a process's return or death does to the steps    *)
(* and the directory.                                                      *)
(***************************************************************************)
IsHashName(name) == name[1] \in {"textures", "avatar"}

Writes(p) ==
    \E name, content :
        /\ pc[p] \in Exporting
        /\ disk' = Put(disk, name, content)
        /\ touched' = [touched EXCEPT ![p] = @ \cup {name}]
        /\ name \in Outputs \/ (IsHashName(name) /\ IsNamedFor(name, content))

LeavesDirectory == UNCHANGED <<disk, touched>>

Advances(p) ==
    /\ \A q \in Jobs \ {p} : pc'[q] = pc[q]
    /\ pc'[p] \in Exporting /\ pc[p] \notin Exporting =>
           /\ pc[p] = "arguments" /\ LeavesDirectory
           /\ req[p].output \in DOMAIN disk => req[p].overwrite

StepOf(p) ==
    /\ Shape' /\ req' = req
    /\ Advances(p)
    /\ Writes(p) \/ LeavesDirectory

LEMMA ReturnIsStep ==
  ASSUME Shape, NEW p \in Jobs, NEW code, Return(p, code)
  PROVE  StepOf(p)
<1>1. /\ Shape'
      /\ pc' = [pc EXCEPT ![p] = "done"]
      /\ UNCHANGED <<req, reported, touched, disk>>
  BY ReturnEnds
<1>2. pc'[p] = "done" /\ "done" \notin Exporting
  BY <1>1 DEF Shape, Exporting
<1>3. \A q \in Jobs \ {p} : pc'[q] = pc[q]
  BY <1>1 DEF Shape
<1> QED
  BY <1>1, <1>2, <1>3 DEF StepOf, Advances, LeavesDirectory

LEMMA MoveIsStep ==
  ASSUME Shape, NEW p \in Jobs, NEW step, Goto(p, step),
         step # "done", step \in Exporting => pc[p] \in Exporting,
         UNCHANGED <<req, exit, local, reported, touched, disk>>
  PROVE  StepOf(p)
<1>1. pc'[p] = step /\ Shape' /\ \A q \in Jobs \ {p} : pc'[q] = pc[q]
  BY DEF Goto, Shape, local
<1> QED
  BY <1>1 DEF StepOf, Advances, LeavesDirectory, Goto

LEMMA ParseIsStep == ASSUME Shape, NEW p \in Jobs, ParseOptions(p) PROVE StepOf(p)
<1>1. CASE \E code : Return(p, code)
  BY <1>1, ReturnIsStep
<1>2. CASE /\ Goto(p, "arguments")
           /\ UNCHANGED <<req, exit, local, reported, touched, disk>>
  <2>1. "arguments" # "done" /\ "arguments" \notin Exporting
    BY DEF Exporting
  <2> QED
    BY <1>2, <2>1, MoveIsStep DEF Shape
<1> QED
  BY <1>1, <1>2 DEF ParseOptions

LEMMA ArgumentsIsStep == ASSUME Shape, NEW p \in Jobs, CheckArguments(p) PROVE StepOf(p)
<1>1. CASE \E code : Return(p, code)
  BY <1>1, ReturnIsStep
<1>2. CASE /\ ~InvalidRequest(p)
           /\ Goto(p, IF req[p].motion = "clip" THEN "motion" ELSE "materialize")
           /\ UNCHANGED <<req, exit, local, reported, touched, disk>>
  <2>1. Shape' /\ pc'[p] # "done" /\ \A q \in Jobs \ {p} : pc'[q] = pc[q]
    BY <1>2 DEF Goto, Shape, local
  <2>2. req[p].output \in DOMAIN disk => req[p].overwrite
    BY <1>2 DEF InvalidRequest
  <2>3. pc[p] = "arguments"
    BY DEF CheckArguments
  <2> QED
    BY <1>2, <2>1, <2>2, <2>3 DEF StepOf, Advances, LeavesDirectory, Goto
<1> QED
  BY <1>1, <1>2 DEF CheckArguments

\* A step of an export that goes on, whatever it writes into its own variables.
LEMMA ExportingIsStep ==
  ASSUME Shape, Shape', NEW p \in Jobs, pc[p] \in Exporting,
         pc' = pc \/ \E step : Goto(p, step) /\ step # "done",
         req' = req,
         Writes(p) \/ LeavesDirectory
  PROVE  StepOf(p)
<1>1. CASE pc' = pc
  BY <1>1 DEF StepOf, Advances, Exporting
<1>2. CASE \E step : Goto(p, step) /\ step # "done"
  <2>1. pc'[p] # "done" /\ \A q \in Jobs \ {p} : pc'[q] = pc[q]
    BY <1>2 DEF Goto, Shape
  <2> QED
    BY <2>1 DEF StepOf, Advances
<1> QED
  BY <1>1, <1>2

(***************************************************************************)
(* WriteBytes: into the package's own directory, or into the shared one    *)
(* under a name made of the content.                                       *)
(***************************************************************************)
LEMMA WriteIsNamed ==
  ASSUME Shape, NEW p \in Jobs, NEW name, NEW content, pc[p] \in Exporting,
         IsHashName(name), IsNamedFor(name, content), Write(p, name, content)
  PROVE  /\ Writes(p) \/ LeavesDirectory
         /\ DOMAIN staged' = Jobs /\ DOMAIN touched' = Jobs
  BY DEF Write, Writes, LeavesDirectory, Shape

LEMMA MotionIsStep == ASSUME Shape, NEW p \in Jobs, OpenMotion(p) PROVE StepOf(p)
<1>1. CASE \E code : Return(p, code)
  BY <1>1, ReturnIsStep
<1>2. CASE /\ Goto(p, "bake")
           /\ UNCHANGED <<req, exit, local, reported, touched, disk>>
  <2>1. pc[p] \in Exporting
    BY DEF OpenMotion, Exporting
  <2> QED
    BY <1>2, <2>1, MoveIsStep
<1> QED
  BY <1>1, <1>2 DEF OpenMotion

LEMMA BakeIsStep == ASSUME Shape, NEW p \in Jobs, BakeMotion(p) PROVE StepOf(p)
<1>1. CASE \E code : Return(p, code)
  BY <1>1, ReturnIsStep
<1>2. CASE /\ Goto(p, "materialize")
           /\ UNCHANGED <<req, exit, local, reported, touched, disk>>
  <2>1. pc[p] \in Exporting
    BY DEF BakeMotion, Exporting
  <2> QED
    BY <1>2, <2>1, MoveIsStep DEF Shape
<1> QED
  BY <1>1, <1>2 DEF BakeMotion

LEMMA MaterializeIsStep == ASSUME Shape, NEW p \in Jobs, Materialize(p) PROVE StepOf(p)
<1>1. CASE \E code : Return(p, code)
  BY <1>1, ReturnIsStep
<1>2. CASE /\ Goto(p, "localize")
           /\ UNCHANGED <<req, exit, local, reported, touched, disk>>
  <2>1. pc[p] \in Exporting
    BY DEF Materialize, Exporting
  <2> QED
    BY <1>2, <2>1, MoveIsStep
<1> QED
  BY <1>1, <1>2 DEF Materialize

LEMMA VisitIsStep ==
  ASSUME Shape, NEW p \in Jobs,
         VisitEmpty(p) \/ VisitKnown(p) \/ VisitImage(p) \/ VisitFailing(p)
  PROVE  StepOf(p)
<1>1. pc[p] \in Exporting
  BY DEF VisitEmpty, VisitKnown, VisitImage, VisitFailing, Visiting, Exporting
<1>2. CASE VisitEmpty(p) \/ VisitKnown(p)
  <2>1. Shape'
    BY <1>2 DEF VisitEmpty, VisitKnown, VisitAs, Shape
  <2> QED
    BY <1>1, <1>2, <2>1, ExportingIsStep DEF VisitEmpty, VisitKnown, LeavesDirectory
<1>3. CASE VisitImage(p)
  <2> DEFINE asset == Paths(p)[Visited(p) + 1]
             name == LocalName(p, asset)
  <2>1. IsHashName(name) /\ IsNamedFor(name, Image(asset.bytes))
    BY DEF IsHashName, IsNamedFor, LocalName, Texture
  <2>2. /\ VisitAs(p, name)
        /\ localized' = [localized EXCEPT ![p] = Put(@, asset.path, name)]
        /\ assets' = [assets EXCEPT ![p] = @ \cup {name}]
        /\ written' = [written EXCEPT ![p] = @ \cup {name}]
        /\ UNCHANGED <<staged, touched, disk>> \/ Write(p, name, Image(asset.bytes))
        /\ UNCHANGED <<req, pc, exit, reported>>
    BY <1>3 DEF VisitImage
  <2> HIDE DEF name, asset
  <2>3. /\ Writes(p) \/ LeavesDirectory
        /\ DOMAIN staged' = Jobs /\ DOMAIN touched' = Jobs
    BY <1>1, <2>1, <2>2, WriteIsNamed DEF LeavesDirectory, Shape
  <2>4. Shape'
    BY <2>2, <2>3 DEF VisitAs, Shape
  <2> QED
    BY <1>1, <2>2, <2>3, <2>4, ExportingIsStep
<1>4. CASE VisitFailing(p)
  BY <1>4, ReturnIsStep DEF VisitFailing
<1> QED
  BY <1>2, <1>3, <1>4

LEMMA EndIsStep == ASSUME Shape, NEW p \in Jobs, EndLocalize(p) PROVE StepOf(p)
<1>1. pc[p] \in Exporting
  BY DEF EndLocalize, Exporting
<1>2. Shape'
  BY DEF EndLocalize, Goto, Shape, local
<1>3. (IF Separate(p) THEN "avatar" ELSE "export") # "done"
  OBVIOUS
<1> QED
  BY <1>1, <1>2, <1>3, ExportingIsStep DEF EndLocalize, LeavesDirectory

LEMMA AvatarIsStep == ASSUME Shape, NEW p \in Jobs, WriteAvatar(p) PROVE StepOf(p)
<1> DEFINE content == AvatarLayer(req[p].input.of, FALSE, layer[p])
           name == AvatarName(req[p].input.of, layer[p])
<1>1. pc[p] \in Exporting
  BY DEF WriteAvatar, Exporting
<1>2. CASE \E code : Return(p, code)
  BY <1>2, ReturnIsStep
<1>3. CASE /\ Write(p, name, content)
           /\ assets' = [assets EXCEPT ![p] = @ \cup {name}]
           /\ Goto(p, "bind")
           /\ UNCHANGED <<req, exit, layer, localized, written, reported>>
  <2>1. IsHashName(name) /\ IsNamedFor(name, content)
    BY DEF IsHashName, IsNamedFor, AvatarName
  <2> HIDE DEF name, content
  <2>2. /\ Writes(p) \/ LeavesDirectory
        /\ DOMAIN staged' = Jobs /\ DOMAIN touched' = Jobs
    BY <1>1, <1>3, <2>1, WriteIsNamed
  <2>3. Shape'
    BY <1>3, <2>2 DEF Goto, Shape
  <2>4. "bind" # "done"
    OBVIOUS
  <2> QED
    BY <1>1, <1>3, <2>2, <2>3, <2>4, ExportingIsStep
<1> QED
  BY <1>2, <1>3 DEF WriteAvatar

LEMMA BindIsStep == ASSUME Shape, NEW p \in Jobs, Bind(p) PROVE StepOf(p)
<1>1. CASE \E code : Return(p, code)
  BY <1>1, ReturnIsStep
<1>2. CASE /\ Goto(p, "export")
           /\ UNCHANGED <<req, exit, local, reported, touched, disk>>
  <2>1. pc[p] \in Exporting
    BY DEF Bind, Exporting
  <2> QED
    BY <1>2, <2>1, MoveIsStep DEF Shape
<1> QED
  BY <1>1, <1>2 DEF Bind

LEMMA PublishIsStep ==
  ASSUME Shape, NEW p \in Jobs, NEW content, pc[p] \in Exporting, Publish(p, content)
  PROVE  StepOf(p)
<1>1. Writes(p)
  BY DEF Publish, Writes, Outputs
<1>2. Shape'
  BY DEF Publish, Goto, Shape, local
<1>3. "check" # "done"
  OBVIOUS
<1> QED
  BY <1>1, <1>2, <1>3, ExportingIsStep DEF Publish

LEMMA LayerIsStep == ASSUME Shape, NEW p \in Jobs, ExportLayer(p) PROVE StepOf(p)
<1>1. pc[p] \in Exporting
  BY DEF ExportLayer, Exporting
<1>2. CASE \E code : Return(p, code)
  BY <1>2, ReturnIsStep
<1>3. CASE Publish(p, Root(p))
  BY <1>1, <1>3, PublishIsStep
<1>4. CASE /\ Goto(p, "package")
           /\ UNCHANGED <<req, exit, local, reported, touched, disk>>
  BY <1>1, <1>4, MoveIsStep DEF Shape
<1> QED
  BY <1>2, <1>3, <1>4 DEF ExportLayer

LEMMA PackageIsStep == ASSUME Shape, NEW p \in Jobs, CreatePackage(p) PROVE StepOf(p)
<1>1. pc[p] \in Exporting
  BY DEF CreatePackage, Exporting
<1> QED
  BY <1>1, ReturnIsStep, PublishIsStep DEF CreatePackage

LEMMA CheckIsStep == ASSUME Shape, NEW p \in Jobs, CheckOutput(p) PROVE StepOf(p)
<1>1. pc[p] \in Exporting
  BY DEF CheckOutput, Exporting
<1>2. CASE \E code : Return(p, code)
  BY <1>2, ReturnIsStep
<1>3. CASE /\ Goto(p, "report")
           /\ UNCHANGED <<req, exit, local, reported, touched, disk>>
  BY <1>1, <1>3, MoveIsStep DEF Shape
<1> QED
  BY <1>2, <1>3 DEF CheckOutput

LEMMA ReportIsStep == ASSUME Shape, NEW p \in Jobs, Report(p) PROVE StepOf(p)
<1>1. CASE \E code : Return(p, code)
  BY <1>1, ReturnIsStep
<1>2. CASE /\ Leave(p, Success)
           /\ reported' = [reported EXCEPT ![p] =
                              IF req[p].report THEN DependencyReport(p) ELSE {}]
           /\ UNCHANGED <<req, touched, disk>>
  <2>1. Shape'
    BY <1>2 DEF Leave, Goto, Forget, Shape
  <2>2. pc'[p] = "done" /\ \A q \in Jobs \ {p} : pc'[q] = pc[q]
    BY <1>2 DEF Leave, Goto, Shape
  <2>3. "done" \notin Exporting
    BY DEF Exporting
  <2> QED
    BY <1>2, <2>1, <2>2, <2>3 DEF StepOf, Advances, LeavesDirectory
<1> QED
  BY <1>1, <1>2 DEF Report

LEMMA CrashIsStep == ASSUME Shape, NEW p \in Jobs, Crash(p) PROVE StepOf(p)
<1>1. Shape' /\ pc'[p] = "crashed" /\ \A q \in Jobs \ {p} : pc'[q] = pc[q]
  BY DEF Crash, Goto, Forget, Shape
<1>2. "crashed" \notin Exporting /\ "crashed" # "done"
  BY DEF Exporting
<1> QED
  BY <1>1, <1>2 DEF Crash, StepOf, Advances, LeavesDirectory

(***************************************************************************)
(* Every step is a process's, and is of this kind.                         *)
(***************************************************************************)
ProcessNext(p) ==
    \/ ParseOptions(p) \/ CheckArguments(p)
    \/ OpenMotion(p) \/ BakeMotion(p) \/ Materialize(p)
    \/ VisitEmpty(p) \/ VisitKnown(p) \/ VisitImage(p) \/ VisitFailing(p)
    \/ EndLocalize(p) \/ WriteAvatar(p) \/ Bind(p)
    \/ ExportLayer(p) \/ CreatePackage(p) \/ CheckOutput(p) \/ Report(p)
    \/ Throw(p) \/ Crash(p)

LEMMA ProcessIsStep == ASSUME Shape, NEW p \in Jobs, ProcessNext(p) PROVE StepOf(p)
<1>1. CASE Throw(p)
  BY <1>1, ReturnIsStep DEF Throw
<1> QED
  BY <1>1, ParseIsStep, ArgumentsIsStep, MotionIsStep, BakeIsStep, MaterializeIsStep,
     VisitIsStep, EndIsStep, AvatarIsStep, BindIsStep, LayerIsStep, PackageIsStep,
     CheckIsStep, ReportIsStep, CrashIsStep DEF ProcessNext

LEMMA DirectoryWrites == Shape /\ Next => \E p \in Jobs : StepOf(p)
<1>1. Next => \E p \in Jobs : ProcessNext(p)
  BY DEF Next, ProcessNext
<1> QED
  BY <1>1, ProcessIsStep

-----------------------------------------------------------------------------
(* What follows for the directory *)

\* A file with the name of a hash is honest, unless an output has that name; and an export that was not told to overwrite, once it has looked,
\* finds at its output only what an export wrote.
DirectoryInv ==
    /\ Shape
    /\ \A n \in DOMAIN disk \ Outputs : IsNamedFor(n, disk[n])
    /\ \A p \in Jobs :
           pc[p] \in Exporting /\ ~req[p].overwrite /\ req[p].output \in DOMAIN disk =>
               \E q \in Jobs : req[p].output \in touched[q]

LEMMA InitDirectoryInv == Init => DirectoryInv
<1> SUFFICES ASSUME Init PROVE DirectoryInv
  OBVIOUS
<1>1. Shape
  BY InitShape
<1>2. \A p \in Jobs : pc[p] \notin Exporting
  BY DEF Init, Exporting
<1>3. \A n \in DOMAIN disk \ Outputs : IsNamedFor(n, disk[n])
  BY DisksAssumption DEF Init
<1> QED
  BY <1>1, <1>2, <1>3 DEF DirectoryInv

LEMMA OutputsStay == req' = req => Outputs' = Outputs
  BY DEF Outputs

LEMMA StepKeepsDirectoryInv ==
  ASSUME DirectoryInv, NEW p \in Jobs, StepOf(p)
  PROVE  DirectoryInv'
<1>1. Shape' /\ req' = req /\ Outputs' = Outputs
  BY OutputsStay DEF StepOf
<1>3. \A n \in DOMAIN disk' \ Outputs : IsNamedFor(n, disk'[n])
  <2>1. CASE LeavesDirectory
    BY <2>1 DEF LeavesDirectory, DirectoryInv
  <2>2. CASE Writes(p)
    BY <2>2 DEF Writes, Put, DirectoryInv
  <2> QED
    BY <2>1, <2>2 DEF StepOf
<1>4. \A q \in Jobs : touched[q] \subseteq touched'[q]
  BY DEF DirectoryInv, Shape, StepOf, Writes, LeavesDirectory
<1>5. \A n \in DOMAIN disk' : n \in DOMAIN disk \/ n \in touched'[p]
  <2>1. CASE Writes(p)
    <3>1. PICK name, content : /\ disk' = Put(disk, name, content)
                               /\ touched' = [touched EXCEPT ![p] = @ \cup {name}]
      BY <2>1 DEF Writes
    <3>2. name \in touched'[p]
      BY <3>1 DEF DirectoryInv, Shape
    <3>3. DOMAIN disk' = DOMAIN disk \cup {name}
      BY <3>1 DEF Put
    <3> QED
      BY <3>2, <3>3
  <2> QED
    BY <2>1 DEF StepOf, LeavesDirectory
<1>6. ASSUME NEW q \in Jobs, pc'[q] \in Exporting, ~req[q].overwrite,
             req[q].output \in DOMAIN disk'
      PROVE  \E r \in Jobs : req[q].output \in touched'[r]
  <2>1. CASE pc[q] \in Exporting
    BY <1>4, <1>5, <1>6, <2>1 DEF DirectoryInv
  <2>2. CASE pc[q] \notin Exporting
    <3>1. q = p
      BY <1>6, <2>2 DEF StepOf, Advances
    <3> QED
      BY <1>6, <2>2, <3>1 DEF StepOf, Advances, LeavesDirectory
  <2> QED
    BY <2>1, <2>2
<1> QED
  BY <1>1, <1>3, <1>6 DEF DirectoryInv

LEMMA NextKeepsDirectoryInv == DirectoryInv /\ [Next]_vars => DirectoryInv'
<1>1. ASSUME DirectoryInv, Next PROVE DirectoryInv'
  BY <1>1, DirectoryWrites, StepKeepsDirectoryInv DEF DirectoryInv
<1>2. ASSUME DirectoryInv, UNCHANGED vars PROVE DirectoryInv'
  BY <1>2 DEF DirectoryInv, Shape, vars, local, Outputs
<1> QED
  BY <1>1, <1>2

(***************************************************************************)
(* Whatever the exports do, return, fail or die: the directory's hash      *)
(* names stay honest, and an export that was not told to overwrite finds   *)
(* at its output, once it has looked, only what an export wrote meanwhile. *)
(***************************************************************************)
THEOREM DirectoryInvariant == Spec => []DirectoryInv
  BY InitDirectoryInv, NextKeepsDirectoryInv, PTL DEF Spec

\* What has no output's name keeps its content.
FilesKept == \A n \in DOMAIN disk \ Outputs : n \in DOMAIN disk' /\ disk'[n] = disk[n]

LEMMA StepKeepsFiles == ASSUME DirectoryInv, NEW p \in Jobs, StepOf(p) PROVE FilesKept
<1>1. CASE Writes(p)
  <2>1. PICK name, content : /\ disk' = Put(disk, name, content)
                             /\ \/ name \in Outputs
                                \/ IsHashName(name) /\ IsNamedFor(name, content)
    BY <1>1 DEF Writes
  <2>2. \A n \in DOMAIN disk : n \in DOMAIN disk' /\ (n # name => disk'[n] = disk[n])
    BY <2>1 DEF Put
  <2>3. name \in DOMAIN disk \ Outputs => disk'[name] = disk[name]
    BY <2>1 DEF DirectoryInv, Put, IsHashName, IsNamedFor
  <2> QED
    BY <2>2, <2>3 DEF FilesKept
<1> QED
  BY <1>1 DEF StepOf, LeavesDirectory, FilesKept

(***************************************************************************)
(* An export never changes a file that another's output depends on: what   *)
(* is written beside an output has the name of its content, and so is      *)
(* either new or already there, byte for byte.                             *)
(***************************************************************************)
THEOREM SharedFilesKeep == Spec => ContentNamesKeep
<1>1. DirectoryInv /\ [Next]_vars => [FilesKept]_vars
  BY DirectoryWrites, StepKeepsFiles DEF DirectoryInv
<1> QED
  BY <1>1, DirectoryInvariant, PTL DEF Spec, ContentNamesKeep, FilesKept

(***************************************************************************)
(* Without --overwrite, the one file an export may replace is one that     *)
(* another export wrote between its look at the output and its write.      *)
(***************************************************************************)
THEOREM OverwritesOnlyWhenAsked == Spec => ReplacesOnlyWhenAsked
<1> DEFINE Replaces(p) == /\ req[p].output \in touched'[p] \ touched[p]
                          /\ req[p].output \in DOMAIN disk
                          /\ ~req[p].overwrite
<1>1. ASSUME DirectoryInv, Next, NEW p \in Jobs, Replaces(p)
      PROVE  \E q \in Jobs \ {p} : req[p].output \in touched[q]
  <2>1. PICK q \in Jobs : StepOf(q)
    BY <1>1, DirectoryWrites DEF DirectoryInv
  <2>2. q = p /\ Writes(p)
    BY <1>1, <2>1 DEF StepOf, Writes, LeavesDirectory, DirectoryInv, Shape
  <2>3. pc[p] \in Exporting
    BY <2>2 DEF Writes
  <2> QED
    BY <1>1, <2>3 DEF DirectoryInv
<1>2. ASSUME DirectoryInv, Next
      PROVE  \A p \in Jobs : Replaces(p) => \E q \in Jobs \ {p} : req[p].output \in touched[q]
  BY <1>1, <1>2
<1> QED
  BY <1>2, DirectoryInvariant, PTL DEF Spec, ReplacesOnlyWhenAsked

-----------------------------------------------------------------------------
(* What a process has localized *)

Early == {"parse", "arguments", "motion", "bake", "materialize"}

Listed == {"bind", "export", "package", "check", "report"}

Ended == {"done", "crashed"}

LocalNames(r) == {Refs(r)[i] : i \in DOMAIN Refs(r)}

\* The paths visited have their names, and each path localized is one of them.
Localizing(p) ==
    /\ Len(layer[p]) \in 0 .. Len(Paths(p))
    /\ layer[p] = [i \in 1 .. Len(layer[p]) |-> Refs(req[p])[i]]
    /\ \A x \in DOMAIN localized[p] :
           \E i \in 1 .. Len(layer[p]) :
               /\ Paths(p)[i].path = x /\ Paths(p)[i].kind # "empty"
               /\ localized[p][x] = Refs(req[p])[i]
    /\ assets[p] = {Refs(req[p])[i] : i \in 1 .. Len(layer[p])} \ {<< >>}
    /\ written[p] \subseteq assets[p]

ProcessInv(p) ==
    /\ req[p] \in Requests
    /\ pc[p] \notin {"parse"} \cup Ended => req[p].command = "export"
    /\ pc[p] \in Early =>
           /\ layer[p] = << >> /\ localized[p] = << >>
           /\ written[p] = {} /\ assets[p] = {}
    /\ pc[p] = "localize" => Localizing(p)
    /\ pc[p] \in {"avatar", "bind", "export", "package"} => layer[p] = Refs(req[p])
    /\ pc[p] = "avatar" => Separate(p) /\ assets[p] = LocalNames(req[p]) \ {<< >>}
    /\ pc[p] \in Listed => assets[p] = Inventory(req[p])
    /\ pc[p] = "package" => Packaged(p)
    /\ pc[p] \in {"check", "report"} => req[p].output \in touched[p]
    /\ pc[p] \notin {"check", "report"} \cup Ended => req[p].output \notin touched[p]
    /\ pc[p] \notin Ended => exit[p] = Running /\ reported[p] = {}
    /\ reported[p] = IF exit[p] = Success /\ req[p].command = "export" /\ req[p].report
                     THEN Inventory(req[p]) ELSE {}

\* Where a process writes, and what it needs there: the files its root layer will name.
Target(p) == IF Packaged(p) THEN staged[p] ELSE disk

FilesInv(p) ==
    pc[p] \in {"localize", "avatar", "bind", "export", "package"} =>
        \A n \in assets[p] :
            n \in DOMAIN Target(p) \ Outputs /\ IsNamedFor(n, Target(p)[n])

\* A layer is whole among files: what it names is there, and is no output.
Whole(files, outputs, root) ==
    LET present(refs) ==
            \A i \in DOMAIN refs : refs[i] = << >> \/ refs[i] \in DOMAIN files \ outputs
    IN  /\ root.kind = "avatar" => present(root.refs)
        /\ root.kind = "binding" =>
               root.refs[1] \in DOMAIN files \ outputs /\ present(files[root.refs[1]].refs)

ExportInv ==
    /\ DirectoryInv
    /\ \A p \in Jobs : ProcessInv(p) /\ FilesInv(p)
    /\ \A o \in DOMAIN disk \cap Outputs : Whole(disk, Outputs, disk[o])

(***************************************************************************)
(* A path has one name, a name is no output, and an export's own names are *)
(* all it needs.                                                           *)
(***************************************************************************)
LEMMA PathsFacts ==
  ASSUME NEW r \in Requests
  PROVE  /\ Len(r.input.paths) \in Nat
         /\ DOMAIN r.input.paths = 1 .. Len(r.input.paths)
         /\ DOMAIN Refs(r) = 1 .. Len(r.input.paths)
<1>1. r.input.paths \in Seq({r.input.paths[i] : i \in DOMAIN r.input.paths})
  BY RequestsAssumption
<1> QED
  BY <1>1 DEF Refs

LEMMA SamePathSameName ==
  ASSUME NEW r \in Requests, NEW i \in DOMAIN r.input.paths, NEW j \in DOMAIN r.input.paths,
         r.input.paths[i].path = r.input.paths[j].path
  PROVE  Refs(r)[i] = Refs(r)[j]
<1>1. r.input.paths[i] = r.input.paths[j]
  BY RequestsAssumption
<1> QED
  BY <1>1 DEF Refs

LEMMA TextureIsNoOutput ==
  ASSUME \A p \in Jobs : req[p] \in Requests, NEW bytes, NEW ext
  PROVE  Texture(bytes, ext) \notin Outputs /\ Texture(bytes, ext) # << >>
<1>1. Texture(bytes, ext)[1] = "textures" /\ Texture(bytes, ext) # << >>
  BY DEF Texture
<1>2. \A p \in Jobs : req[p].output[1] # "textures"
  BY RequestsAssumption
<1> HIDE DEF Texture
<1> QED
  BY <1>1, <1>2 DEF Outputs

LEMMA OwnAvatarIsNoOutput ==
  ASSUME \A q \in Jobs : req[q] \in Requests, NEW p \in Jobs, Separate(p),
         OwnAvatarName(req[p]) # req[p].output
  PROVE  OwnAvatarName(req[p]) \notin Outputs
<1>1. ASSUME NEW q \in Jobs, OwnAvatarName(req[p]) = req[q].output PROVE FALSE
  <2>1. req[p].output = req[q].output
    BY <1>1, RequestsAssumption DEF Separate
  <2> QED
    BY <1>1, <2>1
<1> QED
  BY <1>1 DEF Outputs

LEMMA AppendName ==
  ASSUME NEW n \in Nat, NEW R, NEW s, s = [i \in 1 .. n |-> R[i]]
  PROVE  /\ Append(s, R[n + 1]) = [i \in 1 .. n + 1 |-> R[i]]
         /\ Len(Append(s, R[n + 1])) = n + 1
<1> DEFINE S == {R[i] : i \in 1 .. n + 1}
<1>1. s \in Seq(S) /\ Len(s) = n
  OBVIOUS
<1>2. R[n + 1] \in S
  OBVIOUS
<1> HIDE DEF S
<1>3. Append(s, R[n + 1]) \in Seq(S) /\ Len(Append(s, R[n + 1])) = n + 1
  BY <1>1, <1>2
<1>4. \A i \in 1 .. n + 1 : Append(s, R[n + 1])[i] = R[i]
  BY <1>1, <1>2
<1> QED
  BY <1>3, <1>4

-----------------------------------------------------------------------------
(* What a step leaves alone *)

\* Nothing of process q.
Apart(q) ==
    /\ req' = req /\ pc'[q] = pc[q] /\ exit'[q] = exit[q]
    /\ layer'[q] = layer[q] /\ localized'[q] = localized[q] /\ written'[q] = written[q]
    /\ assets'[q] = assets[q] /\ staged'[q] = staged[q]
    /\ reported'[q] = reported[q] /\ touched'[q] = touched[q]

LEMMA ReturnApart ==
  ASSUME Shape, NEW p \in Jobs, NEW code, Return(p, code), NEW q \in Jobs, q # p
  PROVE  Apart(q)
  BY DEF Return, Leave, Goto, Forget, Shape, Apart

LEMMA MoveApart ==
  ASSUME Shape, NEW p \in Jobs, NEW step, Goto(p, step),
         UNCHANGED <<req, exit, local, reported, touched, disk>>, NEW q \in Jobs, q # p
  PROVE  Apart(q)
  BY DEF Goto, Shape, Apart, local

LEMMA WriteApart ==
  ASSUME Shape, NEW p \in Jobs, NEW name, NEW content, Write(p, name, content),
         NEW q \in Jobs, q # p
  PROVE  staged'[q] = staged[q] /\ touched'[q] = touched[q]
  BY DEF Write, Shape

LEMMA PublishApart ==
  ASSUME Shape, NEW p \in Jobs, NEW content, Publish(p, content), NEW q \in Jobs, q # p
  PROVE  Apart(q)
  BY DEF Publish, Goto, Shape, Apart, local

LEMMA VisitApart ==
  ASSUME Shape, NEW p \in Jobs, VisitEmpty(p) \/ VisitKnown(p) \/ VisitImage(p),
         NEW q \in Jobs, q # p
  PROVE  Apart(q)
<1>1. CASE VisitEmpty(p) \/ VisitKnown(p)
  BY <1>1 DEF VisitEmpty, VisitKnown, VisitAs, Shape, Apart
<1>2. CASE VisitImage(p)
  <2> DEFINE asset == Paths(p)[Visited(p) + 1]
             name == LocalName(p, asset)
  <2>1. /\ VisitAs(p, name)
        /\ localized' = [localized EXCEPT ![p] = Put(@, asset.path, name)]
        /\ assets' = [assets EXCEPT ![p] = @ \cup {name}]
        /\ written' = [written EXCEPT ![p] = @ \cup {name}]
        /\ UNCHANGED <<staged, touched, disk>> \/ Write(p, name, Image(asset.bytes))
        /\ UNCHANGED <<req, pc, exit, reported>>
    BY <1>2 DEF VisitImage
  <2> HIDE DEF name, asset
  <2>2. staged'[q] = staged[q] /\ touched'[q] = touched[q]
    BY <2>1, WriteApart
  <2> QED
    BY <2>1, <2>2 DEF VisitAs, Shape, Apart
<1> QED
  BY <1>1, <1>2

LEMMA AvatarApart ==
  ASSUME Shape, NEW p \in Jobs, WriteAvatar(p), NEW q \in Jobs, q # p
  PROVE  Apart(q)
<1> DEFINE content == AvatarLayer(req[p].input.of, FALSE, layer[p])
           name == AvatarName(req[p].input.of, layer[p])
<1>1. CASE \E code : Return(p, code)
  BY <1>1, ReturnApart
<1>2. CASE /\ Write(p, name, content)
           /\ assets' = [assets EXCEPT ![p] = @ \cup {name}]
           /\ Goto(p, "bind")
           /\ UNCHANGED <<req, exit, layer, localized, written, reported>>
  <2> HIDE DEF name, content
  <2> QED
    BY <1>2, WriteApart DEF Goto, Shape, Apart
<1> QED
  BY <1>1, <1>2 DEF WriteAvatar

LEMMA OthersApart ==
  ASSUME Shape, NEW p \in Jobs, NEW q \in Jobs, q # p, ProcessNext(p)
  PROVE  Apart(q)
<1>1. CASE ParseOptions(p)
  BY <1>1, ReturnApart, MoveApart DEF ParseOptions
<1>2. CASE CheckArguments(p)
  BY <1>2, ReturnApart, MoveApart DEF CheckArguments
<1>3. CASE OpenMotion(p)
  BY <1>3, ReturnApart, MoveApart DEF OpenMotion
<1>4. CASE BakeMotion(p)
  BY <1>4, ReturnApart, MoveApart DEF BakeMotion
<1>5. CASE Materialize(p)
  BY <1>5, ReturnApart, MoveApart DEF Materialize
<1>6. CASE VisitFailing(p)
  BY <1>6, ReturnApart DEF VisitFailing
<1>7. CASE EndLocalize(p)
  BY <1>7, MoveApart DEF EndLocalize
<1>8. CASE Bind(p)
  BY <1>8, ReturnApart, MoveApart DEF Bind
<1>9. CASE ExportLayer(p)
  BY <1>9, ReturnApart, MoveApart, PublishApart DEF ExportLayer
<1>10. CASE CreatePackage(p)
  BY <1>10, ReturnApart, PublishApart DEF CreatePackage
<1>11. CASE CheckOutput(p)
  BY <1>11, ReturnApart, MoveApart DEF CheckOutput
<1>12. CASE Report(p)
  <2>1. CASE Leave(p, Success) /\ UNCHANGED <<req, touched, disk>> /\ reported'[q] = reported[q]
    BY <2>1 DEF Leave, Goto, Forget, Shape, Apart
  <2> QED
    BY <1>12, <2>1, ReturnApart DEF Report, Shape
<1>13. CASE Throw(p)
  BY <1>13, ReturnApart DEF Throw
<1>14. CASE Crash(p)
  BY <1>14 DEF Crash, Goto, Forget, Shape, Apart
<1> QED
  BY <1>1, <1>2, <1>3, <1>4, <1>5, <1>6, <1>7, <1>8, <1>9, <1>10, <1>11, <1>12, <1>13, <1>14,
     VisitApart, AvatarApart DEF ProcessNext

LEMMA ApartKeepsProcess ==
  ASSUME NEW q \in Jobs, ProcessInv(q), Apart(q)
  PROVE  ProcessInv(q)'
<1>1. (Paths(q))' = Paths(q) /\ (Packaged(q))' = Packaged(q) /\ (Separate(q))' = Separate(q)
  BY DEF Apart, Paths, Packaged, Separate
<1>2. Localizing(q) => (Localizing(q))'
  BY <1>1 DEF Apart, Localizing
<1>3. /\ req' = req /\ pc'[q] = pc[q] /\ exit'[q] = exit[q] /\ layer'[q] = layer[q]
      /\ localized'[q] = localized[q] /\ written'[q] = written[q] /\ assets'[q] = assets[q]
      /\ reported'[q] = reported[q] /\ touched'[q] = touched[q]
  BY DEF Apart
<1> QED
  BY <1>1, <1>2, <1>3 DEF ProcessInv

LEMMA ApartKeepsFiles ==
  ASSUME NEW q \in Jobs, FilesInv(q), Apart(q), FilesKept
  PROVE  FilesInv(q)'
<1>1. Outputs' = Outputs /\ (Packaged(q))' = Packaged(q)
  BY DEF Apart, Outputs, Packaged
<1> QED
  BY <1>1 DEF FilesInv, Apart, FilesKept, Target

LEMMA WholeStays ==
  ASSUME NEW f, NEW g, NEW outputs, NEW root, Whole(f, outputs, root),
         \A n \in DOMAIN f \ outputs : n \in DOMAIN g /\ g[n] = f[n]
  PROVE  Whole(g, outputs, root) /\ ShownLayer(g, root) = ShownLayer(f, root)
<1>1. ASSUME NEW refs, \A i \in DOMAIN refs : refs[i] = << >> \/ refs[i] \in DOMAIN f \ outputs
      PROVE  /\ \A i \in DOMAIN refs : refs[i] = << >> \/ refs[i] \in DOMAIN g \ outputs
             /\ Images(g, refs) = Images(f, refs)
  BY <1>1 DEF Images
<1>2. CASE root.kind = "avatar"
  BY <1>1, <1>2 DEF Whole, ShownLayer
<1>3. CASE root.kind = "binding"
  <2>1. root.refs[1] \in DOMAIN f \ outputs /\ root.refs[1] \in DOMAIN g
        /\ g[root.refs[1]] = f[root.refs[1]]
    BY <1>3 DEF Whole
  <2>2. Images(g, f[root.refs[1]].refs) = Images(f, f[root.refs[1]].refs)
    BY <1>1, <1>3 DEF Whole
  <2>3. Whole(g, outputs, root)
    BY <1>1, <1>3, <2>1 DEF Whole
  <2> QED
    BY <1>3, <2>1, <2>2, <2>3 DEF ShownLayer
<1>4. CASE root.kind \notin {"avatar", "binding"}
  BY <1>4 DEF Whole, ShownLayer
<1> QED
  BY <1>2, <1>3, <1>4

-----------------------------------------------------------------------------
(* What a step is to the contract: nothing, an end, or the one change of   *)
(* what is seen at the process's output.                                   *)

OutputsKept ==
    \A o \in Outputs : /\ o \in DOMAIN disk' <=> o \in DOMAIN disk
                       /\ o \in DOMAIN disk => disk'[o] = disk[o]

Silent(p) ==
    /\ OutputsKept /\ exit' = exit
    /\ req[p].output \in touched'[p] <=> req[p].output \in touched[p]

Ends(p) ==
    /\ UNCHANGED <<disk, touched>>
    /\ exit[p] = Running
    /\ \E code \in Contract!Codes(p) : exit' = [exit EXCEPT ![p] = code]

ShownIn(files, content) ==
    IF content.kind = "package" THEN ShownLayer(content.files, content.refs[1])
    ELSE ShownLayer(files, content)

Publishes(p) ==
    \E content :
        /\ pc[p] \in {"export", "package"} /\ Publish(p, content)
        /\ Whole(disk', Outputs, content)
        /\ ShownIn(disk', content) = Ordered(req[p]).artifact

Good(p) ==
    /\ (ProcessInv(p))' /\ (FilesInv(p))'
    /\ Silent(p) \/ Ends(p) \/ Publishes(p)

LEMMA CodesBefore ==
  ASSUME NEW p \in Jobs, ProcessInv(p), pc[p] \notin {"check", "report"} \cup Ended
  PROVE  /\ 1 .. 5 \subseteq Contract!Codes(p)
         /\ req[p].command = "help" => 0 \in Contract!Codes(p)
<1>1. p \notin {q \in Jobs : req[q].output \in touched[q]}
  BY DEF ProcessInv
<1>2. [q \in Jobs |-> Ordered(req[q])][p].help = (req[p].command = "help")
  BY DEF Ordered
<1>3. Contract!Codes(p) = {1, 2, 3, 4, 5} \cup {c \in {0} : req[p].command = "help"}
  BY <1>1, <1>2 DEF Contract!Codes
<1>4. 1 .. 5 = {1, 2, 3, 4, 5}
  OBVIOUS
<1> QED
  BY <1>3, <1>4

LEMMA CodesAfter ==
  ASSUME NEW p \in Jobs, ProcessInv(p), pc[p] \in {"check", "report"}
  PROVE  /\ {0, 1} \subseteq Contract!Codes(p)
         /\ req[p].check => 6 \in Contract!Codes(p)
         /\ req[p].report => 4 \in Contract!Codes(p)
  BY DEF ProcessInv, Contract!Codes, Ordered

LEMMA ReturnGood ==
  ASSUME ExportInv, NEW p \in Jobs, pc[p] \notin Ended, NEW code \in Contract!Codes(p),
         code = Success => req[p].command = "help", Return(p, code)
  PROVE  Good(p)
<1>1. Shape /\ ProcessInv(p) /\ UNCHANGED <<req, reported, touched, disk>>
  BY DEF ExportInv, DirectoryInv, Return
<1>2. pc'[p] = "done" /\ exit' = [exit EXCEPT ![p] = code] /\ exit'[p] = code
  BY <1>1 DEF Return, Leave, Goto, Shape
<1>3. exit[p] = Running /\ reported[p] = {}
  BY <1>1 DEF ProcessInv
<1>4. Ends(p)
  BY <1>1, <1>2, <1>3 DEF Ends
<1>5. (ProcessInv(p))'
  BY <1>1, <1>2, <1>3 DEF ProcessInv, Ended, Early, Listed
<1>6. (FilesInv(p))'
  BY <1>2 DEF FilesInv
<1> QED
  BY <1>4, <1>5, <1>6 DEF Good

\* A step that changes nothing but where the process is.
LEMMA MoveFrame ==
  ASSUME ExportInv, NEW p \in Jobs, NEW step, Goto(p, step),
         UNCHANGED <<req, exit, local, reported, touched, disk>>
  PROVE  /\ pc'[p] = step /\ Silent(p) /\ Outputs' = Outputs /\ Packaged(p)' = Packaged(p)
         /\ Separate(p)' = Separate(p)
         /\ UNCHANGED <<req, exit, layer, localized, written, assets, staged, reported, touched, disk>>
  BY DEF Goto, ExportInv, DirectoryInv, Shape, Silent, OutputsKept, Outputs, local, Packaged, Separate

LEMMA EarlyMoveGood ==
  ASSUME ExportInv, NEW p \in Jobs, NEW step, Goto(p, step), step \in Early \ {"parse"},
         pc[p] \in Early, req[p].command = "export",
         UNCHANGED <<req, exit, local, reported, touched, disk>>
  PROVE  Good(p)
<1>1. ProcessInv(p)
  BY DEF ExportInv
<1>2. (ProcessInv(p))'
  BY <1>1, MoveFrame DEF ProcessInv, Early, Listed, Ended
<1>3. (FilesInv(p))'
  BY MoveFrame DEF FilesInv, Early
<1> QED
  BY <1>2, <1>3, MoveFrame DEF Good

LEMMA ParseGood == ASSUME ExportInv, NEW p \in Jobs, ParseOptions(p) PROVE Good(p)
<1>1. ProcessInv(p) /\ pc[p] = "parse" /\ req[p] \in Requests
  BY DEF ExportInv, ProcessInv, ParseOptions
<1>2. req[p].command \in {"export", "help", "malformed"}
  BY <1>1, RequestsAssumption
<1>3. CASE req[p].command = "malformed"
  BY <1>1, <1>3, CodesBefore, ReturnGood DEF ParseOptions, Ended, InvalidArguments, Success
<1>4. CASE req[p].command = "help"
  BY <1>1, <1>4, CodesBefore, ReturnGood DEF ParseOptions, Ended, Success
<1>5. CASE req[p].command = "export"
  BY <1>1, <1>5, EarlyMoveGood DEF ParseOptions, Early
<1> QED
  BY <1>2, <1>3, <1>4, <1>5

\* Any failing return before the output is written.
LEMMA FailBeforeGood ==
  ASSUME ExportInv, NEW p \in Jobs, pc[p] \notin {"check", "report"} \cup Ended,
         NEW code \in 1 .. 5, Return(p, code)
  PROVE  Good(p)
<1>1. ProcessInv(p)
  BY DEF ExportInv
<1>2. code \in Contract!Codes(p) /\ code # Success
  BY <1>1, CodesBefore DEF Success
<1> QED
  BY <1>2, ReturnGood

LEMMA ArgumentsGood == ASSUME ExportInv, NEW p \in Jobs, CheckArguments(p) PROVE Good(p)
<1>1. pc[p] = "arguments" /\ pc[p] \notin {"check", "report"} \cup Ended
  BY DEF CheckArguments, Ended
<1>2. req[p].command = "export"
  BY <1>1 DEF ExportInv, ProcessInv
<1>3. CASE \E code \in 1 .. 5 : Return(p, code)
  BY <1>1, <1>3, FailBeforeGood
<1>4. CASE /\ Goto(p, IF req[p].motion = "clip" THEN "motion" ELSE "materialize")
           /\ UNCHANGED <<req, exit, local, reported, touched, disk>>
  BY <1>1, <1>2, <1>4, EarlyMoveGood DEF Early
<1> QED
  BY <1>3, <1>4 DEF CheckArguments, InvalidArguments, InputOpenFailure

LEMMA MotionGood == ASSUME ExportInv, NEW p \in Jobs, OpenMotion(p) PROVE Good(p)
<1>1. pc[p] = "motion" /\ pc[p] \notin {"check", "report"} \cup Ended
  BY DEF OpenMotion, Ended
<1>2. req[p].command = "export"
  BY <1>1 DEF ExportInv, ProcessInv
<1>3. CASE \E code \in 1 .. 5 : Return(p, code)
  BY <1>1, <1>3, FailBeforeGood
<1>4. CASE /\ Goto(p, "bake")
           /\ UNCHANGED <<req, exit, local, reported, touched, disk>>
  BY <1>1, <1>2, <1>4, EarlyMoveGood DEF Early
<1> QED
  BY <1>3, <1>4 DEF OpenMotion, ExportFailure, InputOpenFailure

LEMMA BakeGood == ASSUME ExportInv, NEW p \in Jobs, BakeMotion(p) PROVE Good(p)
<1>1. pc[p] = "bake" /\ pc[p] \notin {"check", "report"} \cup Ended
  BY DEF BakeMotion, Ended
<1>2. req[p].command = "export"
  BY <1>1 DEF ExportInv, ProcessInv
<1>3. CASE \E code \in 1 .. 5 : Return(p, code)
  BY <1>1, <1>3, FailBeforeGood
<1>4. CASE /\ Goto(p, "materialize")
           /\ UNCHANGED <<req, exit, local, reported, touched, disk>>
  BY <1>1, <1>2, <1>4, EarlyMoveGood DEF Early
<1> QED
  BY <1>3, <1>4 DEF BakeMotion, ExportFailure

LEMMA MaterializeGood == ASSUME ExportInv, NEW p \in Jobs, Materialize(p) PROVE Good(p)
<1>1. pc[p] = "materialize" /\ pc[p] \notin {"check", "report"} \cup Ended
  BY DEF Materialize, Ended
<1>2. ProcessInv(p)
  BY DEF ExportInv
<1>3. CASE \E code \in 1 .. 5 : Return(p, code)
  BY <1>1, <1>3, FailBeforeGood
<1>4. CASE /\ Goto(p, "localize")
           /\ UNCHANGED <<req, exit, local, reported, touched, disk>>
  <2>1. /\ layer[p] = << >> /\ localized[p] = << >> /\ written[p] = {} /\ assets[p] = {}
        /\ req[p] \in Requests
    BY <1>1, <1>2 DEF ProcessInv, Early
  <2>2. /\ pc'[p] = "localize"
        /\ UNCHANGED <<req, exit, layer, localized, written, assets, staged, reported, touched, disk>>
    BY <1>4, MoveFrame
  <2>3. Len(Paths(p)) \in Nat
    BY <2>1, PathsFacts DEF Paths
  <2>4. Localizing(p)
    BY <2>1, <2>3 DEF Localizing
  <2>5. (Localizing(p))'
    BY <2>2, <2>4 DEF Localizing, Paths
  <2>6. (ProcessInv(p))'
    BY <1>1, <1>2, <2>2, <2>5 DEF ProcessInv, Early, Listed, Ended
  <2>7. (FilesInv(p))'
    BY <2>1, <2>2 DEF FilesInv
  <2> QED
    BY <1>4, <2>6, <2>7, MoveFrame DEF Good
<1> QED
  BY <1>3, <1>4 DEF Materialize, ExportFailure

\* Facts about a process that visits a path.
LEMMA Visit ==
  ASSUME ExportInv, NEW p \in Jobs, Visiting(p)
  PROVE  /\ ProcessInv(p) /\ Localizing(p) /\ pc[p] = "localize" /\ Shape
         /\ req[p] \in Requests /\ \A q \in Jobs : req[q] \in Requests
         /\ Visited(p) \in Nat /\ Visited(p) + 1 \in DOMAIN Paths(p)
         /\ Visited(p) + 1 \in 0 .. Len(Paths(p))
         /\ 1 .. Visited(p) \subseteq DOMAIN Paths(p)
         /\ DOMAIN Refs(req[p]) = DOMAIN Paths(p)
<1>1. pc[p] = "localize" /\ Visited(p) < Len(Paths(p))
  BY DEF Visiting
<1>2. \A q \in Jobs : ProcessInv(q) /\ req[q] \in Requests
  BY DEF ExportInv, ProcessInv
<1>3. Localizing(p)
  BY <1>1, <1>2 DEF ProcessInv
<1>4. Len(Paths(p)) \in Nat /\ DOMAIN Paths(p) = 1 .. Len(Paths(p))
      /\ DOMAIN Refs(req[p]) = 1 .. Len(Paths(p))
  BY <1>2, PathsFacts DEF Paths
<1>5. Visited(p) \in 0 .. Len(Paths(p))
  BY <1>3 DEF Localizing, Visited
<1>6. Shape
  BY DEF ExportInv, DirectoryInv
<1> HIDE DEF Visited
<1> QED
  BY <1>1, <1>2, <1>3, <1>4, <1>5, <1>6

(***************************************************************************)
(* A visit that gives the path its name keeps what is known of the paths   *)
(* visited.                                                                *)
(***************************************************************************)
LEMMA NamedVisit ==
  ASSUME ExportInv, NEW p \in Jobs, Visiting(p), NEW name,
         name = Refs(req[p])[Visited(p) + 1], VisitAs(p, name),
         UNCHANGED <<req, pc, exit, reported>>,
         req[p].output \in touched'[p] <=> req[p].output \in touched[p],
         assets'[p] = assets[p] \cup ({name} \ {<< >>}), written'[p] \subseteq assets'[p],
         \A x \in DOMAIN localized'[p] :
            \/ x \in DOMAIN localized[p] /\ localized'[p][x] = localized[p][x]
            \/ /\ x = Paths(p)[Visited(p) + 1].path
               /\ Paths(p)[Visited(p) + 1].kind # "empty" /\ localized'[p][x] = name
  PROVE  (ProcessInv(p))'
<1> DEFINE n == Visited(p)
           R == Refs(req[p])
<1>1. /\ ProcessInv(p) /\ Localizing(p) /\ pc[p] = "localize" /\ Shape
      /\ n \in Nat /\ n + 1 \in 0 .. Len(Paths(p))
  BY Visit
<1>2. layer[p] = [i \in 1 .. n |-> R[i]]
  BY <1>1 DEF Localizing, Visited
<1>3. layer'[p] = Append(layer[p], R[n + 1])
  BY <1>1 DEF VisitAs, Shape
<1> HIDE DEF n, R
<1>4. layer'[p] = [i \in 1 .. n + 1 |-> R[i]] /\ Len(layer'[p]) = n + 1
  BY <1>1, <1>2, <1>3, AppendName
<1>5. 1 .. n + 1 = (1 .. n) \cup {n + 1}
  BY <1>1
<1>6. assets'[p] = {R[i] : i \in 1 .. n + 1} \ {<< >>}
  <2>1. assets[p] = {R[i] : i \in 1 .. n} \ {<< >>}
    BY <1>1 DEF Localizing, Visited, n, R
  <2>2. name = R[n + 1]
    BY DEF n, R
  <2> QED
    BY <1>5, <2>1, <2>2
<1>7. ASSUME NEW x \in DOMAIN localized'[p]
      PROVE  \E i \in 1 .. n + 1 :
                 /\ Paths(p)[i].path = x /\ Paths(p)[i].kind # "empty"
                 /\ localized'[p][x] = R[i]
  <2>1. CASE x \in DOMAIN localized[p] /\ localized'[p][x] = localized[p][x]
    <3>1. PICK i \in 1 .. n : /\ Paths(p)[i].path = x /\ Paths(p)[i].kind # "empty"
                              /\ localized[p][x] = R[i]
      BY <1>1, <2>1 DEF Localizing, Visited, n, R
    <3> QED
      BY <1>5, <2>1, <3>1
  <2>2. CASE /\ x = Paths(p)[n + 1].path /\ Paths(p)[n + 1].kind # "empty"
             /\ localized'[p][x] = name
    BY <1>5, <2>2 DEF n, R
  <2> QED
    BY <2>1, <2>2 DEF n
<1>8. (Localizing(p))'
  <2>1. (Paths(p))' = Paths(p) /\ (Refs(req[p]))' = R
    BY DEF Paths, R
  <2>2. Len(layer'[p]) \in 0 .. Len(Paths(p))
    BY <1>1, <1>4
  <2>3. layer'[p] = [i \in 1 .. Len(layer'[p]) |-> R[i]]
    BY <1>4
  <2>4. \A x \in DOMAIN localized'[p] :
           \E i \in 1 .. Len(layer'[p]) :
               /\ Paths(p)[i].path = x /\ Paths(p)[i].kind # "empty"
               /\ localized'[p][x] = R[i]
    BY <1>4, <1>7
  <2>5. assets'[p] = {R[i] : i \in 1 .. Len(layer'[p])} \ {<< >>}
    BY <1>4, <1>6
  <2> QED
    BY <2>1, <2>2, <2>3, <2>4, <2>5 DEF Localizing
<1> QED
  BY <1>1, <1>8 DEF ProcessInv, Early, Listed, Ended

LEMMA VisitEmptyGood == ASSUME ExportInv, NEW p \in Jobs, VisitEmpty(p) PROVE Good(p)
<1>1. /\ Visiting(p) /\ Paths(p)[Visited(p) + 1].kind = "empty" /\ VisitAs(p, << >>)
      /\ UNCHANGED <<req, pc, exit, localized, written, assets, staged,
                     reported, touched, disk>>
  BY DEF VisitEmpty
<1>2. << >> = Refs(req[p])[Visited(p) + 1]
  BY <1>1, Visit DEF Refs, Paths
<1>3. written[p] \subseteq assets[p]
  BY <1>1, Visit DEF Localizing
<1>4. assets'[p] = assets[p] \cup ({<< >>} \ {<< >>}) /\ written'[p] \subseteq assets'[p]
  BY <1>1, <1>3
<1>5. (ProcessInv(p))'
  BY <1>1, <1>2, <1>4, NamedVisit
<1>6. (FilesInv(p))'
  BY <1>1 DEF ExportInv, FilesInv, Target, Packaged, Outputs
<1>7. Silent(p)
  BY <1>1 DEF Silent, OutputsKept
<1> QED
  BY <1>5, <1>6, <1>7 DEF Good

LEMMA VisitKnownGood == ASSUME ExportInv, NEW p \in Jobs, VisitKnown(p) PROVE Good(p)
<1> DEFINE path == Paths(p)[Visited(p) + 1].path
           name == localized[p][path]
<1>1. /\ Visiting(p) /\ path \in DOMAIN localized[p] /\ VisitAs(p, name)
      /\ UNCHANGED <<req, pc, exit, localized, written, assets, staged,
                     reported, touched, disk>>
  BY DEF VisitKnown
<1>2. PICK i \in 1 .. Visited(p) : Paths(p)[i].path = path /\ name = Refs(req[p])[i]
                                /\ Paths(p)[i].kind # "empty"
  <2>1. Localizing(p)
    BY <1>1, Visit
  <2>2. path \in DOMAIN localized[p]
    BY <1>1
  <2> HIDE DEF path
  <2> QED
    BY <2>1, <2>2 DEF Localizing, Visited
<1>3. i \in DOMAIN Paths(p) /\ Visited(p) + 1 \in DOMAIN Paths(p)
  BY <1>1, <1>2, Visit
<1>4. name = Refs(req[p])[Visited(p) + 1]
  BY <1>1, <1>2, <1>3, Visit, SamePathSameName DEF Paths
<1>5. name # << >>
  BY <1>2, <1>3, TextureIsNoOutput, <1>1, Visit DEF Refs, Paths
<1>6. name \in assets[p] /\ written[p] \subseteq assets[p]
  <2>1. assets[p] = {Refs(req[p])[k] : k \in 1 .. Visited(p)} \ {<< >>}
        /\ written[p] \subseteq assets[p]
    BY <1>1, Visit DEF Localizing, Visited
  <2> QED
    BY <1>2, <1>5, <2>1
<1> HIDE DEF name, path
<1>7. assets'[p] = assets[p] \cup ({name} \ {<< >>}) /\ written'[p] \subseteq assets'[p]
  BY <1>1, <1>6
<1>8. (ProcessInv(p))'
  BY <1>1, <1>4, <1>7, NamedVisit
<1>9. (FilesInv(p))'
  BY <1>1 DEF ExportInv, FilesInv, Target, Packaged, Outputs
<1>10. Silent(p)
  BY <1>1 DEF Silent, OutputsKept
<1> QED
  BY <1>8, <1>9, <1>10 DEF Good

(***************************************************************************)
(* WriteBytes puts a file where the root layer will look for it, and takes *)
(* none away.                                                              *)
(***************************************************************************)
LEMMA WriteGood ==
  ASSUME ExportInv, NEW p \in Jobs, NEW name, NEW content,
         pc[p] \in {"localize", "avatar"}, Write(p, name, content),
         name \notin Outputs, IsNamedFor(name, content), req' = req, exit' = exit,
         assets'[p] \subseteq assets[p] \cup {name}
  PROVE  (FilesInv(p))' /\ Silent(p)
<1>1. Outputs' = Outputs /\ (Packaged(p))' = Packaged(p) /\ Shape /\ req[p].output \in Outputs
  BY DEF Outputs, Packaged, ExportInv, DirectoryInv
<1>2. (Target(p))' = Put(Target(p), name, content)
  BY <1>1 DEF Write, Target, Shape
<1>3. \A n \in assets[p] : n \in DOMAIN Target(p) \ Outputs /\ IsNamedFor(n, Target(p)[n])
  BY DEF ExportInv, FilesInv
<1>4. \A n \in assets'[p] :
         n \in DOMAIN Put(Target(p), name, content) \ Outputs
             /\ IsNamedFor(n, Put(Target(p), name, content)[n])
  BY <1>3 DEF Put
<1>5. (FilesInv(p))'
  BY <1>1, <1>2, <1>4 DEF FilesInv
<1>6. OutputsKept
  BY DEF Write, OutputsKept, Put
<1>7. req[p].output \in touched'[p] <=> req[p].output \in touched[p]
  BY <1>1 DEF Write, Shape
<1> QED
  BY <1>5, <1>6, <1>7 DEF Silent

LEMMA VisitImageGood == ASSUME ExportInv, NEW p \in Jobs, VisitImage(p) PROVE Good(p)
<1> DEFINE asset == Paths(p)[Visited(p) + 1]
           name == LocalName(p, asset)
<1>1. /\ Visiting(p) /\ asset.kind = "image" /\ VisitAs(p, name)
      /\ localized' = [localized EXCEPT ![p] = Put(@, asset.path, name)]
      /\ assets' = [assets EXCEPT ![p] = @ \cup {name}]
      /\ written' = [written EXCEPT ![p] = @ \cup {name}]
      /\ \/ name \in written[p] /\ UNCHANGED <<staged, touched, disk>>
         \/ Write(p, name, Image(asset.bytes))
      /\ UNCHANGED <<req, pc, exit, reported>>
  BY DEF VisitImage
<1>2. name = Texture(asset.bytes, asset.ext) /\ name \notin Outputs /\ name # << >>
  BY <1>1, Visit, TextureIsNoOutput DEF LocalName
<1>3. name = Refs(req[p])[Visited(p) + 1]
  BY <1>1, <1>2, Visit DEF Refs, Paths
<1>4. IsNamedFor(name, Image(asset.bytes))
  BY <1>2 DEF IsNamedFor, Texture
<1>5. written[p] \subseteq assets[p] /\ Shape /\ pc[p] = "localize"
  BY <1>1, Visit DEF Localizing
<1> HIDE DEF name
<1>6. assets'[p] = assets[p] \cup {name} /\ written'[p] = written[p] \cup {name}
      /\ localized'[p] = Put(localized[p], asset.path, name)
  BY <1>1, <1>5 DEF Shape
<1>7. (FilesInv(p))' /\ Silent(p)
  <2>1. CASE name \in written[p] /\ UNCHANGED <<staged, touched, disk>>
    <3>1. assets'[p] = assets[p]
      BY <1>5, <1>6, <2>1
    <3>2. Silent(p)
      BY <1>1, <2>1 DEF Silent, OutputsKept
    <3> QED
      BY <1>1, <2>1, <3>1, <3>2 DEF ExportInv, FilesInv, Target, Packaged, Outputs
  <2>2. CASE Write(p, name, Image(asset.bytes))
    BY <1>1, <1>2, <1>4, <1>5, <1>6, <2>2, WriteGood
  <2> QED
    BY <1>1, <2>1, <2>2
<1>8. \A x \in DOMAIN localized'[p] :
         \/ x \in DOMAIN localized[p] /\ localized'[p][x] = localized[p][x]
         \/ x = asset.path /\ asset.kind # "empty" /\ localized'[p][x] = name
  BY <1>1, <1>6 DEF Put
<1>9. (ProcessInv(p))'
  <2>1. assets'[p] = assets[p] \cup ({name} \ {<< >>}) /\ written'[p] \subseteq assets'[p]
    BY <1>2, <1>5, <1>6
  <2>2. req[p].output \in touched'[p] <=> req[p].output \in touched[p]
    BY <1>7 DEF Silent
  <2> QED
    BY <1>1, <1>3, <1>8, <2>1, <2>2, NamedVisit
<1> QED
  BY <1>7, <1>9 DEF Good

LEMMA VisitFailingGood == ASSUME ExportInv, NEW p \in Jobs, VisitFailing(p) PROVE Good(p)
<1>1. pc[p] = "localize" /\ Return(p, ExportFailure)
  BY DEF VisitFailing, Visiting
<1>2. ExportFailure \in 1 .. 5 /\ pc[p] \notin {"check", "report"} \cup Ended
  BY <1>1 DEF ExportFailure, Ended
<1> QED
  BY <1>1, <1>2, FailBeforeGood

LEMMA EndGood == ASSUME ExportInv, NEW p \in Jobs, EndLocalize(p) PROVE Good(p)
<1> DEFINE step == IF Separate(p) THEN "avatar" ELSE "export"
<1>1. /\ pc[p] = "localize" /\ Visited(p) = Len(Paths(p)) /\ Goto(p, step)
      /\ UNCHANGED <<req, exit, local, reported, touched, disk>>
  BY DEF EndLocalize
<1>2. ProcessInv(p) /\ Localizing(p) /\ req[p] \in Requests
  BY <1>1 DEF ExportInv, ProcessInv
<1>3. Len(Paths(p)) \in Nat /\ DOMAIN Refs(req[p]) = 1 .. Len(Paths(p))
  BY <1>2, PathsFacts DEF Paths
<1>4. layer[p] = [i \in DOMAIN Refs(req[p]) |-> Refs(req[p])[i]]
  BY <1>1, <1>2, <1>3 DEF Localizing, Visited
<1>5. layer[p] = Refs(req[p])
  BY <1>4 DEF Refs
<1>6. assets[p] = LocalNames(req[p]) \ {<< >>}
  BY <1>1, <1>2, <1>3 DEF Localizing, Visited, LocalNames
<1>7. ~Separate(p) => assets[p] = Inventory(req[p])
  BY <1>6 DEF Inventory, LocalNames, Separate
<1>8. /\ pc'[p] = step /\ Silent(p) /\ Outputs' = Outputs /\ (Packaged(p))' = Packaged(p)
      /\ (Separate(p))' = Separate(p)
      /\ UNCHANGED <<req, exit, layer, localized, written, assets, staged, reported, touched, disk>>
  BY <1>1, MoveFrame
<1>9. (ProcessInv(p))'
  BY <1>1, <1>2, <1>5, <1>6, <1>7, <1>8 DEF ProcessInv, Early, Listed, Ended
<1>10. (FilesInv(p))'
  BY <1>1, <1>8 DEF ExportInv, FilesInv, Target
<1> QED
  BY <1>8, <1>9, <1>10 DEF Good

LEMMA AvatarGood == ASSUME ExportInv, NEW p \in Jobs, WriteAvatar(p) PROVE Good(p)
<1> DEFINE content == AvatarLayer(req[p].input.of, FALSE, layer[p])
           name == AvatarName(req[p].input.of, layer[p])
<1>1. pc[p] = "avatar" /\ pc[p] \notin {"check", "report"} \cup Ended
  BY DEF WriteAvatar, Ended
<1>2. /\ ProcessInv(p) /\ Shape /\ layer[p] = Refs(req[p]) /\ Separate(p)
      /\ assets[p] = LocalNames(req[p]) \ {<< >>} /\ \A q \in Jobs : req[q] \in Requests
  BY <1>1 DEF ExportInv, DirectoryInv, ProcessInv
<1>3. CASE Return(p, ExportFailure) \/ Return(p, InvalidArguments)
  <2>1. ExportFailure \in 1 .. 5 /\ InvalidArguments \in 1 .. 5
    BY DEF ExportFailure, InvalidArguments
  <2> QED
    BY <1>1, <1>3, <2>1, FailBeforeGood
<1>4. CASE /\ name # req[p].output /\ Write(p, name, content)
           /\ assets' = [assets EXCEPT ![p] = @ \cup {name}]
           /\ Goto(p, "bind")
           /\ UNCHANGED <<req, exit, layer, localized, written, reported>>
  <2>1. name = OwnAvatarName(req[p])
    BY <1>2 DEF OwnAvatarName
  <2>2. name \notin Outputs
    BY <1>2, <1>4, <2>1, OwnAvatarIsNoOutput
  <2>3. IsNamedFor(name, content)
    BY DEF IsNamedFor, AvatarName
  <2> HIDE DEF name, content
  <2>4. assets'[p] = assets[p] \cup {name} /\ pc'[p] = "bind"
    BY <1>2, <1>4 DEF Shape, Goto
  <2>5. (FilesInv(p))' /\ Silent(p)
    BY <1>1, <1>4, <2>2, <2>3, <2>4, WriteGood
  <2>6. assets'[p] = Inventory(req[p])
    BY <1>2, <2>1, <2>4 DEF Inventory, LocalNames, Separate
  <2>7. req[p].output \in touched'[p] <=> req[p].output \in touched[p]
    BY <2>5 DEF Silent
  <2>8. (ProcessInv(p))'
    BY <1>1, <1>2, <1>4, <2>4, <2>6, <2>7 DEF ProcessInv, Early, Listed, Ended
  <2> QED
    BY <2>5, <2>8 DEF Good
<1> QED
  BY <1>3, <1>4 DEF WriteAvatar

LEMMA BindGood == ASSUME ExportInv, NEW p \in Jobs, Bind(p) PROVE Good(p)
<1>1. pc[p] = "bind" /\ pc[p] \notin {"check", "report"} \cup Ended
  BY DEF Bind, Ended
<1>2. ProcessInv(p)
  BY DEF ExportInv
<1>3. CASE \E code \in 1 .. 5 : Return(p, code)
  BY <1>1, <1>3, FailBeforeGood
<1>4. CASE /\ Goto(p, "export")
           /\ UNCHANGED <<req, exit, local, reported, touched, disk>>
  <2>1. /\ pc'[p] = "export" /\ Silent(p) /\ Outputs' = Outputs
        /\ (Packaged(p))' = Packaged(p)
        /\ UNCHANGED <<req, exit, layer, localized, written, assets, staged, reported, touched, disk>>
    BY <1>4, MoveFrame
  <2>2. (ProcessInv(p))'
    BY <1>1, <1>2, <2>1 DEF ProcessInv, Early, Listed, Ended
  <2>3. (FilesInv(p))'
    BY <1>1, <2>1 DEF ExportInv, FilesInv, Target
  <2> QED
    BY <2>1, <2>2, <2>3 DEF Good
<1> QED
  BY <1>3, <1>4 DEF Bind, ExportFailure

(***************************************************************************)
(* Among files that hold its inventory, the root layer shows what was      *)
(* asked for.                                                              *)
(***************************************************************************)
LEMMA RootShown ==
  ASSUME NEW p \in Jobs, req[p] \in Requests, layer[p] = Refs(req[p]), NEW files, NEW outputs,
         \A n \in Inventory(req[p]) :
             n \in DOMAIN files \ outputs /\ IsNamedFor(n, files[n])
  PROVE  /\ Whole(files, outputs, Root(p))
         /\ ShownLayer(files, Root(p)) = Ordered(req[p]).artifact
<1> DEFINE R == Refs(req[p])
           paths == req[p].input.paths
<1>1. \A i \in DOMAIN R : R[i] = << >> \/ R[i] \in DOMAIN files \ outputs
  BY DEF Inventory
<1>2. DOMAIN R = DOMAIN paths
  BY DEF Refs
<1>3. ASSUME NEW i \in DOMAIN paths
      PROVE  paths[i].bytes = IF R[i] = << >> THEN "none"
                              ELSE IF R[i] \in DOMAIN files THEN files[R[i]].of ELSE "missing"
  <2>1. CASE paths[i].kind = "empty"
    BY <1>3, <2>1, RequestsAssumption DEF Refs
  <2>2. CASE paths[i].kind # "empty"
    <3>1. R[i] = Texture(paths[i].bytes, paths[i].ext)
      BY <1>3, <2>2 DEF Refs
    <3>2. R[i] # << >> /\ R[i][1] = "textures" /\ R[i][2] = paths[i].bytes
      BY <3>1 DEF Texture
    <3> HIDE DEF R
    <3>3. R[i] \in DOMAIN files /\ IsNamedFor(R[i], files[R[i]])
      BY <1>2, <1>3, <3>2 DEF Inventory, R
    <3>4. files[R[i]].of = paths[i].bytes
      BY <3>2, <3>3 DEF IsNamedFor, Image, Content
    <3> QED
      BY <3>2, <3>3, <3>4
  <2> QED
    BY <2>1, <2>2
<1> HIDE DEF R, paths
<1>4. Images(files, R) = [i \in DOMAIN paths |-> paths[i].bytes]
  BY <1>2, <1>3 DEF Images
<1>5. Ordered(req[p]).artifact =
          Artifact(req[p].input.of, IF req[p].motion = "clip" THEN req[p].input.of ELSE "none",
                   [i \in DOMAIN paths |-> paths[i].bytes])
  BY DEF Ordered, paths
<1>6. CASE ~Separate(p)
  <2> DEFINE root == AvatarLayer(req[p].input.of, req[p].motion = "clip", R)
  <2>1. Root(p) = root
    BY <1>6 DEF Root, R
  <2>2. /\ root.kind = "avatar" /\ root.refs = R /\ root.of = req[p].input.of
        /\ root.motion = (req[p].motion = "clip")
    BY DEF AvatarLayer, Content
  <2> HIDE DEF root
  <2>3. ShownLayer(files, root) = Artifact(root.of, Clip(root), Images(files, root.refs))
    BY <2>2 DEF ShownLayer
  <2>4. Clip(root) = IF req[p].motion = "clip" THEN req[p].input.of ELSE "none"
    BY <2>2 DEF Clip
  <2>5. Whole(files, outputs, root)
    BY <1>1, <2>2 DEF Whole, R
  <2> QED
    BY <1>4, <1>5, <2>1, <2>2, <2>3, <2>4, <2>5
<1>7. CASE Separate(p)
  <2> DEFINE name == OwnAvatarName(req[p])
             root == BindingLayer(req[p].input.of, <<name>>)
  <2>1. Root(p) = root
    BY <1>7 DEF Root, OwnAvatarName
  <2>2. /\ root.kind = "binding" /\ root.refs[1] = name /\ root.of = req[p].input.of
        /\ root.motion = TRUE
    BY DEF BindingLayer, Content
  <2>3. name \in DOMAIN files \ outputs /\ IsNamedFor(name, files[name])
    BY <1>7 DEF Inventory, Separate
  <2>4. files[name] = AvatarLayer(req[p].input.of, FALSE, R)
    BY <2>3 DEF IsNamedFor, OwnAvatarName, AvatarName, R
  <2>5. files[name].of = req[p].input.of /\ files[name].refs = R
    BY <2>4 DEF AvatarLayer, Content
  <2> HIDE DEF root, name
  <2>6. ShownLayer(files, root) =
            Artifact(files[name].of, Clip(root), Images(files, files[name].refs))
    BY <2>2, <2>3 DEF ShownLayer
  <2>7. Clip(root) = req[p].input.of /\ req[p].motion = "clip"
    BY <1>7, <2>2 DEF Clip, Separate, IsSeparate
  <2>8. Whole(files, outputs, root)
    BY <1>1, <2>2, <2>3, <2>5 DEF Whole, R
  <2> QED
    BY <1>4, <1>5, <2>1, <2>5, <2>6, <2>7, <2>8
<1> QED
  BY <1>6, <1>7

LEMMA PublishGood ==
  ASSUME ExportInv, NEW p \in Jobs, NEW content, Publish(p, content),
         \/ pc[p] = "export" /\ ~Packaged(p) /\ content = Root(p)
         \/ pc[p] = "package" /\ content = Package(Root(p), staged[p])
  PROVE  Good(p)
<1>1. /\ Shape /\ ProcessInv(p) /\ req[p] \in Requests /\ layer[p] = Refs(req[p])
      /\ assets[p] = Inventory(req[p]) /\ req[p].output \in Outputs
  BY DEF ExportInv, DirectoryInv, ProcessInv, Listed, Outputs
<1>2. \A n \in Inventory(req[p]) :
         n \in DOMAIN Target(p) \ Outputs /\ IsNamedFor(n, Target(p)[n])
  BY <1>1 DEF ExportInv, FilesInv
<1>3. /\ disk' = Put(disk, req[p].output, content)
      /\ touched' = [touched EXCEPT ![p] = @ \cup {req[p].output}]
      /\ Goto(p, "check") /\ UNCHANGED <<req, exit, local, reported>>
  BY DEF Publish
<1>4. Whole(disk', Outputs, content) /\ ShownIn(disk', content) = Ordered(req[p]).artifact
  <2>1. CASE pc[p] = "export" /\ ~Packaged(p) /\ content = Root(p)
    <3>1. Target(p) = disk
      BY <2>1 DEF Target
    <3>2. \A n \in Inventory(req[p]) : n \in DOMAIN disk' \ Outputs /\ IsNamedFor(n, disk'[n])
      BY <1>1, <1>2, <1>3, <3>1 DEF Put
    <3>3. Root(p).kind # "package"
      BY DEF Root, BindingLayer, AvatarLayer, Content
    <3> QED
      BY <1>1, <2>1, <3>2, <3>3, RootShown DEF ShownIn
  <2>2. CASE pc[p] = "package" /\ content = Package(Root(p), staged[p])
    <3>1. /\ content.kind = "package" /\ content.files = staged[p]
          /\ content.refs[1] = Root(p)
      BY <2>2 DEF Package, Content
    <3>2. Target(p) = staged[p]
      BY <1>1, <2>2 DEF ProcessInv, Target
    <3>3. ShownLayer(staged[p], Root(p)) = Ordered(req[p]).artifact
      BY <1>1, <1>2, <3>2, RootShown
    <3> QED
      BY <3>1, <3>3 DEF ShownIn, Whole
  <2> QED
    BY <2>1, <2>2
<1>5. Publishes(p)
  BY <1>4 DEF Publishes
<1>6. /\ pc'[p] = "check" /\ req[p].output \in touched'[p]
      /\ UNCHANGED <<req, exit, layer, localized, written, assets, staged, reported>>
  BY <1>1, <1>3 DEF Goto, Shape, local
<1>7. (ProcessInv(p))'
  BY <1>1, <1>6 DEF ProcessInv, Early, Listed, Ended
<1>8. (FilesInv(p))'
  BY <1>6 DEF FilesInv
<1> QED
  BY <1>5, <1>7, <1>8 DEF Good

LEMMA LayerGood == ASSUME ExportInv, NEW p \in Jobs, ExportLayer(p) PROVE Good(p)
<1>1. pc[p] = "export" /\ pc[p] \notin {"check", "report"} \cup Ended
  BY DEF ExportLayer, Ended
<1>2. ProcessInv(p)
  BY DEF ExportInv
<1>3. CASE Return(p, ExportFailure)
  <2>1. ExportFailure \in 1 .. 5
    BY DEF ExportFailure
  <2> QED
    BY <1>1, <1>3, <2>1, FailBeforeGood
<1>4. CASE ~Packaged(p) /\ Publish(p, Root(p))
  BY <1>1, <1>4, PublishGood
<1>5. CASE /\ Packaged(p) /\ Goto(p, "package")
           /\ UNCHANGED <<req, exit, local, reported, touched, disk>>
  <2>1. /\ pc'[p] = "package" /\ Silent(p) /\ Outputs' = Outputs
        /\ (Packaged(p))' = Packaged(p)
        /\ UNCHANGED <<req, exit, layer, localized, written, assets, staged, reported, touched, disk>>
    BY <1>5, MoveFrame
  <2>2. (ProcessInv(p))'
    BY <1>1, <1>2, <1>5, <2>1 DEF ProcessInv, Early, Listed, Ended
  <2>3. (FilesInv(p))'
    BY <1>1, <2>1 DEF ExportInv, FilesInv, Target
  <2> QED
    BY <2>1, <2>2, <2>3 DEF Good
<1> QED
  BY <1>3, <1>4, <1>5 DEF ExportLayer

LEMMA PackageGood == ASSUME ExportInv, NEW p \in Jobs, CreatePackage(p) PROVE Good(p)
<1>1. pc[p] = "package" /\ pc[p] \notin {"check", "report"} \cup Ended
  BY DEF CreatePackage, Ended
<1>2. CASE Return(p, PackagingFailure)
  <2>1. PackagingFailure \in 1 .. 5
    BY DEF PackagingFailure
  <2> QED
    BY <1>1, <1>2, <2>1, FailBeforeGood
<1>3. CASE Publish(p, Package(Root(p), staged[p]))
  BY <1>1, <1>3, PublishGood
<1> QED
  BY <1>2, <1>3 DEF CreatePackage

LEMMA CheckGood == ASSUME ExportInv, NEW p \in Jobs, CheckOutput(p) PROVE Good(p)
<1>1. pc[p] = "check" /\ pc[p] \notin Ended
  BY DEF CheckOutput, Ended
<1>2. ProcessInv(p)
  BY DEF ExportInv
<1>3. CASE req[p].check /\ Return(p, ValidationFailure)
  <2>1. ValidationFailure \in Contract!Codes(p) /\ ValidationFailure # Success
    BY <1>1, <1>2, <1>3, CodesAfter DEF ValidationFailure, Success
  <2> QED
    BY <1>1, <1>3, <2>1, ReturnGood
<1>4. CASE /\ Goto(p, "report")
           /\ UNCHANGED <<req, exit, local, reported, touched, disk>>
  <2>1. /\ pc'[p] = "report" /\ Silent(p)
        /\ UNCHANGED <<req, exit, layer, localized, written, assets, staged, reported, touched, disk>>
    BY <1>4, MoveFrame
  <2>2. (ProcessInv(p))'
    BY <1>1, <1>2, <2>1 DEF ProcessInv, Early, Listed, Ended
  <2>3. (FilesInv(p))'
    BY <2>1 DEF FilesInv
  <2> QED
    BY <2>1, <2>2, <2>3 DEF Good
<1> QED
  BY <1>3, <1>4 DEF CheckOutput

LEMMA ReportGood == ASSUME ExportInv, NEW p \in Jobs, Report(p) PROVE Good(p)
<1>1. pc[p] = "report" /\ pc[p] \notin Ended
  BY DEF Report, Ended
<1>2. /\ ProcessInv(p) /\ Shape /\ req[p].command = "export" /\ exit[p] = Running
      /\ assets[p] = Inventory(req[p])
  BY <1>1 DEF ExportInv, DirectoryInv, ProcessInv, Listed, Ended
<1>3. CASE req[p].report /\ Return(p, ExportFailure)
  <2>1. ExportFailure \in Contract!Codes(p) /\ ExportFailure # Success
    BY <1>1, <1>2, <1>3, CodesAfter DEF ExportFailure, Success
  <2> QED
    BY <1>1, <1>3, <2>1, ReturnGood
<1>4. CASE /\ Leave(p, Success)
           /\ reported' = [reported EXCEPT ![p] =
                              IF req[p].report THEN DependencyReport(p) ELSE {}]
           /\ UNCHANGED <<req, touched, disk>>
  <2>1. /\ pc'[p] = "done" /\ exit' = [exit EXCEPT ![p] = Success] /\ exit'[p] = Success
        /\ reported'[p] = IF req[p].report THEN Inventory(req[p]) ELSE {}
    BY <1>2, <1>4 DEF Leave, Goto, Shape, DependencyReport
  <2>2. Success \in Contract!Codes(p)
    BY <1>1, <1>2, CodesAfter DEF Success
  <2>3. Ends(p)
    BY <1>2, <1>4, <2>1, <2>2 DEF Ends
  <2>4. (ProcessInv(p))'
    BY <1>2, <1>4, <2>1 DEF ProcessInv, Early, Listed, Ended
  <2>5. (FilesInv(p))'
    BY <2>1 DEF FilesInv
  <2> QED
    BY <2>3, <2>4, <2>5 DEF Good
<1> QED
  BY <1>3, <1>4 DEF Report

LEMMA ThrowGood == ASSUME ExportInv, NEW p \in Jobs, Throw(p) PROVE Good(p)
<1>1. pc[p] \notin Ended /\ ProcessInv(p) /\ Return(p, UnexpectedFailure)
  BY DEF ExportInv, Throw, Ended
<1>2. UnexpectedFailure \in Contract!Codes(p) /\ UnexpectedFailure # Success
  <2>1. CASE pc[p] \in {"check", "report"}
    BY <1>1, <2>1, CodesAfter DEF UnexpectedFailure, Success
  <2>2. CASE pc[p] \notin {"check", "report"}
    BY <1>1, <2>2, CodesBefore DEF UnexpectedFailure, Success
  <2> QED
    BY <2>1, <2>2
<1> QED
  BY <1>1, <1>2, ReturnGood

LEMMA CrashGood == ASSUME ExportInv, NEW p \in Jobs, Crash(p) PROVE Good(p)
<1>1. Shape /\ ProcessInv(p) /\ UNCHANGED <<req, exit, reported, touched, disk>>
  BY DEF ExportInv, DirectoryInv, Crash
<1>2. pc'[p] = "crashed"
  BY <1>1 DEF Crash, Goto, Shape
<1>3. (ProcessInv(p))'
  BY <1>1, <1>2 DEF ProcessInv, Early, Listed, Ended
<1>4. (FilesInv(p))'
  BY <1>2 DEF FilesInv
<1>5. Silent(p)
  BY <1>1 DEF Silent, OutputsKept
<1> QED
  BY <1>3, <1>4, <1>5 DEF Good

-----------------------------------------------------------------------------
(* The invariant *)

LEMMA InitExportInv == Init => ExportInv
<1> SUFFICES ASSUME Init PROVE ExportInv
  OBVIOUS
<1>1. DirectoryInv
  BY InitDirectoryInv
<1>2. \A p \in Jobs : req[p] \in Requests
  BY DEF Init
<1>3. ASSUME NEW p \in Jobs PROVE ProcessInv(p) /\ FilesInv(p)
  <2>1. /\ pc[p] = "parse" /\ exit[p] = Running /\ layer[p] = << >> /\ localized[p] = << >>
        /\ written[p] = {} /\ assets[p] = {} /\ reported[p] = {} /\ touched[p] = {}
    BY DEF Init
  <2> QED
    BY <1>2, <2>1 DEF ProcessInv, FilesInv, Early, Listed, Ended, Running, Success
<1>4. ASSUME NEW o \in DOMAIN disk \cap Outputs PROVE Whole(disk, Outputs, disk[o])
  <2>1. disk \in Disks
    BY DEF Init
  <2>2. Outputs \subseteq RequestOutputs /\ \A n \in Outputs : n[1] # "textures"
    BY <1>2, RequestsAssumption DEF Outputs, RequestOutputs
  <2>3. ASSUME NEW n \in DOMAIN disk, disk[n].kind = "avatar", NEW i \in DOMAIN disk[n].refs
        PROVE  disk[n].refs[i] = << >> \/ disk[n].refs[i] \in DOMAIN disk \ Outputs
    BY <2>1, <2>2, <2>3, DisksAssumption
  <2>4. ASSUME disk[o].kind = "binding"
        PROVE  /\ disk[o].refs[1] \in DOMAIN disk \ Outputs
               /\ disk[disk[o].refs[1]].kind = "avatar"
    BY <2>1, <2>2, <2>4, DisksAssumption
  <2> QED
    BY <2>3, <2>4 DEF Whole
<1> QED
  BY <1>1, <1>3, <1>4 DEF ExportInv

LEMMA ProcessIsGood == ASSUME ExportInv, NEW p \in Jobs, ProcessNext(p) PROVE Good(p)
  BY ParseGood, ArgumentsGood, MotionGood, BakeGood, MaterializeGood, VisitEmptyGood,
     VisitKnownGood, VisitImageGood, VisitFailingGood, EndGood, AvatarGood, BindGood,
     LayerGood, PackageGood, CheckGood, ReportGood, ThrowGood, CrashGood DEF ProcessNext

\* A step is good for the process that takes it, and keeps every other and every shared file.
StepIsGood(p) ==
    /\ Good(p) /\ req' = req /\ FilesKept /\ Shape
    /\ \A q \in Jobs \ {p} : Apart(q)

LEMMA NextGood == ExportInv /\ Next => \E p \in Jobs : StepIsGood(p)
<1> SUFFICES ASSUME ExportInv, NEW p \in Jobs, ProcessNext(p) PROVE StepIsGood(p)
  BY DEF Next, ProcessNext
<1>1. Shape /\ DirectoryInv
  BY DEF ExportInv, DirectoryInv
<1>2. StepOf(p) /\ FilesKept
  BY <1>1, ProcessIsStep, StepKeepsFiles
<1>3. \A q \in Jobs \ {p} : Apart(q)
  BY <1>1, OthersApart
<1> QED
  BY <1>1, <1>2, <1>3, ProcessIsGood DEF StepIsGood, StepOf

LEMMA OutputStays ==
  ASSUME ExportInv, FilesKept, NEW o \in DOMAIN disk \cap Outputs
  PROVE  /\ Whole(disk', Outputs, disk[o])
         /\ ShownIn(disk', disk[o]) = ShownIn(disk, disk[o])
<1>1. Whole(disk, Outputs, disk[o])
  BY DEF ExportInv
<1>2. \A n \in DOMAIN disk \ Outputs : n \in DOMAIN disk' /\ disk'[n] = disk[n]
  BY DEF FilesKept
<1> DEFINE f == disk
           g == disk'
           root == disk[o]
<1>3. Whole(f, Outputs, root) /\ \A n \in DOMAIN f \ Outputs : n \in DOMAIN g /\ g[n] = f[n]
  BY <1>1, <1>2
<1> HIDE DEF f, g, root
<1>4. Whole(g, Outputs, root) /\ ShownLayer(g, root) = ShownLayer(f, root)
  BY <1>3, WholeStays
<1> USE DEF f, g, root
<1> QED
  BY <1>4 DEF ShownIn

\* The outputs after a step: the one it wrote, and the others as they were.
LEMMA PublishedOutputs ==
  ASSUME NEW p \in Jobs, NEW content, Publish(p, content), NEW o \in Outputs
  PROVE  /\ req[p].output \in DOMAIN disk' /\ disk'[req[p].output] = content
         /\ o # req[p].output => /\ o \in DOMAIN disk' <=> o \in DOMAIN disk
                                 /\ o \in DOMAIN disk => disk'[o] = disk[o]
  BY DEF Publish, Put

LEMMA OutputsStayWhole ==
  ASSUME ExportInv, NEW p \in Jobs, StepIsGood(p), NEW o \in DOMAIN disk' \cap Outputs
  PROVE  Whole(disk', Outputs, disk'[o])
<1>1. CASE Silent(p) \/ Ends(p)
  <2>1. o \in DOMAIN disk /\ disk'[o] = disk[o]
    BY <1>1 DEF Silent, Ends, OutputsKept
  <2> QED
    BY <2>1, OutputStays DEF StepIsGood
<1>2. CASE Publishes(p)
  <2>1. PICK content : Publish(p, content) /\ Whole(disk', Outputs, content)
    BY <1>2 DEF Publishes
  <2>2. CASE o = req[p].output
    BY <2>1, <2>2, PublishedOutputs
  <2>3. CASE o # req[p].output
    <3>1. o \in DOMAIN disk /\ disk'[o] = disk[o]
      BY <2>1, <2>3, PublishedOutputs
    <3> QED
      BY <3>1, OutputStays DEF StepIsGood
  <2> QED
    BY <2>2, <2>3
<1> QED
  BY <1>1, <1>2 DEF StepIsGood, Good

LEMMA NextKeepsExportInv == ExportInv /\ [Next]_vars => ExportInv'
<1>1. ASSUME ExportInv, Next PROVE ExportInv'
  <2>1. PICK p \in Jobs : StepIsGood(p)
    BY <1>1, NextGood
  <2>2. DirectoryInv'
    BY <1>1, NextKeepsDirectoryInv DEF ExportInv
  <2>3. ASSUME NEW q \in Jobs PROVE (ProcessInv(q))' /\ (FilesInv(q))'
    <3>1. CASE q = p
      BY <2>1, <3>1 DEF StepIsGood, Good
    <3>2. CASE q # p
      BY <1>1, <2>1, <3>2, ApartKeepsProcess, ApartKeepsFiles DEF StepIsGood, ExportInv
    <3> QED
      BY <3>1, <3>2
  <2>4. Outputs' = Outputs
    BY <2>1, OutputsStay DEF StepIsGood
  <2>5. \A o \in DOMAIN disk' \cap Outputs : Whole(disk', Outputs, disk'[o])
    BY <1>1, <2>1, OutputsStayWhole
  <2> QED
    BY <2>2, <2>3, <2>4, <2>5 DEF ExportInv
<1>2. ASSUME ExportInv, UNCHANGED vars PROVE ExportInv'
  <2>1. DirectoryInv'
    BY <1>2, NextKeepsDirectoryInv DEF ExportInv
  <2>2. FilesKept /\ Outputs' = Outputs /\ disk' = disk /\ \A q \in Jobs : Apart(q)
    BY <1>2 DEF vars, local, FilesKept, Outputs, Apart
  <2>3. ASSUME NEW q \in Jobs PROVE (ProcessInv(q))' /\ (FilesInv(q))'
    BY <1>2, <2>2, ApartKeepsProcess, ApartKeepsFiles DEF ExportInv
  <2>4. \A o \in DOMAIN disk' \cap Outputs : Whole(disk', Outputs, disk'[o])
    BY <1>2, <2>2 DEF ExportInv
  <2> QED
    BY <2>1, <2>2, <2>3, <2>4 DEF ExportInv
<1> QED
  BY <1>1, <1>2

LEMMA ExportInvariant == Spec => []ExportInv
  BY InitExportInv, NextKeepsExportInv, PTL DEF Spec

(***************************************************************************)
(* --dependency-report prints every file the output depends on and no      *)
(* other, also when another export had already written some of them; an    *)
(* export that failed prints none.                                         *)
(***************************************************************************)
THEOREM ReportsAreInventories == Spec => []ReportIsInventory
<1>1. ExportInv => ReportIsInventory
  BY DEF ExportInv, ProcessInv, ReportIsInventory
<1> QED
  BY <1>1, ExportInvariant, PTL

-----------------------------------------------------------------------------
(* The contract *)

orders == [p \in Jobs |-> Ordered(req[p])]

published == {p \in Jobs : req[p].output \in touched[p]}

LEMMA InitRefines == Init => Contract!Init
  BY DEF Init, Contract!Init, Running

\* What is seen, file by file.
LEMMA SeenAs ==
  /\ Seen = [o \in Outputs |-> IF o \in DOMAIN disk THEN ShownIn(disk, disk[o]) ELSE Nothing]
  /\ Seen' = [o \in Outputs' |->
                 IF o \in DOMAIN disk' THEN ShownIn(disk', disk'[o]) ELSE Nothing]
  BY DEF Seen, Shown, ShownIn

LEMMA SeenStays ==
  ASSUME ExportInv, NEW p \in Jobs, StepIsGood(p), OutputsKept
  PROVE  Seen' = Seen
<1>1. Outputs' = Outputs
  BY OutputsStay DEF StepIsGood
<1>2. ASSUME NEW o \in Outputs
      PROVE  (IF o \in DOMAIN disk' THEN ShownIn(disk', disk'[o]) ELSE Nothing)
                 = IF o \in DOMAIN disk THEN ShownIn(disk, disk[o]) ELSE Nothing
  BY OutputStays DEF StepIsGood, OutputsKept
<1> QED
  BY <1>1, <1>2, SeenAs

LEMMA SeenChanges ==
  ASSUME ExportInv, NEW p \in Jobs, StepIsGood(p), Publishes(p)
  PROVE  Seen' = [Seen EXCEPT ![req[p].output] = Ordered(req[p]).artifact]
<1>1. Outputs' = Outputs
  BY OutputsStay DEF StepIsGood
<1>2. PICK content : Publish(p, content) /\ ShownIn(disk', content) = Ordered(req[p]).artifact
  BY DEF Publishes
<1> DEFINE new(o) == IF o \in DOMAIN disk' THEN ShownIn(disk', disk'[o]) ELSE Nothing
           old(o) == IF o \in DOMAIN disk THEN ShownIn(disk, disk[o]) ELSE Nothing
<1>3. ASSUME NEW o \in Outputs, o # req[p].output PROVE new(o) = old(o)
  BY <1>2, <1>3, PublishedOutputs, OutputStays DEF StepIsGood
<1>4. req[p].output \in Outputs
  BY DEF Outputs
<1>5. new(req[p].output) = Ordered(req[p]).artifact
  BY <1>2, <1>4, PublishedOutputs
<1>6. Seen = [o \in Outputs |-> old(o)] /\ Seen' = [o \in Outputs |-> new(o)]
  BY <1>1, SeenAs
<1> HIDE DEF new, old
<1> QED
  BY <1>3, <1>4, <1>5, <1>6

LEMMA OrdersStay == ASSUME NEW p \in Jobs, StepIsGood(p) PROVE orders' = orders
  BY DEF StepIsGood, orders, Ordered

LEMMA PublishedAfter ==
  ASSUME NEW p \in Jobs, StepIsGood(p)
  PROVE  /\ (req[p].output \in touched'[p] <=> req[p].output \in touched[p]) =>
                published' = published
         /\ req[p].output \in touched'[p] => published' = published \cup {p}
  BY DEF StepIsGood, published, Apart

LEMMA SilentRefines ==
  ASSUME ExportInv, NEW p \in Jobs, StepIsGood(p), Silent(p)
  PROVE  UNCHANGED <<orders, Seen, published, exit>>
  BY SeenStays, OrdersStay, PublishedAfter DEF Silent

LEMMA EndRefines ==
  ASSUME ExportInv, NEW p \in Jobs, StepIsGood(p), Ends(p)
  PROVE  Contract!End(p)
<1>1. Seen' = Seen
  BY SeenStays DEF Ends, OutputsKept
<1>2. orders' = orders /\ published' = published
  BY OrdersStay, PublishedAfter DEF Ends
<1> QED
  BY <1>1, <1>2 DEF Ends, Contract!End, Contract!Running, Running, orders, published

LEMMA PublishRefines ==
  ASSUME ExportInv, NEW p \in Jobs, StepIsGood(p), Publishes(p)
  PROVE  Contract!Publish(p)
<1>1. PICK content : pc[p] \in {"export", "package"} /\ Publish(p, content)
  BY DEF Publishes
<1>2. exit[p] = Running /\ req[p].output \notin touched[p]
  BY <1>1 DEF ExportInv, ProcessInv, Ended
<1>3. exit' = exit /\ req[p].output \in touched'[p]
  BY <1>1 DEF Publish, StepIsGood, Shape
<1>4. Seen' = [Seen EXCEPT ![req[p].output] = Ordered(req[p]).artifact]
  BY SeenChanges
<1>5. orders' = orders /\ published' = published \cup {p}
  BY <1>3, OrdersStay, PublishedAfter
<1>6. orders[p] = Ordered(req[p]) /\ orders[p].output = req[p].output
  BY DEF orders, Ordered
<1>7. p \notin published
  BY <1>2 DEF published
<1> QED
  BY <1>2, <1>3, <1>4, <1>5, <1>6, <1>7
     DEF Contract!Publish, Contract!Running, Running, orders, published

(***************************************************************************)
(* Spec => Contract!Spec.  Whichever exports share the directory, fail or  *)
(* are killed, a reader of an output sees the old artifact or the one that *)
(* was asked for, whole, and an exit code says whether it was written.     *)
(***************************************************************************)
THEOREM ExportImplementsContract == Spec => ImplementsContract
<1>1. ASSUME ExportInv, Next PROVE Contract!Next \/ UNCHANGED <<orders, Seen, published, exit>>
  <2>1. PICK p \in Jobs : StepIsGood(p)
    BY <1>1, NextGood
  <2> QED
    BY <1>1, <2>1, SilentRefines, EndRefines, PublishRefines
       DEF StepIsGood, Good, Contract!Next
<1>2. ASSUME UNCHANGED vars PROVE UNCHANGED <<orders, Seen, published, exit>>
  BY <1>2, SeenAs DEF vars, orders, Ordered, published, Outputs
<1>3. ExportInv /\ [Next]_vars => [Contract!Next]_<<orders, Seen, published, exit>>
  BY <1>1, <1>2
<1> QED
  BY <1>3, InitRefines, ExportInvariant, PTL
     DEF Spec, ImplementsContract, Contract!Spec, Contract!vars, orders, published
=============================================================================
