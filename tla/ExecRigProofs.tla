---------------------------- MODULE ExecRigProofs ----------------------------
(***************************************************************************)
(* What the computations of a rig promise on every stage, whatever a       *)
(* driver overrides: the network is well-founded, so each node has one     *)
(* answer, and the answers hang together as their reports say.             *)
(***************************************************************************)
EXTENDS ExecRig, Recursion

\* A stage the assumption knows.
LEMMA StageIs ==
    ASSUME stage \in Stages
    PROVE  /\ Humanoid.path \in DOMAIN stage.prims
           /\ stage.prims[Humanoid.path].type = "humanoid"
           /\ \A targets \in {Humanoid.skeleton, Humanoid.sourceSkeleton} :
                 targets \in Seq(Range(targets))
           /\ \A p \in DOMAIN stage.prims : stage.prims[p].type \in {"skeleton", "binding"} =>
                 /\ stage.prims[p].ancestor # None =>
                       /\ stage.prims[p].ancestor \in DOMAIN stage.prims
                       /\ stage.prims[stage.prims[p].ancestor].type = "binding"
                 /\ stage.prims[p].animationSource \in Seq(Range(stage.prims[p].animationSource))
           /\ \A p \in DOMAIN stage.prims :
                 stage.prims[p].type = "skeleton" /\ stage.prims[p].joints # None =>
                     stage.prims[p].joints \in Seq(Range(stage.prims[p].joints))
           /\ \A ps \in SUBSET {p \in DOMAIN stage.prims : stage.prims[p].type = "binding"} :
                 ps # {} => \E p \in ps : stage.prims[p].ancestor \notin ps
  BY StagesAssumption DEF Humanoid

\* A node is a computation that its prim's schema provides.
LEMMA NodesAre ==
    /\ \A c, p : <<c, p>> \in Nodes <=>
          p \in DOMAIN stage.prims /\ c \in Provided(stage.prims[p].type)
    /\ \A n \in Nodes : n = <<n[1], n[2]>>
  <1>1. ASSUME NEW n \in Nodes
        PROVE  n = <<n[1], n[2]>> /\ n[2] \in DOMAIN stage.prims
                   /\ n[1] \in Provided(stage.prims[n[2]].type)
    <2>1. PICK p \in DOMAIN stage.prims :
              n \in {<<c, p>> : c \in Provided(stage.prims[p].type)}
      BY DEF Nodes
    <2>2. PICK c \in Provided(stage.prims[p].type) : n = <<c, p>>
      BY <2>1
    <2> QED
      BY <2>2
  <1>2. ASSUME NEW p \in DOMAIN stage.prims, NEW c \in Provided(stage.prims[p].type)
        PROVE  <<c, p>> \in Nodes
    BY DEF Nodes
  <1>3. ASSUME NEW c, NEW p, <<c, p>> \in Nodes
        PROVE  p \in DOMAIN stage.prims /\ c \in Provided(stage.prims[p].type)
    BY <1>1, <1>3
  <1> QED
    BY <1>1, <1>2, <1>3

\* Which schema provides which computation.
LEMMA ProvidedBy ==
    ASSUME NEW type
    PROVE  /\ "vrm.computeTargetSkeleton" \in Provided(type) <=> type = "skeleton"
           /\ "vrm.computeBoundPose" \in Provided(type) <=> type = "skeleton"
           /\ "vrm.computeBindingPose" \in Provided(type) <=> type = "binding"
           /\ \A c \in RigComputations : c \in Provided(type) <=> type = "humanoid"
           /\ \A c \in Provided(type) :
                 c \in RigComputations \cup
                     {"vrm.computeTargetSkeleton", "vrm.computeBoundPose",
                      "vrm.computeBindingPose", "motion.sampleAnimation"}
  <1>1. CASE type = "skeleton"
    BY <1>1 DEF Provided, RigComputations
  <1>2. CASE type = "binding"
    BY <1>2 DEF Provided, RigComputations
  <1>3. CASE type = "humanoid"
    BY <1>3 DEF Provided, RigComputations
  <1>4. CASE type = "animation"
    BY <1>4 DEF Provided, RigComputations
  <1>5. CASE type \notin {"skeleton", "binding", "humanoid", "animation"}
    BY <1>5 DEF Provided, RigComputations
  <1> QED
    BY <1>1, <1>2, <1>3, <1>4, <1>5

\* The humanoid's own computations are nodes.
LEMMA OwnIsNode ==
    ASSUME stage \in Stages, NEW c \in RigComputations
    PROVE  Own(c) \in Nodes
  <1>1. c \in Provided("humanoid")
    BY ProvidedBy
  <1> QED
    BY <1>1, StageIs, NodesAre DEF Own

\* The entries of a list at some of its places, one by one.
LEMMA EntriesHold ==
    ASSUME NEW s, Len(s) \in Nat, DOMAIN s = 1 .. Len(s), NEW P \in SUBSET DOMAIN s
    PROVE  /\ Cardinality(P) \in Nat
           /\ DOMAIN Entries(s, P) = 1 .. Cardinality(P)
           /\ Len(Entries(s, P)) = Cardinality(P)
           /\ \A i \in 1 .. Cardinality(P) :
                 InOrder(P)[i] \in P /\ Entries(s, P)[i] = s[InOrder(P)[i]]
           /\ \A p \in P : \E i \in 1 .. Cardinality(P) : InOrder(P)[i] = p
           /\ \A i, k \in 1 .. Cardinality(P) : i < k => InOrder(P)[i] < InOrder(P)[k]
           /\ Entries(s, P) \in Seq({s[p] : p \in P})
  <1>1. PICK n \in Nat : n = Len(s)
    OBVIOUS
  <1>2. P \in SUBSET (1 .. n)
    BY <1>1
  <1>3. /\ Cardinality(P) \in Nat
        /\ \A i \in 1 .. Cardinality(P) : InOrder(P)[i] \in P
        /\ \A p \in P : \E i \in 1 .. Cardinality(P) : InOrder(P)[i] = p
        /\ \A i, k \in 1 .. Cardinality(P) : i < k => InOrder(P)[i] < InOrder(P)[k]
    BY <1>2, EntriesAre
  <1>4. Entries(s, P) = [i \in 1 .. Cardinality(P) |-> s[InOrder(P)[i]]]
    BY DEF Entries
  <1>5. Entries(s, P) \in [1 .. Cardinality(P) -> {s[p] : p \in P}]
    BY <1>3, <1>4
  <1>6. /\ DOMAIN Entries(s, P) = 1 .. Cardinality(P)
        /\ \A i \in 1 .. Cardinality(P) : Entries(s, P)[i] = s[InOrder(P)[i]]
    BY <1>4
  <1>7. Entries(s, P) \in Seq({s[p] : p \in P}) /\ Len(Entries(s, P)) = Cardinality(P)
    BY <1>3, <1>5
  <1> QED
    BY <1>3, <1>6, <1>7

\* A sequence and one behind another hold what they hold.
LEMMA Behind ==
    ASSUME NEW V, NEW s \in Seq(V), NEW t \in Seq(V)
    PROVE  s \o t \in Seq(V) /\ ToSet(s \o t) = ToSet(s) \cup ToSet(t)
  <1>1. \A m \in ToSet(s \o t) : m \in ToSet(s) \cup ToSet(t)
    <2>1. SUFFICES ASSUME NEW i \in DOMAIN (s \o t)
                   PROVE  (s \o t)[i] \in ToSet(s) \cup ToSet(t)
      BY DEF ToSet
    <2>2. CASE i <= Len(s)
      <3>1. i \in DOMAIN s /\ (s \o t)[i] = s[i]
        BY <2>2
      <3> QED
        BY <3>1 DEF ToSet
    <2>3. CASE i > Len(s)
      <3>1. i - Len(s) \in DOMAIN t /\ (s \o t)[i] = t[i - Len(s)]
        BY <2>3
      <3> QED
        BY <3>1 DEF ToSet
    <2> QED
      BY <2>2, <2>3
  <1>2. \A m \in ToSet(s) : m \in ToSet(s \o t)
    <2>1. SUFFICES ASSUME NEW i \in DOMAIN s PROVE s[i] \in ToSet(s \o t)
      BY DEF ToSet
    <2>2. i \in DOMAIN (s \o t) /\ (s \o t)[i] = s[i]
      OBVIOUS
    <2> QED
      BY <2>2 DEF ToSet
  <1>3. \A m \in ToSet(t) : m \in ToSet(s \o t)
    <2>1. SUFFICES ASSUME NEW i \in DOMAIN t PROVE t[i] \in ToSet(s \o t)
      BY DEF ToSet
    <2>2. Len(s) + i \in DOMAIN (s \o t) /\ (s \o t)[Len(s) + i] = t[i]
      OBVIOUS
    <2> QED
      BY <2>2 DEF ToSet
  <1> QED
    BY <1>1, <1>2, <1>3

\* The targets of a relationship that provide a computation.
Providing(targets, c) == {i \in DOMAIN targets : <<c, targets[i]>> \in Nodes}

\* What a fan-in reaches: the targets that provide the computation, in their order.
LEMMA FanInIs ==
    ASSUME NEW targets, targets \in Seq(Range(targets)), NEW c
    PROVE  /\ Cardinality(Providing(targets, c)) \in Nat
           /\ Len(FanIn(targets, c)) = Cardinality(Providing(targets, c))
           /\ FanIn(targets, c) \in Seq(Nodes)
           /\ \A i \in DOMAIN FanIn(targets, c) :
                 /\ InOrder(Providing(targets, c))[i] \in Providing(targets, c)
                 /\ FanIn(targets, c)[i] = <<c, targets[InOrder(Providing(targets, c))[i]]>>
           /\ \A m \in ToSet(FanIn(targets, c)) : m[1] = c
  <1> DEFINE P == Providing(targets, c)
             e == Entries(targets, P)
  <1>1. Len(targets) \in Nat /\ DOMAIN targets = 1 .. Len(targets)
    OBVIOUS
  <1>2. P \in SUBSET DOMAIN targets /\ \A i \in P : <<c, targets[i]>> \in Nodes
    BY DEF Providing
  <1>3. FanIn(targets, c) = [i \in DOMAIN e |-> <<c, e[i]>>]
    BY DEF FanIn, Providing
  <1> HIDE DEF P
  <1>4. /\ Cardinality(P) \in Nat
        /\ DOMAIN e = 1 .. Cardinality(P)
        /\ \A i \in 1 .. Cardinality(P) : InOrder(P)[i] \in P /\ e[i] = targets[InOrder(P)[i]]
    BY <1>1, <1>2, EntriesHold
  <1> HIDE DEF e
  <1> DEFINE out == FanIn(targets, c)
  <1>5. /\ DOMAIN out = 1 .. Cardinality(P)
        /\ \A i \in 1 .. Cardinality(P) : out[i] = <<c, targets[InOrder(P)[i]]>>
    BY <1>3, <1>4
  <1>6. \A i \in 1 .. Cardinality(P) : out[i] \in Nodes /\ out[i][1] = c
    <2>1. SUFFICES ASSUME NEW i \in 1 .. Cardinality(P) PROVE out[i] \in Nodes /\ out[i][1] = c
      OBVIOUS
    <2>2. PICK x \in P : x = InOrder(P)[i]
      BY <1>4
    <2>3. out[i] = <<c, targets[x]>>
      BY <1>5, <2>2
    <2> HIDE DEF out
    <2> QED
      BY <1>2, <2>3
  <1>7. out \in [1 .. Cardinality(P) -> Nodes]
    BY <1>3, <1>5, <1>6
  <1> HIDE DEF out
  <1>8. out \in Seq(Nodes) /\ Len(out) = Cardinality(P)
    BY <1>4, <1>7
  <1>9. \A m \in ToSet(out) : m[1] = c
    BY <1>5, <1>6 DEF ToSet
  <1> QED
    BY <1>4, <1>5, <1>8, <1>9 DEF P, out

-----------------------------------------------------------------------------
(* The network *)

\* The lists of inputs: nodes, each of the computation that is read.
LEMMA ListsAre ==
    ASSUME stage \in Stages
    PROVE  /\ Targets \in Seq(Nodes) /\ Sources \in Seq(Nodes) /\ BoundPoses \in Seq(Nodes)
           /\ \A m \in ToSet(Targets) \cup ToSet(Sources) : m[1] = "vrm.computeTargetSkeleton"
           /\ \A m \in ToSet(BoundPoses) : m[1] = "vrm.computeBoundPose"
  <1>1. Humanoid.skeleton \in Seq(Range(Humanoid.skeleton))
    BY StageIs
  <1>2. Humanoid.sourceSkeleton \in Seq(Range(Humanoid.sourceSkeleton))
    BY StageIs
  <1>3. Targets \in Seq(Nodes) /\ \A m \in ToSet(Targets) : m[1] = "vrm.computeTargetSkeleton"
    BY <1>1, FanInIs DEF Targets
  <1>4. Sources \in Seq(Nodes) /\ \A m \in ToSet(Sources) : m[1] = "vrm.computeTargetSkeleton"
    BY <1>2, FanInIs DEF Sources
  <1>5. BoundPoses \in Seq(Nodes) /\ \A m \in ToSet(BoundPoses) : m[1] = "vrm.computeBoundPose"
    BY <1>2, FanInIs DEF BoundPoses
  <1> QED
    BY <1>3, <1>4, <1>5

\* What binds a pose: animations of its own, and one ancestor.
LEMMA BindingsAre ==
    ASSUME stage \in Stages, NEW p \in DOMAIN stage.prims,
           stage.prims[p].type \in {"skeleton", "binding"}
    PROVE  /\ Animations(p) \in Seq(Nodes) /\ Inherited(p) \in Seq(Nodes)
           /\ \A m \in ToSet(Animations(p)) : m[1] = "motion.sampleAnimation"
           /\ \A m \in ToSet(Inherited(p)) :
                 m = <<"vrm.computeBindingPose", stage.prims[p].ancestor>>
  <1> DEFINE above == stage.prims[p].ancestor
  <1>1. stage.prims[p].animationSource \in Seq(Range(stage.prims[p].animationSource))
    BY StageIs
  <1>2. Animations(p) \in Seq(Nodes) /\ \A m \in ToSet(Animations(p)) : m[1] = "motion.sampleAnimation"
    BY <1>1, FanInIs DEF Animations
  <1>3. CASE above = None
    <2>1. Inherited(p) = << >>
      BY <1>3 DEF Inherited
    <2> QED
      BY <1>2, <2>1 DEF ToSet
  <1>4. CASE above # None
    <2>1. Inherited(p) = <<<<"vrm.computeBindingPose", above>>>>
      BY <1>4 DEF Inherited
    <2>2. <<"vrm.computeBindingPose", above>> \in Nodes
      BY <1>4, StageIs, NodesAre, ProvidedBy
    <2> HIDE DEF above
    <2>3. Inherited(p) \in Seq(Nodes)
      BY <2>1, <2>2
    <2>4. \A m \in ToSet(Inherited(p)) : m = <<"vrm.computeBindingPose", above>>
      BY <2>1 DEF ToSet
    <2> QED
      BY <1>2, <2>3, <2>4 DEF above
  <1> QED
    BY <1>3, <1>4

\* One node read alone.
LEMMA Alone ==
    ASSUME NEW V, NEW m \in V
    PROVE  <<m>> \in Seq(V) /\ ToSet(<<m>>) = {m}
  BY DEF ToSet

\* What each computation reads.
LEMMA InputsAre ==
    ASSUME stage \in Stages, NEW n \in Nodes
    PROVE  /\ Inputs(n) \in Seq(Nodes)
           /\ n[1] \in {"vrm.computeTargetSkeleton", "motion.sampleAnimation"} =>
                 ToSet(Inputs(n)) = {}
           /\ n[1] \in {"vrm.computeBoundPose", "vrm.computeBindingPose"} =>
                 /\ n[2] \in DOMAIN stage.prims
                 /\ stage.prims[n[2]].type \in {"skeleton", "binding"}
                 /\ ToSet(Inputs(n)) = ToSet(Animations(n[2])) \cup ToSet(Inherited(n[2]))
           /\ n[1] = "vrm.computeHumanoidMap" => ToSet(Inputs(n)) = ToSet(Targets)
           /\ n[1] = "vrm.computeRestPoseCorrection" =>
                 ToSet(Inputs(n)) =
                     {Own("vrm.computeHumanoidMap")} \cup ToSet(Targets) \cup ToSet(Sources)
           /\ n[1] = "vrm.humanoidRetarget" =>
                 ToSet(Inputs(n)) =
                     {Own("vrm.computeHumanoidMap")} \cup ToSet(Targets) \cup ToSet(Sources)
                         \cup ToSet(BoundPoses)
           /\ n[1] = "vrm.computeJointLocalTransforms" =>
                 ToSet(Inputs(n)) = {Own("vrm.humanoidRetarget")} \cup ToSet(Targets)
           /\ n[1] = "vrm.computeRigDiagnostics" =>
                 ToSet(Inputs(n)) = {Own("vrm.computeHumanoidMap")} \cup ToSet(Targets)
           /\ n[1] = "vrm.computeRetargetDiagnostics" =>
                 ToSet(Inputs(n)) =
                     {Own("vrm.computeHumanoidMap")} \cup ToSet(Targets) \cup ToSet(Sources)
                         \cup ToSet(BoundPoses) \cup {Own("vrm.computeRigDiagnostics")}
  <1> DEFINE H == Own("vrm.computeHumanoidMap")
             R == Own("vrm.humanoidRetarget")
             D == Own("vrm.computeRigDiagnostics")
  <1>1. H \in Nodes /\ R \in Nodes /\ D \in Nodes
    BY OwnIsNode DEF RigComputations
  <1>2. Targets \in Seq(Nodes) /\ Sources \in Seq(Nodes) /\ BoundPoses \in Seq(Nodes)
    BY ListsAre
  <1> HIDE DEF H, R, D
  <1>3. PICK hs, rs, ds : hs = <<H>> /\ rs = <<R>> /\ ds = <<D>>
    OBVIOUS
  <1>4. /\ hs \in Seq(Nodes) /\ ToSet(hs) = {H} /\ rs \in Seq(Nodes) /\ ToSet(rs) = {R}
        /\ ds \in Seq(Nodes) /\ ToSet(ds) = {D}
    BY <1>1, <1>3, Alone
  <1>5. /\ RigDiagnosticsInputs \in Seq(Nodes)
        /\ ToSet(RigDiagnosticsInputs) = {H} \cup ToSet(Targets)
    <2>1. RigDiagnosticsInputs = hs \o Targets
      BY <1>3 DEF RigDiagnosticsInputs, H
    <2> QED
      BY <1>2, <1>4, <2>1, Behind
  <1>6. /\ JointTransformsInputs \in Seq(Nodes)
        /\ ToSet(JointTransformsInputs) = {R} \cup ToSet(Targets)
    <2>1. JointTransformsInputs = rs \o Targets
      BY <1>3 DEF JointTransformsInputs, R
    <2> QED
      BY <1>2, <1>4, <2>1, Behind
  <1>7. /\ CorrectionInputs \in Seq(Nodes)
        /\ ToSet(CorrectionInputs) = {H} \cup ToSet(Targets) \cup ToSet(Sources)
    <2>1. PICK ts : ts = hs \o Targets
      OBVIOUS
    <2>2. ts \in Seq(Nodes) /\ ToSet(ts) = {H} \cup ToSet(Targets)
      BY <1>2, <1>4, <2>1, Behind
    <2>3. CorrectionInputs = ts \o Sources
      BY <1>3, <2>1 DEF CorrectionInputs, H
    <2> QED
      BY <1>2, <2>2, <2>3, Behind
  <1>8. /\ RetargetInputs \in Seq(Nodes)
        /\ ToSet(RetargetInputs) = {H} \cup ToSet(Targets) \cup ToSet(Sources) \cup ToSet(BoundPoses)
    BY <1>2, <1>7, Behind DEF RetargetInputs
  <1>9. /\ RetargetDiagnosticsInputs \in Seq(Nodes)
        /\ ToSet(RetargetDiagnosticsInputs) =
               {H} \cup ToSet(Targets) \cup ToSet(Sources) \cup ToSet(BoundPoses) \cup {D}
    <2>1. RetargetDiagnosticsInputs = RetargetInputs \o ds
      BY <1>3 DEF RetargetDiagnosticsInputs, D
    <2> QED
      BY <1>4, <1>8, <2>1, Behind
  <1>10. /\ n[2] \in DOMAIN stage.prims /\ n[1] \in Provided(stage.prims[n[2]].type)
        /\ n[1] \in RigComputations \cup
               {"vrm.computeTargetSkeleton", "vrm.computeBoundPose",
                "vrm.computeBindingPose", "motion.sampleAnimation"}
    BY NodesAre, ProvidedBy
  <1>11. CASE n[1] \in {"vrm.computeTargetSkeleton", "motion.sampleAnimation"}
    <2>1. Inputs(n) = << >>
      BY <1>11 DEF Inputs
    <2>2. << >> \in Seq(Nodes) /\ ToSet(<< >>) = {}
      BY DEF ToSet
    <2> QED
      BY <1>11, <2>1, <2>2
  <1>12. CASE n[1] \in {"vrm.computeBoundPose", "vrm.computeBindingPose"}
    <2>1. stage.prims[n[2]].type \in {"skeleton", "binding"}
      BY <1>10, <1>12, ProvidedBy
    <2>2. Inputs(n) = Animations(n[2]) \o Inherited(n[2])
      BY <1>12 DEF Inputs, BoundPoseInputs
    <2>3. Animations(n[2]) \in Seq(Nodes) /\ Inherited(n[2]) \in Seq(Nodes)
      BY <1>10, <2>1, BindingsAre
    <2>4. Inputs(n) \in Seq(Nodes) /\ ToSet(Inputs(n)) = ToSet(Animations(n[2])) \cup ToSet(Inherited(n[2]))
      BY <2>2, <2>3, Behind
    <2> QED
      BY <1>10, <1>12, <2>1, <2>4
  <1>13. CASE n[1] \in RigComputations
    <2>1. /\ n[1] = "vrm.computeHumanoidMap" => Inputs(n) = Targets
          /\ n[1] = "vrm.computeRestPoseCorrection" => Inputs(n) = CorrectionInputs
          /\ n[1] = "vrm.humanoidRetarget" => Inputs(n) = RetargetInputs
          /\ n[1] = "vrm.computeJointLocalTransforms" => Inputs(n) = JointTransformsInputs
          /\ n[1] = "vrm.computeRigDiagnostics" => Inputs(n) = RigDiagnosticsInputs
          /\ n[1] = "vrm.computeRetargetDiagnostics" => Inputs(n) = RetargetDiagnosticsInputs
      BY DEF Inputs
    <2> QED
      BY <1>2, <1>5, <1>6, <1>7, <1>8, <1>13, <1>9, <2>1 DEF RigComputations, H, R, D
  <1> QED
    BY <1>10, <1>11, <1>12, <1>13

\* How far a computation is from those that read nothing but their prim.
Level(c) ==
    CASE c \in {"vrm.computeTargetSkeleton", "motion.sampleAnimation"} -> 0
      [] c \in {"vrm.computeBindingPose", "vrm.computeHumanoidMap"} -> 1
      [] c \in {"vrm.computeBoundPose", "vrm.computeRestPoseCorrection",
                "vrm.computeRigDiagnostics"} -> 2
      [] c = "vrm.humanoidRetarget" -> 3
      [] OTHER -> 4

\* A computation reads lower ones, and a binding the one of an ancestor.
LEMMA ReadsBelow ==
    ASSUME stage \in Stages, NEW n \in Nodes, NEW m \in ToSet(Inputs(n))
    PROVE  /\ m \in Nodes
           /\ \/ Level(m[1]) < Level(n[1])
              \/ /\ n[1] = "vrm.computeBindingPose"
                 /\ m = <<"vrm.computeBindingPose", stage.prims[n[2]].ancestor>>
  <1>1. m \in Nodes
    BY InputsAre DEF ToSet
  <1>2. n[1] \in RigComputations \cup
            {"vrm.computeTargetSkeleton", "vrm.computeBoundPose",
             "vrm.computeBindingPose", "motion.sampleAnimation"}
    BY NodesAre, ProvidedBy
  <1>3. /\ \A k \in ToSet(Targets) \cup ToSet(Sources) : k[1] = "vrm.computeTargetSkeleton"
        /\ \A k \in ToSet(BoundPoses) : k[1] = "vrm.computeBoundPose"
    BY ListsAre
  <1>4. \A c : Own(c)[1] = c
    BY DEF Own
  <1>5. CASE n[1] \in {"vrm.computeTargetSkeleton", "motion.sampleAnimation"}
    BY <1>5, InputsAre
  <1>6. CASE n[1] \in {"vrm.computeBoundPose", "vrm.computeBindingPose"}
    <2>1. /\ n[2] \in DOMAIN stage.prims
          /\ stage.prims[n[2]].type \in {"skeleton", "binding"}
          /\ m \in ToSet(Animations(n[2])) \cup ToSet(Inherited(n[2]))
      BY <1>6, InputsAre
    <2>2. \/ m[1] = "motion.sampleAnimation"
          \/ m = <<"vrm.computeBindingPose", stage.prims[n[2]].ancestor>>
      BY <2>1, BindingsAre
    <2> QED
      BY <1>1, <1>6, <2>2 DEF Level
  <1>7. CASE n[1] = "vrm.computeHumanoidMap"
    <2>1. m \in ToSet(Targets)
      BY <1>7, InputsAre
    <2> QED
      BY <1>1, <1>3, <1>7, <2>1 DEF Level
  <1>8. CASE n[1] \in {"vrm.computeRestPoseCorrection", "vrm.computeRigDiagnostics"}
    <2>1. m = Own("vrm.computeHumanoidMap") \/ m \in ToSet(Targets) \cup ToSet(Sources)
      BY <1>8, InputsAre
    <2> QED
      BY <1>1, <1>3, <1>4, <1>8, <2>1 DEF Level
  <1>9. CASE n[1] = "vrm.humanoidRetarget"
    <2>1. \/ m = Own("vrm.computeHumanoidMap")
          \/ m \in ToSet(Targets) \cup ToSet(Sources) \/ m \in ToSet(BoundPoses)
      BY <1>9, InputsAre
    <2> QED
      BY <1>1, <1>3, <1>4, <1>9, <2>1 DEF Level
  <1>10. CASE n[1] = "vrm.computeJointLocalTransforms"
    <2>1. m = Own("vrm.humanoidRetarget") \/ m \in ToSet(Targets)
      BY <1>10, InputsAre
    <2> QED
      BY <1>1, <1>3, <1>4, <1>10, <2>1 DEF Level
  <1>11. CASE n[1] = "vrm.computeRetargetDiagnostics"
    <2>1. \/ m \in {Own("vrm.computeHumanoidMap"), Own("vrm.computeRigDiagnostics")}
          \/ m \in ToSet(Targets) \cup ToSet(Sources) \/ m \in ToSet(BoundPoses)
      BY <1>11, InputsAre
    <2> QED
      BY <1>1, <1>3, <1>4, <1>11, <2>1 DEF Level
  <1> QED
    BY <1>2, <1>5, <1>6, <1>7, <1>8, <1>9, <1>10, <1>11 DEF RigComputations

\* The network is well-founded: of any nodes, one reads none of the others.
LEMMA Grounded ==
    ASSUME stage \in Stages, NEW S \in SUBSET Nodes, S # {}
    PROVE  \E n \in S : \A m \in ToSet(Inputs(n)) : m \notin S
  <1> DEFINE L == {Level(n[1]) : n \in S}
  <1>1. \A c : Level(c) \in Nat
    BY DEF Level
  <1>2. L \in SUBSET Nat /\ L # {}
    BY <1>1
  <1>3. PICK low \in L : \A l \in L : low <= l
    BY <1>2, LeastMember
  <1>4. PICK k \in S : low = Level(k[1])
    BY <1>3
  <1>5. \A m \in S : ~(Level(m[1]) < Level(k[1]))
    BY <1>1, <1>3, <1>4
  <1> HIDE DEF L
  <1>6. CASE k[1] # "vrm.computeBindingPose"
    BY <1>5, <1>6, ReadsBelow
  <1>7. CASE k[1] = "vrm.computeBindingPose"
    <2> DEFINE ps == {n[2] : n \in {m \in S : m[1] = "vrm.computeBindingPose"}}
    <2>1. ps # {}
      BY <1>7
    <2>2. ps \in SUBSET {p \in DOMAIN stage.prims : stage.prims[p].type = "binding"}
      <3>1. SUFFICES ASSUME NEW n \in S, n[1] = "vrm.computeBindingPose"
                     PROVE  n[2] \in DOMAIN stage.prims /\ stage.prims[n[2]].type = "binding"
        OBVIOUS
      <3> QED
        BY <3>1, NodesAre, ProvidedBy
    <2> HIDE DEF ps
    <2>3. PICK p \in ps : stage.prims[p].ancestor \notin ps
      BY <2>1, <2>2, StageIs
    <2>4. PICK n \in S : n[1] = "vrm.computeBindingPose" /\ n[2] = p
      BY DEF ps
    <2>5. ASSUME NEW m \in ToSet(Inputs(n)), m \in S PROVE FALSE
      <3>1. m # <<"vrm.computeBindingPose", stage.prims[p].ancestor>>
        BY <2>3, <2>5 DEF ps
      <3>2. Level(m[1]) < Level(n[1])
        BY <2>4, <3>1, ReadsBelow
      <3> QED
        BY <1>5, <1>7, <2>4, <2>5, <3>2
    <2> QED
      BY <2>5
  <1> QED
    BY <1>6, <1>7

-----------------------------------------------------------------------------
(* One answer for every node *)

\* A step of one of the recursions over the network, from the values at a node's inputs:
\* the answers, or the nodes a request needs.
StepAt(answering, n, up) ==
    IF answering THEN IF n \in DOMAIN overrides THEN overrides[n] ELSE Callback(n, up)
    ELSE {n} \cup IF n \in DOMAIN overrides THEN {} ELSE UNION {up[m] : m \in ToSet(Inputs(n))}

InputsOf(n, f) == [m \in ToSet(Inputs(n)) |-> f[m]]

\* f takes such steps over some nodes, with whatever they read among them.
Solves(answering, D, f) ==
    /\ D \in SUBSET Nodes
    /\ \A n \in D : ToSet(Inputs(n)) \subseteq D
    /\ f = [n \in D |-> StepAt(answering, n, InputsOf(n, f))]

\* Two of them agree where both are.
LEMMA SolutionsAgree ==
    ASSUME stage \in Stages, NEW a, NEW D, NEW f, NEW E, NEW g, Solves(a, D, f), Solves(a, E, g),
           NEW k \in D \cap E
    PROVE  f[k] = g[k]
  <1> DEFINE S == {n \in D \cap E : f[n] # g[n]}
  <1>1. ASSUME S # {} PROVE FALSE
    <2>1. S \in SUBSET Nodes
      BY DEF Solves
    <2>2. PICK n \in S : \A m \in ToSet(Inputs(n)) : m \notin S
      BY <1>1, <2>1, Grounded
    <2>3. \A m \in ToSet(Inputs(n)) : m \in D \cap E
      BY <2>2 DEF Solves
    <2>4. \A m \in ToSet(Inputs(n)) : f[m] = g[m]
      BY <2>2, <2>3
    <2>5. InputsOf(n, f) = InputsOf(n, g)
      BY <2>4 DEF InputsOf
    <2>6. n \in D /\ n \in E /\ f[n] # g[n]
      BY <2>2
    <2>7. f[n] = StepAt(a, n, InputsOf(n, f))
      BY <2>6 DEF Solves
    <2>8. g[n] = StepAt(a, n, InputsOf(n, g))
      BY <2>6 DEF Solves
    <2> QED
      BY <2>5, <2>6, <2>7, <2>8
  <1> QED
    BY <1>1

\* Some function takes such a step at every node.
LEMMA NetworkSolved ==
    ASSUME stage \in Stages, NEW a
    PROVE  \E f : Solves(a, Nodes, f)
  <1> DEFINE Solved(n) == \E D, f : Solves(a, D, f) /\ n \in D
             G == {n \in Nodes : Solved(n)}
             value(n) == CHOOSE v : \E D, f : Solves(a, D, f) /\ n \in D /\ v = f[n]
             F == [n \in G |-> value(n)]
  <1>1. ASSUME NEW D, NEW f, Solves(a, D, f), NEW n \in D
        PROVE  n \in G /\ F[n] = f[n]
    <2>1. n \in G
      BY <1>1 DEF Solves
    <2>2. \E v : \E E, g : Solves(a, E, g) /\ n \in E /\ v = g[n]
      BY <1>1
    <2>3. PICK E, g : Solves(a, E, g) /\ n \in E /\ value(n) = g[n]
      BY <2>2
    <2>4. g[n] = f[n]
      BY <1>1, <2>3, SolutionsAgree
    <2>5. F[n] = value(n)
      BY <2>1
    <2> QED
      BY <2>1, <2>3, <2>4, <2>5
  <1>2. DOMAIN F = G
    OBVIOUS
  <1>3. F = [n \in G |-> F[n]]
    OBVIOUS
  <1> HIDE DEF F
  <1>4. ASSUME NEW n \in G
        PROVE  /\ \A m \in ToSet(Inputs(n)) : m \in G
               /\ F[n] = StepAt(a, n, InputsOf(n, F))
    <2>1. PICK D, f : Solves(a, D, f) /\ n \in D
      OBVIOUS
    <2>2. \A m \in ToSet(Inputs(n)) : m \in D
      BY <2>1 DEF Solves
    <2> HIDE DEF G
    <2>3. \A m \in ToSet(Inputs(n)) : m \in G /\ F[m] = f[m]
      BY <1>1, <2>1, <2>2
    <2>4. InputsOf(n, F) = InputsOf(n, f)
      BY <2>3 DEF InputsOf
    <2>5. f[n] = StepAt(a, n, InputsOf(n, f))
      BY <2>1 DEF Solves
    <2> QED
      BY <1>1, <2>1, <2>3, <2>4, <2>5
  <1>5. G \in SUBSET Nodes
    OBVIOUS
  <1>6. ASSUME NEW n \in Nodes, n \notin G PROVE ~Solved(n)
    BY <1>6
  <1> HIDE DEF G
  <1>7. Solves(a, G, F)
    <2>1. \A n \in G : ToSet(Inputs(n)) \subseteq G
      BY <1>4
    <2>2. F = [n \in G |-> StepAt(a, n, InputsOf(n, F))]
      BY <1>3, <1>4
    <2> QED
      BY <1>5, <2>1, <2>2 DEF Solves
  <1>8. ASSUME Nodes \ G # {} PROVE FALSE
    <2>1. PICK n \in Nodes \ G : \A m \in ToSet(Inputs(n)) : m \notin Nodes \ G
      BY <1>8, Grounded
    <2>2. \A m \in ToSet(Inputs(n)) : m \in G
      BY <2>1, ReadsBelow
    <2> DEFINE D == G \cup {n}
               new == StepAt(a, n, InputsOf(n, F))
               f == [k \in D |-> IF k = n THEN new ELSE F[k]]
    <2>3. f[n] = new /\ (\A k \in G : f[k] = F[k]) /\ DOMAIN f = D
      BY <2>1
    <2>4. f = [k \in D |-> f[k]]
      OBVIOUS
    <2> HIDE DEF f
    <2>5. \A k \in D : \A m \in ToSet(Inputs(k)) : m \in G
      BY <1>4, <2>2
    <2>6. \A k \in D : InputsOf(k, f) = InputsOf(k, F)
      BY <2>3, <2>5 DEF InputsOf
    <2>7. \A k \in D : f[k] = StepAt(a, k, InputsOf(k, f))
      BY <1>4, <2>3, <2>6
    <2>8. Solves(a, D, f)
      <3>1. D \in SUBSET Nodes /\ \A k \in D : ToSet(Inputs(k)) \subseteq D
        BY <1>5, <2>1, <2>5
      <3>2. f = [k \in D |-> StepAt(a, k, InputsOf(k, f))]
        BY <2>4, <2>7
      <3> QED
        BY <3>1, <3>2 DEF Solves
    <2>9. n \in D
      OBVIOUS
    <2>10. ~Solved(n)
      BY <1>6, <2>1
    <2> QED
      BY <2>8, <2>9, <2>10
  <1>9. G = Nodes
    BY <1>5, <1>8
  <1> QED
    BY <1>7, <1>9

\* Every node's answer.
Out == CHOOSE out : out = [n \in Nodes |->
           IF n \in DOMAIN overrides THEN overrides[n]
           ELSE Callback(n, [m \in ToSet(Inputs(n)) |-> out[m]])]

\* The nodes a request for a node needs.
Above == CHOOSE above : above = [n \in Nodes |->
             {n} \cup IF n \in DOMAIN overrides THEN {}
                      ELSE UNION {above[m] : m \in ToSet(Inputs(n))}]

LEMMA EvaluateIs == \A node : Needed(node) = Above[node] /\ Evaluate(node) = [n \in Above[node] |-> Out[n]]
  BY DEF Evaluate, Needed, Out, Above

\* A node answers what its driver says, or its callback over its inputs' answers.
LEMMA OutIs ==
    ASSUME stage \in Stages, NEW n \in Nodes, n \notin DOMAIN overrides
    PROVE  Out[n] = Callback(n, InputsOf(n, Out))
  <1> DEFINE Fits(g) == g = [k \in Nodes |->
                               IF k \in DOMAIN overrides THEN overrides[k]
                               ELSE Callback(k, [m \in ToSet(Inputs(k)) |-> g[m]])]
  <1>1. PICK f : Solves(TRUE, Nodes, f)
    BY NetworkSolved
  <1>2. Fits(f)
    BY <1>1 DEF Solves, StepAt, InputsOf
  <1>3. Out = CHOOSE g : Fits(g)
    BY DEF Out
  <1> HIDE DEF Fits
  <1>4. Fits(Out)
    BY <1>2, <1>3
  <1> QED
    BY <1>4 DEF Fits, InputsOf

\* What a request needs is there, and with a node that no driver sets, what it reads.
LEMMA NeededClosed ==
    ASSUME stage \in Stages, NEW r \in Nodes
    PROVE  /\ r \in Above[r] /\ Above[r] \in SUBSET Nodes
           /\ \A n \in Above[r] : n \notin DOMAIN overrides => ToSet(Inputs(n)) \subseteq Above[r]
  <1> DEFINE Fits(g) == g = [k \in Nodes |->
                               {k} \cup IF k \in DOMAIN overrides THEN {}
                                        ELSE UNION {g[m] : m \in ToSet(Inputs(k))}]
             Closed(k) == /\ k \in Above[k] /\ Above[k] \in SUBSET Nodes
                          /\ \A n \in Above[k] : n \notin DOMAIN overrides =>
                                ToSet(Inputs(n)) \subseteq Above[k]
             S == {k \in Nodes : ~Closed(k)}
  <1>1. PICK f : Solves(FALSE, Nodes, f)
    BY NetworkSolved
  <1>2. Fits(f)
    <2>1. \A k \in Nodes : UNION {InputsOf(k, f)[m] : m \in ToSet(Inputs(k))} =
                               UNION {f[m] : m \in ToSet(Inputs(k))}
      BY DEF InputsOf
    <2>2. \A k \in Nodes : StepAt(FALSE, k, InputsOf(k, f)) =
                               {k} \cup IF k \in DOMAIN overrides THEN {}
                                        ELSE UNION {f[m] : m \in ToSet(Inputs(k))}
      BY <2>1 DEF StepAt
    <2> QED
      BY <1>1, <2>2 DEF Solves
  <1>3. Above = CHOOSE g : Fits(g)
    BY DEF Above
  <1> HIDE DEF Fits
  <1>4. Fits(Above)
    BY <1>2, <1>3
  <1>5. ASSUME NEW k \in Nodes
        PROVE  Above[k] = {k} \cup IF k \in DOMAIN overrides THEN {}
                                   ELSE UNION {Above[m] : m \in ToSet(Inputs(k))}
    BY <1>4 DEF Fits
  <1>6. ASSUME S # {} PROVE FALSE
    <2>1. S \in SUBSET Nodes
      OBVIOUS
    <2> HIDE DEF S
    <2>2. PICK k \in S : \A m \in ToSet(Inputs(k)) : m \notin S
      BY <1>6, <2>1, Grounded
    <2>3. k \in Nodes /\ ~Closed(k)
      BY <2>2 DEF S
    <2> HIDE DEF Closed
    <2>4. \A m \in ToSet(Inputs(k)) : m \in Nodes /\ Closed(m)
      <3>1. \A m \in ToSet(Inputs(k)) : m \in Nodes
        BY <2>3, ReadsBelow
      <3> QED
        BY <2>2, <3>1 DEF S
    <2>5. CASE k \in DOMAIN overrides
      <3>1. Above[k] = {k}
        BY <1>5, <2>3, <2>5
      <3> QED
        BY <2>3, <2>5, <3>1 DEF Closed
    <2>6. CASE k \notin DOMAIN overrides
      <3>1. Above[k] = {k} \cup UNION {Above[m] : m \in ToSet(Inputs(k))}
        BY <1>5, <2>3, <2>6
      <3>2. Above[k] \in SUBSET Nodes
        BY <2>3, <2>4, <3>1 DEF Closed
      <3>3. ToSet(Inputs(k)) \subseteq Above[k]
        BY <2>4, <3>1 DEF Closed
      <3>4. ASSUME NEW n \in Above[k], n \notin DOMAIN overrides
            PROVE  ToSet(Inputs(n)) \subseteq Above[k]
        <4>1. CASE n = k
          BY <3>3, <4>1
        <4>2. CASE n # k
          <5>1. PICK m \in ToSet(Inputs(k)) : n \in Above[m]
            BY <3>1, <4>2
          <5>2. ToSet(Inputs(n)) \subseteq Above[m]
            BY <2>4, <3>4, <5>1 DEF Closed
          <5> QED
            BY <3>1, <5>1, <5>2
        <4> QED
          BY <4>1, <4>2
      <3>5. k \in Above[k]
        BY <3>1
      <3> QED
        BY <2>3, <3>2, <3>4, <3>5 DEF Closed
    <2> QED
      BY <2>5, <2>6
  <1>7. Closed(r)
    BY <1>6
  <1> QED
    BY <1>7

-----------------------------------------------------------------------------
(* What comes back of some inputs *)

Answering(nodes, up) == {i \in DOMAIN nodes : up[nodes[i]].answered}

\* What came back: the values of those that answered.
LEMMA BackIs ==
    ASSUME NEW nodes \in Seq(Nodes), NEW up
    PROVE  /\ Cardinality(Answering(nodes, up)) \in Nat
           /\ Len(Back(nodes, up)) = Cardinality(Answering(nodes, up))
           /\ DOMAIN Back(nodes, up) = 1 .. Cardinality(Answering(nodes, up))
           /\ \A i \in DOMAIN Back(nodes, up) : \E m \in ToSet(nodes) :
                 up[m].answered /\ Back(nodes, up)[i] = up[m].value
           /\ (\A m \in ToSet(nodes) : up[m].answered) => Len(Back(nodes, up)) = Len(nodes)
           /\ Back(nodes, up) # << >> => 1 \in DOMAIN Back(nodes, up)
  <1> DEFINE P == Answering(nodes, up)
             e == Entries(nodes, P)
             c == Cardinality(P)
  <1>1. Len(nodes) \in Nat /\ DOMAIN nodes = 1 .. Len(nodes)
    OBVIOUS
  <1>2. P \in SUBSET DOMAIN nodes /\ \A i \in P : up[nodes[i]].answered /\ nodes[i] \in ToSet(nodes)
    BY DEF Answering, ToSet
  <1>3. Back(nodes, up) = [i \in DOMAIN e |-> up[e[i]].value]
    BY DEF Back, Answering
  <1>4. (\A m \in ToSet(nodes) : up[m].answered) => P = DOMAIN nodes
    BY DEF Answering, ToSet
  <1> HIDE DEF P
  <1>5. /\ c \in Nat
        /\ DOMAIN e = 1 .. c
        /\ \A i \in 1 .. c : InOrder(P)[i] \in P /\ e[i] = nodes[InOrder(P)[i]]
    <2>1. P \in SUBSET DOMAIN nodes
      BY <1>2
    <2> QED
      BY <1>1, <2>1, EntriesHold
  <1> HIDE DEF e
  <1> DEFINE out == Back(nodes, up)
  <1>6. DOMAIN out = 1 .. c /\ \A i \in 1 .. c : out[i] = up[e[i]].value
    BY <1>3, <1>5
  <1>7. Len(out) = c /\ (out # << >> => 1 \in 1 .. c)
    <2>1. out \in [1 .. c -> {out[i] : i \in 1 .. c}]
      BY <1>3, <1>6
    <2> HIDE DEF out, c
    <2> QED
      BY <1>5, <2>1
  <1>8. ASSUME NEW i \in DOMAIN out
        PROVE  \E m \in ToSet(nodes) : up[m].answered /\ out[i] = up[m].value
    <2>1. i \in 1 .. c
      BY <1>6
    <2>2. PICK x \in P : x = InOrder(P)[i]
      BY <1>5, <2>1
    <2>3. e[i] = nodes[x] /\ out[i] = up[e[i]].value
      BY <1>5, <1>6, <2>1, <2>2
    <2> HIDE DEF out
    <2> QED
      BY <1>2, <2>3
  <1>9. ASSUME \A m \in ToSet(nodes) : up[m].answered PROVE c = Len(nodes)
    <2>1. P = 1 .. Len(nodes)
      BY <1>1, <1>4, <1>9
    <2> QED
      BY <1>1, <2>1, FS_Interval
  <1> HIDE DEF out, c
  <1>10. /\ Len(out) = c /\ DOMAIN out = 1 .. c /\ c \in Nat
         /\ out # << >> => 1 \in DOMAIN out
    BY <1>5, <1>6, <1>7
  <1> QED
    BY <1>8, <1>9, <1>10 DEF out, c, P

\* Values that agree at the inputs come back the same.
LEMMA BackAgrees ==
    ASSUME NEW nodes, NEW n, ToSet(nodes) \subseteq ToSet(Inputs(n)), NEW f,
           nodes \in Seq(Nodes)
    PROVE  Back(nodes, InputsOf(n, f)) = Back(nodes, f)
  <1> DEFINE up == InputsOf(n, f)
             P == Answering(nodes, up)
             e == Entries(nodes, P)
  <1>1. \A i \in DOMAIN nodes : up[nodes[i]] = f[nodes[i]]
    BY DEF ToSet, InputsOf
  <1>2. P = Answering(nodes, f)
    BY <1>1 DEF Answering
  <1>3. P \in SUBSET DOMAIN nodes /\ Len(nodes) \in Nat /\ DOMAIN nodes = 1 .. Len(nodes)
    BY DEF Answering
  <1>4. /\ Back(nodes, up) = [i \in DOMAIN e |-> up[e[i]].value]
        /\ Back(nodes, f) = [i \in DOMAIN e |-> f[e[i]].value]
    BY <1>2 DEF Back, Answering
  <1> HIDE DEF P, up
  <1>5. /\ DOMAIN e = 1 .. Cardinality(P)
        /\ \A i \in 1 .. Cardinality(P) : InOrder(P)[i] \in P /\ e[i] = nodes[InOrder(P)[i]]
    BY <1>3, EntriesHold
  <1> HIDE DEF e
  <1>6. \A i \in DOMAIN e : up[e[i]] = f[e[i]]
    BY <1>1, <1>3, <1>5
  <1> QED
    BY <1>4, <1>6 DEF up

\* A node no driver sets answers what its callback makes of the network's answers.
LEMMA Reads ==
    ASSUME stage \in Stages, NEW n \in Nodes, n \notin DOMAIN overrides
    PROVE  /\ n[1] = "vrm.computeTargetSkeleton" =>
                  Out[n] = TargetSkeletonFromRest(stage.prims[n[2]])
           /\ n[1] = "motion.sampleAnimation" => Out[n] = SampleAnimation(stage.prims[n[2]])
           /\ n[1] \in {"vrm.computeBoundPose", "vrm.computeBindingPose"} =>
                  Out[n] = BoundPoseFor(n[2], Out)
           /\ n[1] = "vrm.computeHumanoidMap" => Out[n] = HumanoidMapFor(Out)
           /\ n[1] = "vrm.computeRestPoseCorrection" => Out[n] = RestPoseCorrectionFor(Out)
           /\ n[1] = "vrm.humanoidRetarget" => Out[n] = HumanoidRetargetFor(Out)
           /\ n[1] = "vrm.computeJointLocalTransforms" => Out[n] = JointLocalTransformsFor(Out)
           /\ n[1] = "vrm.computeRigDiagnostics" => Out[n] = RigDiagnosticsFor(Out)
           /\ n[1] = "vrm.computeRetargetDiagnostics" => Out[n] = RetargetDiagnosticsFor(Out)
  <1> DEFINE up == InputsOf(n, Out)
             H == Own("vrm.computeHumanoidMap")
             R == Own("vrm.humanoidRetarget")
             D == Own("vrm.computeRigDiagnostics")
  <1>1. Out[n] = Callback(n, up)
    BY OutIs
  <1>2. \A m \in ToSet(Inputs(n)) : up[m] = Out[m]
    BY DEF InputsOf
  <1>3. Targets \in Seq(Nodes) /\ Sources \in Seq(Nodes) /\ BoundPoses \in Seq(Nodes)
    BY ListsAre
  <1>4. ASSUME NEW nodes \in Seq(Nodes), ToSet(nodes) \subseteq ToSet(Inputs(n))
        PROVE  Back(nodes, up) = Back(nodes, Out)
    BY <1>4, BackAgrees
  <1> HIDE DEF up
  <1>5. CASE n[1] = "vrm.computeTargetSkeleton"
    BY <1>1, <1>5 DEF Callback
  <1>6. CASE n[1] = "motion.sampleAnimation"
    BY <1>1, <1>6 DEF Callback
  <1>7. CASE n[1] \in {"vrm.computeBoundPose", "vrm.computeBindingPose"}
    <2>1. /\ n[2] \in DOMAIN stage.prims
          /\ stage.prims[n[2]].type \in {"skeleton", "binding"}
          /\ ToSet(Inputs(n)) = ToSet(Animations(n[2])) \cup ToSet(Inherited(n[2]))
      BY <1>7, InputsAre
    <2>2. Animations(n[2]) \in Seq(Nodes) /\ Inherited(n[2]) \in Seq(Nodes)
      BY <2>1, BindingsAre
    <2>3. Back(Animations(n[2]), up) = Back(Animations(n[2]), Out)
      BY <1>4, <2>1, <2>2
    <2>4. Back(Inherited(n[2]), up) = Back(Inherited(n[2]), Out)
      BY <1>4, <2>1, <2>2
    <2>5. Callback(n, up) = BoundPoseFor(n[2], up)
      BY <1>7 DEF Callback
    <2>6. BoundPoseFor(n[2], up) = BoundPoseFor(n[2], Out)
      BY <2>3, <2>4 DEF BoundPoseFor
    <2> QED
      BY <1>1, <1>7, <2>5, <2>6
  <1>8. ASSUME n[1] \in RigComputations
        PROVE  Back(Targets, up) = Back(Targets, Out)
    <2>1. ToSet(Targets) \subseteq ToSet(Inputs(n))
      BY <1>8, InputsAre DEF RigComputations
    <2> QED
      BY <1>3, <1>4, <2>1
  <1>9. CASE n[1] = "vrm.computeHumanoidMap"
    <2>1. Callback(n, up) = HumanoidMapFor(up)
      BY <1>9 DEF Callback
    <2>2. HumanoidMapFor(up) = HumanoidMapFor(Out)
      BY <1>8, <1>9 DEF HumanoidMapFor, RigComputations
    <2> QED
      BY <1>1, <1>9, <2>1, <2>2
  <1>10. ASSUME n[1] \in RigComputations \ {"vrm.computeHumanoidMap", "vrm.computeJointLocalTransforms"}
         PROVE  up[H] = Out[H]
    <2>1. H \in ToSet(Inputs(n))
      BY <1>10, InputsAre DEF RigComputations
    <2> QED
      BY <1>2, <2>1
  <1>11. ASSUME n[1] \in RigComputations \ {"vrm.computeHumanoidMap", "vrm.computeJointLocalTransforms"}
         PROVE  RigAnswers(up) = RigAnswers(Out) /\ Map(up) = Map(Out) /\ Target(up) = Target(Out)
    <2>1. up[H] = Out[H] /\ Back(Targets, up) = Back(Targets, Out)
      BY <1>8, <1>10, <1>11
    <2> QED
      BY <2>1 DEF RigAnswers, Map, Target
  <1>12. ASSUME n[1] \in {"vrm.computeRestPoseCorrection", "vrm.humanoidRetarget",
                          "vrm.computeRetargetDiagnostics"}
         PROVE  Back(Sources, up) = Back(Sources, Out) /\ SourceFor(up) = SourceFor(Out)
    <2>1. ToSet(Sources) \subseteq ToSet(Inputs(n))
      BY <1>12, InputsAre
    <2>2. Back(Sources, up) = Back(Sources, Out)
      BY <1>3, <1>4, <2>1
    <2> QED
      BY <2>2 DEF SourceFor
  <1>13. CASE n[1] = "vrm.computeRestPoseCorrection"
    <2>1. Callback(n, up) = RestPoseCorrectionFor(up)
      BY <1>13 DEF Callback
    <2>2. RestPoseCorrectionFor(up) = RestPoseCorrectionFor(Out)
      BY <1>11, <1>12, <1>13 DEF RestPoseCorrectionFor, RigComputations
    <2> QED
      BY <1>1, <1>13, <2>1, <2>2
  <1>14. ASSUME n[1] \in {"vrm.humanoidRetarget", "vrm.computeRetargetDiagnostics"}
         PROVE  /\ Back(BoundPoses, up) = Back(BoundPoses, Out)
                /\ RetargetRefusal(up) = RetargetRefusal(Out)
    <2>1. ToSet(BoundPoses) \subseteq ToSet(Inputs(n))
      BY <1>14, InputsAre
    <2>2. Back(BoundPoses, up) = Back(BoundPoses, Out)
      BY <1>3, <1>4, <2>1
    <2>3. RetargetRefusal(up) = RetargetRefusal(Out)
      BY <1>11, <1>12, <1>14, <2>2 DEF RetargetRefusal, RigComputations
    <2> QED
      BY <2>2, <2>3
  <1>15. CASE n[1] = "vrm.humanoidRetarget"
    <2>1. Callback(n, up) = HumanoidRetargetFor(up)
      BY <1>15 DEF Callback
    <2>2. HumanoidRetargetFor(up) = HumanoidRetargetFor(Out)
      BY <1>11, <1>14, <1>15 DEF HumanoidRetargetFor, RigComputations
    <2> QED
      BY <1>1, <1>15, <2>1, <2>2
  <1>16. CASE n[1] = "vrm.computeRigDiagnostics"
    <2>1. Callback(n, up) = RigDiagnosticsFor(up)
      BY <1>16 DEF Callback
    <2>2. RigDiagnosticsFor(up) = RigDiagnosticsFor(Out)
      BY <1>11, <1>16 DEF RigDiagnosticsFor, RigComputations
    <2> QED
      BY <1>1, <1>16, <2>1, <2>2
  <1>17. CASE n[1] = "vrm.computeJointLocalTransforms"
    <2>1. Callback(n, up) = JointLocalTransformsFor(up)
      BY <1>17 DEF Callback
    <2>2. R \in ToSet(Inputs(n))
      BY <1>17, InputsAre
    <2>3. up[R] = Out[R]
      BY <1>2, <2>2
    <2>4. Back(Targets, up) = Back(Targets, Out)
      BY <1>8, <1>17 DEF RigComputations
    <2>5. JointLocalTransformsFor(up) = JointLocalTransformsFor(Out)
      BY <2>3, <2>4 DEF JointLocalTransformsFor, Target
    <2> QED
      BY <1>1, <1>17, <2>1, <2>5
  <1>18. CASE n[1] = "vrm.computeRetargetDiagnostics"
    <2>1. Callback(n, up) = RetargetDiagnosticsFor(up)
      BY <1>18 DEF Callback
    <2>2. D \in ToSet(Inputs(n))
      BY <1>18, InputsAre
    <2>3. up[D] = Out[D]
      BY <1>2, <2>2
    <2>4. RetargetDiagnosticsFor(up) = RetargetDiagnosticsFor(Out)
      BY <1>11, <1>14, <1>18, <2>3 DEF RetargetDiagnosticsFor, RigComputations
    <2> QED
      BY <1>1, <1>18, <2>1, <2>4
  <1>19. n[1] \in RigComputations \cup
            {"vrm.computeTargetSkeleton", "vrm.computeBoundPose",
             "vrm.computeBindingPose", "motion.sampleAnimation"}
    BY NodesAre, ProvidedBy
  <1> QED
    BY <1>5, <1>6, <1>7, <1>9, <1>13, <1>15, <1>16, <1>17, <1>18, <1>19 DEF RigComputations

-----------------------------------------------------------------------------
(* Refusals *)

\* The refusals that speak of the stage and not of another node.
LEMMA StageReasons ==
    ASSUME NEW up
    PROVE  /\ \A p : LET o == TargetSkeletonFromRest(p)
                     IN  ~o.answered => o.reason[1] \notin Propagated
           /\ \A p : LET o == BoundPoseFor(p, up) IN ~o.answered => o.reason[1] \notin Propagated
           /\ LET o == HumanoidMapFor(up) IN ~o.answered => o.reason[1] \notin Propagated
           /\ SourceFor(up) # << >> => SourceFor(up)[1] \notin Propagated
           /\ \A target : RootMotionRefusal(target) # << >> =>
                  RootMotionRefusal(target)[1] \notin Propagated
  <1>1. ASSUME NEW p, ~TargetSkeletonFromRest(p).answered
        PROVE  TargetSkeletonFromRest(p).reason[1] \notin Propagated
    BY <1>1 DEF TargetSkeletonFromRest, Answer, Refuse, Propagated
  <1>2. ASSUME NEW p, ~BoundPoseFor(p, up).answered
        PROVE  BoundPoseFor(p, up).reason[1] \notin Propagated
    BY <1>2 DEF BoundPoseFor, Answer, Refuse, Propagated
  <1>3. ASSUME ~HumanoidMapFor(up).answered PROVE HumanoidMapFor(up).reason[1] \notin Propagated
    BY <1>3 DEF HumanoidMapFor, Answer, Refuse, Propagated
  <1>4. \A k : SourceRestFromSkeleton(k) # << >> => SourceRestFromSkeleton(k)[1] = "SourceRest"
    BY DEF SourceRestFromSkeleton
  <1>5. SourceFor(up) # << >> => SourceFor(up)[1] \notin Propagated
    BY <1>4 DEF SourceFor, Propagated
  <1>6. \A target : RootMotionRefusal(target) # << >> => RootMotionRefusal(target)[1] = "RootMotion"
    BY DEF RootMotionRefusal
  <1>7. \A target : RootMotionRefusal(target) # << >> =>
            RootMotionRefusal(target)[1] \notin Propagated
    BY <1>6 DEF Propagated
  <1> QED
    BY <1>1, <1>2, <1>3, <1>5, <1>7

\* A missing answer, to be seen in the node's own report or laid to the driver.
IsToBlame(m) ==
    \/ m \in DOMAIN overrides
    \/ ~Out[m].answered /\ m[1] \notin {"motion.sampleAnimation", "vrm.computeBindingPose"}

\* Where the rig does not answer, its map is to blame: it has no value without the skeleton.
LEMMA RigToBlame ==
    ASSUME stage \in Stages, ~RigAnswers(Out)
    PROVE  IsToBlame(Own("vrm.computeHumanoidMap"))
  <1> DEFINE H == Own("vrm.computeHumanoidMap")
  <1>1. H \in Nodes /\ H[1] = "vrm.computeHumanoidMap"
    BY OwnIsNode DEF RigComputations, Own
  <1>2. ASSUME H \notin DOMAIN overrides, Out[H].answered PROVE FALSE
    <2>1. Out[H] = HumanoidMapFor(Out)
      BY <1>1, <1>2, Reads
    <2>2. Len(Back(Targets, Out)) = 1
      BY <1>2, <2>1 DEF HumanoidMapFor, Answer, Refuse
    <2> QED
      BY <1>2, <2>2 DEF RigAnswers
  <1> QED
    BY <1>1, <1>2 DEF IsToBlame

\* A source without a fault is one skeleton, and so is what its pose is read from.
LEMMA OneSource ==
    ASSUME stage \in Stages, SourceFor(Out) = << >>
    PROVE  Len(Back(Sources, Out)) = 1 /\ Len(BoundPoses) = 1
  <1> DEFINE targets == Humanoid.sourceSkeleton
             R == {i \in DOMAIN targets : targets[i] \in DOMAIN stage.prims}
             P == Providing(targets, "vrm.computeTargetSkeleton")
             Q == Providing(targets, "vrm.computeBoundPose")
  <1>1. targets \in Seq(Range(targets))
    BY StageIs
  <1>2. Len(Reached(targets)) <= 1 /\ Len(Back(Sources, Out)) = 1
    <2>1. Reached(targets) # << >> /\ ~(Len(Reached(targets)) > 1) /\ Len(Back(Sources, Out)) = 1
      BY DEF SourceFor
    <2>2. Len(Reached(targets)) = Cardinality(R) /\ Cardinality(R) \in Nat
      <3>1. R \in SUBSET DOMAIN targets /\ Len(targets) \in Nat /\ DOMAIN targets = 1 .. Len(targets)
        BY <1>1
      <3>2. Reached(targets) = Entries(targets, R)
        BY DEF Reached
      <3> HIDE DEF R
      <3> QED
        BY <3>1, <3>2, EntriesHold
    <2> QED
      BY <2>1, <2>2
  <1>3. P = Q
    BY NodesAre, ProvidedBy DEF Providing
  <1>4. /\ Sources \in Seq(Nodes) /\ Len(Sources) = Cardinality(P) /\ Len(BoundPoses) = Cardinality(P)
        /\ Cardinality(P) \in Nat
    BY <1>1, <1>3, FanInIs DEF Sources, BoundPoses
  <1>5. Cardinality(P) <= 1
    <2>1. P \in SUBSET R
      BY NodesAre DEF Providing
    <2>2. R \in SUBSET DOMAIN targets /\ Len(targets) \in Nat /\ DOMAIN targets = 1 .. Len(targets)
      BY <1>1
    <2>3. Reached(targets) = Entries(targets, R)
      BY DEF Reached
    <2> HIDE DEF R, P
    <2>4. Len(Reached(targets)) = Cardinality(R) /\ Cardinality(R) \in Nat
      BY <2>2, <2>3, EntriesHold
    <2>5. IsFiniteSet(R)
      <3>1. IsFiniteSet(DOMAIN targets)
        BY <2>2, FS_Interval
      <3> QED
        BY <2>2, <3>1, FS_Subset
    <2>6. Cardinality(P) <= Cardinality(R)
      BY <2>1, <2>5, FS_Subset
    <2> QED
      BY <1>2, <1>4, <2>4, <2>6
  <1>6. Cardinality(P) # 0
    <2>1. ASSUME Cardinality(P) = 0 PROVE FALSE
      <3>1. Len(Sources) = 0 /\ Sources \in Seq(Nodes)
        BY <1>4, <2>1
      <3>2. \A m \in ToSet(Sources) : Out[m].answered
        BY <3>1 DEF ToSet
      <3>3. Len(Back(Sources, Out)) = 0
        BY <3>1, <3>2, BackIs
      <3> QED
        BY <1>2, <3>3
    <2> QED
      BY <2>1
  <1> QED
    BY <1>2, <1>4, <1>5, <1>6

\* A refusal that only passes on another's has that one among its inputs.
LEMMA Explained ==
    ASSUME stage \in Stages, NEW n \in Nodes, n \notin DOMAIN overrides,
           n[1] # "motion.sampleAnimation",
           ~Out[n].answered, Out[n].reason[1] \in Propagated
    PROVE  \E m \in ToSet(Inputs(n)) : IsToBlame(m)
  <1> DEFINE H == Own("vrm.computeHumanoidMap")
             R == Own("vrm.humanoidRetarget")
             D == Own("vrm.computeRigDiagnostics")
  <1>1. n[1] \in RigComputations \cup
            {"vrm.computeTargetSkeleton", "vrm.computeBoundPose",
             "vrm.computeBindingPose", "motion.sampleAnimation"}
    BY NodesAre, ProvidedBy
  <1>2. n[1] \in RigComputations \ {"vrm.computeHumanoidMap"}
    BY <1>1, Reads, StageReasons
  <1>3. ASSUME RetargetRefusal(Out) # << >>, RetargetRefusal(Out)[1] \in Propagated,
               n[1] \in {"vrm.humanoidRetarget", "vrm.computeRetargetDiagnostics"}
        PROVE  \E m \in ToSet(Inputs(n)) : IsToBlame(m)
    <2>1. CASE ~RigAnswers(Out)
      <3>1. H \in ToSet(Inputs(n))
        BY <1>3, InputsAre
      <3> QED
        BY <2>1, <3>1, RigToBlame
    <2>2. CASE RigAnswers(Out)
      <3>1. RootMotionRefusal(Target(Out)) = << >>
        BY <1>3, <2>2, StageReasons DEF RetargetRefusal
      <3>2. SourceFor(Out) = << >>
        BY <1>3, <2>2, <3>1, StageReasons DEF RetargetRefusal
      <3>3. Len(Back(BoundPoses, Out)) # 1
        BY <1>3, <2>2, <3>1, <3>2 DEF RetargetRefusal, Propagated
      <3>4. Len(BoundPoses) = 1 /\ BoundPoses \in Seq(Nodes)
        BY <3>2, OneSource, ListsAre
      <3>5. PICK m \in ToSet(BoundPoses) : ~Out[m].answered
        BY <3>3, <3>4, BackIs
      <3>6. m[1] = "vrm.computeBoundPose"
        BY ListsAre
      <3>7. m \in ToSet(Inputs(n))
        BY <1>3, InputsAre
      <3> QED
        BY <3>5, <3>6, <3>7 DEF IsToBlame
    <2> QED
      BY <2>1, <2>2
  <1>4. CASE n[1] = "vrm.computeRestPoseCorrection"
    <2>1. Out[n] = RestPoseCorrectionFor(Out)
      BY <1>4, Reads
    <2>2. ~RigAnswers(Out)
      BY <2>1, StageReasons DEF RestPoseCorrectionFor, Answer, Refuse
    <2>3. H \in ToSet(Inputs(n))
      BY <1>4, InputsAre
    <2> QED
      BY <2>2, <2>3, RigToBlame
  <1>5. CASE n[1] = "vrm.computeRigDiagnostics"
    <2>1. Out[n] = RigDiagnosticsFor(Out)
      BY <1>5, Reads
    <2>2. ~RigAnswers(Out)
      BY <2>1, StageReasons DEF RigDiagnosticsFor, Answer, Refuse
    <2>3. H \in ToSet(Inputs(n))
      BY <1>5, InputsAre
    <2> QED
      BY <2>2, <2>3, RigToBlame
  <1>6. CASE n[1] = "vrm.humanoidRetarget"
    <2>1. Out[n] = HumanoidRetargetFor(Out)
      BY <1>6, Reads
    <2>2. RetargetRefusal(Out) # << >> /\ RetargetRefusal(Out)[1] \in Propagated
      BY <2>1 DEF HumanoidRetargetFor, Answer, Refuse
    <2> QED
      BY <1>3, <1>6, <2>2
  <1>7. CASE n[1] = "vrm.computeJointLocalTransforms"
    <2>1. Out[n] = JointLocalTransformsFor(Out)
      BY <1>7, Reads
    <2>2. R \in ToSet(Inputs(n)) /\ R \in Nodes /\ R[1] = "vrm.humanoidRetarget"
      BY <1>7, InputsAre, OwnIsNode DEF RigComputations, Own
    <2>3. CASE R \in DOMAIN overrides \/ ~Out[R].answered
      BY <2>2, <2>3 DEF IsToBlame
    <2>4. CASE R \notin DOMAIN overrides /\ Out[R].answered
      <3>1. Out[R] = HumanoidRetargetFor(Out)
        BY <2>2, <2>4, Reads
      <3>2. RetargetRefusal(Out) = << >>
        BY <2>4, <3>1 DEF HumanoidRetargetFor, Answer, Refuse
      <3>3. RigAnswers(Out)
        BY <3>2 DEF RetargetRefusal
      <3>4. Len(Back(Targets, Out)) = 1
        BY <3>3 DEF RigAnswers
      <3>5. Out[n].reason = <<"JointCount">>
        BY <2>1, <2>4, <3>4 DEF JointLocalTransformsFor, Answer, Refuse
      <3> QED
        BY <3>5 DEF Propagated
    <2> QED
      BY <2>3, <2>4
  <1>8. CASE n[1] = "vrm.computeRetargetDiagnostics"
    <2>1. Out[n] = RetargetDiagnosticsFor(Out)
      BY <1>8, Reads
    <2>2. D \in ToSet(Inputs(n)) /\ D[1] = "vrm.computeRigDiagnostics"
      BY <1>8, InputsAre DEF Own
    <2>3. CASE RetargetRefusal(Out) # << >>
      <3>1. RetargetRefusal(Out)[1] \in Propagated
        BY <2>1, <2>3 DEF RetargetDiagnosticsFor, Answer, Refuse
      <3> QED
        BY <1>3, <1>8, <2>3, <3>1
    <2>4. CASE RetargetRefusal(Out) = << >>
      <3>1. ~Out[D].answered
        BY <2>1, <2>4 DEF RetargetDiagnosticsFor, Answer, Refuse
      <3> QED
        BY <2>2, <3>1 DEF IsToBlame
    <2> QED
      BY <2>3, <2>4
  <1> QED
    BY <1>2, <1>4, <1>5, <1>6, <1>7, <1>8 DEF RigComputations

\* The network is the stage's: it stands as long as the stage does.
LEMMA NetworkStays ==
    ASSUME stage' = stage
    PROVE  (\A n : Inputs(n)' = Inputs(n)) /\ (\A c : Own(c)' = Own(c))
  <1>1. Nodes' = Nodes
    BY DEF Nodes, Provided, RigComputations
  <1>2. \A targets, c : FanIn(targets, c)' = FanIn(targets, c)
    BY <1>1 DEF FanIn
  <1>3. Humanoid' = Humanoid /\ \A c : Own(c)' = Own(c)
    BY DEF Humanoid, Own
  <1>4. Targets' = Targets /\ Sources' = Sources /\ BoundPoses' = BoundPoses
    BY <1>2, <1>3 DEF Targets, Sources, BoundPoses
  <1>5. \A p : Animations(p)' = Animations(p) /\ Inherited(p)' = Inherited(p)
    BY <1>2 DEF Animations, Inherited
  <1>6. /\ CorrectionInputs' = CorrectionInputs
        /\ JointTransformsInputs' = JointTransformsInputs
        /\ RigDiagnosticsInputs' = RigDiagnosticsInputs
    BY <1>3, <1>4 DEF CorrectionInputs, JointTransformsInputs, RigDiagnosticsInputs
  <1>7. RetargetInputs' = RetargetInputs
    BY <1>4, <1>6 DEF RetargetInputs
  <1>8. RetargetDiagnosticsInputs' = RetargetDiagnosticsInputs
    BY <1>3, <1>7 DEF RetargetDiagnosticsInputs
  <1>9. \A n : Inputs(n)' = Inputs(n)
    BY <1>4, <1>5, <1>6, <1>7, <1>8 DEF Inputs, BoundPoseInputs
  <1> QED
    BY <1>3, <1>9

\* The stage is one of the stages, and what is answered is explained.
ExplainedInv == stage \in Stages /\ RefusalsAreExplained

LEMMA ComputeExplains ==
    ASSUME stage \in Stages, Compute
    PROVE  RefusalsAreExplained'
  <1>1. PICK c \in RigComputations : requested' = Own(c) /\ answers' = Evaluate(Own(c))
    BY DEF Compute
  <1> DEFINE r == Own(c)
  <1>2. r \in Nodes /\ r[1] = c
    BY OwnIsNode DEF Own
  <1>3. r \in Above[r] /\ Above[r] \in SUBSET Nodes
    BY <1>2, NeededClosed
  <1>4. DOMAIN answers' = Above[r] /\ \A n \in Above[r] : answers'[n] = Out[n]
    BY <1>1, EvaluateIs
  <1>5. overrides' = overrides /\ \A n : Inputs(n)' = Inputs(n)
    BY NetworkStays DEF Compute
  <1>6. \A n : Posts(n)' <=> /\ ~answers'[n].answered /\ n \notin DOMAIN overrides
                             /\ n[1] # "motion.sampleAnimation"
                             /\ ~(n[1] = "vrm.computeBindingPose"
                                     /\ answers'[n].reason = <<"NoAnimation">>)
    BY <1>5 DEF Posts, Refused, IsSilent
  <1> HIDE DEF r
  <1>7. ASSUME NEW n \in DOMAIN answers', n = requested', Refused(n)' PROVE Posts(n)'
    <2>1. ~answers'[n].answered /\ n \notin DOMAIN overrides
      BY <1>5, <1>7 DEF Refused
    <2>2. n[1] = c /\ c \in RigComputations
      BY <1>1, <1>2, <1>7 DEF r
    <2> QED
      BY <1>6, <2>1, <2>2 DEF RigComputations
  <1>8. ASSUME NEW n \in DOMAIN answers', Posts(n)', answers'[n].reason[1] \in Propagated
        PROVE  \E m \in ToSet(Inputs(n)') : Posts(m)' \/ m \in DOMAIN overrides'
    <2>1. n \in Nodes /\ answers'[n] = Out[n] /\ n \in Above[r]
      BY <1>3, <1>4, <1>8
    <2>2. ~Out[n].answered /\ n \notin DOMAIN overrides /\ n[1] # "motion.sampleAnimation"
      BY <1>6, <1>8, <2>1
    <2>3. PICK m \in ToSet(Inputs(n)) : IsToBlame(m)
      BY <1>8, <2>1, <2>2, Explained
    <2>4. m \in Above[r]
      BY <1>2, <2>1, <2>2, NeededClosed
    <2>5. answers'[m] = Out[m]
      BY <1>4, <2>4
    <2>6. m \in DOMAIN overrides \/ Posts(m)'
      BY <1>6, <2>3, <2>5 DEF IsToBlame
    <2> QED
      BY <1>5, <2>3, <2>6
  <1>9. Propagated' = Propagated
    BY DEF Propagated
  <1> QED
    BY <1>7, <1>8, <1>9 DEF RefusalsAreExplained

(* A missing answer is never silent: the request posts its refusal, and one that only says
   another node answered nothing has that node's own beside it, unless a driver took the
   value away -- for every stage, vocabulary and override. *)
THEOREM EveryRefusalIsExplained == Spec => []RefusalsAreExplained
  <1>1. Init => ExplainedInv
    BY DEF Init, ExplainedInv, RefusalsAreExplained, NoAnswers
  <1>2. ExplainedInv /\ [Next]_vars => ExplainedInv'
    <2> SUFFICES ASSUME ExplainedInv, [Next]_vars PROVE ExplainedInv'
      OBVIOUS
    <2>1. CASE Forget
      <3>1. answers' = NoAnswers /\ DOMAIN NoAnswers = {}
        BY <2>1 DEF Forget, NoAnswers
      <3>2. RefusalsAreExplained'
        BY <3>1 DEF RefusalsAreExplained
      <3>3. CASE Edit
        BY <3>2, <3>3 DEF Edit, ExplainedInv
      <3>4. CASE ChangeTime
        BY <3>2, <3>4 DEF ChangeTime, ExplainedInv
      <3>5. CASE Override
        BY <3>2, <3>5 DEF Override, ExplainedInv
      <3>6. CASE Compute
        BY <3>2, <3>6 DEF Compute, ExplainedInv
      <3>7. CASE UNCHANGED vars
        BY <3>2, <3>7 DEF vars, ExplainedInv
      <3> QED
        BY <3>3, <3>4, <3>5, <3>6, <3>7 DEF Next
    <2>2. CASE Compute
      BY <2>2, ComputeExplains DEF ExplainedInv, Compute
    <2>3. CASE UNCHANGED vars
      <3>1. \A n : Inputs(n)' = Inputs(n)
        BY <2>3, NetworkStays DEF vars
      <3>2. \A n : Posts(n)' <=> Posts(n)
        BY <2>3 DEF vars, Posts, Refused, IsSilent
      <3>3. \A n : Refused(n)' <=> Refused(n)
        BY <2>3 DEF vars, Refused
      <3>4. answers' = answers /\ requested' = requested /\ overrides' = overrides /\ stage' = stage
        BY <2>3 DEF vars
      <3>5. RefusalsAreExplained'
        BY <3>1, <3>2, <3>3, <3>4 DEF RefusalsAreExplained, ExplainedInv, Propagated
      <3> QED
        BY <3>4, <3>5 DEF ExplainedInv
    <2> QED
      BY <2>1, <2>2, <2>3 DEF Next, Edit, ChangeTime, Override
  <1>3. ExplainedInv => RefusalsAreExplained
    BY DEF ExplainedInv
  <1> QED
    BY <1>1, <1>2, <1>3, PTL DEF Spec

-----------------------------------------------------------------------------
(* A network no driver touches *)

\* What comes back first of some answers is one of them.
LEMMA FirstBack ==
    ASSUME NEW nodes \in Seq(Nodes), Len(Back(nodes, Out)) = 1 \/ Back(nodes, Out) # << >>
    PROVE  \E m \in ToSet(nodes) : Out[m].answered /\ Back(nodes, Out)[1] = Out[m].value
  <1>1. 1 \in DOMAIN Back(nodes, Out)
    BY BackIs
  <1> QED
    BY <1>1, BackIs

\* A skeleton that answers has a list of joints.
LEMMA TargetJoints ==
    ASSUME stage \in Stages, overrides = NoOverrides, RigAnswers(Out)
    PROVE  /\ Len(Target(Out).joints) \in Nat
           /\ DOMAIN Target(Out).joints = 1 .. Len(Target(Out).joints)
  <1>1. Targets \in Seq(Nodes) /\ \A m \in ToSet(Targets) : m[1] = "vrm.computeTargetSkeleton"
    BY ListsAre
  <1>2. PICK m \in ToSet(Targets) : Out[m].answered /\ Target(Out) = Out[m].value
    BY <1>1, FirstBack DEF RigAnswers, Target
  <1>3. m \in Nodes /\ m[1] = "vrm.computeTargetSkeleton" /\ m \notin DOMAIN overrides
    BY <1>1 DEF ToSet, NoOverrides
  <1>4. m[2] \in DOMAIN stage.prims /\ stage.prims[m[2]].type = "skeleton"
    BY <1>3, NodesAre, ProvidedBy
  <1>5. PICK p : p = stage.prims[m[2]]
    OBVIOUS
  <1>6. PICK empty, none : empty = "" /\ none = << >>
    OBVIOUS
  <1>7. PICK joints : joints = Arrives(p.joints, empty)
    OBVIOUS
  <1>8. Out[m] = TargetSkeletonFromRest(p)
    BY <1>3, <1>5, Reads
  <1>9. Out[m].value.joints = joints
    <2>1. CASE joints = none
      <3>1. Out[m] = Answer([joints |-> none, rests |-> none])
        BY <1>6, <1>7, <1>8, <2>1 DEF TargetSkeletonFromRest
      <3> QED
        BY <2>1, <3>1 DEF Answer
    <2>2. CASE joints # none
      <3>1. \/ Out[m] = Answer([joints |-> joints, rests |-> Arrives(p.restTransforms, IdentityRest)])
            \/ Out[m] = Refuse(<<"RestTransformCount">>) \/ Out[m] = Refuse(<<"EmptyJointToken">>)
        BY <1>6, <1>7, <1>8, <2>2 DEF TargetSkeletonFromRest
      <3> QED
        BY <1>2, <3>1 DEF Answer, Refuse
    <2> QED
      BY <2>1, <2>2
  <1>10. Len(joints) \in Nat /\ DOMAIN joints = 1 .. Len(joints)
    <2>1. CASE p.joints = None
      <3>1. joints = <<empty>>
        BY <1>7, <2>1 DEF Arrives
      <3> QED
        BY <3>1
    <2>2. CASE p.joints # None
      <3>1. joints = p.joints
        BY <1>7, <2>2 DEF Arrives
      <3>2. p.joints \in Seq(Range(p.joints))
        BY <1>4, <1>5, <2>2, StageIs
      <3> QED
        BY <3>1, <3>2
    <2> QED
      BY <2>1, <2>2
  <1> QED
    BY <1>2, <1>9, <1>10

\* A map that answers has no joint of two bones.
LEMMA MapIs ==
    ASSUME stage \in Stages, overrides = NoOverrides, RigAnswers(Out)
    PROVE  \A b, c \in DOMAIN Map(Out) : Map(Out)[b] = Map(Out)[c] => b = c
  <1> DEFINE H == Own("vrm.computeHumanoidMap")
  <1>1. H \in Nodes /\ H[1] = "vrm.computeHumanoidMap" /\ H \notin DOMAIN overrides
    BY OwnIsNode DEF RigComputations, Own, NoOverrides
  <1>2. Out[H] = HumanoidMapFor(Out) /\ Out[H].answered
    BY <1>1, Reads DEF RigAnswers
  <1>3. Map(Out) = [b \in Bound |-> Humanoid.humanBones[b]] /\ Shared(Bound) = {}
    BY <1>2 DEF HumanoidMapFor, Answer, Refuse, Map
  <1> QED
    BY <1>3 DEF Shared

\* At an instant, every pose is of that instant.
LEMMA PosesAreNow ==
    ASSUME stage \in Stages, overrides = NoOverrides, time # Default, NEW r \in Nodes,
           r[1] \in {"motion.sampleAnimation", "vrm.computeBoundPose", "vrm.computeBindingPose"},
           Out[r].answered
    PROVE  Out[r].value.timestamp = time
  <1> DEFINE Poses == {"motion.sampleAnimation", "vrm.computeBoundPose", "vrm.computeBindingPose"}
             S == {n \in Nodes : n[1] \in Poses /\ Out[n].answered /\ Out[n].value.timestamp # time}
  <1>1. ASSUME S # {} PROVE FALSE
    <2>1. S \in SUBSET Nodes
      OBVIOUS
    <2> HIDE DEF S
    <2>2. PICK n \in S : \A m \in ToSet(Inputs(n)) : m \notin S
      BY <1>1, <2>1, Grounded
    <2>3. n \in Nodes /\ n[1] \in Poses /\ Out[n].answered /\ Out[n].value.timestamp # time
      BY <2>2 DEF S
    <2>4. n \notin DOMAIN overrides
      BY DEF NoOverrides
    <2>5. CASE n[1] = "motion.sampleAnimation"
      <3>1. Out[n] = SampleAnimation(stage.prims[n[2]])
        BY <2>3, <2>4, <2>5, Reads
      <3>2. Out[n] = Answer([timestamp |-> time, bones |-> stage.prims[n[2]].bones])
        BY <2>3, <3>1 DEF SampleAnimation, Refuse, Answer
      <3> QED
        BY <2>3, <3>2 DEF Answer
    <2>6. CASE n[1] \in {"vrm.computeBoundPose", "vrm.computeBindingPose"}
      <3>1. /\ n[2] \in DOMAIN stage.prims
            /\ stage.prims[n[2]].type \in {"skeleton", "binding"}
            /\ ToSet(Inputs(n)) = ToSet(Animations(n[2])) \cup ToSet(Inherited(n[2]))
        BY <2>3, <2>6, InputsAre
      <3>2. /\ Animations(n[2]) \in Seq(Nodes) /\ Inherited(n[2]) \in Seq(Nodes)
            /\ \A m \in ToSet(Animations(n[2])) : m[1] = "motion.sampleAnimation"
            /\ \A m \in ToSet(Inherited(n[2])) : m[1] = "vrm.computeBindingPose"
        BY <3>1, BindingsAre
      <3>3. Out[n] = BoundPoseFor(n[2], Out)
        BY <2>3, <2>4, <2>6, Reads
      <3>4. \/ Back(Inherited(n[2]), Out) # << >> /\ Out[n].value = Back(Inherited(n[2]), Out)[1]
            \/ Len(Back(Animations(n[2]), Out)) = 1 /\ Out[n].value = Back(Animations(n[2]), Out)[1]
        BY <2>3, <3>3 DEF BoundPoseFor, Answer, Refuse
      <3>5. \E m \in ToSet(Animations(n[2])) \cup ToSet(Inherited(n[2])) :
                Out[m].answered /\ Out[n].value = Out[m].value
        BY <3>2, <3>4, FirstBack
      <3>6. PICK m \in ToSet(Inputs(n)) :
                /\ Out[m].answered /\ Out[n].value = Out[m].value /\ m[1] \in Poses
        BY <3>1, <3>2, <3>5
      <3>7. m \in Nodes /\ m \notin S
        BY <2>2, <2>3, ReadsBelow
      <3> QED
        BY <2>3, <3>6, <3>7 DEF S
    <2> QED
      BY <2>3, <2>5, <2>6
  <1> QED
    BY <1>1

-----------------------------------------------------------------------------
(* The lists of reports *)

LEMMA Widened ==
    ASSUME NEW s, NEW A, s \in Seq(A), NEW V, A \subseteq V
    PROVE  s \in Seq(V)
  <1>1. s \in [1 .. Len(s) -> V] /\ Len(s) \in Nat
    OBVIOUS
  <1> QED
    BY <1>1

\* A list behind another: the first stays in front, and nothing is twice that was in one only.
LEMMA BehindList ==
    ASSUME NEW s, NEW t, IsList(s), IsList(t)
    PROVE  /\ IsList(s \o t) /\ ToSet(s \o t) = ToSet(s) \cup ToSet(t)
           /\ IsPrefix(s, s \o t)
           /\ IsInjective(s) /\ IsInjective(t) /\ (\A x \in ToSet(s) : x \notin ToSet(t)) =>
                  IsInjective(s \o t)
  <1> DEFINE V == ToSet(s) \cup ToSet(t)
  <1>1. s \in Seq(V) /\ t \in Seq(V)
    <2>1. s \in Seq(ToSet(s)) /\ t \in Seq(ToSet(t))
      BY DEF IsList, ToSet
    <2> HIDE DEF V
    <2> QED
      BY <2>1, Widened DEF V
  <1> HIDE DEF V
  <1>2. s \o t \in Seq(V) /\ ToSet(s \o t) = ToSet(s) \cup ToSet(t)
    BY <1>1, Behind
  <1>3. IsList(s \o t)
    <2>1. PICK u : u = s \o t
      OBVIOUS
    <2>2. u \in Seq(V)
      BY <1>2, <2>1
    <2>3. IsList(u)
      BY <2>2 DEF IsList
    <2> QED
      BY <2>1, <2>3
  <1>4. /\ DOMAIN (s \o t) = 1 .. Len(s) + Len(t) /\ Len(s \o t) = Len(s) + Len(t)
        /\ Len(s) \in Nat /\ Len(t) \in Nat
        /\ DOMAIN s = 1 .. Len(s) /\ DOMAIN t = 1 .. Len(t)
        /\ \A i \in 1 .. Len(s) : (s \o t)[i] = s[i]
        /\ \A i \in 1 .. Len(s) + Len(t) : i > Len(s) => (s \o t)[i] = t[i - Len(s)]
    BY <1>1
  <1>5. IsPrefix(s, s \o t)
    <2>1. PICK u : u = s \o t
      OBVIOUS
    <2>2. SubSeq(s, 1, Len(s)) = [i \in 1 .. Len(s) |-> s[i]]
      BY <1>1, <1>4
    <2>3. SubSeq(u, 1, Len(s)) = [i \in 1 .. Len(s) |-> u[i]]
      BY <1>2, <1>4, <2>1
    <2>4. \A i \in 1 .. Len(s) : s[i] = u[i]
      BY <1>4, <2>1
    <2>5. Len(s) <= Len(u)
      BY <1>4, <2>1
    <2>6. IsPrefix(s, u)
      BY <2>2, <2>3, <2>4, <2>5 DEF IsPrefix
    <2> QED
      BY <2>1, <2>6
  <1>6. ASSUME IsInjective(s), IsInjective(t), \A x \in ToSet(s) : x \notin ToSet(t)
        PROVE  IsInjective(s \o t)
    <2> DEFINE u == s \o t
    <2>1. SUFFICES ASSUME NEW i \in DOMAIN u, NEW k \in DOMAIN u, u[i] = u[k] PROVE i = k
      BY DEF IsInjective
    <2>2. ASSUME NEW x \in 1 .. Len(s), NEW y \in 1 .. Len(s) + Len(t), y > Len(s), u[x] = u[y]
          PROVE  FALSE
      <3>1. u[x] = s[x] /\ s[x] \in ToSet(s)
        BY <1>4 DEF ToSet
      <3>2. y - Len(s) \in DOMAIN t /\ u[y] = t[y - Len(s)]
        BY <1>4, <2>2
      <3>3. u[y] \in ToSet(t)
        BY <3>2 DEF ToSet
      <3> QED
        BY <1>6, <2>2, <3>1, <3>3
    <2>3. CASE i <= Len(s) /\ k <= Len(s)
      BY <1>4, <1>6, <2>1, <2>3 DEF IsInjective
    <2>4. CASE i > Len(s) /\ k > Len(s)
      <3>1. i - Len(s) \in DOMAIN t /\ k - Len(s) \in DOMAIN t /\ t[i - Len(s)] = t[k - Len(s)]
        BY <1>4, <2>1, <2>4
      <3>2. i - Len(s) = k - Len(s)
        BY <1>6, <3>1 DEF IsInjective
      <3> QED
        BY <1>4, <3>2
    <2>5. CASE i <= Len(s) /\ k > Len(s)
      BY <1>4, <2>1, <2>2, <2>5
    <2>6. CASE i > Len(s) /\ k <= Len(s)
      BY <1>4, <2>1, <2>2, <2>6
    <2> QED
      BY <1>4, <2>3, <2>4, <2>5, <2>6
  <1> QED
    BY <1>2, <1>3, <1>5, <1>6

\* Entries of a list without repetition are one.
LEMMA EntriesInjective ==
    ASSUME NEW s, IsList(s), IsInjective(s), NEW P \in SUBSET DOMAIN s
    PROVE  /\ IsList(Entries(s, P)) /\ IsInjective(Entries(s, P))
           /\ \A x \in ToSet(Entries(s, P)) : \E p \in P : x = s[p]
  <1> DEFINE e == Entries(s, P)
             o == InOrder(P)
             c == Cardinality(P)
  <1>1. Len(s) \in Nat /\ DOMAIN s = 1 .. Len(s)
    BY DEF IsList
  <1>2. /\ c \in Nat /\ DOMAIN e = 1 .. c
        /\ \A i \in 1 .. c : o[i] \in P /\ e[i] = s[o[i]]
        /\ \A i, k \in 1 .. c : i < k => o[i] < o[k]
    BY <1>1, EntriesHold
  <1>3. IsList(e)
    <2>1. PICK V : V = {s[p] : p \in P}
      OBVIOUS
    <2>2. Entries(s, P) \in Seq({s[p] : p \in P})
      BY <1>1, EntriesHold
    <2>3. e \in Seq(V)
      BY <2>1, <2>2
    <2> HIDE DEF e
    <2> QED
      BY <2>3 DEF IsList
  <1> HIDE DEF e, o, c
  <1>4. IsInjective(e)
    <2>1. SUFFICES ASSUME NEW i \in 1 .. c, NEW k \in 1 .. c, e[i] = e[k] PROVE i = k
      BY <1>2 DEF IsInjective
    <2>2. o[i] \in DOMAIN s /\ o[k] \in DOMAIN s /\ s[o[i]] = s[o[k]]
      BY <1>2, <2>1
    <2>3. o[i] = o[k]
      BY <2>2 DEF IsInjective
    <2>4. o[i] \in Int /\ o[k] \in Int
      BY <1>1, <2>2
    <2> QED
      BY <1>2, <2>3, <2>4
  <1>5. \A x \in ToSet(e) : \E p \in P : x = s[p]
    BY <1>2 DEF ToSet
  <1> QED
    BY <1>3, <1>4, <1>5 DEF e

\* A report of one kind on each of some bones.
Tagged(tag, bones) == [i \in DOMAIN Listed(bones) |-> <<tag, Listed(bones)[i]>>]

LEMMA TaggedIs ==
    ASSUME NEW tag, NEW bones
    PROVE  /\ IsList(Tagged(tag, bones)) /\ IsInjective(Tagged(tag, bones))
           /\ \A x \in ToSet(Tagged(tag, bones)) : x[1] = tag
  <1> DEFINE l == Listed(bones)
             t == Tagged(tag, bones)
  <1>1. IsList(Bones) /\ IsInjective(Bones)
    BY BonesAssumption DEF IsList
  <1>2. IsList(l) /\ IsInjective(l)
    <2> DEFINE P == {i \in DOMAIN Bones : Bones[i] \in bones}
    <2>1. P \in SUBSET DOMAIN Bones /\ l = Entries(Bones, P)
      BY DEF Listed
    <2> HIDE DEF P, l
    <2> QED
      BY <1>1, <2>1, EntriesInjective
  <1>3. t = [i \in DOMAIN l |-> <<tag, l[i]>>]
    BY DEF Tagged
  <1> HIDE DEF l, t
  <1>4. Len(l) \in Nat /\ DOMAIN l = 1 .. Len(l)
    BY <1>2 DEF IsList
  <1>5. DOMAIN t = DOMAIN l /\ \A i \in DOMAIN l : t[i] = <<tag, l[i]>>
    BY <1>3
  <1>6. t \in [1 .. Len(l) -> {t[i] : i \in DOMAIN t}]
    BY <1>3, <1>4, <1>5
  <1>7. IsList(t)
    BY <1>4, <1>6 DEF IsList
  <1>8. IsInjective(t)
    BY <1>2, <1>5 DEF IsInjective
  <1>9. \A x \in ToSet(t) : x[1] = tag
    BY <1>5 DEF ToSet
  <1> QED
    BY <1>7, <1>8, <1>9 DEF t

\* The rig's own list: the required bones without a joint, and nothing a node upstream refuses.
LEMMA RigReports ==
    ASSUME stage \in Stages, overrides = NoOverrides, RigAnswers(Out),
           RootMotionRefusal(Target(Out)) = << >>
    PROVE  DiagnoseRig(Target(Out), Map(Out)) =
               Tagged("MissingRequiredBone", RequiredBones \ DOMAIN Map(Out))
  <1> DEFINE target == Target(Out)
             map == Map(Out)
             t == Tagged("MissingRequiredBone", RequiredBones \ DOMAIN map)
  <1>1. ~(\E b, c \in DOMAIN map : b # c /\ map[b] = map[c])
    BY MapIs
  <1>2. ~(/\ Humanoid.statements.rootMotion = "root"
          /\ Humanoid.statements.rootJoint \notin ToSet(target.joints))
    BY DEF RootMotionRefusal
  <1>3. DiagnoseRig(target, map) = t \o << >> \o << >>
    BY <1>1, <1>2 DEF DiagnoseRig, Tagged
  <1>4. IsList(t)
    BY TaggedIs
  <1> HIDE DEF t
  <1>5. t \o << >> = t
    BY <1>4 DEF IsList
  <1> QED
    BY <1>3, <1>5 DEF t

\* A pose's reports stand behind what was there, and none twice.
LEMMA PoseReports ==
    ASSUME NEW before, IsList(before), IsInjective(before), NEW pose, NEW map
    PROVE  /\ IsPrefix(before, PoseDiagnostics(before, pose, map))
           /\ IsInjective(PoseDiagnostics(before, pose, map))
           /\ \A x \in ToSet(PoseDiagnostics(before, pose, map)) :
                 x \in ToSet(before) \/ x[1] \in {"UnmappedBone", "MissingRequiredBone"}
  <1> DEFINE t == Tagged("UnmappedBone", pose.bones \ DOMAIN map)
             hips == IF RootMotionOptions.mode = "hips" /\ "hips" \notin DOMAIN map
                     THEN <<<<"MissingRequiredBone", "hips">>>> ELSE << >>
             reports == t \o hips
             P == {i \in DOMAIN reports : reports[i] \notin ToSet(before)}
             new == Entries(reports, P)
  <1>1. PoseDiagnostics(before, pose, map) = before \o new
    BY DEF PoseDiagnostics, Tagged
  <1>2. IsList(t) /\ IsInjective(t) /\ \A x \in ToSet(t) : x[1] = "UnmappedBone"
    BY TaggedIs
  <1>3. IsList(hips) /\ IsInjective(hips) /\ \A x \in ToSet(hips) : x[1] = "MissingRequiredBone"
    <2>1. PICK m : m = <<"MissingRequiredBone", "hips">>
      OBVIOUS
    <2>2. m[1] = "MissingRequiredBone"
      BY <2>1
    <2>3. hips = <<m>> \/ hips = << >>
      BY <2>1
    <2> HIDE DEF hips
    <2>4. CASE hips = <<m>>
      BY <2>2, <2>4 DEF IsList, IsInjective, ToSet
    <2>5. CASE hips = << >>
      BY <2>5 DEF IsList, IsInjective, ToSet
    <2> QED
      BY <2>3, <2>4, <2>5
  <1> HIDE DEF t, hips
  <1>4. \A x \in ToSet(t) : x \notin ToSet(hips)
    BY <1>2, <1>3
  <1>5. /\ IsList(reports) /\ IsInjective(reports)
        /\ ToSet(reports) = ToSet(t) \cup ToSet(hips)
    BY <1>2, <1>3, <1>4, BehindList
  <1> HIDE DEF reports
  <1>6. P \in SUBSET DOMAIN reports
    OBVIOUS
  <1>7. \A i \in P : reports[i] \notin ToSet(before) /\ reports[i] \in ToSet(reports)
    BY DEF ToSet
  <1> HIDE DEF P
  <1>8. IsList(new) /\ IsInjective(new) /\ \A x \in ToSet(new) : \E p \in P : x = reports[p]
    BY <1>5, <1>6, EntriesInjective
  <1> HIDE DEF new
  <1>9. \A x \in ToSet(before) : x \notin ToSet(new)
    BY <1>7, <1>8
  <1>10. /\ IsPrefix(before, before \o new) /\ IsInjective(before \o new)
         /\ ToSet(before \o new) = ToSet(before) \cup ToSet(new)
    BY <1>8, <1>9, BehindList
  <1>11. \A x \in ToSet(new) : x[1] \in {"UnmappedBone", "MissingRequiredBone"}
    BY <1>2, <1>3, <1>5, <1>7, <1>8
  <1> QED
    BY <1>1, <1>10, <1>11

\* What a request of a rig's computation answers is what the network has there.
LEMMA OutcomeIs ==
    ASSUME stage \in Stages, NEW c \in RigComputations
    PROVE  Outcome(c) = Out[Own(c)]
  <1>1. Own(c) \in Above[Own(c)]
    BY OwnIsNode, NeededClosed
  <1> QED
    BY <1>1, EvaluateIs DEF Outcome

\* A retarget that does not refuse: its rig, its list of reports and its pose are there.
LEMMA Retargets ==
    ASSUME stage \in Stages, overrides = NoOverrides, RetargetRefusal(Out) = << >>
    PROVE  /\ RigAnswers(Out) /\ RootMotionRefusal(Target(Out)) = << >> /\ time # Default
           /\ Back(BoundPoses, Out)[1].timestamp = time
  <1>1. /\ RigAnswers(Out) /\ RootMotionRefusal(Target(Out)) = << >>
        /\ Len(Back(BoundPoses, Out)) = 1 /\ time # Default
    BY DEF RetargetRefusal
  <1>2. /\ BoundPoses \in Seq(Nodes)
        /\ \A m \in ToSet(BoundPoses) : m[1] = "vrm.computeBoundPose"
    BY ListsAre
  <1>3. PICK m \in ToSet(BoundPoses) : Out[m].answered /\ Back(BoundPoses, Out)[1] = Out[m].value
    BY <1>1, <1>2, FirstBack
  <1>4. m \in Nodes
    BY <1>2 DEF ToSet
  <1>5. Out[m].value.timestamp = time
    BY <1>1, <1>2, <1>3, <1>4, PosesAreNow
  <1> QED
    BY <1>1, <1>3, <1>5

\* The bones a joint follows: the one that is mapped to it.
LEMMA OneBone ==
    ASSUME NEW map, NEW j, NEW S, \A b, c \in DOMAIN map : map[b] = map[c] => b = c,
           \A b \in S : b \in DOMAIN map /\ map[b] = j
    PROVE  Cardinality(S) <= 1
  <1>1. \A b, c \in S : b = c
    OBVIOUS
  <1>2. Cardinality(S) <= 1
    <2>1. CASE S = {}
      BY <2>1, FS_EmptySet
    <2>2. CASE S # {}
      <3>1. PICK b \in S : S = {b}
        BY <1>1, <2>2
      <3>2. Cardinality(S) = 1
        BY <3>1, FS_Singleton
      <3> QED
        BY <3>2
    <2> QED
      BY <2>1, <2>2
  <1> QED
    BY <1>2

\* The joint transforms, when the retarget answers: as many as joints, each of one bone.
LEMMA JointsAnswer ==
    ASSUME stage \in Stages, overrides = NoOverrides, RetargetRefusal(Out) = << >>
    PROVE  LET joints == Out[Own("vrm.computeJointLocalTransforms")]
           IN  /\ joints.answered
               /\ \A i \in DOMAIN joints.value.rotations :
                     Cardinality(joints.value.rotations[i]) <= 1
  <1> DEFINE R == Own("vrm.humanoidRetarget")
             J == Own("vrm.computeJointLocalTransforms")
             target == Target(Out)
             map == Map(Out)
             pose == Back(BoundPoses, Out)[1]
             local(j) == {b \in DOMAIN map \cap pose.bones : map[b] = j}
             locals == [i \in DOMAIN target.joints |-> local(target.joints[i])]
  <1>1. /\ R \in Nodes /\ R[1] = "vrm.humanoidRetarget" /\ R \notin DOMAIN overrides
        /\ J \in Nodes /\ J[1] = "vrm.computeJointLocalTransforms" /\ J \notin DOMAIN overrides
    BY OwnIsNode DEF RigComputations, Own, NoOverrides
  <1>2. RigAnswers(Out)
    BY Retargets
  <1>3. Out[R] = Answer(Retargeted(pose, target, map))
    BY <1>1, Reads DEF HumanoidRetargetFor
  <1>4. PICK l : l = locals
    OBVIOUS
  <1>5. Out[R].answered /\ Out[R].value.rotations = l /\ Out[R].value.translations = l
    <2>1. PICK v : v = Retargeted(pose, target, map)
      OBVIOUS
    <2>2. Retargeted(pose, target, map) =
              [timestamp |-> pose.timestamp, root |-> RootMotionOptions,
               rotations |-> l, translations |-> l]
      BY <1>4 DEF Retargeted
    <2> HIDE DEF locals, pose, target, map
    <2>3. v.rotations = l /\ v.translations = l
      BY <2>1, <2>2
    <2>4. Out[R] = [answered |-> TRUE, value |-> v]
      BY <1>3, <2>1 DEF Answer
    <2> QED
      BY <2>3, <2>4
  <1>6. Len(target.joints) \in Nat /\ DOMAIN target.joints = 1 .. Len(target.joints)
    BY <1>2, TargetJoints
  <1>7. \A i \in DOMAIN l : Cardinality(l[i]) <= 1
    <2>1. \A b, c \in DOMAIN map : map[b] = map[c] => b = c
      BY <1>2, MapIs
    <2>2. PICK m : m = map
      OBVIOUS
    <2>3. PICK bones : bones = pose.bones
      OBVIOUS
    <2>4. \A i \in DOMAIN l : l[i] = {b \in DOMAIN m \cap bones : m[b] = target.joints[i]}
      BY <1>4, <2>2, <2>3
    <2>5. \A b, c \in DOMAIN m : m[b] = m[c] => b = c
      BY <2>1, <2>2
    <2> HIDE DEF map, pose, target, locals
    <2>6. ASSUME NEW i \in DOMAIN l PROVE Cardinality(l[i]) <= 1
      <3>1. PICK j : j = target.joints[i]
        OBVIOUS
      <3>2. PICK S : S = l[i]
        OBVIOUS
      <3>3. \A b \in S : b \in DOMAIN m /\ m[b] = j
        BY <2>4, <2>6, <3>1, <3>2
      <3>4. Cardinality(S) <= 1
        BY <2>5, <3>3, OneBone
      <3> QED
        BY <3>2, <3>4
    <2> QED
      BY <2>6
  <1>8. Len(l) = Len(target.joints)
    <2>1. PICK n \in Nat : n = Len(target.joints) /\ DOMAIN target.joints = 1 .. n
      BY <1>6
    <2>2. DOMAIN l = 1 .. n
      BY <1>4, <2>1
    <2>3. l = [i \in 1 .. n |-> l[i]]
      BY <1>4, <2>1, <2>2
    <2> HIDE DEF locals, target
    <2>4. l \in [1 .. n -> {l[i] : i \in 1 .. n}]
      BY <2>3
    <2> QED
      BY <2>1, <2>4
  <1>9. Len(Back(Targets, Out)) = 1
    BY <1>2 DEF RigAnswers
  <1>10. Out[J] = JointLocalTransformsFor(Out)
    BY <1>1, Reads
  <1> HIDE DEF locals
  <1>11. Out[J].answered /\ Out[J].value.rotations = l
    <2>1. ~(\/ Len(Out[R].value.rotations) # Len(target.joints)
            \/ Len(Out[R].value.translations) # Len(target.joints))
      BY <1>5, <1>8
    <2> DEFINE answer == [timestamp |-> Out[R].value.timestamp, joints |-> target.joints,
                          translations |-> Out[R].value.translations,
                          rotations |-> Out[R].value.rotations,
                          scales |-> [i \in DOMAIN target.rests |-> target.rests[i].scale]]
    <2>2. JointLocalTransformsFor(Out) = Answer(answer)
      BY <1>5, <1>9, <2>1 DEF JointLocalTransformsFor
    <2>3. answer.rotations = l
      BY <1>5
    <2> HIDE DEF answer
    <2> QED
      BY <1>10, <2>2, <2>3 DEF Answer
  <1> QED
    BY <1>7, <1>11

\* What the rig's list may name: not what a node upstream refuses.
LEMMA RigListNames ==
    ASSUME stage \in Stages, overrides = NoOverrides
    PROVE  LET rig == Out[Own("vrm.computeRigDiagnostics")]
           IN  rig.answered =>
                 /\ IsList(rig.value) /\ IsInjective(rig.value)
                 /\ \A x \in ToSet(rig.value) : x[1] = "MissingRequiredBone"
  <1> DEFINE D == Own("vrm.computeRigDiagnostics")
             missing == RequiredBones \ DOMAIN Map(Out)
  <1>1. D \in Nodes /\ D[1] = "vrm.computeRigDiagnostics" /\ D \notin DOMAIN overrides
    BY OwnIsNode DEF RigComputations, Own, NoOverrides
  <1>2. Out[D] = RigDiagnosticsFor(Out)
    BY <1>1, Reads
  <1> HIDE DEF D
  <1>3. SUFFICES ASSUME Out[D].answered
                 PROVE  /\ IsList(Out[D].value) /\ IsInjective(Out[D].value)
                        /\ \A x \in ToSet(Out[D].value) : x[1] = "MissingRequiredBone"
    BY DEF D
  <1>4. RigAnswers(Out) /\ RootMotionRefusal(Target(Out)) = << >>
    BY <1>2, <1>3 DEF RigDiagnosticsFor, Refuse
  <1>5. Out[D] = Answer(DiagnoseRig(Target(Out), Map(Out)))
    BY <1>2, <1>4 DEF RigDiagnosticsFor
  <1>6. Out[D].value = Tagged("MissingRequiredBone", missing)
    BY <1>4, <1>5, RigReports DEF Answer
  <1> HIDE DEF missing
  <1> QED
    BY <1>6, TaggedIs

\* Without an override, and in every state of a stage that is one of the stages.
LEMMA NothingSeparates ==
    ASSUME stage \in Stages, overrides = NoOverrides
    PROVE  LET retarget == Outcome("vrm.humanoidRetarget")
               sample == Outcome("vrm.computeRetargetDiagnostics")
               rig == Outcome("vrm.computeRigDiagnostics")
               joints == Outcome("vrm.computeJointLocalTransforms")
           IN  /\ sample.answered = retarget.answered /\ joints.answered = retarget.answered
               /\ retarget.answered =>
                      /\ retarget.value.timestamp = time /\ rig.answered
                      /\ IsPrefix(rig.value, sample.value) /\ IsInjective(sample.value)
                      /\ \A i \in DOMAIN joints.value.rotations :
                             Cardinality(joints.value.rotations[i]) <= 1
               /\ ~retarget.answered => sample.reason = retarget.reason
               /\ \A r \in Reports(rig) \cup Reports(sample) :
                      r[1] \notin {"DuplicateTarget", "InvalidRootJoint"}
  <1> DEFINE retarget == Out[Own("vrm.humanoidRetarget")]
             sample == Out[Own("vrm.computeRetargetDiagnostics")]
             rig == Out[Own("vrm.computeRigDiagnostics")]
             joints == Out[Own("vrm.computeJointLocalTransforms")]
             refusal == RetargetRefusal(Out)
             pose == Back(BoundPoses, Out)[1]
  <1>1. /\ Outcome("vrm.humanoidRetarget") = retarget
        /\ Outcome("vrm.computeRetargetDiagnostics") = sample
        /\ Outcome("vrm.computeRigDiagnostics") = rig
        /\ Outcome("vrm.computeJointLocalTransforms") = joints
    BY OutcomeIs DEF RigComputations
  <1>2. retarget = HumanoidRetargetFor(Out)
    BY OwnIsNode, Reads DEF RigComputations, Own, NoOverrides
  <1>3. sample = RetargetDiagnosticsFor(Out)
    BY OwnIsNode, Reads DEF RigComputations, Own, NoOverrides
  <1>4. rig = RigDiagnosticsFor(Out)
    BY OwnIsNode, Reads DEF RigComputations, Own, NoOverrides
  <1>5. joints = JointLocalTransformsFor(Out)
    BY OwnIsNode, Reads DEF RigComputations, Own, NoOverrides
  <1>6. rig.answered => /\ IsList(rig.value) /\ IsInjective(rig.value)
                        /\ \A x \in ToSet(rig.value) : x[1] = "MissingRequiredBone"
    BY RigListNames
  <1>7. CASE refusal # << >>
    <2>1. retarget = Refuse(refusal) /\ sample = Refuse(refusal)
      BY <1>2, <1>3, <1>7 DEF HumanoidRetargetFor, RetargetDiagnosticsFor
    <2>2. ~retarget.answered /\ ~sample.answered /\ sample.reason = retarget.reason
      BY <2>1 DEF Refuse
    <2>3. ~joints.answered
      BY <1>5, <2>2 DEF JointLocalTransformsFor, Refuse
    <2>4. sample.answered = retarget.answered /\ joints.answered = retarget.answered
      <3>1. retarget.answered = FALSE /\ sample.answered = FALSE
        BY <2>1 DEF Refuse
      <3>2. joints = Refuse(<<"PoseUnanswered">>)
        BY <1>5, <2>2 DEF JointLocalTransformsFor
      <3>3. joints.answered = FALSE
        BY <3>2 DEF Refuse
      <3> QED
        BY <3>1, <3>3
    <2>5. \A r \in Reports(rig) \cup Reports(sample) :
              r[1] \notin {"DuplicateTarget", "InvalidRootJoint"}
      BY <1>6, <2>2 DEF Reports
    <2> HIDE DEF retarget, sample, rig, joints
    <2> QED
      BY <1>1, <2>2, <2>4, <2>5
  <1>8. CASE refusal = << >>
    <2>1. /\ RigAnswers(Out) /\ RootMotionRefusal(Target(Out)) = << >>
          /\ pose.timestamp = time
      BY <1>8, Retargets
    <2>2. retarget = Answer(Retargeted(pose, Target(Out), Map(Out)))
      BY <1>2, <1>8 DEF HumanoidRetargetFor
    <2>3. retarget.answered = TRUE /\ retarget.value.timestamp = time
      BY <2>1, <2>2 DEF Answer, Retargeted
    <2>4. rig.answered = TRUE
      BY <1>4, <2>1 DEF RigDiagnosticsFor, Answer
    <2>5. sample = Answer(PoseDiagnostics(rig.value, pose, Map(Out)))
      BY <1>3, <1>8, <2>4 DEF RetargetDiagnosticsFor
    <2>6. sample.answered = TRUE /\ sample.value = PoseDiagnostics(rig.value, pose, Map(Out))
      BY <2>5 DEF Answer
    <2>7. joints.answered /\ \A i \in DOMAIN joints.value.rotations :
                                Cardinality(joints.value.rotations[i]) <= 1
      BY <1>8, JointsAnswer
    <2>8. joints.answered = TRUE
      BY <1>5, <2>7 DEF JointLocalTransformsFor, Answer, Refuse
    <2> HIDE DEF pose, retarget, sample, rig, joints, refusal
    <2>9. /\ IsPrefix(rig.value, sample.value) /\ IsInjective(sample.value)
          /\ \A x \in ToSet(sample.value) :
                x \in ToSet(rig.value) \/ x[1] \in {"UnmappedBone", "MissingRequiredBone"}
      <3>1. PICK before : before = rig.value
        OBVIOUS
      <3>2. IsList(before) /\ IsInjective(before)
        BY <1>6, <2>4, <3>1
      <3>3. PICK map : map = Map(Out)
        OBVIOUS
      <3>4. sample.value = PoseDiagnostics(before, pose, map)
        BY <2>6, <3>1, <3>3
      <3> QED
        BY <3>1, <3>2, <3>4, PoseReports
    <2>10. \A r \in Reports(rig) \cup Reports(sample) :
               r[1] \notin {"DuplicateTarget", "InvalidRootJoint"}
      <3>1. \A r \in Reports(rig) : r[1] = "MissingRequiredBone"
        BY <1>6, <2>4 DEF Reports
      <3>2. \A r \in Reports(sample) : r[1] \in {"UnmappedBone", "MissingRequiredBone"}
        BY <1>6, <2>4, <2>6, <2>9 DEF Reports
      <3> QED
        BY <3>1, <3>2
    <2> QED
      BY <1>1, <2>3, <2>4, <2>6, <2>7, <2>8, <2>9, <2>10
  <1> QED
    BY <1>7, <1>8

(* Only a driver can tell the retarget's readers apart from it: without an override the
   sample's diagnostics and the joint transforms answer exactly when the retarget does, the
   diagnostics for its very reason and behind the rig's own list, the pose is of the instant
   that was asked for, each joint follows one bone at most, and no list names what a node
   upstream refuses -- for every stage, time and vocabulary. *)
THEOREM OnlyADriverEverSeparates == Spec => []OnlyADriverSeparatesThem
  <1>1. Init => stage \in Stages
    BY DEF Init
  <1>2. stage \in Stages /\ [Next]_vars => (stage \in Stages)'
    BY DEF Next, Edit, ChangeTime, Override, Compute, vars
  <1>3. stage \in Stages => OnlyADriverSeparatesThem
    BY NothingSeparates DEF OnlyADriverSeparatesThem
  <1> QED
    BY <1>1, <1>2, <1>3, PTL DEF Spec

=============================================================================
