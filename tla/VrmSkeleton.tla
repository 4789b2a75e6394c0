---------------------------- MODULE VrmSkeleton ----------------------------
(***************************************************************************)
(* CgltfVrmDocumentReader, first part: the joints of every skin united in  *)
(* one skeleton, their bind transforms, and the order UsdSkel requires.    *)
(* Indices start at 1; 0 is the source's -1.  A transform is the name of   *)
(* what it is computed from.                                               *)
(***************************************************************************)
EXTENDS Naturals, Sequences, FiniteSets

CONSTANTS Nodes,    \* the glTF nodes
          Files     \* the files a reader may be given

VARIABLES file,       \* the parsed file
          step,       \* the pass the reader is in
          cursor,     \* the next entry of the list the pass walks
          jointNodes, \* the joints in the order the skins name them
          jointOf,    \* nodeToJoint: node -> joint
          joints,     \* VrmCanonicalDocument::joints
          bound,      \* bindFromIbm: the joints a skin gave a bind transform
          warnings    \* VrmCanonicalDocument::warnings

skeletonVars == <<jointNodes, jointOf, joints, bound>>

\* file.above[n] is the parent of n, the parent's parent, ... up to a scene root;
\* file.slots holds one entry for every joint of every skin, in the order of the two loops.
Slot == [skin : Nat, node : Nodes, ibm : Nat]

\* The nodes form a forest: what is above an ancestor of n is the rest of what is above n.
Forest(above) ==
    \A n \in Nodes : \A k \in DOMAIN above[n] :
        above[above[n][k]] = SubSeq(above[n], k + 1, Len(above[n]))

ASSUME NodesAssumption == Nodes \subseteq Nat \ {0}

ASSUME FilesAssumption ==
    \A f \in Files :
        /\ f.above \in [Nodes -> Seq(Nodes)]
        /\ Forest(f.above)
        /\ f.slots \in Seq(Slot)
        /\ \A i, k \in DOMAIN f.slots : i < k => f.slots[i].skin <= f.slots[k].skin

NodeWorld(n) == [of |-> "node", value |-> n]

InverseBind(ibm) == [of |-> "ibm", value |-> ibm]

Transform == [of : {"node", "ibm"}, value : Nat]

Joint == [node : Nodes, parent : Nat, bind : Transform, frame : Nodes \cup {0}]

Warning(code, at) == [code |-> code, at |-> at]

SkeletonInit ==
    /\ file \in Files
    /\ step = "skins"
    /\ cursor = 1
    /\ jointNodes = << >>
    /\ jointOf = [n \in Nodes |-> 0]
    /\ joints = << >>
    /\ bound = {}
    /\ warnings = {}

-----------------------------------------------------------------------------
(* The union of the skins *)

UnifyJoint ==
    /\ step = "skins"
    /\ cursor <= Len(file.slots)
    /\ LET n == file.slots[cursor].node IN
       IF jointOf[n] = 0
       THEN /\ jointOf' = [jointOf EXCEPT ![n] = Len(jointNodes) + 1]
            /\ jointNodes' = Append(jointNodes, n)
       ELSE UNCHANGED <<jointOf, jointNodes>>
    /\ cursor' = cursor + 1
    /\ UNCHANGED <<file, step, joints, bound, warnings>>

\* The places above n that hold a joint.
JointsAbove(n) == {k \in DOMAIN file.above[n] : jointOf[file.above[n][k]] # 0}

\* The nearest ancestor of n that is a joint.
ParentNode(n) ==
    IF JointsAbove(n) = {} THEN 0
    ELSE file.above[n][CHOOSE k \in JointsAbove(n) : \A l \in JointsAbove(n) : k <= l]

PlacedJoint(n) ==
    LET p == ParentNode(n) IN
    [node |-> n, parent |-> IF p = 0 THEN 0 ELSE jointOf[p],
     bind |-> NodeWorld(n), frame |-> p]

PlaceJoints ==
    /\ step = "skins"
    /\ cursor > Len(file.slots)
    /\ joints' = [i \in DOMAIN jointNodes |-> PlacedJoint(jointNodes[i])]
    /\ step' = IF jointNodes = << >> THEN "meshes" ELSE "binds"
    /\ cursor' = 1
    /\ UNCHANGED <<file, jointNodes, jointOf, bound, warnings>>

-----------------------------------------------------------------------------
(* Bind transforms *)

\* Variant: a later skin's matrix replaces an earlier one.
LastBind(i, ibm) == TRUE

FirstBind(i, ibm) == i \notin bound

\* A skin without matrices has ibm = 0, and so has a matrix that cannot be read.
ReadBind ==
    /\ step = "binds"
    /\ cursor <= Len(file.slots)
    /\ LET ibm == file.slots[cursor].ibm
           i == jointOf[file.slots[cursor].node] IN
       IF ibm = 0 THEN UNCHANGED <<joints, bound, warnings>>
       ELSE IF FirstBind(i, ibm)
       THEN /\ joints' = [joints EXCEPT ![i].bind = InverseBind(ibm)]
            /\ bound' = bound \cup {i}
            /\ UNCHANGED warnings
       ELSE /\ warnings' =
                 IF joints[i].bind # InverseBind(ibm)
                     /\ ~ \E w \in warnings : w.code = "SkinIbmConflict"
                 THEN warnings \cup {Warning("SkinIbmConflict", joints[i].node)} ELSE warnings
            /\ UNCHANGED <<joints, bound>>
    /\ cursor' = cursor + 1
    /\ UNCHANGED <<file, step, jointNodes, jointOf>>

-----------------------------------------------------------------------------
(* The order of the joints *)

\* The steps from n's joint to its root joint: the joints above n.
Depth(n) == Cardinality(JointsAbove(n))

\* Joint i comes before joint k in a stable sort by depth.
Before(i, k) ==
    LET di == Depth(joints[i].node)
        dk == Depth(joints[k].node)
    IN di < dk \/ (di = dk /\ i < k)

Earlier(i) == {k \in DOMAIN joints : Before(k, i)}

\* Variant: an index of the order in which the skins name the joints stays.
SameIndex(i) == i

\* oldToNew
NewIndex(i) == 1 + Cardinality(Earlier(i))

\* order
OldIndex(new) == CHOOSE i \in DOMAIN joints : NewIndex(i) = new

\* An index of the old order in the new one.
Moved(i) == IF i = 0 THEN 0 ELSE NewIndex(i)

Reorder ==
    /\ step = "binds"
    /\ cursor > Len(file.slots)
    /\ joints' = [new \in DOMAIN joints |->
                    LET j == joints[OldIndex(new)]
                    IN [j EXCEPT !.parent = Moved(j.parent)]]
    /\ jointOf' = [n \in Nodes |-> Moved(jointOf[n])]
    /\ step' = "meshes"
    /\ cursor' = 1
    /\ UNCHANGED <<file, jointNodes, bound, warnings>>

SkeletonNext == UnifyJoint \/ PlaceJoints \/ ReadBind \/ Reorder

-----------------------------------------------------------------------------
(* Properties of the skeleton *)

SkeletonTypeOK ==
    /\ jointNodes \in Seq(Nodes)
    /\ jointOf \in [Nodes -> 0 .. Len(jointNodes)]
    /\ joints \in Seq(Joint)
    /\ bound \subseteq 1 .. Len(jointNodes)
    /\ step # "skins" => Len(joints) = Len(jointNodes)

Ordered == step \notin {"skins", "binds"}

(***************************************************************************)
(* UsdSkel requires joints in topological order, whatever order the skins  *)
(* named them in: in the skeleton the later passes and the author see, a   *)
(* parent has a smaller index than its children.                           *)
(***************************************************************************)
ParentsPrecedeChildren ==
    Ordered => \A i \in DOMAIN joints : joints[i].parent < i

SlotsOf(n) == {k \in DOMAIN file.slots : file.slots[k].node = n /\ file.slots[k].ibm # 0}

\* The bind transform the file gives n: that of the first skin with a matrix for it.
BindOf(n) ==
    IF SlotsOf(n) = {} THEN NodeWorld(n)
    ELSE InverseBind(file.slots[CHOOSE k \in SlotsOf(n) : \A l \in SlotsOf(n) : k <= l].ibm)

\* p is the nearest joint above n, or 0 and there is none.
IsNearestJoint(n, p) ==
    IF JointsAbove(n) = {} THEN p = 0
    ELSE \E k \in JointsAbove(n) :
            /\ file.above[n][k] = p
            /\ \A l \in JointsAbove(n) : k <= l

(***************************************************************************)
(* The reordering moves a joint as a whole: after it every joint still     *)
(* belongs to its node, is bound as the first skin with a matrix for that  *)
(* node says, rests relative to the nearest joint above its node, and has  *)
(* that joint as its parent.                                               *)
(***************************************************************************)
JointsKeepTheirNode ==
    Ordered => \A i \in DOMAIN joints :
        LET j == joints[i] IN
        /\ jointOf[j.node] = i
        /\ j.bind = BindOf(j.node)
        /\ IsNearestJoint(j.node, j.frame)
        /\ j.parent = IF j.frame = 0 THEN 0 ELSE jointOf[j.frame]
=============================================================================
