-------------------------- MODULE VrmReaderProofs --------------------------
(***************************************************************************)
(* What CgltfVrmDocumentReader builds, proved for every forest of nodes,   *)
(* every list of skins and everything else a file declares: the skeleton,  *)
(* the document's types, its binds, and the warnings for what it lacks.    *)
(***************************************************************************)
EXTENDS VrmImport, Recursion, FiniteSetTheorems, SequenceTheorems, TLAPS

(* A non-empty set of numbers up to n has a smallest one: what lies below a
   member is ordered by inclusion, and nothing lies below a minimal one. *)
LEMMA SmallestExists ==
    ASSUME NEW n \in Nat, NEW S \in SUBSET (1 .. n), S # {}
    PROVE  \E x \in S : \A y \in S : x <= y
  <1> DEFINE Below(x) == {y \in S : y < x}
             Lows == {Below(x) : x \in S}
             Inside == StrictSubsetOrdering(1 .. n)
  <1>1. Lows \subseteq FiniteSubsetsOf(1 .. n)
    <2>1. IsFiniteSet(1 .. n)
      BY FS_Interval
    <2>2. \A x \in S : Below(x) \subseteq 1 .. n /\ IsFiniteSet(Below(x))
      BY <2>1, FS_Subset
    <2> QED
      BY <2>2 DEF FiniteSubsetsOf
  <1>2. \E low \in Lows : \A other \in Lows : ~(<<other, low>> \in Inside)
    <2>1. IsWellFoundedOn(Inside, FiniteSubsetsOf(1 .. n))
      BY FS_StrictSubsetOrderingWellFounded
    <2>2. Lows # {}
      OBVIOUS
    <2> HIDE DEF Lows, Inside
    <2> QED
      BY <1>1, <2>1, <2>2, WFMin
  <1>3. PICK x \in S : \A y \in S : ~(<<Below(y), Below(x)>> \in Inside)
    BY <1>2
  <1>4. ASSUME NEW y \in S, y < x
        PROVE  FALSE
    <2>1. ~(y < y) /\ \A z \in S : z < y => z < x
      BY <1>4
    <2>2. Below(y) \subseteq Below(x) /\ y \in Below(x) /\ y \notin Below(y)
      BY <1>4, <2>1
    <2>3. <<Below(y), Below(x)>> \in Inside
      BY <2>2 DEF StrictSubsetOrdering
    <2> QED
      BY <1>3, <2>3
  <1> QED
    BY <1>4

-----------------------------------------------------------------------------
(* The file *)

\* What the assumption says of the file being read.
LEMMA FileFacts ==
    ASSUME file \in Files
    PROVE  /\ file.above \in [Nodes -> Seq(Nodes)]
           /\ Forest(file.above)
           /\ file.slots \in Seq(Slot)
  BY FilesAssumption

\* A node has finitely many joints above it, each a node.
LEMMA JointsAboveFacts ==
    ASSUME file \in Files, NEW n \in Nodes
    PROVE  /\ IsFiniteSet(JointsAbove(n))
           /\ Depth(n) \in Nat
           /\ JointsAbove(n) \subseteq 1 .. Len(file.above[n])
           /\ Len(file.above[n]) \in Nat
           /\ \A k \in JointsAbove(n) : file.above[n][k] \in Nodes
  <1>1. file.above[n] \in Seq(Nodes)
    BY FileFacts
  <1>2. Len(file.above[n]) \in Nat /\ DOMAIN file.above[n] = 1 .. Len(file.above[n])
    BY <1>1
  <1>3. JointsAbove(n) \subseteq 1 .. Len(file.above[n])
    BY <1>2 DEF JointsAbove
  <1>4. IsFiniteSet(JointsAbove(n))
    <2>1. IsFiniteSet(1 .. Len(file.above[n]))
      BY <1>2, FS_Interval
    <2> QED
      BY <2>1, <1>3, FS_Subset
  <1>5. Depth(n) \in Nat
    BY <1>4, FS_CardinalityType DEF Depth
  <1>6. \A k \in JointsAbove(n) : file.above[n][k] \in Nodes
    BY <1>1, <1>3
  <1> QED
    BY <1>2, <1>3, <1>4, <1>5, <1>6

\* A joint above a node has fewer joints above it than the node has.
LEMMA AncestorIsShallower ==
    ASSUME file \in Files, NEW n \in Nodes, NEW k \in JointsAbove(n)
    PROVE  Depth(file.above[n][k]) < Depth(n)
  <1> DEFINE m == file.above[n][k]
             up == JointsAbove(n) \ {k}
             shift == [l \in JointsAbove(m) |-> l + k]
  <1>1. m \in Nodes /\ k \in 1 .. Len(file.above[n])
    BY JointsAboveFacts
  <1>2. file.above[n] \in Seq(Nodes) /\ file.above[m] \in Seq(Nodes)
    BY <1>1, FileFacts
  <1>3. file.above[m] = SubSeq(file.above[n], k + 1, Len(file.above[n]))
    <2>1. k \in DOMAIN file.above[n]
      BY DEF JointsAbove
    <2> QED
      BY <2>1, FileFacts DEF Forest
  <1>4. \A l \in JointsAbove(m) : l \in Nat /\ l >= 1 /\ l + k \in JointsAbove(n)
    <2> SUFFICES ASSUME NEW l \in JointsAbove(m)
                 PROVE  l \in Nat /\ l >= 1 /\ l + k \in JointsAbove(n)
      OBVIOUS
    <2>1. l \in 1 .. Len(file.above[m]) /\ jointOf[file.above[m][l]] # 0
      BY <1>1, JointsAboveFacts DEF JointsAbove
    <2>2. Len(file.above[m]) = Len(file.above[n]) - k
      BY <1>1, <1>2, <1>3
    <2>3. file.above[m][l] = file.above[n][k + l]
      BY <1>1, <1>2, <1>3, <2>1, <2>2
    <2>4. l + k \in DOMAIN file.above[n] /\ k + l = l + k
      BY <1>1, <1>2, <2>1, <2>2
    <2> QED
      BY <2>1, <2>3, <2>4 DEF JointsAbove
  <1>5. shift \in Injection(JointsAbove(m), up)
    <2>0. k \in Nat
      BY JointsAboveFacts
    <2>1. \A l \in JointsAbove(m) : l + k \in up
      BY <1>4, <2>0
    <2>2. \A a, b \in JointsAbove(m) : shift[a] = shift[b] => a = b
      BY <1>4, <2>0
    <2> QED
      BY <2>1, <2>2 DEF Injection, IsInjective
  <1>6. IsFiniteSet(JointsAbove(n)) /\ IsFiniteSet(up)
    BY JointsAboveFacts, FS_RemoveElement
  <1>7. Cardinality(up) = Cardinality(JointsAbove(n)) - 1
    BY <1>6, FS_RemoveElement
  <1>8. Cardinality(JointsAbove(m)) <= Cardinality(up)
    BY <1>5, <1>6, FS_Injection
  <1>9. Depth(m) \in Nat /\ Depth(n) \in Nat
    BY <1>1, JointsAboveFacts
  <1> QED
    BY <1>7, <1>8, <1>9 DEF Depth

-----------------------------------------------------------------------------
(* The order *)

\* What the lemmas about the order ask of the joints.
JointsTyped == file \in Files /\ joints \in Seq(Joint)

LEMMA JointFacts ==
    ASSUME JointsTyped
    PROVE  /\ DOMAIN joints = 1 .. Len(joints)
           /\ Len(joints) \in Nat
           /\ \A i \in DOMAIN joints :
                 /\ i \in Nat
                 /\ joints[i] \in Joint
                 /\ Depth(joints[i].node) \in Nat
  <1>1. DOMAIN joints = 1 .. Len(joints) /\ Len(joints) \in Nat
    BY DEF JointsTyped
  <1>2. \A i \in DOMAIN joints : i \in Nat /\ joints[i] \in Joint
    BY <1>1 DEF JointsTyped
  <1>3. \A i \in DOMAIN joints : joints[i].node \in Nodes
    BY <1>2 DEF Joint
  <1> QED
    BY <1>1, <1>2, <1>3, JointsAboveFacts DEF JointsTyped

\* Before is a strict total order of the joints.
LEMMA BeforeIsOrder ==
    ASSUME JointsTyped
    PROVE  /\ \A i \in DOMAIN joints : ~Before(i, i)
           /\ \A i, k \in DOMAIN joints : i = k \/ Before(i, k) \/ Before(k, i)
           /\ \A i, k, l \in DOMAIN joints : Before(i, k) /\ Before(k, l) => Before(i, l)
  BY JointFacts DEF Before

\* A joint's new index is an index, and grows along the order.
LEMMA NewIndexFacts ==
    ASSUME JointsTyped
    PROVE  /\ \A i \in DOMAIN joints : NewIndex(i) \in DOMAIN joints
           /\ \A i, k \in DOMAIN joints : Before(i, k) => NewIndex(i) < NewIndex(k)
  <1> DEFINE n == Len(joints)
  <1>1. DOMAIN joints = 1 .. n /\ n \in Nat
    BY JointFacts
  <1> HIDE DEF n
  <1>2. IsFiniteSet(1 .. n) /\ Cardinality(1 .. n) = n
    <2>1. 1 \in Int /\ n \in Int
      BY <1>1
    <2>2. Cardinality(1 .. n) = IF 1 > n THEN 0 ELSE n - 1 + 1
      BY <2>1, FS_Interval
    <2> QED
      BY <1>1, <2>1, <2>2, FS_Interval
  <1>3. ASSUME NEW i \in DOMAIN joints
        PROVE  /\ IsFiniteSet(Earlier(i))
               /\ Cardinality(Earlier(i)) \in 0 .. n - 1
    <2>1. Earlier(i) \subseteq (1 .. n) \ {i}
      BY <1>1, <1>3, BeforeIsOrder DEF Earlier
    <2>2. /\ IsFiniteSet((1 .. n) \ {i})
          /\ Cardinality((1 .. n) \ {i}) = n - 1
      <3>1. i \in 1 .. n
        BY <1>1, <1>3
      <3>2. Cardinality((1 .. n) \ {i}) =
               IF i \in 1 .. n THEN Cardinality(1 .. n) - 1 ELSE Cardinality(1 .. n)
        BY <1>2, FS_RemoveElement
      <3> QED
        BY <1>2, <3>1, <3>2, FS_RemoveElement
    <2>3. /\ IsFiniteSet(Earlier(i))
          /\ Cardinality(Earlier(i)) <= n - 1
      BY <2>1, <2>2, FS_Subset
    <2> QED
      BY <1>1, <2>3, FS_CardinalityType
  <1>4. \A i \in DOMAIN joints : NewIndex(i) \in DOMAIN joints
    BY <1>1, <1>3 DEF NewIndex
  <1>5. ASSUME NEW i \in DOMAIN joints, NEW k \in DOMAIN joints, Before(i, k)
        PROVE  NewIndex(i) < NewIndex(k)
    <2>1. Earlier(i) \subseteq Earlier(k)
      BY <1>5, BeforeIsOrder DEF Earlier
    <2>2. i \in Earlier(k) /\ i \notin Earlier(i)
      BY <1>5, BeforeIsOrder DEF Earlier
    <2>3. /\ Cardinality(Earlier(i)) <= Cardinality(Earlier(k))
          /\ Cardinality(Earlier(i)) # Cardinality(Earlier(k))
      BY <1>3, <2>1, <2>2, FS_Subset
    <2> QED
      BY <1>1, <1>3, <2>3 DEF NewIndex
  <1> QED
    BY <1>4, <1>5

\* The new indices number the joints: each is taken, and by one joint only.
LEMMA NewIndexNumbers ==
    ASSUME JointsTyped
    PROVE  /\ \A i, k \in DOMAIN joints : NewIndex(i) = NewIndex(k) => i = k
           /\ \A new \in DOMAIN joints :
                 /\ OldIndex(new) \in DOMAIN joints
                 /\ NewIndex(OldIndex(new)) = new
           /\ \A i \in DOMAIN joints : OldIndex(NewIndex(i)) = i
  <1> DEFINE D == DOMAIN joints
             number == [i \in D |-> NewIndex(i)]
  <1>1. \A i, k \in D : NewIndex(i) = NewIndex(k) => i = k
    <2>1. \A i \in D : NewIndex(i) \in Nat
      BY NewIndexFacts, JointFacts
    <2> QED
      BY <2>1, NewIndexFacts, BeforeIsOrder
  <1>2. number \in Injection(D, D)
    BY <1>1, NewIndexFacts DEF Injection, IsInjective
  <1>3. IsFiniteSet(D)
    BY JointFacts, FS_Interval
  <1>4. number \in Surjection(D, D)
    BY <1>2, <1>3, FS_Injection
  <1>5. \A new \in D : \E i \in D : NewIndex(i) = new
    BY <1>4 DEF Surjection
  <1>6. \A new \in D : OldIndex(new) \in D /\ NewIndex(OldIndex(new)) = new
    BY <1>5 DEF OldIndex
  <1> QED
    BY <1>1, <1>6, NewIndexFacts

-----------------------------------------------------------------------------
(* The inductive invariant of the skeleton passes *)

Unordered == step \in {"skins", "binds"}

\* nodeToJoint and the union of the joints are each other's inverse until the reordering.
UnionInv ==
    Unordered =>
        /\ \A i \in DOMAIN jointNodes : jointOf[jointNodes[i]] = i
        /\ \A n \in Nodes : jointOf[n] # 0 => jointNodes[jointOf[n]] = n

\* The nodes of the skins read so far are in the union.
JoinedInv ==
    Unordered => \A k \in DOMAIN file.slots :
        (step = "skins" => k < cursor) => jointOf[file.slots[k].node] # 0

\* A placed joint is that of its node and hangs from the nearest joint above the node.
PlacedInv ==
    step = "binds" => \A i \in DOMAIN joints :
        /\ joints[i].node = jointNodes[i]
        /\ IsNearestJoint(joints[i].node, joints[i].frame)
        /\ joints[i].parent = IF joints[i].frame = 0 THEN 0 ELSE jointOf[joints[i].frame]

\* A joint is bound for good, or all matrices for its node are still ahead.
BoundInv ==
    /\ step = "skins" => bound = {}
    /\ step = "binds" => \A i \in DOMAIN joints :
         IF i \in bound THEN joints[i].bind = BindOf(joints[i].node)
         ELSE /\ joints[i].bind = NodeWorld(joints[i].node)
              /\ \A k \in SlotsOf(joints[i].node) : cursor <= k

OrderedInv == ParentsPrecedeChildren /\ JointsKeepTheirNode

TypeInv ==
    /\ file \in Files
    /\ step \in {"skins", "binds", "meshes", "bones", "expressions", "done"}
    /\ cursor \in Nat \ {0}
    /\ SkeletonTypeOK

SkeletonInv ==
    /\ TypeInv
    /\ UnionInv
    /\ JoinedInv
    /\ PlacedInv
    /\ BoundInv
    /\ OrderedInv

LEMMA InitSkeletonInv ==
    ASSUME Init
    PROVE  SkeletonInv
  <1> USE DEF Init, SkeletonInit
  <1>1. TypeInv
    BY DEF TypeInv, SkeletonTypeOK
  <1>2. UnionInv /\ JoinedInv /\ PlacedInv /\ BoundInv
    BY FileFacts DEF UnionInv, JoinedInv, PlacedInv, BoundInv
  <1>3. OrderedInv
    BY DEF OrderedInv, ParentsPrecedeChildren, JointsKeepTheirNode, Ordered
  <1> QED
    BY <1>1, <1>2, <1>3 DEF SkeletonInv

\* The node the cursor is at.
LEMMA SlotFacts ==
    ASSUME file \in Files, NEW k \in 1 .. Len(file.slots)
    PROVE  file.slots[k].node \in Nodes /\ file.slots[k].ibm \in Nat /\ k \in DOMAIN file.slots
  <1>1. file.slots \in Seq(Slot)
    BY FileFacts
  <1>2. file.slots[k] \in Slot /\ k \in DOMAIN file.slots
    BY <1>1
  <1> QED
    BY <1>2 DEF Slot

LEMMA UnifyJointKeeps ==
    ASSUME SkeletonInv, UnifyJoint
    PROVE  SkeletonInv'
  <1> USE DEF SkeletonInv
  <1> DEFINE n == file.slots[cursor].node
  <1>1. step = "skins" /\ cursor \in 1 .. Len(file.slots)
    BY FileFacts DEF UnifyJoint, TypeInv
  <1>2. n \in Nodes
    BY <1>1, SlotFacts DEF TypeInv
  <1>3. /\ UNCHANGED <<file, step, joints, bound>>
        /\ cursor' = cursor + 1
    BY DEF UnifyJoint
  <1>4. CASE jointOf[n] # 0
    <2>1. UNCHANGED <<jointOf, jointNodes>>
      BY <1>4 DEF UnifyJoint
    <2>2. TypeInv'
      BY <1>3, <2>1 DEF TypeInv, SkeletonTypeOK
    <2>3. JoinedInv'
      BY <1>1, <1>3, <1>4, <2>1, FileFacts DEF JoinedInv, TypeInv, Unordered
    <2>4. UnionInv' /\ PlacedInv' /\ BoundInv' /\ OrderedInv'
      BY <1>1, <1>3, <2>1 DEF UnionInv, PlacedInv, BoundInv, OrderedInv, Unordered, Ordered,
                             ParentsPrecedeChildren, JointsKeepTheirNode
    <2> QED
      BY <2>2, <2>3, <2>4
  <1>5. CASE jointOf[n] = 0
    <2>1. /\ jointOf' = [jointOf EXCEPT ![n] = Len(jointNodes) + 1]
          /\ jointNodes' = Append(jointNodes, n)
      BY <1>5 DEF UnifyJoint
    <2>2. /\ jointNodes \in Seq(Nodes) /\ Len(jointNodes) \in Nat
          /\ jointOf \in [Nodes -> 0 .. Len(jointNodes)]
      BY DEF TypeInv, SkeletonTypeOK
    <2>3. /\ jointNodes' \in Seq(Nodes)
          /\ Len(jointNodes') = Len(jointNodes) + 1
          /\ \A i \in 1 .. Len(jointNodes) : jointNodes'[i] = jointNodes[i]
          /\ jointNodes'[Len(jointNodes) + 1] = n
      BY <1>2, <2>1, <2>2
    <2>4. jointOf' \in [Nodes -> 0 .. Len(jointNodes')]
      BY <2>1, <2>2, <2>3
    <2>5. TypeInv'
      <3>1. bound' \subseteq 1 .. Len(jointNodes')
        BY <1>1, <1>3 DEF BoundInv
      <3> QED
        BY <1>1, <1>3, <2>3, <2>4, <3>1 DEF TypeInv, SkeletonTypeOK
    <2>6. UnionInv'
      <3>1. \A i \in 1 .. Len(jointNodes) : jointNodes[i] # n
        BY <1>1, <1>5, <2>2 DEF UnionInv, Unordered
      <3>2. \A i \in DOMAIN jointNodes' : jointOf'[jointNodes'[i]] = i
        BY <1>1, <1>2, <2>1, <2>2, <2>3, <3>1 DEF UnionInv, Unordered
      <3>3. \A m \in Nodes : jointOf'[m] # 0 => jointNodes'[jointOf'[m]] = m
        BY <1>1, <1>2, <2>1, <2>2, <2>3 DEF UnionInv, Unordered
      <3> QED
        BY <3>2, <3>3 DEF UnionInv
    <2>7. JoinedInv'
      <3>1. DOMAIN file.slots = 1 .. Len(file.slots)
        BY FileFacts DEF TypeInv
      <3>2. ASSUME NEW k \in DOMAIN file.slots, k < cursor'
            PROVE  jointOf'[file.slots[k].node] # 0
        <4>1. file.slots[k].node \in Nodes
          BY <3>1, SlotFacts DEF TypeInv
        <4>2. k = cursor \/ k < cursor
          BY <1>1, <1>3, <3>1, <3>2
        <4>3. k < cursor => jointOf[file.slots[k].node] # 0
          BY <1>1 DEF JoinedInv, Unordered
        <4> QED
          BY <1>2, <2>1, <2>2, <4>1, <4>2, <4>3
      <3> QED
        BY <1>1, <1>3, <3>2 DEF JoinedInv
    <2>8. PlacedInv' /\ BoundInv' /\ OrderedInv'
      BY <1>1, <1>3 DEF PlacedInv, BoundInv, OrderedInv, Ordered,
                       ParentsPrecedeChildren, JointsKeepTheirNode
    <2> QED
      BY <2>5, <2>6, <2>7, <2>8
  <1> QED
    BY <1>4, <1>5

\* The code's loop up the parents finds the nearest joint, or that there is none.
LEMMA ParentNodeFacts ==
    ASSUME file \in Files, NEW n \in Nodes
    PROVE  /\ IsNearestJoint(n, ParentNode(n))
           /\ ParentNode(n) \in Nodes \cup {0}
           /\ ParentNode(n) # 0 => jointOf[ParentNode(n)] # 0
  <1>1. CASE JointsAbove(n) = {}
    BY <1>1 DEF IsNearestJoint, ParentNode
  <1>2. CASE JointsAbove(n) # {}
    <2> DEFINE k == CHOOSE k \in JointsAbove(n) : \A l \in JointsAbove(n) : k <= l
    <2>1. \E x \in JointsAbove(n) : \A l \in JointsAbove(n) : x <= l
      BY <1>2, JointsAboveFacts, SmallestExists
    <2>2. k \in JointsAbove(n) /\ \A l \in JointsAbove(n) : k <= l
      BY <2>1
    <2>3. ParentNode(n) = file.above[n][k]
      BY <1>2 DEF ParentNode
    <2>4. file.above[n][k] \in Nodes /\ jointOf[file.above[n][k]] # 0
      BY <2>2, JointsAboveFacts DEF JointsAbove
    <2> HIDE DEF k
    <2> QED
      BY <1>2, <2>2, <2>3, <2>4 DEF IsNearestJoint
  <1> QED
    BY <1>1, <1>2

\* The first of some places.
FirstOf(S) == CHOOSE k \in S : \A l \in S : k <= l

\* Which matrices and which joints are near a node is a matter of the file and of the joints.
LEMMA NearNodesStay ==
    ASSUME UNCHANGED <<file, jointOf>>
    PROVE  /\ \A n : (SlotsOf(n))' = SlotsOf(n)
           /\ \A n : (BindOf(n))' = BindOf(n)
           /\ \A n, p : (IsNearestJoint(n, p))' <=> IsNearestJoint(n, p)
  <1>1. \A n : (SlotsOf(n))' = SlotsOf(n)
    BY DEF SlotsOf
  <1>2. \A n : (JointsAbove(n))' = JointsAbove(n)
    BY DEF JointsAbove
  <1>3. ASSUME NEW n PROVE (BindOf(n))' = BindOf(n)
    <2>1. (SlotsOf(n))' = SlotsOf(n)
      BY <1>1
    <2>2. BindOf(n) = IF SlotsOf(n) = {} THEN NodeWorld(n)
                      ELSE InverseBind(file.slots[FirstOf(SlotsOf(n))].ibm)
      BY DEF BindOf, FirstOf
    <2>3. (BindOf(n))' = IF (SlotsOf(n))' = {} THEN NodeWorld(n)
                         ELSE InverseBind(file'.slots[FirstOf((SlotsOf(n))')].ibm)
      BY DEF BindOf, FirstOf
    <2> QED
      BY <2>1, <2>2, <2>3
  <1>4. \A n, p : (IsNearestJoint(n, p))' <=> IsNearestJoint(n, p)
    BY <1>2 DEF IsNearestJoint
  <1> QED
    BY <1>1, <1>3, <1>4

LEMMA PlaceJointsKeeps ==
    ASSUME SkeletonInv, PlaceJoints
    PROVE  SkeletonInv'
  <1> USE DEF SkeletonInv
  <1>1. /\ step = "skins" /\ cursor \in Nat /\ cursor > Len(file.slots)
        /\ UNCHANGED <<file, jointNodes, jointOf, bound>>
        /\ joints' = [i \in DOMAIN jointNodes |-> PlacedJoint(jointNodes[i])]
        /\ cursor' = 1
    BY DEF PlaceJoints, TypeInv
  <1>2. /\ jointNodes \in Seq(Nodes)
        /\ Len(jointNodes) \in Nat
        /\ DOMAIN jointNodes = 1 .. Len(jointNodes)
        /\ jointOf \in [Nodes -> 0 .. Len(jointNodes)]
    BY DEF TypeInv, SkeletonTypeOK
  <1>3. ASSUME NEW i \in DOMAIN jointNodes
        PROVE  /\ joints'[i] = PlacedJoint(jointNodes[i])
               /\ joints'[i] \in Joint
               /\ joints'[i].node = jointNodes[i]
               /\ joints'[i].bind = NodeWorld(jointNodes[i])
               /\ joints'[i].frame = ParentNode(jointNodes[i])
               /\ joints'[i].parent = IF joints'[i].frame = 0 THEN 0 ELSE jointOf[joints'[i].frame]
    <2>1. jointNodes[i] \in Nodes
      BY <1>2
    <2>2. ParentNode(jointNodes[i]) \in Nodes \cup {0}
      BY <2>1, ParentNodeFacts DEF TypeInv
    <2>3. NodeWorld(jointNodes[i]) \in Transform
      BY <2>1, NodesAssumption DEF NodeWorld, Transform
    <2>4. (IF ParentNode(jointNodes[i]) = 0 THEN 0 ELSE jointOf[ParentNode(jointNodes[i])]) \in Nat
      BY <1>2, <2>2
    <2> QED
      BY <1>1, <2>1, <2>2, <2>3, <2>4 DEF PlacedJoint, Joint
  <1>4. joints' \in Seq(Joint) /\ Len(joints') = Len(jointNodes) /\ DOMAIN joints' = DOMAIN jointNodes
    BY <1>1, <1>2, <1>3
  <1>5. step' \in {"binds", "meshes"} /\ (step' = "meshes" => jointNodes = << >>)
    BY DEF PlaceJoints
  <1>6. TypeInv'
    BY <1>1, <1>4, <1>5 DEF TypeInv, SkeletonTypeOK
  <1>7. UnionInv'
    BY <1>1 DEF UnionInv, Unordered
  <1>8. JoinedInv'
    <2>1. DOMAIN file.slots = 1 .. Len(file.slots)
      BY FileFacts DEF TypeInv
    <2>2. \A k \in DOMAIN file.slots : k < cursor
      BY <1>1, <2>1
    <2> QED
      BY <1>1, <2>2 DEF JoinedInv, Unordered
  <1>9. PlacedInv'
    <2>1. ASSUME NEW i \in DOMAIN joints'
          PROVE  IsNearestJoint(joints[i].node, joints[i].frame)'
      <3>1. i \in DOMAIN jointNodes /\ jointNodes[i] \in Nodes
        BY <1>2, <1>4, <2>1
      <3>2. IsNearestJoint(joints'[i].node, joints'[i].frame)
        BY <1>3, <3>1, ParentNodeFacts DEF TypeInv
      <3>3. UNCHANGED <<file, jointOf>>
        BY <1>1
      <3> QED
        BY <3>2, <3>3, NearNodesStay
    <2> QED
      BY <1>1, <1>3, <1>4, <2>1 DEF PlacedInv
  <1>10. BoundInv'
    <2>1. bound' = {}
      BY <1>1 DEF BoundInv
    <2>2. \A i \in DOMAIN joints' : joints'[i].bind = NodeWorld(joints'[i].node)
      BY <1>3, <1>4
    <2>3. ASSUME NEW i \in DOMAIN joints', NEW k \in SlotsOf(joints[i].node)'
          PROVE  cursor' <= k
      <3>1. DOMAIN file'.slots = 1 .. Len(file.slots)
        BY <1>1, FileFacts DEF TypeInv
      <3> QED
        BY <1>1, <3>1, <2>3 DEF SlotsOf
    <2> QED
      BY <1>1, <1>5, <2>1, <2>2, <2>3 DEF BoundInv
  <1>11. OrderedInv'
    <2>1. Ordered' => DOMAIN joints' = {}
      BY <1>2, <1>4, <1>5 DEF Ordered
    <2> QED
      BY <2>1 DEF OrderedInv, ParentsPrecedeChildren, JointsKeepTheirNode
  <1> QED
    BY <1>6, <1>7, <1>8, <1>9, <1>10, <1>11

LEMMA ReadBindKeeps ==
    ASSUME SkeletonInv, ReadBind
    PROVE  SkeletonInv'
  <1> USE DEF SkeletonInv
  <1> DEFINE n == file.slots[cursor].node
             ibm == file.slots[cursor].ibm
             i == jointOf[n]
  <1>1. /\ step = "binds" /\ step' = "binds" /\ cursor \in 1 .. Len(file.slots)
        /\ UNCHANGED <<file, jointNodes, jointOf>>
        /\ cursor' = cursor + 1
    <2>1. step = "binds" /\ cursor <= Len(file.slots) /\ cursor' = cursor + 1
      BY DEF ReadBind
    <2>2. UNCHANGED <<file, step, jointNodes, jointOf>>
      BY DEF ReadBind
    <2>3. cursor \in Nat \ {0} /\ Len(file.slots) \in Nat
      BY FileFacts DEF TypeInv
    <2>4. cursor \in 1 .. Len(file.slots)
      BY <2>1, <2>3
    <2> QED
      BY <2>1, <2>2, <2>4
  <1>2. n \in Nodes /\ ibm \in Nat /\ cursor \in DOMAIN file.slots
    BY <1>1, SlotFacts DEF TypeInv
  <1>3. /\ jointNodes \in Seq(Nodes)
        /\ Len(jointNodes) \in Nat
        /\ jointOf \in [Nodes -> 0 .. Len(jointNodes)]
        /\ joints \in Seq(Joint)
        /\ Len(joints) = Len(jointNodes)
        /\ DOMAIN joints = 1 .. Len(joints)
        /\ bound \subseteq 1 .. Len(jointNodes)
    BY <1>1 DEF TypeInv, SkeletonTypeOK
  <1>4. /\ i \in DOMAIN joints
        /\ joints[i].node = n
        /\ \A j \in DOMAIN joints : joints[j].node = n => j = i
    <2>1. i # 0
      BY <1>1, <1>2 DEF JoinedInv, Unordered
    <2>2. i \in DOMAIN joints
      BY <1>2, <1>3, <2>1
    <2>3. \A j \in DOMAIN joints : joints[j].node = jointNodes[j] /\ jointOf[jointNodes[j]] = j
      BY <1>1, <1>3 DEF PlacedInv, UnionInv, Unordered
    <2> QED
      BY <1>1, <1>2, <2>1, <2>2, <2>3 DEF UnionInv, Unordered
  <1>5. DOMAIN file.slots \subseteq Nat
    BY FileFacts DEF TypeInv
  <1>6. UnionInv' /\ JoinedInv'
    BY <1>1 DEF UnionInv, JoinedInv, Unordered
  <1>7. OrderedInv'
    BY <1>1 DEF OrderedInv, ParentsPrecedeChildren, JointsKeepTheirNode, Ordered
  \* Whether or not a matrix is read, the joints not bound have theirs still ahead.
  <1>8. ASSUME NEW j \in DOMAIN joints, j \notin bound, j # i \/ ibm = 0
        PROVE  \A k \in SlotsOf(joints[j].node) : cursor + 1 <= k
    <2> SUFFICES ASSUME NEW k \in SlotsOf(joints[j].node)
                 PROVE  cursor + 1 <= k
      OBVIOUS
    <2>1. k \in DOMAIN file.slots /\ file.slots[k].node = joints[j].node /\ file.slots[k].ibm # 0
      BY DEF SlotsOf
    <2>2. cursor <= k
      BY <1>1, <1>8 DEF BoundInv
    <2>3. k # cursor
      BY <1>4, <1>8, <2>1
    <2> QED
      BY <1>1, <1>5, <2>1, <2>2, <2>3
  <1>9. CASE ~(ibm # 0 /\ i \notin bound)
    <2>1. UNCHANGED <<joints, bound>>
      BY <1>9 DEF ReadBind, FirstBind
    <2>2. TypeInv'
      <3>1. SkeletonTypeOK'
        BY <1>1, <2>1 DEF TypeInv, SkeletonTypeOK
      <3>2. cursor \in Nat \ {0} /\ cursor' = cursor + 1 /\ file' = file /\ file \in Files
        BY <1>1 DEF TypeInv
      <3>3. cursor' \in Nat \ {0}
        BY <3>2
      <3>4. step' = "binds"
        BY <1>1
      <3> HIDE DEF n, ibm, i
      <3> QED
        BY <3>1, <3>2, <3>3, <3>4 DEF TypeInv
    <2>4. PlacedInv'
      <3>1. UNCHANGED <<file, step, jointNodes, jointOf, joints>>
        BY <1>1, <2>1
      <3>2. \A a, p : (IsNearestJoint(a, p))' <=> IsNearestJoint(a, p)
        BY <3>1, NearNodesStay
      <3> QED
        BY <3>1, <3>2 DEF PlacedInv
    <2>3. BoundInv'
      <3>1. ASSUME NEW j \in DOMAIN joints
            PROVE  IF j \in bound THEN joints[j].bind = BindOf(joints[j].node)
                   ELSE /\ joints[j].bind = NodeWorld(joints[j].node)
                        /\ \A k \in SlotsOf(joints[j].node) : cursor + 1 <= k
        BY <1>1, <1>8, <1>9 DEF BoundInv
      <3>2. ASSUME NEW j \in DOMAIN joints'
            PROVE  (IF j \in bound THEN joints[j].bind = BindOf(joints[j].node)
                    ELSE /\ joints[j].bind = NodeWorld(joints[j].node)
                         /\ \A k \in SlotsOf(joints[j].node) : cursor <= k)'
        <4>1. UNCHANGED <<file, jointOf, joints, bound>> /\ cursor' = cursor + 1
          BY <1>1, <2>1
        <4>2. \A a : (BindOf(a))' = BindOf(a) /\ (SlotsOf(a))' = SlotsOf(a)
          BY <4>1, NearNodesStay
        <4> HIDE DEF n, ibm, i
        <4> QED
          BY <3>1, <4>1, <4>2
      <3> QED
        BY <1>1, <3>2 DEF BoundInv
    <2> QED
      BY <1>6, <1>7, <2>2, <2>3, <2>4
  <1>10. CASE ibm # 0 /\ i \notin bound
    <2>1. /\ joints' = [joints EXCEPT ![i].bind = InverseBind(ibm)]
          /\ bound' = bound \cup {i}
      BY <1>10 DEF ReadBind, FirstBind
    <2>2. /\ DOMAIN joints' = DOMAIN joints /\ Len(joints') = Len(joints)
          /\ joints' \in Seq(Joint)
          /\ \A j \in DOMAIN joints :
                /\ joints'[j].node = joints[j].node
                /\ joints'[j].frame = joints[j].frame
                /\ joints'[j].parent = joints[j].parent
                /\ j # i => joints'[j].bind = joints[j].bind
          /\ joints'[i].bind = InverseBind(ibm)
      <3>1. InverseBind(ibm) \in Transform
        BY <1>2 DEF InverseBind, Transform
      <3>2. \A j \in DOMAIN joints : joints[j] \in Joint
        BY <1>3
      <3>3. \A j \in DOMAIN joints :
               joints'[j] = IF j = i THEN [joints[i] EXCEPT !.bind = InverseBind(ibm)] ELSE joints[j]
        BY <1>4, <2>1
      <3>4. DOMAIN joints' = DOMAIN joints
        BY <2>1
      <3>5. \A j \in DOMAIN joints : joints'[j] \in Joint
        BY <1>4, <3>1, <3>2, <3>3 DEF Joint
      <3> HIDE DEF i, ibm
      <3>6. joints' \in Seq(Joint) /\ Len(joints') = Len(joints)
        <4> DEFINE new == [joints EXCEPT ![i].bind = InverseBind(ibm)]
        <4>1. new = [j \in DOMAIN joints |-> new[j]]
          OBVIOUS
        <4>2. \A j \in DOMAIN joints : new[j] \in Joint
          BY <2>1, <3>5
        <4> HIDE DEF new
        <4>3. new \in [1 .. Len(joints) -> Joint]
          BY <1>3, <4>1, <4>2
        <4>4. new \in Seq(Joint) /\ Len(new) = Len(joints)
          <5>1. Len(joints) \in Nat
            BY <1>3
          <5> QED
            BY <4>3, <5>1
        <4> QED
          BY <2>1, <4>4 DEF new
      <3> QED
        BY <1>4, <3>2, <3>3, <3>4, <3>6 DEF Joint
    <2>3. TypeInv'
      <3>1. bound' \subseteq 1 .. Len(jointNodes)
        BY <1>3, <1>4, <2>1
      <3>2. Len(joints') = Len(jointNodes) /\ joints' \in Seq(Joint)
        BY <1>3, <2>2
      <3> QED
        BY <1>1, <1>3, <3>1, <3>2 DEF TypeInv, SkeletonTypeOK
    <2>4. PlacedInv'
      <3>1. ASSUME NEW j \in DOMAIN joints'
            PROVE  (/\ joints[j].node = jointNodes[j]
                    /\ IsNearestJoint(joints[j].node, joints[j].frame)
                    /\ joints[j].parent =
                         IF joints[j].frame = 0 THEN 0 ELSE jointOf[joints[j].frame])'
        <4>1. /\ joints[j].node = jointNodes[j]
              /\ IsNearestJoint(joints[j].node, joints[j].frame)
              /\ joints[j].parent =
                   IF joints[j].frame = 0 THEN 0 ELSE jointOf[joints[j].frame]
          BY <1>1, <2>2 DEF PlacedInv
        <4>2. IsNearestJoint(joints'[j].node, joints'[j].frame)
          BY <2>2, <4>1
        <4>3. IsNearestJoint(joints[j].node, joints[j].frame)'
          BY <1>1, <4>2 DEF IsNearestJoint, JointsAbove
        <4> QED
          BY <1>1, <2>2, <4>1, <4>3
      <3> QED
        BY <3>1 DEF PlacedInv
    <2>5. BindOf(n) = InverseBind(ibm)
      <3>1. cursor \in SlotsOf(n) /\ \A k \in SlotsOf(n) : cursor <= k
        BY <1>1, <1>2, <1>4, <1>10 DEF SlotsOf, BoundInv
      <3>2. \A k \in SlotsOf(n) : (\A l \in SlotsOf(n) : k <= l) => k = cursor
        BY <1>1, <1>5, <3>1 DEF SlotsOf
      <3>3. (CHOOSE k \in SlotsOf(n) : \A l \in SlotsOf(n) : k <= l) = cursor
        BY <3>1, <3>2
      <3> QED
        BY <3>1, <3>3 DEF BindOf
    <2>6. BoundInv'
      <3>1. ASSUME NEW j \in DOMAIN joints
            PROVE  IF j \in bound' THEN joints'[j].bind = BindOf(joints[j].node)
                   ELSE /\ joints'[j].bind = NodeWorld(joints[j].node)
                        /\ \A k \in SlotsOf(joints[j].node) : cursor + 1 <= k
        <4>1. CASE j = i
          <5>1. j \in bound' /\ joints'[j].bind = InverseBind(ibm) /\ joints[j].node = n
            BY <1>4, <2>1, <2>2, <4>1
          <5> QED
            BY <2>5, <5>1
        <4>2. CASE j # i
          <5>1. joints'[j].bind = joints[j].bind /\ (j \in bound' <=> j \in bound)
            BY <2>1, <2>2, <4>2
          <5>2. IF j \in bound THEN joints[j].bind = BindOf(joints[j].node)
                ELSE joints[j].bind = NodeWorld(joints[j].node)
            BY <1>1 DEF BoundInv
          <5>3. j \notin bound => \A k \in SlotsOf(joints[j].node) : cursor + 1 <= k
            BY <1>8, <4>2
          <5> HIDE DEF n, ibm, i
          <5> QED
            BY <5>1, <5>2, <5>3
        <4> QED
          BY <4>1, <4>2
      <3>2. ASSUME NEW j \in DOMAIN joints'
            PROVE  (IF j \in bound THEN joints[j].bind = BindOf(joints[j].node)
                    ELSE /\ joints[j].bind = NodeWorld(joints[j].node)
                         /\ \A k \in SlotsOf(joints[j].node) : cursor <= k)'
        <4>1. j \in DOMAIN joints /\ joints'[j].node = joints[j].node
          BY <2>2
        <4>2. IF j \in bound' THEN joints'[j].bind = BindOf(joints'[j].node)
              ELSE /\ joints'[j].bind = NodeWorld(joints'[j].node)
                   /\ \A k \in SlotsOf(joints'[j].node) : cursor + 1 <= k
          BY <3>1, <4>1
        <4> QED
          BY <1>1, <4>2 DEF BindOf, SlotsOf
      <3> QED
        BY <1>1, <3>2 DEF BoundInv
    <2> QED
      BY <1>6, <1>7, <2>3, <2>4, <2>6
  <1> QED
    BY <1>9, <1>10

\* What the passes before the reordering have established of joint i.
LEMMA JointBeforeReorder ==
    ASSUME SkeletonInv, Reorder, NEW i \in DOMAIN joints
    PROVE  /\ joints[i].node \in Nodes
           /\ jointOf[joints[i].node] = i
           /\ joints[i].bind = BindOf(joints[i].node)
           /\ IsNearestJoint(joints[i].node, joints[i].frame)
           /\ joints[i].frame = 0 => joints[i].parent = 0
           /\ joints[i].frame # 0 =>
                 /\ joints[i].frame \in Nodes
                 /\ joints[i].parent = jointOf[joints[i].frame]
                 /\ joints[i].parent \in DOMAIN joints
                 /\ Before(joints[i].parent, i)
  <1> USE DEF SkeletonInv
  <1> DEFINE n == joints[i].node
             p == joints[i].frame
  <1>1. step = "binds" /\ cursor > Len(file.slots) /\ cursor \in Nat
    BY DEF Reorder, TypeInv
  <1>2. /\ jointNodes \in Seq(Nodes) /\ Len(jointNodes) \in Nat
        /\ jointOf \in [Nodes -> 0 .. Len(jointNodes)]
        /\ JointsTyped
        /\ DOMAIN joints = 1 .. Len(jointNodes)
    BY <1>1 DEF TypeInv, SkeletonTypeOK, JointsTyped
  <1>3. i \in Nat /\ joints[i] \in Joint
    BY <1>2, JointFacts
  <1>4. n \in Nodes /\ p \in Nodes \cup {0}
    BY <1>3 DEF Joint
  <1>5. \A j \in DOMAIN joints : jointOf[joints[j].node] = j
    BY <1>1, <1>2 DEF UnionInv, PlacedInv, Unordered
  <1>6. /\ IsNearestJoint(n, p)
        /\ joints[i].parent = IF p = 0 THEN 0 ELSE jointOf[p]
    BY <1>1 DEF PlacedInv
  <1>7. joints[i].bind = BindOf(n)
    <2>1. IF i \in bound THEN joints[i].bind = BindOf(n)
          ELSE joints[i].bind = NodeWorld(n) /\ \A k \in SlotsOf(n) : cursor <= k
      BY <1>1 DEF BoundInv
    <2>2. \A k \in SlotsOf(n) : k \in Nat /\ k <= Len(file.slots)
      BY FileFacts DEF SlotsOf, TypeInv
    <2>3. Len(file.slots) \in Nat
      BY FileFacts DEF TypeInv
    <2>4. i \notin bound => SlotsOf(n) = {}
      BY <1>1, <2>1, <2>2, <2>3
    <2> QED
      BY <2>1, <2>4 DEF BindOf
  <1>8. ASSUME p # 0
        PROVE  /\ joints[i].parent = jointOf[p]
               /\ joints[i].parent \in DOMAIN joints
               /\ Before(joints[i].parent, i)
    <2>1. p \in Nodes
      BY <1>4, <1>8
    <2>2. PICK k \in JointsAbove(n) : file.above[n][k] = p
      BY <1>6, <1>8 DEF IsNearestJoint
    <2>3. jointOf[p] # 0 /\ Depth(p) < Depth(n)
      BY <1>4, <2>2, AncestorIsShallower DEF JointsAbove, TypeInv
    <2>4. jointOf[p] \in DOMAIN joints /\ jointNodes[jointOf[p]] = p
      BY <1>1, <1>2, <2>1, <2>3 DEF UnionInv, Unordered
    <2>5. joints[jointOf[p]].node = p
      BY <1>1, <2>4 DEF PlacedInv
    <2> QED
      BY <1>6, <1>8, <2>3, <2>4, <2>5 DEF Before
  <1> QED
    BY <1>4, <1>5, <1>6, <1>7, <1>8

\* A joint whose parent is replaced.
LEMMA ParentReplaced ==
    ASSUME NEW j \in Joint, NEW q
    PROVE  /\ [j EXCEPT !.parent = q].node = j.node
           /\ [j EXCEPT !.parent = q].bind = j.bind
           /\ [j EXCEPT !.parent = q].frame = j.frame
           /\ [j EXCEPT !.parent = q].parent = q
           /\ q \in Nat => [j EXCEPT !.parent = q] \in Joint
  BY DEF Joint

LEMMA ReorderKeeps ==
    ASSUME SkeletonInv, Reorder
    PROVE  SkeletonInv'
  <1>1. /\ step' = "meshes" /\ cursor' = 1
        /\ UNCHANGED <<file, jointNodes, bound>>
        /\ jointOf' = [n \in Nodes |-> Moved(jointOf[n])]
    BY DEF Reorder
  <1>2. /\ jointNodes \in Seq(Nodes) /\ Len(jointNodes) \in Nat
        /\ jointOf \in [Nodes -> 0 .. Len(jointNodes)]
        /\ JointsTyped
        /\ DOMAIN joints = 1 .. Len(jointNodes) /\ Len(joints) = Len(jointNodes)
        /\ bound \subseteq 1 .. Len(jointNodes)
        /\ file \in Files
    BY DEF Reorder, SkeletonInv, TypeInv, SkeletonTypeOK, JointsTyped
  <1>3. \A i \in DOMAIN joints : Moved(i) = NewIndex(i) /\ Moved(i) \in DOMAIN joints
    BY <1>2, NewIndexFacts DEF Moved
  <1>4. Moved(0) = 0
    BY DEF Moved
  <1>5. /\ jointOf' \in [Nodes -> 0 .. Len(jointNodes)]
        /\ \A n \in Nodes : jointOf'[n] = Moved(jointOf[n])
        /\ \A n \in Nodes : jointOf'[n] # 0 <=> jointOf[n] # 0
    <2>1. \A n \in Nodes : jointOf[n] = 0 \/ jointOf[n] \in DOMAIN joints
      BY <1>2
    <2>2. \A n \in Nodes : /\ Moved(jointOf[n]) \in 0 .. Len(jointNodes)
                           /\ Moved(jointOf[n]) # 0 <=> jointOf[n] # 0
      BY <1>2, <1>3, <1>4, <2>1
    <2> QED
      BY <1>1, <2>2
  \* The joint now at index new, and the index it had.
  <1>6. ASSUME NEW new \in DOMAIN joints
        PROVE  /\ OldIndex(new) \in DOMAIN joints
               /\ Moved(OldIndex(new)) = new
               /\ joints'[new] = [joints[OldIndex(new)] EXCEPT
                                    !.parent = Moved(joints[OldIndex(new)].parent)]
               /\ joints[OldIndex(new)] \in Joint
    BY <1>2, <1>3, NewIndexNumbers, JointFacts DEF Reorder
  <1>7. DOMAIN joints' = DOMAIN joints
    BY DEF Reorder
  <1>8. ASSUME NEW new \in DOMAIN joints
        PROVE  /\ joints'[new].node = joints[OldIndex(new)].node
               /\ joints'[new].bind = joints[OldIndex(new)].bind
               /\ joints'[new].frame = joints[OldIndex(new)].frame
               /\ joints'[new].parent = Moved(joints[OldIndex(new)].parent)
    <2> DEFINE j == joints[OldIndex(new)]
               q == Moved(joints[OldIndex(new)].parent)
    <2>1. joints'[new] = [j EXCEPT !.parent = q] /\ j \in Joint
      BY <1>6
    <2> HIDE DEF j, q
    <2>2. /\ joints'[new].node = j.node
          /\ joints'[new].bind = j.bind
          /\ joints'[new].frame = j.frame
          /\ joints'[new].parent = q
      BY <2>1, ParentReplaced
    <2> QED
      BY <2>2 DEF j, q
  <1>9. ASSUME NEW new \in DOMAIN joints
        PROVE  joints'[new] \in Joint
    <2>1. Moved(joints[OldIndex(new)].parent) \in Nat
      <3>1. OldIndex(new) \in DOMAIN joints
        BY <1>6
      <3>2. joints[OldIndex(new)].parent = 0 \/ joints[OldIndex(new)].parent \in DOMAIN joints
        BY <3>1, JointBeforeReorder
      <3>3. \A i \in DOMAIN joints : Moved(i) \in Nat
        BY <1>2, <1>3
      <3> QED
        BY <1>4, <3>2, <3>3
    <2> DEFINE j == joints[OldIndex(new)]
               q == Moved(joints[OldIndex(new)].parent)
    <2>2. joints'[new] = [j EXCEPT !.parent = q] /\ j \in Joint
      BY <1>6
    <2>3. q \in Nat
      BY <2>1
    <2> HIDE DEF j, q
    <2> QED
      BY <2>2, <2>3, ParentReplaced
  <1>10. joints' \in Seq(Joint) /\ Len(joints') = Len(joints)
    <2>1. joints' = [new \in DOMAIN joints |-> joints'[new]]
      BY DEF Reorder
    <2>2. joints' \in [1 .. Len(joints) -> Joint]
      BY <1>2, <1>9, <2>1
    <2> QED
      BY <1>2, <2>2
  <1>11. TypeInv'
    BY <1>1, <1>2, <1>5, <1>10 DEF TypeInv, SkeletonTypeOK
  <1>12. UnionInv' /\ JoinedInv' /\ PlacedInv' /\ BoundInv'
    BY <1>1 DEF UnionInv, JoinedInv, PlacedInv, BoundInv, Unordered
  <1>13. ParentsPrecedeChildren'
    <2> SUFFICES ASSUME NEW new \in DOMAIN joints
                 PROVE  joints'[new].parent < new
      BY <1>7 DEF ParentsPrecedeChildren
    <2> DEFINE old == OldIndex(new)
    <2>1. old \in DOMAIN joints /\ NewIndex(old) = new /\ new \in Nat /\ new # 0
      <3>1. old \in DOMAIN joints /\ Moved(old) = new
        BY <1>6
      <3>2. Moved(old) = NewIndex(old)
        BY <1>3, <3>1
      <3>3. new \in 1 .. Len(jointNodes)
        BY <1>2
      <3> HIDE DEF old
      <3> QED
        BY <1>2, <3>1, <3>2, <3>3
    <2>2. CASE joints[old].frame = 0
      <3>1. joints[old].parent = 0
        BY <2>1, <2>2, JointBeforeReorder
      <3> QED
        BY <1>4, <1>8, <2>1, <3>1
    <2>3. CASE joints[old].frame # 0
      <3>1. joints[old].parent \in DOMAIN joints /\ Before(joints[old].parent, old)
        BY <2>1, <2>3, JointBeforeReorder
      <3>2. NewIndex(joints[old].parent) < NewIndex(old)
        BY <1>2, <2>1, <3>1, NewIndexFacts
      <3> QED
        BY <1>3, <1>8, <2>1, <3>1, <3>2
    <2> QED
      BY <2>2, <2>3
  <1>14. JointsKeepTheirNode'
    <2> SUFFICES ASSUME NEW new \in DOMAIN joints'
                 PROVE  (/\ jointOf[joints[new].node] = new
                         /\ joints[new].bind = BindOf(joints[new].node)
                         /\ IsNearestJoint(joints[new].node, joints[new].frame)
                         /\ joints[new].parent =
                              IF joints[new].frame = 0 THEN 0 ELSE jointOf[joints[new].frame])'
      BY DEF JointsKeepTheirNode
    <2> DEFINE old == OldIndex(new)
    <2>1. new \in DOMAIN joints /\ old \in DOMAIN joints /\ Moved(old) = new
      BY <1>6, <1>7
    <2>2. /\ joints[old].node \in Nodes
          /\ jointOf[joints[old].node] = old
          /\ joints[old].bind = BindOf(joints[old].node)
          /\ IsNearestJoint(joints[old].node, joints[old].frame)
      BY <2>1, JointBeforeReorder
    <2>3. jointOf'[joints'[new].node] = new
      BY <1>5, <1>8, <2>1, <2>2
    <2>4. joints'[new].bind = BindOf(joints'[new].node)
      BY <1>8, <2>1, <2>2
    <2>5. (joints[new].bind = BindOf(joints[new].node))'
      BY <1>1, <2>4 DEF BindOf, SlotsOf
    <2>6. \A n \in Nodes : JointsAbove(n) = JointsAbove(n)'
      <3>1. \A n \in Nodes : \A k \in DOMAIN file.above[n] : file.above[n][k] \in Nodes
        BY <1>2, FileFacts
      <3> QED
        BY <1>1, <1>5, <3>1 DEF JointsAbove
    <2>7. IsNearestJoint(joints[new].node, joints[new].frame)'
      <3>1. IsNearestJoint(joints'[new].node, joints'[new].frame)
        BY <1>8, <2>1, <2>2
      <3>2. joints'[new].node \in Nodes
        BY <1>8, <2>1, <2>2
      <3>3. JointsAbove(joints'[new].node) = JointsAbove(joints[new].node)'
        <4>1. file' = file
          BY <1>1
        <4>2. \A k \in DOMAIN file.above[joints'[new].node] :
                  file.above[joints'[new].node][k] \in Nodes
          BY <1>2, <3>2, FileFacts
        <4> QED
          BY <1>5, <4>1, <4>2 DEF JointsAbove
      <3> QED
        BY <1>1, <3>1, <3>3 DEF IsNearestJoint
    <2>8. joints'[new].parent =
             IF joints'[new].frame = 0 THEN 0 ELSE jointOf'[joints'[new].frame]
      BY <1>4, <1>5, <1>8, <2>1, JointBeforeReorder
    <2> QED
      BY <2>3, <2>5, <2>7, <2>8
  <1> QED
    BY <1>11, <1>12, <1>13, <1>14 DEF SkeletonInv, OrderedInv

\* The later passes touch none of what the skeleton's invariant speaks of.
LEMMA LaterPassesKeep ==
    ASSUME SkeletonInv, UNCHANGED <<file, skeletonVars>>, ~Unordered, ~Unordered',
           step' \in {"meshes", "bones", "expressions", "done"}, cursor' \in Nat \ {0}
    PROVE  SkeletonInv'
  <1>1. UNCHANGED <<file, jointNodes, jointOf, joints, bound>>
    BY DEF skeletonVars
  <1>2. step # "skins" /\ step # "binds" /\ step' # "skins" /\ step' # "binds"
    BY DEF Unordered
  <1>3. TypeInv'
    BY <1>1, <1>2 DEF SkeletonInv, TypeInv, SkeletonTypeOK
  <1>4. UnionInv' /\ JoinedInv' /\ PlacedInv' /\ BoundInv'
    BY <1>2 DEF UnionInv, JoinedInv, PlacedInv, BoundInv, Unordered
  <1>5. ParentsPrecedeChildren'
    BY <1>1, <1>2 DEF SkeletonInv, OrderedInv, ParentsPrecedeChildren, Ordered
  <1>6. JointsKeepTheirNode'
    <2> SUFFICES ASSUME NEW i \in DOMAIN joints'
                 PROVE  (/\ jointOf[joints[i].node] = i
                         /\ joints[i].bind = BindOf(joints[i].node)
                         /\ IsNearestJoint(joints[i].node, joints[i].frame)
                         /\ joints[i].parent =
                              IF joints[i].frame = 0 THEN 0 ELSE jointOf[joints[i].frame])'
      BY DEF JointsKeepTheirNode
    <2>1. /\ jointOf[joints[i].node] = i
          /\ joints[i].bind = BindOf(joints[i].node)
          /\ IsNearestJoint(joints[i].node, joints[i].frame)
          /\ joints[i].parent =
               IF joints[i].frame = 0 THEN 0 ELSE jointOf[joints[i].frame]
      BY <1>1, <1>2 DEF SkeletonInv, OrderedInv, JointsKeepTheirNode, Ordered
    <2>2. (BindOf(joints[i].node))' = BindOf(joints[i].node)
      BY <1>1, NearNodesStay
    <2>3. (IsNearestJoint(joints[i].node, joints[i].frame))'
      BY <1>1, <2>1, NearNodesStay
    <2> QED
      BY <1>1, <2>1, <2>2, <2>3
  <1> QED
    BY <1>3, <1>4, <1>5, <1>6 DEF SkeletonInv, OrderedInv

LEMMA NextKeepsSkeleton ==
    ASSUME SkeletonInv, [Next]_vars
    PROVE  SkeletonInv'
  <1> DEFINE Later == step' \in {"meshes", "bones", "expressions", "done"}
  <1>1. cursor \in Nat \ {0} /\ cursor + 1 \in Nat \ {0}
    BY DEF SkeletonInv, TypeInv
  <1>2. CASE SkeletonNext
    BY <1>2, UnifyJointKeeps, PlaceJointsKeeps, ReadBindKeeps, ReorderKeeps DEF SkeletonNext
  <1>3. CASE MeshesNext
    <2>1. step = "meshes" /\ step' = "meshes" /\ cursor' = cursor + 1
          /\ UNCHANGED <<file, skeletonVars>>
      BY <1>3 DEF MeshesNext, SkipNotTriangles, SkipNoPosition, ReadPrimitive, Skip, Reading
    <2> QED
      BY <1>1, <2>1, LaterPassesKeep DEF Unordered
  <1>4. CASE StartExtension
    <2>1. step = "meshes" /\ step' \in {"bones", "done"} /\ cursor' = 1
          /\ UNCHANGED <<file, skeletonVars>>
      BY <1>4 DEF StartExtension, Document
    <2> QED
      BY <2>1, LaterPassesKeep DEF Unordered
  <1>5. CASE ReadBone
    <2>1. step = "bones" /\ step' = "bones" /\ cursor' = cursor + 1
          /\ UNCHANGED <<file, skeletonVars>>
      BY <1>5 DEF ReadBone
    <2> QED
      BY <1>1, <2>1, LaterPassesKeep DEF Unordered
  <1>6. CASE EndBones
    <2>1. step = "bones" /\ step' = "expressions" /\ cursor' = 1
          /\ UNCHANGED <<file, skeletonVars>>
      BY <1>6 DEF EndBones, Document
    <2> QED
      BY <2>1, LaterPassesKeep DEF Unordered
  <1>7. CASE ReadExpression
    <2>1. step = "expressions" /\ step' = "expressions" /\ cursor' = cursor + 1
          /\ UNCHANGED <<file, skeletonVars>>
      BY <1>7 DEF ReadExpression
    <2> QED
      BY <1>1, <2>1, LaterPassesKeep DEF Unordered
  <1>8. CASE Finish
    <2>1. step = "expressions" /\ step' = "done" /\ UNCHANGED <<file, cursor, skeletonVars>>
      BY <1>8 DEF Finish, Document
    <2> QED
      BY <1>1, <2>1, LaterPassesKeep DEF Unordered
  <1>9. CASE UNCHANGED vars
    <2>1. UNCHANGED <<file, step, cursor, skeletonVars>>
      BY <1>9 DEF vars
    <2>2. UNCHANGED <<jointNodes, jointOf, joints, bound>>
      BY <2>1 DEF skeletonVars
    <2>3. CASE Unordered
      <3>1. TypeInv' /\ UnionInv' /\ JoinedInv'
        BY <2>1, <2>2 DEF SkeletonInv, TypeInv, SkeletonTypeOK, UnionInv, JoinedInv, Unordered
      <3>2. PlacedInv'
        <4>1. ASSUME step = "binds", NEW j \in DOMAIN joints'
              PROVE  (/\ joints[j].node = jointNodes[j]
                      /\ IsNearestJoint(joints[j].node, joints[j].frame)
                      /\ joints[j].parent =
                           IF joints[j].frame = 0 THEN 0 ELSE jointOf[joints[j].frame])'
          <5>1. /\ joints[j].node = jointNodes[j]
                /\ IsNearestJoint(joints[j].node, joints[j].frame)
                /\ joints[j].parent =
                     IF joints[j].frame = 0 THEN 0 ELSE jointOf[joints[j].frame]
            BY <2>2, <4>1 DEF SkeletonInv, PlacedInv
          <5> QED
            BY <2>1, <2>2, <5>1 DEF IsNearestJoint, JointsAbove
        <4> QED
          BY <2>1, <4>1 DEF PlacedInv
      <3>3. BoundInv'
        <4>1. ASSUME step = "binds", NEW j \in DOMAIN joints'
              PROVE  (IF j \in bound THEN joints[j].bind = BindOf(joints[j].node)
                      ELSE /\ joints[j].bind = NodeWorld(joints[j].node)
                           /\ \A k \in SlotsOf(joints[j].node) : cursor <= k)'
          <5>1. IF j \in bound THEN joints[j].bind = BindOf(joints[j].node)
                ELSE /\ joints[j].bind = NodeWorld(joints[j].node)
                     /\ \A k \in SlotsOf(joints[j].node) : cursor <= k
            BY <2>2, <4>1 DEF SkeletonInv, BoundInv
          <5> QED
            BY <2>1, <2>2, <5>1 DEF BindOf, SlotsOf
        <4> QED
          BY <2>1, <2>2, <4>1 DEF SkeletonInv, BoundInv
      <3>4. OrderedInv'
        BY <2>1, <2>3 DEF Unordered, OrderedInv, ParentsPrecedeChildren, JointsKeepTheirNode,
                        Ordered
      <3> QED
        BY <3>1, <3>2, <3>3, <3>4 DEF SkeletonInv
    <2>4. CASE ~Unordered
      <3>1. step' \in {"meshes", "bones", "expressions", "done"}
        BY <2>1, <2>4 DEF SkeletonInv, TypeInv, Unordered
      <3> QED
        BY <1>1, <2>1, <2>4, <3>1, LaterPassesKeep DEF Unordered
    <2> QED
      BY <2>3, <2>4
  <1> QED
    BY <1>2, <1>3, <1>4, <1>5, <1>6, <1>7, <1>8, <1>9 DEF Next

THEOREM SkeletonInvariant == Spec => []SkeletonInv
  BY InitSkeletonInv, NextKeepsSkeleton, PTL DEF Spec

(***************************************************************************)
(* However the skins of a file name its nodes, the skeleton handed to the  *)
(* later passes and to the author has every parent before its children.    *)
(***************************************************************************)
THEOREM JointsTopological == Spec => []ParentsPrecedeChildren
  <1>1. SkeletonInv => ParentsPrecedeChildren
    BY DEF SkeletonInv, OrderedInv
  <1> QED
    BY <1>1, SkeletonInvariant, PTL

(***************************************************************************)
(* However many skins share a joint, and whatever order they name the      *)
(* joints in, each joint of the skeleton belongs to its node, has the bind *)
(* transform of the first skin that gives one, and hangs from the nearest  *)
(* joint above its node.                                                   *)
(***************************************************************************)
THEOREM JointsNotMixedUp == Spec => []JointsKeepTheirNode
  <1>1. SkeletonInv => JointsKeepTheirNode
    BY DEF SkeletonInv, OrderedInv
  <1> QED
    BY <1>1, SkeletonInvariant, PTL

-----------------------------------------------------------------------------
(* The types of the whole document *)

Bone == [bone : STRING, joint : DOMAIN joints]

Expression == [name : STRING, source : Nat, binds : SUBSET [mesh : DOMAIN meshes, morph : Nat]]

\* Bones index the joints and expressions the meshes; neither is read before these are final.
ExtensionInv ==
    /\ bones \in Seq(Bone)
    /\ expressions \in Seq(Expression)
    /\ Unordered => bones = << >>
    /\ Unordered \/ step \in {"meshes", "bones"} => expressions = << >>

LEMMA ElementType ==
    ASSUME NEW S, NEW s \in Seq(S)
    PROVE  /\ \A k \in Nat \ {0} : k <= Len(s) => s[k] \in S
           /\ \A e \in Range(s) : e \in S
  <1>1. \A k \in DOMAIN s : s[k] \in S
    OBVIOUS
  <1>2. DOMAIN s = 1 .. Len(s) /\ Len(s) \in Nat
    OBVIOUS
  <1> QED
    BY <1>1, <1>2 DEF Range

LEMMA NextKeepsExtension ==
    ASSUME SkeletonInv, ExtensionInv, [Next]_vars
    PROVE  ExtensionInv'
  <1>1. /\ jointOf \in [Nodes -> 0 .. Len(jointNodes)]
        /\ joints \in Seq(Joint) /\ DOMAIN joints = 1 .. Len(joints)
        /\ step # "skins" => Len(joints) = Len(jointNodes)
        /\ cursor \in Nat \ {0} /\ file \in Files
    BY DEF SkeletonInv, TypeInv, SkeletonTypeOK
  \* A step that leaves both lists and what they index alone.
  <1>2. ASSUME UNCHANGED <<bones, expressions, joints, meshes>>,
               ~Unordered => step' \notin {"skins", "binds"},
               step' \in {"meshes", "bones"} => Unordered \/ step \in {"meshes", "bones"}
        PROVE  ExtensionInv'
    <2>1. bones' \in Seq(Bone') /\ expressions' \in Seq(Expression')
      BY <1>2 DEF ExtensionInv, Bone, Expression
    <2>2. (Unordered => bones = << >>)'
      BY <1>2 DEF ExtensionInv, Unordered
    <2>3. (Unordered \/ step \in {"meshes", "bones"} => expressions = << >>)'
      BY <1>2 DEF ExtensionInv, Unordered
    <2> QED
      BY <2>1, <2>2, <2>3 DEF ExtensionInv
  <1>3. CASE SkeletonNext /\ UNCHANGED <<meshes, bones, seen, expressions>>
    <2>1. Unordered
      BY <1>3 DEF SkeletonNext, UnifyJoint, PlaceJoints, ReadBind, Reorder, Unordered
    <2>2. bones' = << >> /\ expressions' = << >>
      BY <1>3, <2>1 DEF ExtensionInv
    <2> QED
      BY <2>2 DEF ExtensionInv
  <1>4. CASE MeshesNext /\ UNCHANGED <<bones, seen, expressions>>
    <2>1. step = "meshes" /\ step' = "meshes" /\ UNCHANGED skeletonVars
      BY <1>4 DEF MeshesNext, SkipNotTriangles, SkipNoPosition, ReadPrimitive, Skip, Reading
    <2>2. bones' \in Seq(Bone')
      BY <1>4, <2>1 DEF ExtensionInv, Bone, skeletonVars
    <2>3. expressions' = << >>
      BY <1>4, <2>1 DEF ExtensionInv
    <2> QED
      BY <2>1, <2>2, <2>3 DEF ExtensionInv, Unordered
  <1>5. CASE StartExtension \/ EndBones \/ Finish
    <2>1. UNCHANGED <<bones, expressions, joints, meshes>>
      BY <1>5 DEF StartExtension, EndBones, Finish, Document, skeletonVars
    <2>2. \/ step = "meshes" /\ step' \in {"bones", "done"}
          \/ step = "bones" /\ step' = "expressions"
          \/ step = "expressions" /\ step' = "done"
      BY <1>5 DEF StartExtension, EndBones, Finish
    <2> QED
      BY <1>2, <2>1, <2>2 DEF Unordered
  <1>6. CASE ReadBone
    <2>1. /\ step = "bones" /\ step' = "bones" /\ UNCHANGED <<joints, meshes, expressions>>
          /\ cursor <= Len(file.bones)
      BY <1>6 DEF ReadBone, skeletonVars
    <2>2. bones' = bones \/ /\ NodeJoint(BoneEntry.node) # 0
                            /\ bones' = Append(bones, [bone |-> BoneEntry.bone,
                                                       joint |-> NodeJoint(BoneEntry.node)])
      BY <1>6 DEF ReadBone, MapBone
    <2>3. BoneEntry.bone \in STRING
      <3>1. file.bones \in Seq([bone : STRING, node : Nat])
        BY <1>1, ExtensionAssumption
      <3>2. file.bones[cursor] \in [bone : STRING, node : Nat]
        BY <1>1, <2>1, <3>1, ElementType
      <3> QED
        BY <3>2 DEF BoneEntry
    <2>4. NodeJoint(BoneEntry.node) # 0 => NodeJoint(BoneEntry.node) \in DOMAIN joints
      BY <1>1, <2>1 DEF NodeJoint
    <2>5. bones' \in Seq(Bone)
      <3>1. NodeJoint(BoneEntry.node) # 0 =>
               [bone |-> BoneEntry.bone, joint |-> NodeJoint(BoneEntry.node)] \in Bone
        BY <2>3, <2>4 DEF Bone
      <3>2. bones \in Seq(Bone)
        BY DEF ExtensionInv
      <3> QED
        BY <2>2, <3>1, <3>2
    <2>6. Bone' = Bone /\ Expression' = Expression
      BY <2>1 DEF Bone, Expression
    <2> QED
      BY <2>1, <2>5, <2>6 DEF ExtensionInv, Unordered
  <1>7. CASE ReadExpression
    <2> DEFINE entry == file.expressions[cursor]
               binds == UNION {Fan(bind) : bind \in Range(entry.binds)}
               new == [name |-> entry.name, source |-> cursor, binds |-> binds]
    <2>1. /\ step = "expressions" /\ step' = "expressions"
          /\ UNCHANGED <<joints, meshes, bones>>
          /\ cursor <= Len(file.expressions)
          /\ expressions' = expressions \/ expressions' = Append(expressions, new)
      BY <1>7 DEF ReadExpression, skeletonVars
    <2>2. entry \in [name : STRING, binds : Seq([target : Nat, morph : Nat])]
      <3>1. file.expressions \in Seq([name : STRING, binds : Seq([target : Nat, morph : Nat])])
        BY <1>1, ExtensionAssumption
      <3> QED
        BY <1>1, <2>1, <3>1, ElementType
    <2>3. \A bind \in Range(entry.binds) : bind \in [target : Nat, morph : Nat]
      <3>1. entry.binds \in Seq([target : Nat, morph : Nat])
        BY <2>2
      <3> QED
        BY <3>1, ElementType
    <2>4. \A bind \in Range(entry.binds) : Fan(bind) \subseteq [mesh : DOMAIN meshes, morph : Nat]
      BY <2>3 DEF Fan, TargetMeshes
    <2>5. binds \in SUBSET [mesh : DOMAIN meshes, morph : Nat]
      BY <2>4
    <2>6. new \in Expression
      BY <1>1, <2>2, <2>5 DEF Expression
    <2>7. expressions \in Seq(Expression) /\ bones \in Seq(Bone)
      BY DEF ExtensionInv
    <2> HIDE DEF new
    <2>8. expressions' \in Seq(Expression)
      BY <2>1, <2>6, <2>7
    <2>9. Bone' = Bone /\ Expression' = Expression
      BY <2>1 DEF Bone, Expression
    <2> QED
      BY <2>1, <2>7, <2>8, <2>9 DEF ExtensionInv, Unordered
  <1>8. CASE UNCHANGED vars
    <2>1. UNCHANGED <<bones, expressions, joints, meshes, step>>
      BY <1>8 DEF vars, skeletonVars
    <2> QED
      BY <1>2, <2>1 DEF Unordered
  <1> QED
    BY <1>3, <1>4, <1>5, <1>6, <1>7, <1>8 DEF Next

(***************************************************************************)
(* Whatever a file declares, a bone's joint is a joint of the skeleton and *)
(* a bind's mesh a mesh of the document: the author indexes both lists     *)
(* with them unchecked.                                                    *)
(***************************************************************************)
THEOREM TypeCorrectness == Spec => []TypeOK
  <1>1. Init => ExtensionInv
    BY DEF Init, SkeletonInit, ExtensionInv, Unordered
  <1>2. SkeletonInv /\ ExtensionInv => TypeOK
    BY DEF SkeletonInv, TypeInv, ExtensionInv, TypeOK, Bone, Expression
  <1> QED
    BY <1>1, <1>2, SkeletonInvariant, NextKeepsExtension, PTL DEF Spec

-----------------------------------------------------------------------------
(* What the file declares, and what the document holds of it *)

LEMMA AppendIsList ==
    ASSUME NEW s, IsList(s), NEW e
    PROVE  /\ IsList(Append(s, e))
           /\ DOMAIN s = 1 .. Len(s) /\ Len(s) \in Nat
           /\ DOMAIN Append(s, e) = 1 .. Len(s) + 1
           /\ \A i \in DOMAIN s : i \in DOMAIN Append(s, e) /\ Append(s, e)[i] = s[i]
           /\ Append(s, e)[Len(s) + 1] = e
           /\ Range(s) \subseteq Range(Append(s, e)) /\ e \in Range(Append(s, e))
  <1> DEFINE S == {s[i] : i \in DOMAIN s} \cup {e}
             t == Append(s, e)
  <1>1. s \in Seq(S) /\ e \in S
    <2>1. s \in Seq({s[i] : i \in DOMAIN s})
      BY DEF IsList
    <2> QED
      BY <2>1
  <1> HIDE DEF S
  <1>2. /\ t \in Seq(S) /\ Len(t) = Len(s) + 1 /\ Len(s) \in Nat
        /\ DOMAIN s = 1 .. Len(s) /\ DOMAIN t = 1 .. Len(s) + 1
        /\ t[Len(s) + 1] = e /\ \A i \in DOMAIN s : t[i] = s[i]
    BY <1>1
  <1> HIDE DEF t
  <1>3. t \in Seq({t[i] : i \in DOMAIN t})
    BY <1>2
  <1>4. \A i \in DOMAIN s : i \in DOMAIN t
    BY <1>2
  <1>5. Range(s) \subseteq Range(t) /\ e \in Range(t)
    BY <1>2, <1>4 DEF Range
  <1> QED
    BY <1>2, <1>3, <1>4, <1>5 DEF IsList, t

PrimitiveKept(q) ==
    \/ \E m \in Range(meshes) : m.source = q
    \/ Warned("PrimitiveNotTriangles", q)
    \/ Warned("PrimitiveNoPosition", q)

BoneKept(i) ==
    \/ Mapped(i)
    \/ Warned("HumanoidBoneUnmapped", i)
    \/ Warned("HumanoidBoneDuplicate", i)

BindKept(e, x, b) ==
    LET binds == file.expressions[x].binds IN
    \/ binds[b].morph = 0 \/ TargetMeshes(binds[b].target) = {}
    \/ \E d \in e.binds : d \in Fan(binds[b])
    \/ Warned("ExpressionMorphIndexOutOfRange", <<x, b>>)

ExpressionKept(x) ==
    \/ Warned("ExpressionDuplicateName", x)
    \/ \E e \in Range(expressions) :
         /\ e.source = x
         /\ \A b \in DOMAIN file.expressions[x].binds : BindKept(e, x, b)

Readable == file.version # "Unknown" /\ file.json

\* A mesh is of the node and the mesh its primitive is of.
SourceInv ==
    \A k \in DOMAIN meshes :
        LET p == file.prims[meshes[k].source]
        IN  meshes[k].node = p.node /\ meshes[k].mesh = p.mesh

\* An expression has the binds of its entry on all the meshes, final before it is read.
FansInv ==
    \A k \in DOMAIN expressions :
        expressions[k].binds =
            UNION {Fan(bind) : bind \in Range(file.expressions[expressions[k].source].binds)}

\* What each pass has met is kept or warned of; a later pass has met all of an earlier one's.
PassInv ==
    /\ Unordered => meshes = << >>
    /\ \A q \in DOMAIN file.prims :
           (step = "meshes" => q < cursor) => Unordered \/ PrimitiveKept(q)
    /\ step \in {"bones", "expressions"} => Readable
    /\ step \in {"bones", "expressions"} \/ Parsed =>
           \A i \in DOMAIN file.bones : (step = "bones" => i < cursor) => BoneKept(i)
    /\ step = "expressions" \/ Parsed =>
           \A x \in DOMAIN file.expressions :
               (step = "expressions" => x < cursor) => ExpressionKept(x)

LossInv ==
    /\ IsList(meshes) /\ IsList(bones) /\ IsList(expressions)
    /\ SourceInv
    /\ FansInv
    /\ PassInv

\* The pass's cursor is a place of the file's lists, and what is behind it is a place or less.
LEMMA ListFacts ==
    ASSUME file \in Files
    PROVE  /\ DOMAIN file.prims = 1 .. Len(file.prims) /\ Len(file.prims) \in Nat
           /\ DOMAIN file.bones = 1 .. Len(file.bones) /\ Len(file.bones) \in Nat
           /\ DOMAIN file.expressions = 1 .. Len(file.expressions)
           /\ Len(file.expressions) \in Nat
  <1>1. file.prims \in Seq({file.prims[q] : q \in DOMAIN file.prims})
    BY PrimitivesAssumption
  <1>2. /\ file.bones \in Seq([bone : STRING, node : Nat])
        /\ file.expressions \in Seq([name : STRING, binds : Seq([target : Nat, morph : Nat])])
    BY ExtensionAssumption
  <1> QED
    BY <1>1, <1>2

\* What is kept or warned of stays so.
LEMMA KeptStays ==
    ASSUME file' = file, warnings \subseteq warnings'
    PROVE  /\ Range(meshes) \subseteq Range(meshes') =>
                  \A q : PrimitiveKept(q) => (PrimitiveKept(q))'
           /\ Range(bones) \subseteq Range(bones') /\ jointOf' = jointOf =>
                  \A i : BoneKept(i) => (BoneKept(i))'
           /\ Range(expressions) \subseteq Range(expressions') /\ meshes' = meshes =>
                  \A x : ExpressionKept(x) => (ExpressionKept(x))'
  <1>1. \A code, at : Warned(code, at) => (Warned(code, at))'
    BY DEF Warned, Warning
  <1>2. ASSUME Range(meshes) \subseteq Range(meshes')
        PROVE  \A q : PrimitiveKept(q) => (PrimitiveKept(q))'
    BY <1>1, <1>2 DEF PrimitiveKept
  <1>3. ASSUME Range(bones) \subseteq Range(bones'), jointOf' = jointOf
        PROVE  \A i : BoneKept(i) => (BoneKept(i))'
    <2>1. \A i : Mapped(i) => (Mapped(i))'
      BY <1>3 DEF Mapped, NodeJoint
    <2> QED
      BY <1>1, <2>1 DEF BoneKept
  <1>4. ASSUME Range(expressions) \subseteq Range(expressions'), meshes' = meshes
        PROVE  \A x : ExpressionKept(x) => (ExpressionKept(x))'
    <2>1. \A target : (TargetMeshes(target))' = TargetMeshes(target)
      BY <1>4 DEF TargetMeshes
    <2>2. \A bind : (Fan(bind))' = Fan(bind)
      BY <1>4, <2>1 DEF Fan
    <2>3. \A e, x, b : BindKept(e, x, b) => (BindKept(e, x, b))'
      <3> SUFFICES ASSUME NEW e, NEW x, NEW b, BindKept(e, x, b)
                   PROVE  (BindKept(e, x, b))'
        OBVIOUS
      <3> DEFINE bind == file.expressions[x].binds[b]
      <3>1. (Fan(bind))' = Fan(bind) /\ (TargetMeshes(bind.target))' = TargetMeshes(bind.target)
        BY <2>1, <2>2
      <3>2. \/ bind.morph = 0 \/ TargetMeshes(bind.target) = {}
            \/ \E d \in e.binds : d \in Fan(bind)
            \/ Warned("ExpressionMorphIndexOutOfRange", <<x, b>>)
        BY DEF BindKept
      <3>3. Warned("ExpressionMorphIndexOutOfRange", <<x, b>>) =>
               (Warned("ExpressionMorphIndexOutOfRange", <<x, b>>))'
        BY <1>1
      <3> QED
        BY <3>1, <3>2, <3>3 DEF BindKept
    <2> QED
      BY <1>1, <1>4, <2>3 DEF ExpressionKept
  <1> QED
    BY <1>2, <1>3, <1>4

LEMMA FansStay ==
    ASSUME FansInv, UNCHANGED <<file, meshes, expressions>>
    PROVE  FansInv'
  BY DEF FansInv, Fan, TargetMeshes

LEMMA NoFans == expressions = << >> => FansInv
  BY DEF FansInv

LEMMA SkeletonKeepsLosses ==
    ASSUME SkeletonInv, ExtensionInv, LossInv, SkeletonNext,
           UNCHANGED <<meshes, bones, seen, expressions>>
    PROVE  LossInv'
  <1>1. /\ Unordered /\ file' = file
        /\ step' \in {"skins", "binds", "meshes"}
        /\ step' = "meshes" => cursor' = 1
    <2>1. CASE UnifyJoint
      BY <2>1 DEF UnifyJoint, Unordered
    <2>2. CASE PlaceJoints
      BY <2>2 DEF PlaceJoints, Unordered
    <2>3. CASE ReadBind
      <3>1. step = "binds" /\ UNCHANGED <<file, step>>
        BY <2>3 DEF ReadBind
      <3> QED
        BY <3>1 DEF Unordered
    <2>4. CASE Reorder
      BY <2>4 DEF Reorder, Unordered
    <2> QED
      BY <2>1, <2>2, <2>3, <2>4 DEF SkeletonNext
  <1>2. meshes' = << >> /\ expressions' = << >>
    BY <1>1 DEF LossInv, PassInv, ExtensionInv
  <1>3. SourceInv' /\ FansInv'
    BY <1>2 DEF SourceInv, FansInv
  <1>4. \A q \in DOMAIN file.prims : ~(q < 1)
    BY ListFacts DEF SkeletonInv, TypeInv
  <1>5. PassInv'
    BY <1>1, <1>2, <1>4 DEF PassInv, Unordered, Parsed
  <1>6. IsList(meshes') /\ IsList(bones') /\ IsList(expressions')
    BY DEF LossInv
  <1> QED
    BY <1>3, <1>5, <1>6 DEF LossInv, IsList

LEMMA MeshesKeepLosses ==
    ASSUME SkeletonInv, ExtensionInv, LossInv, MeshesNext, UNCHANGED <<bones, seen, expressions>>
    PROVE  LossInv'
  <1>1. /\ step = "meshes" /\ step' = "meshes" /\ cursor <= Len(file.prims)
        /\ cursor' = cursor + 1 /\ file' = file /\ UNCHANGED skeletonVars
    BY DEF MeshesNext, SkipNotTriangles, SkipNoPosition, ReadPrimitive, Skip, Reading
  <1>2. expressions' = << >> /\ IsList(meshes)
    BY <1>1 DEF ExtensionInv, LossInv
  <1>3. cursor \in Nat \ {0} /\ DOMAIN file.prims = 1 .. Len(file.prims)
        /\ Len(file.prims) \in Nat
    BY ListFacts DEF SkeletonInv, TypeInv
  <1>4. /\ IsList(meshes') /\ Range(meshes) \subseteq Range(meshes')
        /\ warnings \subseteq warnings'
        /\ SourceInv'
        /\ \/ \E m \in Range(meshes') : m.source = cursor
           \/ Warning("PrimitiveNotTriangles", cursor) \in warnings'
           \/ Warning("PrimitiveNoPosition", cursor) \in warnings'
    <2>1. CASE SkipNotTriangles \/ SkipNoPosition
      <3>1. SourceInv'
        BY <1>1, <2>1 DEF SkipNotTriangles, SkipNoPosition, Skip, LossInv, SourceInv
      <3> QED
        BY <1>2, <2>1, <3>1 DEF SkipNotTriangles, SkipNoPosition, Skip
    <2>2. CASE ReadPrimitive
      <3> DEFINE m == MeshOf(Primitive)
      <3>1. m.source = cursor /\ m.node = Primitive.node /\ m.mesh = Primitive.mesh
        BY DEF MeshOf
      <3> HIDE DEF m
      <3>2. meshes' = Append(meshes, m) /\ warnings \subseteq warnings'
        BY <2>2 DEF ReadPrimitive, m
      <3>3. IsList(meshes') /\ Range(meshes) \subseteq Range(meshes') /\ m \in Range(meshes')
        BY <1>2, <3>2, AppendIsList
      <3>4. \A k \in DOMAIN meshes' : (k \in DOMAIN meshes /\ meshes'[k] = meshes[k]) \/ meshes'[k] = m
        <4>1. /\ DOMAIN meshes = 1 .. Len(meshes) /\ Len(meshes) \in Nat
              /\ DOMAIN meshes' = 1 .. Len(meshes) + 1 /\ meshes'[Len(meshes) + 1] = m
              /\ \A i \in DOMAIN meshes : meshes'[i] = meshes[i]
          BY <1>2, <3>2, AppendIsList
        <4> QED
          BY <4>1
      <3>5. SourceInv'
        BY <1>1, <3>1, <3>4 DEF LossInv, SourceInv, Primitive
      <3> QED
        BY <3>1, <3>2, <3>3, <3>5
    <2> QED
      BY <2>1, <2>2 DEF MeshesNext
  <1>5. \A q : q = cursor => (PrimitiveKept(q))'
    <2>1. ASSUME NEW q, \/ \E m \in Range(meshes') : m.source = q
                        \/ Warning("PrimitiveNotTriangles", q) \in warnings'
                        \/ Warning("PrimitiveNoPosition", q) \in warnings'
          PROVE  (PrimitiveKept(q))'
      BY <2>1 DEF PrimitiveKept, Warned, Warning
    <2> QED
      BY <1>4, <2>1
  <1>6. \A q \in DOMAIN file.prims : q < cursor => (PrimitiveKept(q))'
    BY <1>1, <1>4, KeptStays DEF LossInv, PassInv, Unordered
  <1>7. PassInv'
    BY <1>1, <1>3, <1>5, <1>6 DEF PassInv, Unordered, Parsed
  <1>8. FansInv'
    BY <1>2 DEF FansInv
  <1>9. IsList(bones') /\ IsList(expressions')
    BY DEF LossInv
  <1> QED
    BY <1>4, <1>7, <1>8, <1>9 DEF LossInv, IsList

LEMMA ExtensionStartKeepsLosses ==
    ASSUME SkeletonInv, ExtensionInv, LossInv, StartExtension
    PROVE  LossInv'
  <1>1. /\ step = "meshes" /\ cursor > Len(file.prims) /\ cursor' = 1
        /\ UNCHANGED <<file, meshes, bones, expressions, jointOf>>
        /\ warnings \subseteq warnings'
        /\ step' = IF Readable THEN "bones" ELSE "done"
    BY DEF StartExtension, Document, skeletonVars, Readable
  <1>2. cursor \in Nat /\ DOMAIN file.prims = 1 .. Len(file.prims) /\ Len(file.prims) \in Nat
        /\ DOMAIN file.bones = 1 .. Len(file.bones) /\ Len(file.bones) \in Nat
    BY ListFacts DEF SkeletonInv, TypeInv
  <1>3. \A q \in DOMAIN file.prims : PrimitiveKept(q)
    <2>1. \A q \in DOMAIN file.prims : q < cursor
      BY <1>1, <1>2
    <2> QED
      BY <1>1, <2>1 DEF LossInv, PassInv, Unordered
  <1>4. \A q \in DOMAIN file.prims : (PrimitiveKept(q))'
    BY <1>1, <1>3, KeptStays
  <1>5. PassInv'
    <2>1. CASE Readable
      BY <1>1, <1>2, <1>4, <2>1 DEF PassInv, Unordered, Parsed, Readable
    <2>2. CASE ~Readable
      BY <1>1, <1>4, <2>2 DEF PassInv, Unordered, Parsed, Readable
    <2> QED
      BY <2>1, <2>2
  <1>6. SourceInv' /\ FansInv'
    BY <1>1, FansStay DEF LossInv, SourceInv
  <1>7. IsList(meshes') /\ IsList(bones') /\ IsList(expressions')
    BY <1>1 DEF LossInv
  <1> QED
    BY <1>5, <1>6, <1>7 DEF LossInv, IsList

LEMMA BonesKeepLosses ==
    ASSUME SkeletonInv, ExtensionInv, LossInv, ReadBone
    PROVE  LossInv'
  <1> DEFINE entry == file.bones[cursor]
             bone == [bone |-> entry.bone, joint |-> NodeJoint(entry.node)]
  <1>1. /\ step = "bones" /\ step' = "bones" /\ cursor <= Len(file.bones)
        /\ cursor' = cursor + 1 /\ UNCHANGED <<file, meshes, expressions, jointOf>>
    BY DEF ReadBone, skeletonVars
  <1>2. /\ \/ bones' = Append(bones, bone)
           \/ /\ bones' = bones
              /\ \/ Warning("HumanoidBoneDuplicate", cursor) \in warnings'
                 \/ Warning("HumanoidBoneUnmapped", cursor) \in warnings'
        /\ warnings \subseteq warnings'
    BY DEF ReadBone, MapBone, BoneEntry
  <1> HIDE DEF bone
  <1>3. IsList(bones') /\ Range(bones) \subseteq Range(bones')
    <2>1. CASE bones' = bones
      BY <2>1 DEF LossInv
    <2>2. CASE bones' = Append(bones, bone)
      BY <2>2, AppendIsList DEF LossInv
    <2> QED
      BY <1>2, <2>1, <2>2
  <1>4. cursor \in Nat \ {0} /\ DOMAIN file.bones = 1 .. Len(file.bones)
        /\ Len(file.bones) \in Nat
    BY ListFacts DEF SkeletonInv, TypeInv
  <1>5. \A i : i = cursor => (BoneKept(i))'
    <2>1. ASSUME NEW i, i = cursor, bones' = Append(bones, bone) PROVE (BoneKept(i))'
      <3>1. bone \in Range(bones')
        BY <2>1, AppendIsList DEF LossInv
      <3>2. bone = [bone |-> file.bones[i].bone, joint |-> NodeJoint(file.bones[i].node)]
        BY <2>1 DEF bone
      <3>3. (NodeJoint(file.bones[i].node))' = NodeJoint(file.bones[i].node)
        BY <1>1 DEF NodeJoint
      <3>4. (Mapped(i))'
        BY <1>1, <3>1, <3>2, <3>3 DEF Mapped
      <3> QED
        BY <3>4 DEF BoneKept
    <2>2. ASSUME NEW i, \/ Warning("HumanoidBoneDuplicate", i) \in warnings'
                        \/ Warning("HumanoidBoneUnmapped", i) \in warnings'
          PROVE  (BoneKept(i))'
      BY <2>2 DEF BoneKept, Warned, Warning
    <2> QED
      BY <1>2, <2>1, <2>2
  <1>6. \A i \in DOMAIN file.bones : i < cursor => (BoneKept(i))'
    BY <1>1, <1>2, <1>3, KeptStays DEF LossInv, PassInv
  <1>7. \A q \in DOMAIN file.prims : (PrimitiveKept(q))'
    BY <1>1, <1>2, KeptStays DEF LossInv, PassInv, Unordered
  <1>8. \A i \in DOMAIN file.bones : i < cursor + 1 => (BoneKept(i))'
    BY <1>4, <1>5, <1>6
  <1>9. Readable
    BY <1>1 DEF LossInv, PassInv
  <1>10. PassInv'
    BY <1>1, <1>7, <1>8, <1>9 DEF PassInv, Unordered, Parsed, Readable
  <1>11. SourceInv' /\ FansInv'
    BY <1>1, FansStay DEF LossInv, SourceInv
  <1>12. IsList(meshes') /\ IsList(expressions')
    BY <1>1 DEF LossInv
  <1> QED
    BY <1>3, <1>10, <1>11, <1>12 DEF LossInv, IsList

LEMMA BonesEndKeepsLosses ==
    ASSUME SkeletonInv, ExtensionInv, LossInv, EndBones
    PROVE  LossInv'
  <1>1. /\ step = "bones" /\ step' = "expressions" /\ cursor > Len(file.bones) /\ cursor' = 1
        /\ UNCHANGED <<file, warnings, meshes, bones, expressions, jointOf>>
    BY DEF EndBones, Document, skeletonVars
  <1>2. /\ cursor \in Nat /\ DOMAIN file.bones = 1 .. Len(file.bones) /\ Len(file.bones) \in Nat
        /\ DOMAIN file.expressions = 1 .. Len(file.expressions)
        /\ Len(file.expressions) \in Nat
    BY ListFacts DEF SkeletonInv, TypeInv
  <1>3. \A i \in DOMAIN file.bones : i < cursor
    BY <1>1, <1>2
  <1>4. \A i \in DOMAIN file.bones : (BoneKept(i))'
    BY <1>1, <1>3, KeptStays DEF LossInv, PassInv
  <1>5. \A q \in DOMAIN file.prims : (PrimitiveKept(q))'
    BY <1>1, KeptStays DEF LossInv, PassInv, Unordered
  <1>6. Readable
    BY <1>1 DEF LossInv, PassInv
  <1>7. PassInv'
    BY <1>1, <1>2, <1>4, <1>5, <1>6 DEF PassInv, Unordered, Parsed, Readable
  <1>8. SourceInv' /\ FansInv'
    BY <1>1, FansStay DEF LossInv, SourceInv
  <1>9. IsList(meshes') /\ IsList(bones') /\ IsList(expressions')
    BY <1>1 DEF LossInv
  <1> QED
    BY <1>7, <1>8, <1>9 DEF LossInv, IsList

\* An entry that is read keeps each of its binds that has a mesh, or warns of it.
LEMMA ReadBinds ==
    ASSUME NEW e, NEW x, x = cursor,
           e.binds = UNION {Fan(bind) : bind \in Range(file.expressions[x].binds)},
           \A b \in DOMAIN file.expressions[x].binds :
               OutOfRange(file.expressions[x].binds[b]) =>
                   Warning("ExpressionMorphIndexOutOfRange", <<x, b>>) \in warnings',
           UNCHANGED <<file, meshes>>
    PROVE  \A b \in DOMAIN file.expressions[x].binds : (BindKept(e, x, b))'
  <1> SUFFICES ASSUME NEW b \in DOMAIN file.expressions[x].binds
               PROVE  (BindKept(e, x, b))'
    OBVIOUS
  <1> DEFINE bind == file.expressions[x].binds[b]
  <1>1. (Fan(bind))' = Fan(bind) /\ (TargetMeshes(bind.target))' = TargetMeshes(bind.target)
    BY DEF Fan, TargetMeshes
  <1>2. CASE OutOfRange(bind)
    <2>1. Warning("ExpressionMorphIndexOutOfRange", <<x, b>>) \in warnings'
      BY <1>2
    <2> QED
      BY <2>1 DEF BindKept, Warned, Warning
  <1>3. CASE Fan(bind) # {}
    <2>1. bind \in Range(file.expressions[x].binds)
      BY DEF Range
    <2>2. \E d \in e.binds : d \in Fan(bind)
      BY <1>3, <2>1
    <2> QED
      BY <1>1, <2>2 DEF BindKept
  <1>4. CASE bind.morph = 0 \/ TargetMeshes(bind.target) = {}
    BY <1>1, <1>4 DEF BindKept
  <1> QED
    BY <1>2, <1>3, <1>4 DEF OutOfRange

LEMMA ExpressionsKeepLosses ==
    ASSUME SkeletonInv, ExtensionInv, LossInv, ReadExpression
    PROVE  LossInv'
  <1> DEFINE entry == file.expressions[cursor]
             new == [name |-> entry.name, source |-> cursor,
                     binds |-> UNION {Fan(bind) : bind \in Range(entry.binds)}]
  <1>1. /\ step = "expressions" /\ step' = "expressions"
        /\ cursor <= Len(file.expressions)
        /\ cursor' = cursor + 1 /\ UNCHANGED <<file, meshes, bones, jointOf>>
    BY DEF ReadExpression, skeletonVars
  <1>2. \/ /\ expressions' = expressions
           /\ warnings' = warnings \cup {Warning("ExpressionDuplicateName", cursor)}
        \/ /\ expressions' = Append(expressions, new)
           /\ warnings' = warnings \cup
                 {Warning("ExpressionMorphIndexOutOfRange", <<cursor, b>>) :
                      b \in {b \in DOMAIN entry.binds : OutOfRange(entry.binds[b])}}
    BY DEF ReadExpression
  <1>3. warnings \subseteq warnings'
    BY <1>2
  <1>4. /\ new.source = cursor
        /\ new.binds = UNION {Fan(bind) : bind \in Range(file.expressions[cursor].binds)}
    OBVIOUS
  <1> HIDE DEF new
  <1>5. /\ IsList(expressions') /\ Range(expressions) \subseteq Range(expressions')
        /\ \A k \in DOMAIN expressions' :
               (k \in DOMAIN expressions /\ expressions'[k] = expressions[k]) \/ expressions'[k] = new
    <2>1. CASE expressions' = expressions
      BY <2>1 DEF LossInv
    <2>2. CASE expressions' = Append(expressions, new)
      <3>1. /\ IsList(expressions') /\ Range(expressions) \subseteq Range(expressions')
            /\ DOMAIN expressions = 1 .. Len(expressions) /\ Len(expressions) \in Nat
            /\ DOMAIN expressions' = 1 .. Len(expressions) + 1
            /\ expressions'[Len(expressions) + 1] = new
            /\ \A i \in DOMAIN expressions : expressions'[i] = expressions[i]
        BY <2>2, AppendIsList DEF LossInv
      <3> QED
        BY <3>1
    <2> QED
      BY <1>2, <2>1, <2>2
  <1>6. cursor \in Nat \ {0} /\ DOMAIN file.expressions = 1 .. Len(file.expressions)
        /\ Len(file.expressions) \in Nat
    BY ListFacts DEF SkeletonInv, TypeInv
  <1>7. \A x : x = cursor => (ExpressionKept(x))'
    <2> SUFFICES ASSUME NEW x, x = cursor PROVE (ExpressionKept(x))'
      OBVIOUS
    <2>1. CASE warnings' = warnings \cup {Warning("ExpressionDuplicateName", cursor)}
      <3>1. Warning("ExpressionDuplicateName", x) \in warnings'
        BY <2>1
      <3> QED
        BY <3>1 DEF ExpressionKept, Warned, Warning
    <2>2. CASE /\ expressions' = Append(expressions, new)
               /\ warnings' = warnings \cup
                     {Warning("ExpressionMorphIndexOutOfRange", <<cursor, b>>) :
                          b \in {b \in DOMAIN entry.binds : OutOfRange(entry.binds[b])}}
      <3>1. PICK e : e = new
        OBVIOUS
      <3>2. e \in Range(expressions')
        BY <2>2, <3>1, AppendIsList DEF LossInv
      <3>3. /\ e.source = x
            /\ e.binds = UNION {Fan(bind) : bind \in Range(file.expressions[x].binds)}
        BY <1>4, <3>1
      <3>4. \A b \in DOMAIN file.expressions[x].binds :
               OutOfRange(file.expressions[x].binds[b]) =>
                   Warning("ExpressionMorphIndexOutOfRange", <<x, b>>) \in warnings'
        BY <2>2
      <3>5. \A b \in DOMAIN file.expressions[x].binds : (BindKept(e, x, b))'
        BY <1>1, <3>3, <3>4, ReadBinds
      <3> QED
        BY <1>1, <3>2, <3>3, <3>5 DEF ExpressionKept
    <2> QED
      BY <1>2, <2>1, <2>2
  <1>8. \A x \in DOMAIN file.expressions : x < cursor => (ExpressionKept(x))'
    BY <1>1, <1>3, <1>5, KeptStays DEF LossInv, PassInv
  <1>9. \A x \in DOMAIN file.expressions : x < cursor + 1 => (ExpressionKept(x))'
    BY <1>6, <1>7, <1>8
  <1>10. /\ \A q \in DOMAIN file.prims : (PrimitiveKept(q))'
         /\ \A i \in DOMAIN file.bones : (BoneKept(i))'
    BY <1>1, <1>3, KeptStays DEF LossInv, PassInv, Unordered
  <1>11. Readable
    BY <1>1 DEF LossInv, PassInv
  <1>12. PassInv'
    BY <1>1, <1>9, <1>10, <1>11 DEF PassInv, Unordered, Parsed, Readable
  <1>13. FansInv'
    <2>1. \A bind : (Fan(bind))' = Fan(bind)
      BY <1>1 DEF Fan, TargetMeshes
    <2>2. ASSUME NEW k \in DOMAIN expressions'
          PROVE  expressions'[k].binds =
                     UNION {Fan(bind) :
                            bind \in Range(file.expressions[expressions'[k].source].binds)}
      BY <1>4, <1>5 DEF LossInv, FansInv
    <2> QED
      BY <1>1, <2>1, <2>2 DEF FansInv
  <1>14. SourceInv' /\ IsList(meshes') /\ IsList(bones')
    BY <1>1 DEF LossInv, SourceInv
  <1> QED
    BY <1>5, <1>12, <1>13, <1>14 DEF LossInv, IsList

LEMMA FinishKeepsLosses ==
    ASSUME SkeletonInv, ExtensionInv, LossInv, Finish
    PROVE  LossInv'
  <1>1. /\ step = "expressions" /\ step' = "done" /\ cursor > Len(file.expressions)
        /\ UNCHANGED <<file, warnings, meshes, bones, expressions, jointOf>>
    BY DEF Finish, Document, skeletonVars
  <1>2. cursor \in Nat /\ DOMAIN file.expressions = 1 .. Len(file.expressions)
        /\ Len(file.expressions) \in Nat
    BY ListFacts DEF SkeletonInv, TypeInv
  <1>3. \A x \in DOMAIN file.expressions : x < cursor
    BY <1>1, <1>2
  <1>4. /\ \A q \in DOMAIN file.prims : (PrimitiveKept(q))'
        /\ \A i \in DOMAIN file.bones : (BoneKept(i))'
        /\ \A x \in DOMAIN file.expressions : (ExpressionKept(x))'
    BY <1>1, <1>3, KeptStays DEF LossInv, PassInv, Unordered
  <1>5. PassInv'
    BY <1>1, <1>4 DEF PassInv, Unordered, Parsed
  <1>6. SourceInv' /\ FansInv'
    BY <1>1, FansStay DEF LossInv, SourceInv
  <1>7. IsList(meshes') /\ IsList(bones') /\ IsList(expressions')
    BY <1>1 DEF LossInv
  <1> QED
    BY <1>5, <1>6, <1>7 DEF LossInv, IsList

LEMMA StutterKeepsLosses ==
    ASSUME LossInv, UNCHANGED vars
    PROVE  LossInv'
  <1>1. UNCHANGED <<file, step, cursor, warnings, meshes, bones, expressions, jointOf>>
    BY DEF vars, skeletonVars
  <1>2. /\ \A q : PrimitiveKept(q) => (PrimitiveKept(q))'
        /\ \A i : BoneKept(i) => (BoneKept(i))'
        /\ \A x : ExpressionKept(x) => (ExpressionKept(x))'
    BY <1>1, KeptStays
  <1>3. PassInv'
    BY <1>1, <1>2 DEF LossInv, PassInv, Unordered, Parsed, Readable
  <1>4. SourceInv' /\ FansInv'
    BY <1>1, FansStay DEF LossInv, SourceInv
  <1>5. IsList(meshes') /\ IsList(bones') /\ IsList(expressions')
    BY <1>1 DEF LossInv
  <1> QED
    BY <1>3, <1>4, <1>5 DEF LossInv, IsList

\* The invariant of the passes after the skeleton: it needs the skeleton's for the cursor, and
\* the extension's for what is still empty.
DocumentInv == SkeletonInv /\ ExtensionInv /\ LossInv

LEMMA InitDocumentInv == Init => DocumentInv
  <1> SUFFICES ASSUME Init PROVE DocumentInv
    OBVIOUS
  <1>1. step = "skins" /\ meshes = << >> /\ bones = << >> /\ expressions = << >>
    BY DEF Init, SkeletonInit
  <1>2. ExtensionInv
    BY <1>1 DEF ExtensionInv, Unordered
  <1>3. IsList(meshes) /\ IsList(bones) /\ IsList(expressions)
    BY <1>1 DEF IsList
  <1>4. SourceInv /\ FansInv /\ PassInv
    BY <1>1 DEF SourceInv, FansInv, PassInv, Unordered, Parsed
  <1> QED
    BY <1>2, <1>3, <1>4, InitSkeletonInv DEF DocumentInv, LossInv

LEMMA NextKeepsDocument == DocumentInv /\ [Next]_vars => DocumentInv'
  <1> SUFFICES ASSUME SkeletonInv, ExtensionInv, LossInv, [Next]_vars PROVE DocumentInv'
    BY DEF DocumentInv
  <1>1. SkeletonInv' /\ ExtensionInv'
    BY NextKeepsSkeleton, NextKeepsExtension
  <1>2. LossInv'
    BY SkeletonKeepsLosses, MeshesKeepLosses, ExtensionStartKeepsLosses, BonesKeepLosses,
       BonesEndKeepsLosses, ExpressionsKeepLosses, FinishKeepsLosses, StutterKeepsLosses DEF Next
  <1> QED
    BY <1>1, <1>2 DEF DocumentInv

LEMMA DocumentInvariant == Spec => []DocumentInv
  BY InitDocumentInv, NextKeepsDocument, PTL DEF Spec

(***************************************************************************)
(* For every file: an expression's binds are on the meshes of the node or  *)
(* mesh they name that have the morph target, whichever primitives were    *)
(* skipped before them.                                                    *)
(***************************************************************************)
THEOREM BindsOnTheirMeshes == Spec => []BindsNameTheirMesh
  <1>1. DocumentInv => BindsNameTheirMesh
    <2> SUFFICES ASSUME DocumentInv, NEW e \in Range(expressions), NEW k \in DOMAIN meshes,
                        NEW t \in DOMAIN meshes[k].morphs
                 PROVE  Drives(e, k, t) <=> Asks(e, k, t)
      BY DEF BindsNameTheirMesh
    <2> DEFINE p == file.prims[meshes[k].source]
    <2>1. e.binds = UNION {Fan(b) : b \in Range(file.expressions[e.source].binds)}
      BY DEF DocumentInv, LossInv, FansInv, Range
    <2>2. meshes[k].node = p.node /\ meshes[k].mesh = p.mesh
      BY DEF DocumentInv, LossInv, SourceInv
    <2>3. \A b : [mesh |-> k, morph |-> t] \in Fan(b) <=>
                     b.morph = t /\ b.target = IF file.version = "Vrm1" THEN p.node ELSE p.mesh
      BY <2>2 DEF Fan, TargetMeshes
    <2> QED
      BY <2>1, <2>3 DEF Drives, Asks
  <1> QED
    BY <1>1, DocumentInvariant, PTL

(***************************************************************************)
(* For every file: when the reader is done, a primitive, a bone, an        *)
(* expression or a bind that the document lacks is named by a warning.     *)
(***************************************************************************)
THEOREM LossesHaveWarnings == Spec => []LossesAreReported
  <1>1. DocumentInv => LossesAreReported
    <2> SUFFICES ASSUME DocumentInv, Parsed PROVE LossesAreReported
      BY DEF LossesAreReported
    <2>1. /\ \A q \in DOMAIN file.prims : PrimitiveKept(q)
          /\ \A i \in DOMAIN file.bones : BoneKept(i)
          /\ \A x \in DOMAIN file.expressions : ExpressionKept(x)
      BY DEF DocumentInv, LossInv, PassInv, Parsed, Unordered
    <2> QED
      BY <2>1 DEF LossesAreReported, PrimitiveKept, BoneKept, ExpressionKept, BindKept
  <1> QED
    BY <1>1, DocumentInvariant, PTL

-----------------------------------------------------------------------------
(* The arrays of a mesh, cut down to the vertices its triangles use *)

Vertex == Nat \ {0}

\* The vertices a list of corners names are listed once each.
LEMMA UsedLists ==
    ASSUME NEW corners \in Seq(Vertex)
    PROVE  /\ Used(corners) \in Seq(Vertex)
           /\ NoneTwice(Used(corners))
           /\ Range(Used(corners)) = Range(corners)
  <1> DEFINE n == Len(corners)
             V == Seq(Vertex)
             after(s, v) == IF v \in Range(s) THEN s ELSE Append(s, v)
             Fits(g) == g = [i \in 0 .. Len(corners) |->
                                IF i = 0 THEN << >> ELSE after(g[i - 1], corners[i])]
             w == CHOOSE g : Fits(g)
  <1>1. n \in Nat /\ DOMAIN corners = 1 .. n /\ \A i \in 1 .. n : corners[i] \in Vertex
    OBVIOUS
  <1>2. Used(corners) = w[n]
    BY DEF Used
  <1>3. ASSUME NEW s \in V, NEW v \in Vertex
        PROVE  /\ after(s, v) \in V
               /\ NoneTwice(s) => NoneTwice(after(s, v))
               /\ Range(after(s, v)) = Range(s) \cup {v}
    <2>1. CASE v \in Range(s)
      BY <2>1
    <2>2. CASE v \notin Range(s)
      <3> DEFINE t == Append(s, v)
      <3>1. /\ t \in V /\ Len(s) \in Nat
            /\ DOMAIN s = 1 .. Len(s) /\ DOMAIN t = 1 .. Len(s) + 1
            /\ t[Len(s) + 1] = v /\ \A i \in DOMAIN s : t[i] = s[i]
        OBVIOUS
      <3>2. after(s, v) = t
        BY <2>2
      <3> HIDE DEF t, after
      <3>3. \A i \in DOMAIN t : i = Len(s) + 1 \/ i \in DOMAIN s
        BY <3>1
      <3>4. \A i \in DOMAIN s : s[i] # v /\ i \in DOMAIN t
        BY <2>2, <3>1 DEF Range
      <3>5. NoneTwice(s) => NoneTwice(t)
        BY <3>1, <3>3, <3>4 DEF NoneTwice
      <3>6. Range(t) = Range(s) \cup {v}
        BY <3>1, <3>3, <3>4 DEF Range
      <3> QED
        BY <3>1, <3>2, <3>5, <3>6
    <2> QED
      BY <2>1, <2>2
  <1> HIDE DEF after, n
  <1>4. Fits(w)
    <2> DEFINE G == [i \in 1 .. n |-> [s \in V |-> after(s, corners[i])]]
    <2>1. Steps(n, V, G)
      <3>1. \A i \in 1 .. n : [s \in V |-> after(s, corners[i])] \in [V -> V]
        BY <1>1, <1>3
      <3> QED
        BY <3>1 DEF Steps
    <2>2. << >> \in V /\ n \in Nat
      BY <1>1
    <2>3. \A i \in 1 .. n : \A s \in V : G[i][s] = after(s, corners[i])
      OBVIOUS
    <2> HIDE DEF G, V
    <2>4. PICK f \in [0 .. n -> V] : Iterates(n, << >>, G, f)
      BY <2>1, <2>2, Iteration
    <2>5. ASSUME NEW i \in 1 .. n PROVE f[i] = after(f[i - 1], corners[i])
      <3>1. i - 1 \in 0 .. n
        BY <1>1
      <3> QED
        BY <2>3, <2>4, <3>1 DEF Iterates
    <2>6. f = [i \in 0 .. n |-> IF i = 0 THEN << >> ELSE after(f[i - 1], corners[i])]
      <3>1. f = [i \in 0 .. n |-> f[i]]
        OBVIOUS
      <3>2. \A i \in 0 .. n : f[i] = IF i = 0 THEN << >> ELSE after(f[i - 1], corners[i])
        BY <1>1, <2>4, <2>5 DEF Iterates
      <3> QED
        BY <3>1, <3>2
    <2>7. Fits(f)
      BY <2>6 DEF n
    <2> HIDE DEF Fits
    <2> QED
      BY <2>7
  <1>5. /\ w[0] = << >>
        /\ \A i \in 1 .. n : w[i] = after(w[i - 1], corners[i])
    <2>1. w = [i \in 0 .. n |-> IF i = 0 THEN << >> ELSE after(w[i - 1], corners[i])]
      BY <1>4 DEF n
    <2> HIDE DEF w
    <2> QED
      BY <1>1, <2>1
  <1> HIDE DEF w
  <1> DEFINE Lists(i) == /\ w[i] \in V /\ NoneTwice(w[i])
                         /\ Range(w[i]) = {corners[j] : j \in 1 .. i}
             S == {i \in 0 .. n : Lists(i)}
  <1>6. ASSUME NEW i \in 0 .. n, \A j \in 0 .. i - 1 : j \in S PROVE i \in S
    <2>1. CASE i = 0
      <3>1. {corners[j] : j \in 1 .. 0} = {}
        OBVIOUS
      <3>2. << >> \in V /\ NoneTwice(<< >>) /\ Range(<< >>) = {}
        BY DEF NoneTwice, Range
      <3> HIDE DEF V
      <3> QED
        BY <1>5, <2>1, <3>1, <3>2
    <2>2. CASE i # 0
      <3>1. i \in 1 .. n /\ i - 1 \in 0 .. i - 1
        BY <1>1, <2>2
      <3>2. Lists(i - 1)
        BY <1>6, <3>1
      <3>3. w[i] = after(w[i - 1], corners[i]) /\ corners[i] \in Vertex
        BY <1>1, <1>5, <3>1
      <3>4. {corners[j] : j \in 1 .. i} = {corners[j] : j \in 1 .. i - 1} \cup {corners[i]}
        BY <1>1, <3>1
      <3>5. Lists(i)
        BY <1>3, <3>2, <3>3, <3>4
      <3> QED
        BY <3>5
    <2> QED
      BY <2>1, <2>2
  <1> HIDE DEF S
  <1>7. \A i \in 0 .. n : i \in S
    BY <1>1, <1>6, StrongInduction
  <1>8. Lists(n)
    <2> HIDE DEF Lists
    <2> QED
      BY <1>1, <1>7 DEF S
  <1> QED
    BY <1>1, <1>2, <1>8 DEF Range

\* The list of a skin's joints holds slots of the file.
LEMMA SkinFacts ==
    ASSUME file \in Files, NEW s
    PROVE  /\ DOMAIN SkinJoints(s) = 1 .. Len(SkinJoints(s))
           /\ Len(SkinJoints(s)) \in Nat
           /\ \A slot \in DOMAIN SkinJoints(s) :
                 \E k \in DOMAIN file.slots : SkinJoints(s)[slot] = file.slots[k]
  <1> DEFINE L == Len(file.slots)
             before == {k \in DOMAIN file.slots : file.slots[k].skin < s}
             own == {k \in DOMAIN file.slots : file.slots[k].skin = s}
             b == Cardinality(before)
             n == Cardinality(own)
  <1>1. /\ L \in Nat /\ DOMAIN file.slots = 1 .. L
        /\ \A k \in DOMAIN file.slots : file.slots[k].skin \in Nat
    <2>1. file.slots \in Seq(Slot)
      BY FileFacts
    <2>2. L \in Nat /\ DOMAIN file.slots = 1 .. L /\ \A k \in DOMAIN file.slots : file.slots[k] \in Slot
      BY <2>1
    <2> QED
      BY <2>2 DEF Slot
  <1>2. SkinJoints(s) = [slot \in 1 .. n |-> file.slots[b + slot]]
    BY DEF SkinJoints
  <1>3. before \subseteq 1 .. L /\ own \subseteq 1 .. L /\ before \cap own = {}
    BY <1>1
  <1> HIDE DEF L, before, own
  <1>4. IsFiniteSet(1 .. L) /\ Cardinality(1 .. L) = L
    <2>1. Cardinality(1 .. L) = IF 1 > L THEN 0 ELSE L - 1 + 1
      BY <1>1, FS_Interval
    <2> QED
      BY <1>1, <2>1, FS_Interval
  <1>5. IsFiniteSet(before) /\ IsFiniteSet(own)
    BY <1>3, <1>4, FS_Subset
  <1>6. b \in Nat /\ n \in Nat
    BY <1>5, FS_CardinalityType
  <1>7. b + n <= L
    <2>1. Cardinality(before \cup own) = b + n - Cardinality(before \cap own)
      BY <1>5, FS_Union
    <2>2. Cardinality(before \cap own) = 0
      BY <1>3, FS_EmptySet
    <2>3. Cardinality(before \cup own) <= Cardinality(1 .. L)
      BY <1>3, <1>4, FS_Subset
    <2> QED
      BY <1>4, <1>6, <2>1, <2>2, <2>3
  <1> HIDE DEF b, n
  <1>8. Len(SkinJoints(s)) = n /\ DOMAIN SkinJoints(s) = 1 .. n
    BY <1>2, <1>6
  <1>9. ASSUME NEW slot \in 1 .. n
        PROVE  \E k \in DOMAIN file.slots : SkinJoints(s)[slot] = file.slots[k]
    <2>1. b + slot \in 1 .. L
      BY <1>1, <1>6, <1>7
    <2>2. SkinJoints(s)[slot] = file.slots[b + slot]
      BY <1>2
    <2> QED
      BY <1>1, <2>1, <2>2
  <1> QED
    BY <1>6, <1>8, <1>9

\* Once the skeleton is ordered, the node of every slot has the joint of that node.
NamedInv ==
    Ordered => \A k \in DOMAIN file.slots :
        LET n == file.slots[k].node
        IN  jointOf[n] \in DOMAIN joints /\ joints[jointOf[n]].node = n

LEMMA PlacedNames ==
    ASSUME SkeletonInv, PlaceJoints
    PROVE  NamedInv'
  <1> SUFFICES ASSUME Ordered', NEW k \in DOMAIN file.slots PROVE FALSE
    BY DEF NamedInv, PlaceJoints
  <1>1. jointNodes = << >> /\ step = "skins" /\ cursor > Len(file.slots)
    BY DEF PlaceJoints, Ordered
  <1>2. file.slots \in Seq(Slot) /\ cursor \in Nat /\ jointOf \in [Nodes -> 0 .. Len(jointNodes)]
    BY FileFacts DEF SkeletonInv, TypeInv, SkeletonTypeOK
  <1>3. k < cursor /\ file.slots[k].node \in Nodes
    <2>1. k \in 1 .. Len(file.slots) /\ Len(file.slots) \in Nat /\ file.slots[k] \in Slot
      BY <1>2
    <2> QED
      BY <1>1, <1>2, <2>1 DEF Slot
  <1>4. jointOf[file.slots[k].node] # 0
    BY <1>1, <1>3 DEF SkeletonInv, JoinedInv, Unordered
  <1>5. Len(jointNodes) = 0
    BY <1>1
  <1>6. jointOf[file.slots[k].node] \in 0 .. 0
    BY <1>2, <1>3, <1>5
  <1> QED
    BY <1>4, <1>6

LEMMA ReorderNames ==
    ASSUME SkeletonInv, Reorder
    PROVE  NamedInv'
  <1> SUFFICES ASSUME NEW k \in DOMAIN file.slots
               PROVE  LET n == file.slots[k].node
                      IN  jointOf'[n] \in DOMAIN joints' /\ joints'[jointOf'[n]].node = n
    BY DEF NamedInv, Reorder
  <1> DEFINE n == file.slots[k].node
             i == jointOf[n]
             new == NewIndex(i)
  <1>1. n \in Nodes
    BY FileFacts, SlotFacts DEF SkeletonInv, TypeInv
  <1>2. /\ step = "binds"
        /\ jointOf' = [m \in Nodes |-> Moved(jointOf[m])]
        /\ DOMAIN joints' = DOMAIN joints
        /\ JointsTyped
        /\ jointOf \in [Nodes -> 0 .. Len(jointNodes)]
        /\ DOMAIN joints = 1 .. Len(jointNodes) /\ Len(jointNodes) \in Nat
    BY DEF Reorder, SkeletonInv, TypeInv, SkeletonTypeOK, JointsTyped
  <1>3. i # 0 /\ jointNodes[i] = n
    BY <1>1, <1>2 DEF SkeletonInv, JoinedInv, UnionInv, Unordered
  <1>4. i \in DOMAIN joints
    BY <1>1, <1>2, <1>3
  <1>5. joints[i].node = n
    BY <1>2, <1>3, <1>4 DEF SkeletonInv, PlacedInv
  <1>6. jointOf'[n] = new
    BY <1>1, <1>2, <1>3 DEF Moved
  <1>7. new \in DOMAIN joints /\ OldIndex(new) = i
    BY <1>2, <1>4, NewIndexFacts, NewIndexNumbers
  <1>8. joints'[new] = [joints[i] EXCEPT !.parent = Moved(joints[i].parent)]
    BY <1>7 DEF Reorder
  <1>9. joints[i] \in Joint
    BY <1>2, <1>4, JointFacts
  <1> HIDE DEF n, i, new
  <1>10. joints'[new].node = n
    <2> DEFINE q == Moved(joints[i].parent)
    <2>1. joints'[new] = [joints[i] EXCEPT !.parent = q]
      BY <1>8
    <2> HIDE DEF q
    <2>2. joints'[new].node = joints[i].node
      BY <1>9, <2>1, ParentReplaced
    <2> QED
      BY <1>5, <2>2
  <1> QED
    BY <1>2, <1>6, <1>7, <1>10 DEF n

\* What the file declares of the primitive the cursor is at.
LEMMA PrimitiveFacts ==
    ASSUME file \in Files, NEW q \in DOMAIN file.prims
    PROVE  Accessors(file.prims[q])
  BY PrimitivesAssumption

\* The corners of a primitive are vertices, and a kept array's place of each is that of the
\* vertex among the vertices used.
LEMMA CornerFacts ==
    ASSUME NEW p, Accessors(p)
    PROVE  /\ Corners(p) \in Seq(Vertex)
           /\ DOMAIN Renumbered(Corners(p)) = DOMAIN Corners(p)
           /\ Range(Renumbered(Corners(p))) = DOMAIN Used(Corners(p))
           /\ \A c \in DOMAIN Corners(p) :
                 /\ Renumbered(Corners(p))[c] \in DOMAIN Used(Corners(p))
                 /\ Used(Corners(p))[Renumbered(Corners(p))[c]] = Corners(p)[c]
  <1> DEFINE corners == Corners(p)
             used == Used(corners)
             number == Renumbered(corners)
  <1>1. corners \in Seq(Vertex)
    <2>1. p.points \in Nat /\ p.indices \in Seq(Vertex)
      BY DEF Accessors, Vertex
    <2>2. [v \in 1 .. p.points |-> v] \in Seq(Vertex)
      BY <2>1 DEF Vertex
    <2> QED
      BY <2>1, <2>2 DEF Corners
  <1>2. NoneTwice(used) /\ Range(used) = Range(corners)
    BY <1>1, UsedLists
  <1>3. number = [c \in DOMAIN corners |-> CHOOSE i \in DOMAIN used : used[i] = corners[c]]
    BY DEF Renumbered
  <1> HIDE DEF corners, used, number
  <1>4. ASSUME NEW c \in DOMAIN corners
        PROVE  number[c] \in DOMAIN used /\ used[number[c]] = corners[c]
    <2>1. corners[c] \in Range(used)
      BY <1>2 DEF Range
    <2>2. \E i \in DOMAIN used : used[i] = corners[c]
      BY <2>1 DEF Range
    <2> QED
      BY <1>3, <2>2
  <1>5. ASSUME NEW i \in DOMAIN used
        PROVE  \E c \in DOMAIN corners : number[c] = i
    <2>1. used[i] \in Range(corners)
      BY <1>2 DEF Range
    <2>2. PICK c \in DOMAIN corners : corners[c] = used[i]
      BY <2>1 DEF Range
    <2> QED
      BY <1>2, <1>4, <2>2 DEF NoneTwice
  <1>6. DOMAIN number = DOMAIN corners
    BY <1>3
  <1>7. Range(number) = DOMAIN used
    BY <1>4, <1>5, <1>6 DEF Range
  <1> QED
    BY <1>1, <1>4, <1>6, <1>7 DEF corners, used, number

\* An array after the cut.
Kept(p, array, missing) ==
    IF array = << >> \/ Identity(Used(Corners(p)), p.points) THEN array
    ELSE Gather(array, Used(Corners(p)), missing)

LEMMA MeshFacts ==
    ASSUME NEW p
    PROVE  /\ MeshOf(p).source = cursor
           /\ MeshOf(p).corners = Renumbered(Corners(p))
           /\ MeshOf(p).points = Kept(p, Elements(p.points), Zero)
           /\ MeshOf(p).normals = Kept(p, Elements(p.normals), Zero)
           /\ \A t \in DOMAIN p.morphs : MeshOf(p).morphs[t] = Kept(p, Elements(p.morphs[t]), Zero)
           /\ MeshOf(p).joints =
                 Kept(p, IF Skinned(p) THEN [v \in DOMAIN p.slots |-> Unified(p, p.slots[v])]
                         ELSE << >>, 1)
  BY DEF MeshOf, Kept

\* A cut array of n elements has, for each vertex used, the vertex's element or a zero.
LEMMA KeptVertices ==
    ASSUME NEW p, Accessors(p), NEW n \in {0, p.points}
    PROVE  /\ n = 0 => DOMAIN Kept(p, Elements(n), Zero) = {}
           /\ n # 0 => /\ DOMAIN Kept(p, Elements(n), Zero) = DOMAIN Used(Corners(p))
                       /\ \A i \in DOMAIN Used(Corners(p)) :
                             Kept(p, Elements(n), Zero)[i] = VertexOf(n, Used(Corners(p))[i])
  <1> DEFINE used == Used(Corners(p))
             array == Elements(n)
  <1>1. n \in Nat
    BY DEF Accessors
  <1>2. DOMAIN array = 1 .. n /\ \A i \in 1 .. n : array[i] = i
    BY <1>1 DEF Elements
  <1>3. n = 0 => array = << >>
    BY DEF Elements
  <1>4. n # 0 => array # << >>
    BY <1>1, <1>2
  <1>5. Identity(used, p.points) <=> used = [v \in 1 .. p.points |-> v]
    BY DEF Identity
  <1>6. Kept(p, array, Zero) =
          IF array = << >> \/ Identity(used, p.points) THEN array ELSE Gather(array, used, Zero)
    BY DEF Kept
  <1>7. Gather(array, used, Zero)
          = [i \in DOMAIN used |-> IF used[i] \in DOMAIN array THEN array[used[i]] ELSE Zero]
    BY DEF Gather
  <1> DEFINE kept == Kept(p, array, Zero)
  <1> HIDE DEF used, array, kept
  <1>8. CASE n = 0
    <2>1. kept = << >>
      BY <1>3, <1>6, <1>8 DEF kept
    <2> QED
      BY <1>8, <2>1 DEF kept, array
  <1>9. CASE n # 0 /\ Identity(used, p.points)
    <2>1. kept = array
      BY <1>6, <1>9 DEF kept
    <2>2. used = [v \in 1 .. n |-> v]
      BY <1>5, <1>9
    <2>3. DOMAIN used = 1 .. n /\ \A i \in 1 .. n : used[i] = i
      BY <2>2
    <2>4. DOMAIN kept = DOMAIN used /\ \A i \in DOMAIN used : kept[i] = VertexOf(n, used[i])
      BY <1>2, <2>1, <2>3 DEF VertexOf
    <2> QED
      BY <1>9, <2>4 DEF kept, array, used
  <1>10. CASE n # 0 /\ ~Identity(used, p.points)
    <2>1. kept = [i \in DOMAIN used |-> IF used[i] \in DOMAIN array THEN array[used[i]] ELSE Zero]
      BY <1>4, <1>6, <1>7, <1>10 DEF kept
    <2>2. DOMAIN kept = DOMAIN used /\ \A i \in DOMAIN used : kept[i] = VertexOf(n, used[i])
      BY <1>2, <2>1 DEF VertexOf
    <2> QED
      BY <1>10, <2>2 DEF kept, array, used
  <1> QED
    BY <1>8, <1>9, <1>10

\* A mesh's joints after the cut: one for each vertex used, the slot's or the first.
LEMMA KeptJoints ==
    ASSUME NEW p, Accessors(p), MeshOf(p).joints # << >>, NEW i \in DOMAIN Used(Corners(p))
    PROVE  LET v == Used(Corners(p))[i] IN
           /\ Skinned(p)
           /\ MeshOf(p).joints[i] = IF v \in DOMAIN p.slots THEN Unified(p, p.slots[v]) ELSE 1
  <1> DEFINE used == Used(Corners(p))
             array == [v \in DOMAIN p.slots |-> Unified(p, p.slots[v])]
             kept == MeshOf(p).joints
  <1>1. kept = Kept(p, IF Skinned(p) THEN array ELSE << >>, 1)
    BY MeshFacts
  <1>2. \A a : Kept(p, a, 1) = IF a = << >> \/ Identity(used, p.points) THEN a
                               ELSE Gather(a, used, 1)
    BY DEF Kept
  <1>3. kept # << >>
    OBVIOUS
  <1>4. DOMAIN array = DOMAIN p.slots /\ \A v \in DOMAIN p.slots : array[v] = Unified(p, p.slots[v])
    OBVIOUS
  <1> HIDE DEF used, array, kept
  <1>5. Skinned(p) /\ array # << >>
    BY <1>1, <1>2, <1>3
  <1>6. kept = IF Identity(used, p.points) THEN array ELSE Gather(array, used, 1)
    BY <1>1, <1>2, <1>5
  <1>7. i \in DOMAIN used
    BY DEF used
  <1>8. CASE Identity(used, p.points)
    <2>1. used = [v \in 1 .. p.points |-> v]
      BY <1>8 DEF Identity
    <2>2. i \in 1 .. p.points /\ used[i] = i
      BY <1>7, <2>1
    <2>3. Len(p.slots) = p.points /\ DOMAIN p.slots = 1 .. p.points
      <3>1. p.slots \in Seq(Nat \ {0}) /\ Len(p.slots) \in {0, p.points}
        BY DEF Accessors
      <3>2. p.slots # << >>
        BY <1>5 DEF Skinned
      <3> QED
        BY <3>1, <3>2
    <2> QED
      BY <1>4, <1>5, <1>6, <1>8, <2>2, <2>3 DEF used, kept
  <1>9. CASE ~Identity(used, p.points)
    <2>1. kept = [k \in DOMAIN used |-> IF used[k] \in DOMAIN array THEN array[used[k]] ELSE 1]
      BY <1>6, <1>9 DEF Gather
    <2>2. kept[i] = IF used[i] \in DOMAIN p.slots THEN Unified(p, p.slots[used[i]]) ELSE 1
      BY <1>4, <1>7, <2>1
    <2> QED
      BY <1>5, <2>2 DEF used, kept
  <1> QED
    BY <1>8, <1>9

\* What the two properties say of mesh m, read from primitive p.
KeepsVertices(m, p) ==
    /\ Range(m.corners) = DOMAIN m.points
    /\ DOMAIN m.normals \in {{}, DOMAIN m.points}
    /\ \A c \in DOMAIN m.corners :
         LET v == Corners(p)[c]
             i == m.corners[c]
         IN /\ m.points[i] = VertexOf(p.points, v)
            /\ p.normals # 0 => m.normals[i] = VertexOf(p.normals, v)
            /\ \A t \in DOMAIN p.morphs :
                 p.morphs[t] # 0 => m.morphs[t][i] = VertexOf(p.morphs[t], v)

FollowsNodes(m, p, w) ==
    m.joints # << >> =>
        \A c \in DOMAIN m.corners :
            LET v == Corners(p)[c]
                joint == joints[m.joints[m.corners[c]]]
            IN IF v \notin DOMAIN p.slots THEN joint.parent = 0
               ELSE IF p.slots[v] \in DOMAIN SkinJoints(p.skin)
               THEN joint.node = SkinJoints(p.skin)[p.slots[v]].node
               ELSE /\ joint.parent = 0
                    /\ Warning("SkinJointIndexOutOfRange", m.source) \in w

LEMMA PropertiesPerMesh ==
    /\ CornersKeepTheirVertex <=>
          \A m \in Range(meshes) : KeepsVertices(m, file.prims[m.source])
    /\ CornersFollowTheirNode <=>
          \A m \in Range(meshes) : FollowsNodes(m, file.prims[m.source], warnings)
  BY DEF CornersKeepTheirVertex, CornersFollowTheirNode, KeepsVertices, FollowsNodes

LEMMA MeshKeepsVertices ==
    ASSUME NEW p, Accessors(p), p.points > 0
    PROVE  KeepsVertices(MeshOf(p), p)
  <1> DEFINE m == MeshOf(p)
             used == Used(Corners(p))
  <1>1. /\ Range(m.corners) = DOMAIN used
        /\ \A c \in DOMAIN m.corners :
              m.corners[c] \in DOMAIN used /\ used[m.corners[c]] = Corners(p)[c]
    <2>1. m.corners = Renumbered(Corners(p))
      BY MeshFacts
    <2> HIDE DEF m
    <2> QED
      BY <2>1, CornerFacts
  <1>2. p.points # 0 /\ p.points \in {0, p.points} /\ p.normals \in {0, p.points}
    BY DEF Accessors
  <1>3. /\ m.points = Kept(p, Elements(p.points), Zero)
        /\ m.normals = Kept(p, Elements(p.normals), Zero)
        /\ \A t \in DOMAIN p.morphs : m.morphs[t] = Kept(p, Elements(p.morphs[t]), Zero)
    BY MeshFacts
  <1>4. /\ DOMAIN m.points = DOMAIN used
        /\ \A i \in DOMAIN used : m.points[i] = VertexOf(p.points, used[i])
    BY <1>2, <1>3, KeptVertices
  <1>5. /\ DOMAIN m.normals \in {{}, DOMAIN used}
        /\ p.normals # 0 => \A i \in DOMAIN used : m.normals[i] = VertexOf(p.normals, used[i])
    BY <1>2, <1>3, KeptVertices
  <1>6. ASSUME NEW t \in DOMAIN p.morphs, p.morphs[t] # 0
        PROVE  \A i \in DOMAIN used : m.morphs[t][i] = VertexOf(p.morphs[t], used[i])
    <2>1. p.morphs[t] \in {0, p.points}
      BY DEF Accessors
    <2> QED
      BY <1>3, <1>6, <2>1, KeptVertices
  <1> HIDE DEF m, used
  <1>7. ASSUME NEW c \in DOMAIN m.corners
        PROVE  /\ m.points[m.corners[c]] = VertexOf(p.points, Corners(p)[c])
               /\ p.normals # 0 => m.normals[m.corners[c]] = VertexOf(p.normals, Corners(p)[c])
               /\ \A t \in DOMAIN p.morphs :
                    p.morphs[t] # 0 => m.morphs[t][m.corners[c]] = VertexOf(p.morphs[t], Corners(p)[c])
    BY <1>1, <1>4, <1>5, <1>6
  <1>8. KeepsVertices(m, p)
    BY <1>1, <1>4, <1>5, <1>7 DEF KeepsVertices
  <1> QED
    BY <1>8 DEF m

\* The joint a kept vertex has is its slot's node's, or the first of the skeleton.
LEMMA UnifiedFacts ==
    ASSUME SkeletonInv, NamedInv, Ordered, joints # << >>, NEW p, Accessors(p)
    PROVE  /\ joints[1].parent = 0
           /\ \A v \in DOMAIN p.slots :
                 IF p.slots[v] \in DOMAIN SkinJoints(p.skin)
                 THEN joints[Unified(p, p.slots[v])].node = SkinJoints(p.skin)[p.slots[v]].node
                 ELSE Unified(p, p.slots[v]) = 1 /\ OutOfSkin(p)
  <1>1. file \in Files /\ joints \in Seq(Joint)
    BY DEF SkeletonInv, TypeInv, SkeletonTypeOK
  <1>2. joints[1].parent = 0
    <2>1. 1 \in DOMAIN joints /\ joints[1] \in Joint
      BY <1>1
    <2>2. joints[1].parent \in Nat
      BY <2>1 DEF Joint
    <2>3. joints[1].parent < 1
      BY <2>1 DEF SkeletonInv, OrderedInv, ParentsPrecedeChildren
    <2> QED
      BY <2>2, <2>3
  <1>3. ASSUME NEW v \in DOMAIN p.slots, p.slots[v] \in DOMAIN SkinJoints(p.skin)
        PROVE  joints[Unified(p, p.slots[v])].node = SkinJoints(p.skin)[p.slots[v]].node
    <2>1. PICK k \in DOMAIN file.slots : SkinJoints(p.skin)[p.slots[v]] = file.slots[k]
      BY <1>1, <1>3, SkinFacts
    <2>2. Unified(p, p.slots[v]) = jointOf[file.slots[k].node]
      BY <1>3, <2>1 DEF Unified
    <2>3. joints[jointOf[file.slots[k].node]].node = file.slots[k].node
      BY DEF NamedInv
    <2> QED
      BY <2>1, <2>2, <2>3
  <1>4. ASSUME NEW v \in DOMAIN p.slots, p.slots[v] \notin DOMAIN SkinJoints(p.skin)
        PROVE  Unified(p, p.slots[v]) = 1 /\ OutOfSkin(p)
    <2>1. p.slots[v] \in Nat \ {0}
      BY DEF Accessors
    <2>2. p.slots[v] > Len(SkinJoints(p.skin))
      BY <1>1, <1>4, <2>1, SkinFacts
    <2> QED
      BY <1>4, <2>2 DEF Unified, OutOfSkin
  <1> QED
    BY <1>2, <1>3, <1>4

LEMMA MeshFollowsNodes ==
    ASSUME SkeletonInv, NamedInv, Ordered, NEW p, Accessors(p), NEW m, m = MeshOf(p), NEW w,
           Skinned(p) /\ OutOfSkin(p) => Warning("SkinJointIndexOutOfRange", m.source) \in w
    PROVE  FollowsNodes(m, p, w)
  <1> DEFINE used == Used(Corners(p))
  <1> SUFFICES ASSUME m.joints # << >>, NEW c \in DOMAIN m.corners
               PROVE  LET v == Corners(p)[c]
                          joint == joints[m.joints[m.corners[c]]]
                      IN IF v \notin DOMAIN p.slots THEN joint.parent = 0
                         ELSE IF p.slots[v] \in DOMAIN SkinJoints(p.skin)
                         THEN joint.node = SkinJoints(p.skin)[p.slots[v]].node
                         ELSE /\ joint.parent = 0
                              /\ Warning("SkinJointIndexOutOfRange", m.source) \in w
    BY DEF FollowsNodes
  <1> DEFINE v == Corners(p)[c]
             i == m.corners[c]
  <1>1. i \in DOMAIN used /\ used[i] = v
    <2>1. m.corners = Renumbered(Corners(p))
      BY MeshFacts
    <2> QED
      BY <2>1, CornerFacts
  <1>2. /\ Skinned(p)
        /\ m.joints[i] = IF v \in DOMAIN p.slots THEN Unified(p, p.slots[v]) ELSE 1
    BY <1>1, KeptJoints
  <1>3. joints # << >>
    BY <1>2 DEF Skinned
  <1>4. /\ joints[1].parent = 0
        /\ \A x \in DOMAIN p.slots :
                 IF p.slots[x] \in DOMAIN SkinJoints(p.skin)
                 THEN joints[Unified(p, p.slots[x])].node = SkinJoints(p.skin)[p.slots[x]].node
                 ELSE Unified(p, p.slots[x]) = 1 /\ OutOfSkin(p)
    BY <1>3, UnifiedFacts
  <1> HIDE DEF used, v, i
  <1>5. IF v \notin DOMAIN p.slots THEN joints[m.joints[i]].parent = 0
        ELSE IF p.slots[v] \in DOMAIN SkinJoints(p.skin)
        THEN joints[m.joints[i]].node = SkinJoints(p.skin)[p.slots[v]].node
        ELSE /\ joints[m.joints[i]].parent = 0
             /\ Warning("SkinJointIndexOutOfRange", m.source) \in w
    BY <1>2, <1>4
  <1> QED
    BY <1>5 DEF v, i

-----------------------------------------------------------------------------
(* The invariant of the meshes *)

\* It needs that the skeleton's, and that no mesh is read before the skeleton is ordered.
CornersInv == NamedInv /\ CornersKeepTheirVertex /\ CornersFollowTheirNode

LEMMA NoCorners ==
    ASSUME meshes = << >>
    PROVE  CornersKeepTheirVertex /\ CornersFollowTheirNode
  BY DEF CornersKeepTheirVertex, CornersFollowTheirNode, Range

LEMMA SkeletonKeepsCorners ==
    ASSUME DocumentInv, CornersInv, SkeletonNext, UNCHANGED meshes
    PROVE  CornersInv'
  <1>1. SkeletonInv /\ Unordered
    BY DEF DocumentInv, SkeletonNext, UnifyJoint, PlaceJoints, ReadBind, Reorder, Unordered
  <1>2. meshes' = << >>
    BY <1>1 DEF DocumentInv, LossInv, PassInv
  <1>3. NamedInv'
    <2>1. CASE UnifyJoint \/ ReadBind
      BY <2>1 DEF UnifyJoint, ReadBind, NamedInv, Ordered
    <2>2. CASE PlaceJoints
      BY <1>1, <2>2, PlacedNames
    <2>3. CASE Reorder
      BY <1>1, <2>3, ReorderNames
    <2> QED
      BY <2>1, <2>2, <2>3 DEF SkeletonNext
  <1>4. (CornersKeepTheirVertex /\ CornersFollowTheirNode)'
    BY <1>2 DEF CornersKeepTheirVertex, CornersFollowTheirNode, Range
  <1> QED
    BY <1>3, <1>4 DEF CornersInv

\* What is said of the meshes read stands while no joint or warning is lost.
LEMMA CornersStay ==
    ASSUME UNCHANGED <<file, jointOf, joints>>
    PROVE  /\ \A m, p : KeepsVertices(m, p) => (KeepsVertices(m, p))'
           /\ \A m, p, w, more :
                 FollowsNodes(m, p, w) /\ w \subseteq more => (FollowsNodes(m, p, more))'
           /\ NamedInv /\ Ordered => NamedInv'
  <1>1. \A m, p : KeepsVertices(m, p) => (KeepsVertices(m, p))'
    BY DEF KeepsVertices, Corners, VertexOf, Zero
  <1>2. \A m, p, w, more :
           FollowsNodes(m, p, w) /\ w \subseteq more => (FollowsNodes(m, p, more))'
    <2>1. \A s : SkinJoints(s)' = SkinJoints(s)
      BY DEF SkinJoints
    <2> QED
      BY <2>1 DEF FollowsNodes, Corners, Warning
  <1>3. NamedInv /\ Ordered => NamedInv'
    BY DEF NamedInv
  <1> QED
    BY <1>1, <1>2, <1>3

\* The properties of the meshes hold of those there were, and of a mesh read.
LEMMA CornersExtend ==
    ASSUME CornersInv, Ordered, UNCHANGED <<file, jointOf, joints>>, warnings \subseteq warnings',
           \A m \in Range(meshes') :
               \/ m \in Range(meshes)
               \/ (KeepsVertices(m, file.prims[m.source])
                      /\ FollowsNodes(m, file.prims[m.source], warnings))'
    PROVE  CornersInv'
  <1>1. NamedInv'
    BY CornersStay DEF CornersInv
  <1>2. ASSUME NEW m \in Range(meshes')
        PROVE  (KeepsVertices(m, file.prims[m.source]))'
                 /\ (FollowsNodes(m, file.prims[m.source], warnings))'
    <2>1. CASE m \in Range(meshes)
      <3> DEFINE p == file.prims[m.source]
      <3>1. KeepsVertices(m, p) /\ FollowsNodes(m, p, warnings)
        BY <2>1, PropertiesPerMesh DEF CornersInv
      <3>2. PICK q : q = p
        OBVIOUS
      <3>3. PICK more : more = warnings'
        OBVIOUS
      <3>4. PICK w : w = warnings
        OBVIOUS
      <3> HIDE DEF p
      <3>5. (KeepsVertices(m, q))' /\ (FollowsNodes(m, q, more))'
        BY <3>1, <3>2, <3>3, <3>4, CornersStay
      <3>6. q = file'.prims[m.source]
        BY <3>2 DEF p
      <3> QED
        BY <3>3, <3>5, <3>6
    <2>2. CASE m \notin Range(meshes)
      BY <2>2
    <2> QED
      BY <2>1, <2>2
  <1>3. CornersKeepTheirVertex' /\ CornersFollowTheirNode'
    <2>1. (/\ CornersKeepTheirVertex <=>
                \A m \in Range(meshes) : KeepsVertices(m, file.prims[m.source])
           /\ CornersFollowTheirNode <=>
                \A m \in Range(meshes) : FollowsNodes(m, file.prims[m.source], warnings))'
      BY PropertiesPerMesh, PTL
    <2> QED
      BY <1>2, <2>1
  <1> QED
    BY <1>1, <1>3 DEF CornersInv

LEMMA ReadPrimitiveKeepsCorners ==
    ASSUME DocumentInv, CornersInv, ReadPrimitive
    PROVE  CornersInv'
  <1>1. PICK p : p = Primitive
    OBVIOUS
  <1>2. PICK m : m = MeshOf(p)
    OBVIOUS
  <1>3. PICK more : more = warnings'
    OBVIOUS
  <1>4. /\ step = "meshes" /\ cursor <= Len(file.prims)
        /\ p.points > 0
        /\ meshes' = Append(meshes, m)
        /\ UNCHANGED <<file, step, jointNodes, jointOf, joints, bound>>
    BY <1>1, <1>2 DEF ReadPrimitive, Reading, skeletonVars
  <1>5. /\ warnings \subseteq more
        /\ Skinned(p) /\ OutOfSkin(p) => Warning("SkinJointIndexOutOfRange", cursor) \in more
    BY <1>1, <1>3 DEF ReadPrimitive
  <1>6. /\ SkeletonInv /\ Ordered /\ NamedInv /\ IsList(meshes)
        /\ file \in Files /\ cursor \in DOMAIN file.prims
    <2>1. SkeletonInv /\ NamedInv /\ IsList(meshes) /\ file \in Files /\ cursor \in Nat \ {0}
      BY DEF DocumentInv, LossInv, CornersInv, SkeletonInv, TypeInv
    <2> QED
      BY <1>4, <2>1, ListFacts DEF Ordered
  <1>7. p = file.prims[cursor] /\ Accessors(p)
    BY <1>1, <1>6, PrimitiveFacts DEF Primitive
  <1>8. m.source = cursor
    BY <1>2, MeshFacts
  <1>9. KeepsVertices(m, p)
    BY <1>2, <1>4, <1>7, MeshKeepsVertices
  <1>10. FollowsNodes(m, p, more)
    BY <1>2, <1>5, <1>6, <1>7, <1>8, MeshFollowsNodes
  <1>11. (KeepsVertices(m, p))' /\ (FollowsNodes(m, p, more))'
    BY <1>4, <1>9, <1>10, CornersStay
  <1>12. p = file'.prims[m.source]
    BY <1>4, <1>7, <1>8
  <1>13. (KeepsVertices(m, file.prims[m.source])
                      /\ FollowsNodes(m, file.prims[m.source], warnings))'
    BY <1>3, <1>11, <1>12
  <1>14. \A x \in Range(meshes') : x \in Range(meshes) \/ x = m
    <2>1. /\ DOMAIN meshes' = 1 .. Len(meshes) + 1 /\ DOMAIN meshes = 1 .. Len(meshes)
          /\ Len(meshes) \in Nat /\ meshes'[Len(meshes) + 1] = m
          /\ \A i \in DOMAIN meshes : meshes'[i] = meshes[i]
      BY <1>4, <1>6, AppendIsList
    <2> QED
      BY <2>1 DEF Range
  <1>15. \A x \in Range(meshes') :
           \/ x \in Range(meshes)
           \/ (KeepsVertices(x, file.prims[x.source])
                  /\ FollowsNodes(x, file.prims[x.source], warnings))'
    BY <1>13, <1>14
  <1> QED
    BY <1>3, <1>4, <1>5, <1>6, <1>15, CornersExtend

LEMMA NextKeepsCorners == DocumentInv /\ CornersInv /\ [Next]_vars => CornersInv'
  <1> SUFFICES ASSUME DocumentInv, CornersInv, [Next]_vars PROVE CornersInv'
    OBVIOUS
  <1>1. CASE SkeletonNext /\ UNCHANGED meshes
    BY <1>1, SkeletonKeepsCorners
  <1>2. CASE ReadPrimitive
    BY <1>2, ReadPrimitiveKeepsCorners
  <1>3. CASE /\ Ordered /\ UNCHANGED <<file, jointOf, joints, meshes>>
             /\ warnings \subseteq warnings'
    BY <1>3, CornersExtend
  <1>4. CASE SkipNotTriangles \/ SkipNoPosition \/ StartExtension \/ ReadBone \/ EndBones
             \/ ReadExpression \/ Finish
    <2>1. Ordered
      BY <1>4 DEF SkipNotTriangles, SkipNoPosition, Reading, StartExtension, ReadBone, EndBones,
                  ReadExpression, Finish, Ordered
    <2>2. UNCHANGED <<file, jointOf, joints, meshes>>
      BY <1>4 DEF SkipNotTriangles, SkipNoPosition, Skip, StartExtension, ReadBone, EndBones,
                  ReadExpression, Finish, Document, skeletonVars
    <2>3. warnings \subseteq warnings'
      BY <1>4 DEF SkipNotTriangles, SkipNoPosition, Skip, StartExtension, ReadBone, MapBone,
                  EndBones, ReadExpression, Finish
    <2> QED
      BY <1>3, <2>1, <2>2, <2>3
  <1>5. CASE UNCHANGED vars
    <2>1. UNCHANGED <<file, step, jointOf, joints, meshes, warnings>>
      BY <1>5 DEF vars, skeletonVars
    <2>2. CASE Ordered
      BY <1>3, <2>1, <2>2
    <2>3. CASE ~Ordered
      <3>1. meshes' = << >>
        BY <2>1, <2>3 DEF DocumentInv, LossInv, PassInv, Ordered, Unordered
      <3>2. NamedInv'
        BY <2>1, <2>3 DEF NamedInv, Ordered
      <3>3. (CornersKeepTheirVertex /\ CornersFollowTheirNode)'
        BY <3>1 DEF CornersKeepTheirVertex, CornersFollowTheirNode, Range
      <3> QED
        BY <3>2, <3>3 DEF CornersInv
    <2> QED
      BY <2>2, <2>3
  <1> QED
    BY <1>1, <1>2, <1>4, <1>5 DEF Next, MeshesNext

LEMMA CornersInvariant == Spec => [](DocumentInv /\ CornersInv)
  <1>1. Init => DocumentInv /\ CornersInv
    <2> SUFFICES ASSUME Init PROVE CornersInv
      BY InitDocumentInv
    <2>1. step = "skins" /\ meshes = << >>
      BY DEF Init, SkeletonInit
    <2>2. NamedInv
      BY <2>1 DEF NamedInv, Ordered
    <2> QED
      BY <2>1, <2>2, NoCorners DEF CornersInv
  <1>2. DocumentInv /\ CornersInv /\ [Next]_vars => (DocumentInv /\ CornersInv)'
    BY NextKeepsDocument, NextKeepsCorners
  <1> QED
    BY <1>1, <1>2, PTL DEF Spec

(***************************************************************************)
(* For every file: a corner of a triangle means the vertex the file's      *)
(* index names, in every array, after the arrays are cut down.             *)
(***************************************************************************)
THEOREM CornersAlwaysKeepTheirVertex == Spec => []CornersKeepTheirVertex
  BY CornersInvariant, PTL DEF CornersInv

(***************************************************************************)
(* For every file: a corner of a skinned mesh follows the joint of the     *)
(* node its skin lists, however the joints were united and reordered.      *)
(***************************************************************************)
THEOREM CornersAlwaysFollowTheirNode == Spec => []CornersFollowTheirNode
  BY CornersInvariant, PTL DEF CornersInv

-----------------------------------------------------------------------------
(* A load reads as the reader alone does: what is proved of the reader holds   *)
(* of the whole import, up to the stage in the layer.                          *)

(***************************************************************************)
(* Every step of a load is a step of CgltfVrmDocumentReader or leaves the  *)
(* document alone: UsdVrmAuthorer and the transfer only read it.           *)
(***************************************************************************)
THEOREM ImportReads == ImportSpec => Spec
  <1>1. ImportInit => Init
    BY DEF ImportInit
  <1>2. [ImportNext]_importVars => [Next]_vars
    <2> SUFFICES ASSUME [ImportNext]_importVars
                 PROVE  Next \/ UNCHANGED vars
      OBVIOUS
    <2>1. CASE OpenFile
      BY <2>1 DEF OpenFile
    <2>2. CASE ReadPass
      BY <2>2 DEF ReadPass
    <2>3. CASE ReadScene
      BY <2>3 DEF ReadScene
    <2>4. CASE Author
      BY <2>4 DEF Author
    <2>5. CASE Transfer
      BY <2>5 DEF Transfer
    <2>6. CASE UNCHANGED importVars
      BY <2>6 DEF importVars
    <2> QED
      BY <2>1, <2>2, <2>3, <2>4, <2>5, <2>6 DEF ImportNext
  <1> QED
    BY <1>1, <1>2, PTL DEF ImportSpec, Spec

(***************************************************************************)
(* Throughout a load the map from nodes to joints and the list of joints   *)
(* are each other's inverse: a joint token is resolved by the map and the  *)
(* skeleton's paths are built from the list.                               *)
(***************************************************************************)
THEOREM ImportSkeleton == ImportSpec => []SkeletonInv
  BY ImportReads, SkeletonInvariant, PTL

(***************************************************************************)
(* _BuildJointPaths takes a parent's path before its children's.           *)
(***************************************************************************)
THEOREM ImportTopological == ImportSpec => []ParentsPrecedeChildren
  BY ImportReads, JointsTopological, PTL

(***************************************************************************)
(* The joint of a path is the joint of its node, whatever order the skins  *)
(* name their joints in.                                                   *)
(***************************************************************************)
THEOREM ImportNotMixedUp == ImportSpec => []JointsKeepTheirNode
  BY ImportReads, JointsNotMixedUp, PTL

(***************************************************************************)
(* The author indexes the joints and the meshes with what the document's   *)
(* bones and binds say.                                                    *)
(***************************************************************************)
THEOREM ImportTypeOK == ImportSpec => []TypeOK
  BY ImportReads, TypeCorrectness, PTL

(***************************************************************************)
(* A bind the author writes is one the file declares, on the mesh it names *)
(* and on every such mesh.                                                 *)
(***************************************************************************)
THEOREM ImportBinds == ImportSpec => []BindsNameTheirMesh
  BY ImportReads, BindsOnTheirMeshes, PTL

(***************************************************************************)
(* What the file declares and the stage cannot hold was warned of.         *)
(***************************************************************************)
THEOREM ImportLosses == ImportSpec => []LossesAreReported
  BY ImportReads, LossesHaveWarnings, PTL

(***************************************************************************)
(* The arrays the author writes mean what the file's accessors do.         *)
(***************************************************************************)
THEOREM ImportKeepsVertices == ImportSpec => []CornersKeepTheirVertex
  BY ImportReads, CornersAlwaysKeepTheirVertex, PTL

(***************************************************************************)
(* The joint indices the author writes are those of the file's nodes.      *)
(***************************************************************************)
THEOREM ImportFollowsNodes == ImportSpec => []CornersFollowTheirNode
  BY ImportReads, CornersAlwaysFollowTheirNode, PTL

-----------------------------------------------------------------------------
(* Names *)

\* Unique names: one for each raw name, all different.
LEMMA UniqueNames ==
    ASSUME NEW raws, IsList(raws), \A i \in DOMAIN raws : IsName(raws[i]), NEW prefix
    PROVE  LET names == VrmMakeUniqueNames(raws, prefix)
           IN  /\ IsList(names) /\ Len(names) = Len(raws) /\ DOMAIN names = DOMAIN raws
               /\ NoneTwice(names)
               /\ \A i \in DOMAIN names : IsList(names[i])
  <1> DEFINE P == (UNION {Range(raws[i].name) : i \in DOMAIN raws})
                    \cup {Word(prefix), Word("hash")} \cup {Numeral(k) : k \in Nat}
             bases == [i \in DOMAIN raws |-> VrmSanitizeIdentifier(raws[i], prefix)]
  <1>1. Len(raws) \in Nat /\ DOMAIN raws = 1 .. Len(raws)
    BY DEF IsList
  <1>2. HasNumerals(P)
    BY DEF HasNumerals
  <1>3. ASSUME NEW i \in DOMAIN raws PROVE bases[i] \in Seq(P)
    <2>1. CASE raws[i].name = << >>
      <3>1. Word(prefix) \in P /\ Word("hash") \in P
        OBVIOUS
      <3> HIDE DEF P
      <3>2. <<Word(prefix), Word("hash")>> \in Seq(P)
        BY <3>1
      <3> QED
        BY <2>1, <3>2 DEF VrmSanitizeIdentifier
    <2>2. CASE raws[i].name # << >>
      <3>1. raws[i].name \in Seq(Range(raws[i].name)) /\ Range(raws[i].name) \subseteq P
        BY DEF IsName, IsArray
      <3> HIDE DEF P
      <3>2. raws[i].name \in Seq(P)
        BY <3>1
      <3> QED
        BY <2>2, <3>2 DEF VrmSanitizeIdentifier
    <2> QED
      BY <2>1, <2>2
  <1>4. DOMAIN bases = DOMAIN raws /\ VrmMakeUniqueNames(raws, prefix) = AllDifferent(bases)
    BY DEF VrmMakeUniqueNames
  <1> HIDE DEF P, bases
  <1>5. bases \in Seq(Seq(P))
    <2>1. bases = [i \in 1 .. Len(raws) |-> bases[i]]
      BY <1>1, <1>4 DEF bases
    <2>2. \A i \in 1 .. Len(raws) : bases[i] \in Seq(P)
      BY <1>1, <1>3
    <2> QED
      BY <1>1, <2>1, <2>2
  <1>6. Len(bases) = Len(raws)
    BY <1>1, <1>4, <1>5
  <1> QED
    BY <1>1, <1>2, <1>4, <1>5, <1>6, DifferentNames

-----------------------------------------------------------------------------
(* Which entry of the file each part of the document is of *)

\* Once the skeleton is ordered, nodeToJoint gives a node the joint of that node.
InverseInv == Ordered => \A n \in Nodes : jointOf[n] # 0 => joints[jointOf[n]].node = n

\* A mesh is of a primitive of its own, read already, and has its morph targets.
OwnPrimitives(all) ==
    /\ \A k \in DOMAIN all :
          /\ all[k].source \in DOMAIN file.prims
          /\ DOMAIN all[k].morphs = DOMAIN file.prims[all[k].source].morphs
    /\ \A i, k \in DOMAIN all : all[i].source = all[k].source => i = k

MeshesInv ==
    /\ OwnPrimitives(meshes)
    /\ step = "meshes" => \A k \in DOMAIN meshes : meshes[k].source < cursor

\* A bone is that of an entry whose node has a joint.
BonesInv ==
    \A b \in Range(bones) : \E i \in DOMAIN file.bones :
        /\ b = [bone |-> file.bones[i].bone, joint |-> NodeJoint(file.bones[i].node)]
        /\ b.joint # 0

\* An expression is of an entry of its own.
ExpressionsInv ==
    \A k \in DOMAIN expressions :
        /\ expressions[k].source \in DOMAIN file.expressions
        /\ expressions[k].name = file.expressions[expressions[k].source].name

EntriesInv == InverseInv /\ MeshesInv /\ BonesInv /\ ExpressionsInv

LEMMA ReorderInverts ==
    ASSUME SkeletonInv, Reorder
    PROVE  InverseInv'
  <1> SUFFICES ASSUME NEW n \in Nodes, jointOf'[n] # 0
               PROVE  joints'[jointOf'[n]].node = n
    BY DEF InverseInv
  <1> DEFINE i == jointOf[n]
             new == NewIndex(i)
  <1>2. /\ step = "binds"
        /\ jointOf' = [m \in Nodes |-> Moved(jointOf[m])]
        /\ DOMAIN joints' = DOMAIN joints
        /\ JointsTyped
        /\ jointOf \in [Nodes -> 0 .. Len(jointNodes)]
        /\ DOMAIN joints = 1 .. Len(jointNodes) /\ Len(jointNodes) \in Nat
    BY DEF Reorder, SkeletonInv, TypeInv, SkeletonTypeOK, JointsTyped
  <1>3. i # 0
    BY <1>2 DEF Moved
  <1>4. i \in DOMAIN joints /\ jointNodes[i] = n
    BY <1>2, <1>3 DEF SkeletonInv, UnionInv, Unordered
  <1>5. joints[i].node = n
    BY <1>2, <1>4 DEF SkeletonInv, PlacedInv
  <1>6. jointOf'[n] = new
    BY <1>2, <1>3 DEF Moved
  <1>7. new \in DOMAIN joints /\ OldIndex(new) = i
    BY <1>2, <1>4, NewIndexFacts, NewIndexNumbers
  <1>8. joints'[new] = [joints[i] EXCEPT !.parent = Moved(joints[i].parent)]
    BY <1>7 DEF Reorder
  <1>9. joints[i] \in Joint
    BY <1>2, <1>4, JointFacts
  <1> HIDE DEF i, new
  <1>10. joints'[new].node = n
    <2> DEFINE q == Moved(joints[i].parent)
    <2>1. joints'[new] = [joints[i] EXCEPT !.parent = q]
      BY <1>8
    <2> HIDE DEF q
    <2>2. joints'[new].node = joints[i].node
      BY <1>9, <2>1, ParentReplaced
    <2> QED
      BY <1>5, <2>2
  <1> QED
    BY <1>6, <1>10

LEMMA SkeletonKeepsInverse ==
    ASSUME SkeletonInv, SkeletonNext
    PROVE  InverseInv'
  <1>1. CASE UnifyJoint
    BY <1>1 DEF UnifyJoint, InverseInv, Ordered
  <1>2. CASE PlaceJoints
    <2>1. SUFFICES ASSUME step' = "meshes" PROVE \A n \in Nodes : jointOf[n] = 0
      BY <1>2 DEF PlaceJoints, InverseInv, Ordered
    <2>2. jointNodes = << >>
      BY <1>2, <2>1 DEF PlaceJoints
    <2>3. jointOf \in [Nodes -> 0 .. 0]
      BY <2>2 DEF SkeletonInv, TypeInv, SkeletonTypeOK
    <2> QED
      BY <2>3
  <1>3. CASE ReadBind
    BY <1>3 DEF ReadBind, InverseInv, Ordered
  <1>4. CASE Reorder
    BY <1>4, ReorderInverts
  <1> QED
    BY <1>1, <1>2, <1>3, <1>4 DEF SkeletonNext

LEMMA ReadPrimitiveKeepsEntries ==
    ASSUME DocumentInv, MeshesInv, ReadPrimitive
    PROVE  MeshesInv'
  <1>1. PICK m : m = MeshOf(Primitive)
    OBVIOUS
  <1>2. /\ meshes' = Append(meshes, m) /\ file' = file /\ step = "meshes" /\ step' = "meshes"
        /\ cursor' = cursor + 1 /\ cursor <= Len(file.prims)
    BY <1>1 DEF ReadPrimitive, Reading
  <1>3. /\ IsList(meshes) /\ file \in Files /\ cursor \in Nat \ {0} /\ cursor \in DOMAIN file.prims
    <2>1. IsList(meshes) /\ file \in Files /\ cursor \in Nat \ {0}
      BY DEF DocumentInv, LossInv, SkeletonInv, TypeInv
    <2> QED
      BY <1>2, <2>1, ListFacts
  <1>4. m.source = cursor /\ DOMAIN m.morphs = DOMAIN file.prims[cursor].morphs
    BY <1>1, MeshFacts DEF MeshOf, Primitive
  <1>5. /\ DOMAIN meshes = 1 .. Len(meshes) /\ Len(meshes) \in Nat
        /\ DOMAIN meshes' = 1 .. Len(meshes) + 1
        /\ \A k \in DOMAIN meshes : meshes'[k] = meshes[k]
        /\ meshes'[Len(meshes) + 1] = m
    BY <1>2, <1>3, AppendIsList
  <1>6. \A k \in DOMAIN meshes' : k \in DOMAIN meshes \/ k = Len(meshes) + 1
    BY <1>5
  <1>7. \A k \in DOMAIN meshes : meshes[k].source < cursor
    BY <1>2 DEF MeshesInv
  <1>8. DOMAIN file.prims = 1 .. Len(file.prims) /\ Len(file.prims) \in Nat
    BY <1>3, ListFacts
  <1>9. \A k \in DOMAIN meshes : meshes[k].source \in DOMAIN file.prims
    BY DEF MeshesInv, OwnPrimitives
  <1>10. ASSUME NEW k \in DOMAIN meshes'
         PROVE  /\ meshes'[k].source \in DOMAIN file.prims
                /\ DOMAIN meshes'[k].morphs = DOMAIN file.prims[meshes'[k].source].morphs
    BY <1>3, <1>4, <1>5, <1>6 DEF MeshesInv, OwnPrimitives
  <1>11. ASSUME NEW k \in DOMAIN meshes' PROVE meshes'[k].source < cursor + 1
    <2>1. CASE k \in DOMAIN meshes
      <3>1. meshes'[k].source < cursor /\ meshes'[k].source \in Nat
        BY <1>5, <1>7, <1>8, <1>9, <2>1
      <3> QED
        BY <1>3, <3>1
    <2>2. CASE k = Len(meshes) + 1
      BY <1>3, <1>4, <1>5, <2>2
    <2> QED
      BY <1>6, <2>1, <2>2
  <1>12. \A k \in DOMAIN meshes : meshes[k].source # cursor
    BY <1>3, <1>7, <1>8, <1>9
  <1>13. ASSUME NEW i \in DOMAIN meshes', NEW k \in DOMAIN meshes',
                meshes'[i].source = meshes'[k].source
         PROVE  i = k
    BY <1>4, <1>5, <1>6, <1>12, <1>13 DEF MeshesInv, OwnPrimitives
  <1> QED
    BY <1>2, <1>10, <1>11, <1>13 DEF MeshesInv, OwnPrimitives

LEMMA ReadBoneKeepsEntries ==
    ASSUME DocumentInv, BonesInv, ReadBone
    PROVE  BonesInv'
  <1>1. /\ UNCHANGED <<file, jointOf>> /\ cursor <= Len(file.bones)
        /\ cursor \in DOMAIN file.bones /\ IsList(bones)
    <2>1. IsList(bones) /\ file \in Files /\ cursor \in Nat \ {0}
      BY DEF DocumentInv, LossInv, SkeletonInv, TypeInv
    <2> QED
      BY <2>1, ListFacts DEF ReadBone, skeletonVars
  <1>2. CASE bones' = bones
    BY <1>1, <1>2 DEF BonesInv, NodeJoint
  <1>3. CASE bones' # bones
    <2> DEFINE entry == file.bones[cursor]
               b == [bone |-> entry.bone, joint |-> NodeJoint(entry.node)]
    <2>1. bones' = Append(bones, b) /\ NodeJoint(entry.node) # 0
      BY <1>3 DEF ReadBone, MapBone, BoneEntry
    <2>2. b.joint # 0 /\ \A n : (NodeJoint(n))' = NodeJoint(n)
      BY <1>1, <2>1 DEF NodeJoint
    <2>3. b = [bone |-> file.bones[cursor].bone, joint |-> NodeJoint(file.bones[cursor].node)]
      OBVIOUS
    <2> HIDE DEF b, entry
    <2>4. \A x \in Range(bones') : x \in Range(bones) \/ x = b
      <3>1. /\ DOMAIN bones' = 1 .. Len(bones) + 1 /\ DOMAIN bones = 1 .. Len(bones)
            /\ Len(bones) \in Nat /\ bones'[Len(bones) + 1] = b
            /\ \A i \in DOMAIN bones : bones'[i] = bones[i]
        BY <1>1, <2>1, AppendIsList
      <3> QED
        BY <3>1 DEF Range
    <2> QED
      BY <1>1, <2>2, <2>3, <2>4 DEF BonesInv
  <1> QED
    BY <1>2, <1>3

LEMMA ReadExpressionKeepsEntries ==
    ASSUME DocumentInv, ExpressionsInv, ReadExpression
    PROVE  ExpressionsInv'
  <1>1. /\ file' = file /\ cursor \in DOMAIN file.expressions /\ IsList(expressions)
    <2>1. IsList(expressions) /\ file \in Files /\ cursor \in Nat \ {0}
      BY DEF DocumentInv, LossInv, SkeletonInv, TypeInv
    <2> QED
      BY <2>1, ListFacts DEF ReadExpression
  <1>2. CASE expressions' = expressions
    BY <1>1, <1>2 DEF ExpressionsInv
  <1>3. CASE expressions' # expressions
    <2>1. PICK e : /\ expressions' = Append(expressions, e)
                   /\ e.source = cursor /\ e.name = file.expressions[cursor].name
      BY <1>3 DEF ReadExpression
    <2>2. /\ DOMAIN expressions' = 1 .. Len(expressions) + 1
          /\ DOMAIN expressions = 1 .. Len(expressions) /\ Len(expressions) \in Nat
          /\ expressions'[Len(expressions) + 1] = e
          /\ \A i \in DOMAIN expressions : expressions'[i] = expressions[i]
      BY <1>1, <2>1, AppendIsList
    <2>3. \A k \in DOMAIN expressions' : k \in DOMAIN expressions \/ k = Len(expressions) + 1
      BY <2>2
    <2> QED
      BY <1>1, <2>1, <2>2, <2>3 DEF ExpressionsInv
  <1> QED
    BY <1>2, <1>3

LEMMA InitEntries == Init => EntriesInv
  <1> SUFFICES ASSUME Init PROVE EntriesInv
    OBVIOUS
  <1>1. step = "skins" /\ meshes = << >> /\ bones = << >> /\ expressions = << >>
    BY DEF Init, SkeletonInit
  <1> QED
    BY <1>1 DEF EntriesInv, InverseInv, Ordered, MeshesInv, OwnPrimitives, BonesInv,
                ExpressionsInv, Range

\* What a step that is of no pass before the meshes changes.
LEMMA LaterSteps ==
    ASSUME \/ SkipNotTriangles \/ SkipNoPosition \/ StartExtension \/ ReadBone \/ EndBones
           \/ ReadExpression \/ Finish
    PROVE  /\ Ordered /\ UNCHANGED <<file, jointOf, joints, meshes>>
           /\ step' = "meshes" => step = "meshes" /\ cursor' = cursor + 1
  <1>1. Ordered
    BY DEF SkipNotTriangles, SkipNoPosition, Reading, StartExtension, ReadBone, EndBones,
           ReadExpression, Finish, Ordered
  <1>2. UNCHANGED <<file, jointOf, joints, meshes>>
    BY DEF SkipNotTriangles, SkipNoPosition, Skip, StartExtension, ReadBone, EndBones,
           ReadExpression, Finish, Document, skeletonVars
  <1>3. step' = "meshes" => step = "meshes" /\ cursor' = cursor + 1
    BY DEF SkipNotTriangles, SkipNoPosition, Skip, Reading, StartExtension, ReadBone, EndBones,
           ReadExpression, Finish
  <1> QED
    BY <1>1, <1>2, <1>3

LEMMA MeshesStay ==
    ASSUME DocumentInv, MeshesInv, UNCHANGED <<file, meshes>>,
           step' = "meshes" => \/ meshes = << >>
                               \/ step = "meshes" /\ cursor' \in {cursor, cursor + 1}
    PROVE  MeshesInv'
  <1>1. OwnPrimitives(meshes)
    BY DEF MeshesInv
  <1>2. (OwnPrimitives(meshes))'
    BY <1>1 DEF OwnPrimitives
  <1>3. ASSUME step' = "meshes", NEW k \in DOMAIN meshes PROVE meshes[k].source < cursor'
    <2>1. step = "meshes" /\ cursor' \in {cursor, cursor + 1}
      BY <1>3
    <2>2. meshes[k].source < cursor
      BY <2>1 DEF MeshesInv
    <2>3. cursor \in Nat /\ file \in Files
      BY DEF DocumentInv, SkeletonInv, TypeInv
    <2>4. meshes[k].source \in Nat
      <3>1. meshes[k].source \in DOMAIN file.prims
        BY <1>1 DEF OwnPrimitives
      <3> QED
        BY <2>3, <3>1, ListFacts
    <2> QED
      BY <2>1, <2>2, <2>3, <2>4
  <1> QED
    BY <1>2, <1>3 DEF MeshesInv

LEMMA NextKeepsEntries == DocumentInv /\ EntriesInv /\ [Next]_vars => EntriesInv'
  <1> SUFFICES ASSUME DocumentInv, EntriesInv, [Next]_vars PROVE EntriesInv'
    OBVIOUS
  <1> USE DEF EntriesInv
  <1>1. ASSUME UNCHANGED <<file, jointOf, bones>> PROVE BonesInv'
    BY <1>1 DEF BonesInv, NodeJoint
  <1>2. ASSUME UNCHANGED <<file, expressions>> PROVE ExpressionsInv'
    BY <1>2 DEF ExpressionsInv
  <1>3. ASSUME Ordered, UNCHANGED <<jointOf, joints>> PROVE InverseInv'
    BY <1>3 DEF InverseInv
  <1>4. CASE SkeletonNext /\ UNCHANGED <<meshes, bones, seen, expressions>>
    <2>1. SkeletonInv /\ Unordered /\ file' = file
      BY <1>4 DEF SkeletonNext, UnifyJoint, PlaceJoints, ReadBind, Reorder, Unordered, DocumentInv
    <2>2. meshes = << >> /\ bones = << >>
      BY <2>1 DEF DocumentInv, LossInv, PassInv, ExtensionInv
    <2>3. BonesInv'
      BY <1>4, <2>2 DEF BonesInv, Range
    <2>4. MeshesInv'
      BY <1>4, <2>1, <2>2, MeshesStay
    <2> QED
      BY <1>2, <1>4, <2>1, <2>3, <2>4, SkeletonKeepsInverse
  <1>5. CASE ReadPrimitive /\ UNCHANGED <<bones, seen, expressions>>
    <2>1. Ordered /\ UNCHANGED <<file, jointOf, joints, bones, expressions>>
      BY <1>5 DEF ReadPrimitive, Reading, Ordered, skeletonVars
    <2> QED
      BY <1>1, <1>2, <1>3, <1>5, <2>1, ReadPrimitiveKeepsEntries
  <1>6. CASE \/ SkipNotTriangles \/ SkipNoPosition \/ StartExtension \/ ReadBone \/ EndBones
             \/ ReadExpression \/ Finish
    <2>1. /\ Ordered /\ UNCHANGED <<file, jointOf, joints, meshes>>
          /\ step' = "meshes" => step = "meshes" /\ cursor' = cursor + 1
      BY <1>6, LaterSteps
    <2>2. InverseInv' /\ MeshesInv'
      BY <1>3, <2>1, MeshesStay
    <2>3. BonesInv'
      <3>1. CASE ReadBone
        BY <3>1, ReadBoneKeepsEntries
      <3>2. CASE ~ReadBone
        <4>1. UNCHANGED bones
          BY <1>4, <1>5, <1>6, <3>2 DEF Next, MeshesNext, vars, StartExtension, EndBones,
                                    ReadExpression, Finish, Document
        <4> QED
          BY <1>1, <2>1, <4>1
      <3> QED
        BY <3>1, <3>2
    <2>4. ExpressionsInv'
      <3>1. CASE ReadExpression
        BY <3>1, ReadExpressionKeepsEntries
      <3>2. CASE ~ReadExpression
        <4>1. UNCHANGED expressions
          BY <1>4, <1>5, <1>6, <3>2 DEF Next, MeshesNext, vars, StartExtension, ReadBone, EndBones,
                                    Finish, Document
        <4> QED
          BY <1>2, <2>1, <4>1
      <3> QED
        BY <3>1, <3>2
    <2> QED
      BY <2>2, <2>3, <2>4
  <1>7. CASE UNCHANGED vars
    <2>1. UNCHANGED <<file, step, cursor, jointOf, joints, meshes, bones, expressions>>
      BY <1>7 DEF vars, skeletonVars
    <2>2. InverseInv'
      BY <2>1 DEF InverseInv, Ordered
    <2>3. MeshesInv'
      BY <2>1, MeshesStay
    <2> QED
      BY <1>1, <1>2, <2>1, <2>2, <2>3
  <1> QED
    BY <1>4, <1>5, <1>6, <1>7 DEF Next, MeshesNext

LEMMA EntriesInvariant == Spec => [](DocumentInv /\ EntriesInv)
  <1>1. Init => DocumentInv /\ EntriesInv
    BY InitDocumentInv, InitEntries
  <1>2. DocumentInv /\ EntriesInv /\ [Next]_vars => (DocumentInv /\ EntriesInv)'
    BY NextKeepsDocument, NextKeepsEntries
  <1> QED
    BY <1>1, <1>2, PTL DEF Spec

\* A clip of some tracks at some times.
ClipOf(name, tracks, times) ==
    LET animated == InOrder({k[1] : k \in DOMAIN tracks})
    IN  [name |-> name, joints |-> animated,
         pose |-> [t \in times |->
                     [k \in DOMAIN animated |->
                        [p \in Paths |-> Component(tracks, animated[k], p, t)]]]]

\* The scene is what the document says as long as the document stays.
LEMMA SceneStays ==
    ASSUME UNCHANGED vars
    PROVE  Scene' = Scene
  <1>0. UNCHANGED <<file, step, jointOf, joints, bones, expressions>>
    BY DEF vars, skeletonVars
  <1>1. /\ Parsed' <=> Parsed
        /\ RawMaterialNames' = RawMaterialNames
        /\ \A name : (JointOfBone(name))' = JointOfBone(name)
        /\ \A n : (NodeJoint(n))' = NodeJoint(n)
        /\ ReadColliders' = ReadColliders
        /\ \A g : (OwnedBefore(g))' = OwnedBefore(g)
        /\ ReadSprings' = ReadSprings
        /\ SpringWarnings' = SpringWarnings
        /\ \A c : (Stated(c))' <=> Stated(c)
    BY <1>0
    DEF Parsed, RawMaterialNames, JointOfBone, NodeJoint, ReadColliders, OwnedBefore,
        ReadSprings, SpringWarnings, Stated
  <1>2. /\ \A i : (IsMToon0(i))' <=> IsMToon0(i)
        /\ \A c : (Vrm0Refusal(c))' = Vrm0Refusal(c)
        /\ ReadLookAt' = ReadLookAt
        /\ \A clip : (JointChannels(clip))' = JointChannels(clip)
        /\ ReadGroups' = ReadGroups
        /\ HasSecondary' <=> HasSecondary
        /\ ReadConstraints' = ReadConstraints
        /\ ConstraintWarnings' = ConstraintWarnings
    BY <1>0, <1>1
    DEF IsMToon0, Vrm0Refusal, ReadLookAt, JointChannels, ReadGroups, HasSecondary,
        ReadConstraints, ConstraintWarnings
  <1>3. /\ \A mode : (QueuesOf(mode))' = QueuesOf(mode)
        /\ ColourWarnings' = ColourWarnings
        /\ \A clip : (ClipTracks(clip))' = ClipTracks(clip)
        /\ \A clip : (ClipTimes(clip))' = ClipTimes(clip)
        /\ AnimationWarnings' = AnimationWarnings
    <2>1. \A mode : (QueuesOf(mode))' = QueuesOf(mode)
      BY <1>0, <1>2 DEF QueuesOf
    <2>2. ColourWarnings' = ColourWarnings
      BY <1>0, <1>2 DEF ColourWarnings
    <2>3. \A clip : (ClipTracks(clip))' = ClipTracks(clip)
      BY <1>1, <1>2 DEF ClipTracks
    <2>4. \A clip : (ClipTimes(clip))' = ClipTimes(clip)
      BY <1>2 DEF ClipTimes
    <2>5. AnimationWarnings' = AnimationWarnings
      BY <1>0, <1>2 DEF AnimationWarnings
    <2> QED
      BY <2>1, <2>2, <2>3, <2>4, <2>5
  <1>4. /\ \A i : (QueueOffset(i))' = QueueOffset(i)
        /\ \A name, clip : (ReadClip(name, clip))' = ReadClip(name, clip)
    <2>1. \A i : (QueueOffset(i))' = QueueOffset(i)
      BY <1>0, <1>3 DEF QueueOffset
    <2>2. \A name, clip : (ReadClip(name, clip))' = ReadClip(name, clip)
      <3>1. \A name, clip : ReadClip(name, clip) = ClipOf(name, ClipTracks(clip), ClipTimes(clip))
        BY DEF ReadClip, ClipOf
      <3>2. \A name, clip :
               (ReadClip(name, clip))' = ClipOf(name, (ClipTracks(clip))', (ClipTimes(clip))')
        BY DEF ReadClip, ClipOf
      <3> QED
        BY <1>3, <3>1, <3>2
    <2> QED
      BY <2>1, <2>2
  <1>5. /\ Materials' = Materials
        /\ ReadAnimations' = ReadAnimations
    BY <1>0, <1>1, <1>2, <1>4 DEF Materials, ReadAnimations
  <1> QED
    BY <1>0, <1>1, <1>2, <1>3, <1>5 DEF Scene

\* What the scene says of a mesh: its material's name, and the names of its morph targets.
MaterialOf(k) ==
    LET material == file.prims[meshes[k].source].material
    IN  IF material \in DOMAIN scene.materials THEN scene.materials[material].name ELSE None

MorphsNamed(k) == [t \in DOMAIN meshes[k].morphs |-> MorphName(k, t)]

\* The stage is what the document and the scene say as long as they stay.
LEMMA StageStays ==
    ASSUME UNCHANGED <<vars, scene>>
    PROVE  Stage' = Stage
  <1>0. UNCHANGED <<file, jointNodes, jointOf, joints, meshes, bones, expressions, warnings, scene>>
    BY DEF vars, skeletonVars
  <1>1. /\ HasSkel' <=> HasSkel
        /\ BakeFront' <=> BakeFront
        /\ \A n : (WorldOf(n))' = WorldOf(n)
        /\ MeshNames' = MeshNames
        /\ Morphs' = Morphs
        /\ \A p : (Skinned(p))' <=> Skinned(p)
        /\ MaterialPrims' = MaterialPrims
        /\ \A i : (IsRootJoint(i))' <=> IsRootJoint(i)
        /\ \A n, frame : (UpTo(n, frame))' = UpTo(n, frame)
        /\ JointNames' = JointNames
        /\ RawMaterialNames' = RawMaterialNames
        /\ \A raw : (MaterialNamed(raw))' = MaterialNamed(raw)
        /\ \A target : (TargetMeshes(target))' = TargetMeshes(target)
        /\ \A n : (NodeJoint(n))' = NodeJoint(n)
        /\ \A c : (RawConstraintName(c))' = RawConstraintName(c)
    BY <1>0
    DEF HasSkel, BakeFront, WorldOf, MeshNames, Morphs, Skinned, MaterialPrims, IsRootJoint,
        UpTo, JointNames, RawMaterialNames, MaterialNamed, TargetMeshes, NodeJoint,
        RawConstraintName
  <1>2. /\ FrontBake' = FrontBake
        /\ \A k : (MeshName(k))' = MeshName(k)
        /\ \A k : (IsSkinned(k))' <=> IsSkinned(k)
        /\ \A i : (RestTransform(i))' = RestTransform(i)
        /\ \A i : (BindTransform(i))' = BindTransform(i)
        /\ \A i : (JointName(i))' = JointName(i)
        /\ \A c : (Vrm0Refusal(c))' = Vrm0Refusal(c)
        /\ \A bind : (Fan(bind))' = Fan(bind)
        /\ AnimationSource' = AnimationSource
        /\ AuthoringWarnings' = AuthoringWarnings
    BY <1>0, <1>1
    DEF FrontBake, MeshName, IsSkinned, RestTransform, BindTransform, JointName, Vrm0Refusal,
        Fan, AnimationSource, AuthoringWarnings
  <1>3. /\ \A k, t : (RawMorphName(k, t))' = RawMorphName(k, t)
        /\ \A k : (Turned(k))' <=> Turned(k)
        /\ JointPaths' = JointPaths
        /\ \A c : (BoundMaterial(c))' = BoundMaterial(c)
        /\ \A e : (MorphBinds(e))' = MorphBinds(e)
    BY <1>0, <1>1, <1>2 DEF RawMorphName, Turned, JointPaths, BoundMaterial, MorphBinds
  <1>4. /\ MorphNames' = MorphNames
        /\ Skeleton' = Skeleton
        /\ HumanoidPrim' = HumanoidPrim
        /\ \A e : (ColourBinds(e))' = ColourBinds(e)
        /\ LookAtPrim' = LookAtPrim
        /\ \A a : (ClipPrim(a))' = ClipPrim(a)
        /\ \A n : (JointTok(n))' = JointTok(n)
    BY <1>0, <1>1, <1>2, <1>3
    DEF MorphNames, Skeleton, HumanoidPrim, ColourBinds, LookAtPrim, ClipPrim, JointTok
  <1>5. /\ \A k, t : (MorphName(k, t))' = MorphName(k, t)
        /\ \A c : (BlendShapePrim(c))' = BlendShapePrim(c)
    BY <1>0, <1>1, <1>3, <1>4 DEF MorphName, BlendShapePrim
  <1>6. GroupPrims' = GroupPrims
    BY <1>0, <1>4 DEF GroupPrims
  <1>7. ClipPrims' = ClipPrims /\ SpringPrims' = SpringPrims
    <2>1. BakeFront' <=> BakeFront
      BY <1>1
    <2>2. \A n : (JointTok(n))' = JointTok(n)
      BY <1>4
    <2>3. \A s : (SpringPrim(s))' = SpringPrim(s)
      BY <1>0, <2>1, <2>2 DEF SpringPrim
    <2> QED
      BY <1>0, <1>4, <2>3 DEF ClipPrims, SpringPrims
  <1>8. BlendShapePrims' = BlendShapePrims
    BY <1>1, <1>5 DEF BlendShapePrims
  <1>9. GeoPrims' = GeoPrims
    <2>1. \A k : (GeoPrim(k))' = GeoPrim(k)
      <3>1. /\ HasSkel' <=> HasSkel
            /\ \A n : (WorldOf(n))' = WorldOf(n)
            /\ FrontBake' = FrontBake
        BY <1>1, <1>2
      <3>2. /\ \A k : (MeshName(k))' = MeshName(k)
            /\ \A k : (IsSkinned(k))' <=> IsSkinned(k)
            /\ \A k : (Turned(k))' <=> Turned(k)
            /\ \A k, t : (MorphName(k, t))' = MorphName(k, t)
        BY <1>2, <1>3, <1>5
      <3> SUFFICES ASSUME NEW k
                   PROVE  (GeoPrim(k))' = GeoPrim(k)
        OBVIOUS
      <3>3. /\ (MeshName(k))' = MeshName(k)
            /\ (IsSkinned(k))' <=> IsSkinned(k)
            /\ (Turned(k))' <=> Turned(k)
            /\ \A t : (MorphName(k, t))' = MorphName(k, t)
            /\ (WorldOf(meshes[k].node))' = WorldOf(meshes[k].node)
        BY <1>0, <3>1, <3>2
      <3> QED
        <4>1. UNCHANGED <<file, meshes, scene>>
          BY <1>0
        <4>2. (MorphsNamed(k))' = MorphsNamed(k)
          BY <3>3, <4>1 DEF MorphsNamed
        <4>3. (MaterialOf(k))' = MaterialOf(k)
          BY <4>1 DEF MaterialOf
        <4>4. GeoPrim(k) =
                 [name |-> MeshName(k), source |-> meshes[k].source,
                  points |-> meshes[k].points, turned |-> Turned(k),
                  place |-> IF IsSkinned(k) THEN << >> ELSE WorldOf(meshes[k].node) \o FrontBake,
                  skeleton |-> HasSkel /\ (IsSkinned(k) \/ meshes[k].morphs # << >>),
                  material |-> MaterialOf(k),
                  blendShapes |-> IF HasSkel THEN MorphsNamed(k) ELSE << >>]
          BY DEF GeoPrim, MaterialOf, MorphsNamed
        <4>5. (GeoPrim(k))' =
                 [name |-> (MeshName(k))', source |-> meshes'[k].source,
                  points |-> meshes'[k].points, turned |-> (Turned(k))',
                  place |-> IF (IsSkinned(k))' THEN << >>
                            ELSE (WorldOf(meshes[k].node))' \o FrontBake',
                  skeleton |-> HasSkel' /\ ((IsSkinned(k))' \/ meshes'[k].morphs # << >>),
                  material |-> (MaterialOf(k))',
                  blendShapes |-> IF HasSkel' THEN (MorphsNamed(k))' ELSE << >>]
          BY DEF GeoPrim, MaterialOf, MorphsNamed
        <4> QED
          <5>1. (Turned(k))' = Turned(k)
            BY <3>3 DEF Turned
          <5>2. (IF (IsSkinned(k))' THEN << >> ELSE (WorldOf(meshes[k].node))' \o FrontBake')
                   = (IF IsSkinned(k) THEN << >> ELSE WorldOf(meshes[k].node) \o FrontBake)
            BY <3>1, <3>3
          <5>3. (HasSkel' /\ ((IsSkinned(k))' \/ meshes'[k].morphs # << >>))
                   = (HasSkel /\ (IsSkinned(k) \/ meshes[k].morphs # << >>))
            BY <3>1, <3>3, <4>1
          <5>4. (IF HasSkel' THEN (MorphsNamed(k))' ELSE << >>)
                   = (IF HasSkel THEN MorphsNamed(k) ELSE << >>)
            BY <3>1, <4>2
          <5> QED
            BY <3>3, <4>1, <4>3, <4>4, <4>5, <5>1, <5>2, <5>3, <5>4
    <2> QED
      BY <1>0, <2>1 DEF GeoPrims
  <1>10. ExpressionPrims' = ExpressionPrims
    <2>1. \A name, e : (ExpressionPrim(name, e))' = ExpressionPrim(name, e)
      <3> SUFFICES ASSUME NEW name, NEW e
                   PROVE  (ExpressionPrim(name, e))' = ExpressionPrim(name, e)
        OBVIOUS
      <3>1. /\ HasSkel' <=> HasSkel
            /\ (MorphBinds(e))' = MorphBinds(e)
            /\ (ColourBinds(e))' = ColourBinds(e)
            /\ \A k, t : (MorphName(k, t))' = MorphName(k, t)
        BY <1>1, <1>3, <1>4, <1>5
      <3> QED
        BY <1>0, <3>1 DEF ExpressionPrim
    <2> QED
      BY <1>0, <2>1 DEF ExpressionPrims
  <1>11. ConstraintPrims' = ConstraintPrims
    BY <1>0, <1>1, <1>2, <1>4 DEF ConstraintPrims
  <1>12. BakeFront' <=> BakeFront
    BY <1>1
  <1>13. HasSkel' <=> HasSkel
    BY <1>1
  <1>14. /\ MaterialPrims' = MaterialPrims
         /\ Skeleton' = Skeleton
         /\ HumanoidPrim' = HumanoidPrim
         /\ LookAtPrim' = LookAtPrim
         /\ AnimationSource' = AnimationSource
         /\ AuthoringWarnings' = AuthoringWarnings
    BY <1>1, <1>2, <1>4
  <1> QED
    BY <1>0, <1>6, <1>7, <1>8, <1>9, <1>10, <1>11, <1>12, <1>13, <1>14 DEF Stage

\* What the authoring thread wrote is the stage of the document and the scene it was given.
StageInv ==
    /\ phase \in {"idle", "reading", "authoring"} => usda = None
    /\ phase = "authoring" \/ usda # None => step = "done" /\ scene = Scene
    /\ usda # None => usda = Stage

LEMMA ImportKeepsStage == StageInv /\ [ImportNext]_importVars => StageInv'
  <1> SUFFICES ASSUME StageInv, [ImportNext]_importVars PROVE StageInv'
    OBVIOUS
  <1>1. ASSUME UNCHANGED <<vars, scene, usda>>, phase' = "authoring" => phase = "authoring",
               phase' \in {"idle", "reading", "authoring"} => usda = None
        PROVE  StageInv'
    <2>1. Scene' = Scene /\ Stage' = Stage
      BY <1>1, SceneStays, StageStays
    <2>2. step' = step
      BY <1>1 DEF vars
    <2> QED
      BY <1>1, <2>1, <2>2 DEF StageInv
  <1>2. CASE OpenFile
    BY <1>1, <1>2 DEF OpenFile, StageInv
  <1>3. CASE ReadPass
    BY <1>3 DEF ReadPass, StageInv
  <1>4. CASE ReadScene
    <2>1. Scene' = Scene /\ usda = None /\ usda' = None /\ step' = "done"
      BY <1>4, SceneStays DEF ReadScene, StageInv, vars
    <2> QED
      BY <1>4, <2>1 DEF ReadScene, StageInv
  <1>5. CASE Author
    <2>1. CASE usda' = usda
      BY <1>1, <1>5, <2>1 DEF Author, StageInv
    <2>2. CASE usda' = Stage /\ phase' = "importing"
      <3>1. Scene' = Scene /\ Stage' = Stage
        BY <1>5, SceneStays, StageStays DEF Author
      <3>2. step' = step /\ scene' = scene
        BY <1>5 DEF Author, vars
      <3> QED
        BY <1>5, <2>2, <3>1, <3>2 DEF Author, StageInv
    <2> QED
      BY <1>5, <2>1, <2>2 DEF Author
  <1>6. CASE Transfer
    BY <1>1, <1>6 DEF Transfer
  <1>7. CASE UNCHANGED importVars
    BY <1>1, <1>7 DEF importVars, StageInv
  <1> QED
    BY <1>2, <1>3, <1>4, <1>5, <1>6, <1>7 DEF ImportNext

LEMMA StageInvariant == ImportSpec => [](DocumentInv /\ EntriesInv /\ StageInv)
  <1>1. ImportInit => StageInv
    BY DEF ImportInit, StageInv
  <1>2. StageInv /\ [ImportNext]_importVars => StageInv'
    BY ImportKeepsStage
  <1>3. ImportSpec => [](DocumentInv /\ EntriesInv)
    BY ImportReads, EntriesInvariant, PTL
  <1> QED
    BY <1>1, <1>2, <1>3, PTL DEF ImportSpec

-----------------------------------------------------------------------------
(* The prims of a scope *)

\* What a scope holds: an entry for every name, the entry itself when none shares its name.
LEMMA Defined ==
    ASSUME NEW n \in Nat, NEW prims, DOMAIN prims = 1 .. n
    PROVE  /\ \A x \in Range(Define(prims)) : \E i \in DOMAIN prims : x = prims[i]
           /\ (\A i, k \in DOMAIN prims : prims[i].name = prims[k].name => i = k) =>
                 \A i \in DOMAIN prims :
                     /\ prims[i].name \in DOMAIN Define(prims)
                     /\ Define(prims)[prims[i].name] = prims[i]
                     /\ prims[i] \in Range(Define(prims))
  <1> DEFINE places(x) == {i \in DOMAIN prims : prims[i].name = x}
             names == {prims[i].name : i \in DOMAIN prims}
             scope == Define(prims)
  <1>1. DOMAIN scope = names /\ \A x \in names : scope[x] = prims[Max(places(x))]
    BY DEF Define
  <1>2. ASSUME NEW x \in names PROVE Max(places(x)) \in places(x)
    <2>1. places(x) # {} /\ places(x) \in SUBSET (1 .. n)
      OBVIOUS
    <2> HIDE DEF places
    <2> QED
      BY <2>1, GreatestMember
  <1> HIDE DEF scope
  <1>3. ASSUME NEW x \in names PROVE \E i \in DOMAIN prims : scope[x] = prims[i]
    BY <1>1, <1>2
  <1>4. \A y \in Range(scope) : \E i \in DOMAIN prims : y = prims[i]
    BY <1>1, <1>3 DEF Range
  <1>5. ASSUME \A i, k \in DOMAIN prims : prims[i].name = prims[k].name => i = k,
               NEW i \in DOMAIN prims
        PROVE  /\ prims[i].name \in DOMAIN scope
               /\ scope[prims[i].name] = prims[i] /\ prims[i] \in Range(scope)
    <2>1. prims[i].name \in names
      OBVIOUS
    <2>2. Max(places(prims[i].name)) = i
      BY <1>2, <1>5, <2>1
    <2>3. scope[prims[i].name] = prims[i]
      <3> HIDE DEF places, names
      <3> QED
        BY <1>1, <2>1, <2>2
    <2> QED
      BY <1>1, <2>1, <2>3 DEF Range
  <1> QED
    BY <1>4, <1>5 DEF scope

-----------------------------------------------------------------------------
(* The spaces of the stage *)

\* What a transform or a place is made of.
Factor == [of : {"local", "front"}, value : Nat]

FrontTurns == IF BakeFront THEN 1 ELSE 0

LEMMA FrontBakeFacts ==
    /\ FrontBake \in Seq(Factor)
    /\ FrontTurns = IF file.version = "Vrm0" THEN 1 ELSE 0
    /\ FrontBake = IF file.version = "Vrm0" THEN <<FrontTurn>> ELSE << >>
  <1>1. FrontTurn \in Factor
    BY DEF FrontTurn, Factor
  <1> QED
    BY <1>1 DEF FrontBake, BakeFront, FrontTurns

LEMMA LocalsFacts ==
    ASSUME NEW s \in Seq(Nodes)
    PROVE  /\ Locals(s) \in Seq(Factor) /\ Len(Locals(s)) = Len(s)
           /\ \A k \in 1 .. Len(s) : Locals(s)[k] = [of |-> "local", value |-> s[k]]
  <1>1. DOMAIN s = 1 .. Len(s) /\ Len(s) \in Nat
    OBVIOUS
  <1>2. \A k \in DOMAIN s : [of |-> "local", value |-> s[k]] \in Factor
    <2>1. \A k \in DOMAIN s : s[k] \in Nodes
      OBVIOUS
    <2>2. \A n \in Nodes : n \in Nat
      BY NodesAssumption
    <2> QED
      BY <2>1, <2>2 DEF Factor
  <1> QED
    BY <1>1, <1>2 DEF Locals

LEMMA LocalsConcat ==
    ASSUME NEW s \in Seq(Nodes), NEW t \in Seq(Nodes)
    PROVE  Locals(s \o t) = Locals(s) \o Locals(t)
  <1>1. s \o t \in Seq(Nodes) /\ Len(s \o t) = Len(s) + Len(t)
    OBVIOUS
  <1>2. PICK u \in Seq(Nodes) : u = s \o t
    BY <1>1
  <1>3. PICK a \in Seq(Factor) : a = Locals(u)
    BY LocalsFacts
  <1>4. PICK b \in Seq(Factor) : b = Locals(s)
    BY LocalsFacts
  <1>5. PICK c \in Seq(Factor) : c = Locals(t)
    BY LocalsFacts
  <1>6. Len(a) = Len(b) + Len(c) /\ Len(b) = Len(s) /\ Len(c) = Len(t)
    BY <1>1, <1>2, <1>3, <1>4, <1>5, LocalsFacts
  <1>7. ASSUME NEW k \in 1 .. Len(a) PROVE a[k] = (b \o c)[k]
    <2>1. Len(s) \in Nat /\ Len(t) \in Nat /\ Len(u) = Len(s) + Len(t)
      BY <1>1, <1>2
    <2>2. CASE k <= Len(s)
      <3>1. k \in 1 .. Len(s) /\ k \in 1 .. Len(u)
        BY <1>6, <2>1, <2>2
      <3>2. u[k] = s[k]
        BY <1>2, <3>1
      <3>3. (b \o c)[k] = b[k]
        BY <1>6, <3>1
      <3>4. a[k] = [of |-> "local", value |-> u[k]]
        BY <1>3, <3>1, LocalsFacts
      <3>5. b[k] = [of |-> "local", value |-> s[k]]
        BY <1>4, <3>1, LocalsFacts
      <3> QED
        BY <3>2, <3>3, <3>4, <3>5
    <2>3. CASE k > Len(s)
      <3>1. k - Len(s) \in 1 .. Len(t) /\ k \in 1 .. Len(u)
        BY <1>6, <2>1, <2>3
      <3>2. u[k] = t[k - Len(s)]
        BY <1>2, <2>1, <2>3, <3>1
      <3>3. (b \o c)[k] = c[k - Len(s)]
        BY <1>6, <2>1, <2>3, <3>1
      <3>4. a[k] = [of |-> "local", value |-> u[k]]
        BY <1>3, <3>1, LocalsFacts
      <3>5. c[k - Len(s)] = [of |-> "local", value |-> t[k - Len(s)]]
        BY <1>5, <3>1, LocalsFacts
      <3> QED
        BY <3>2, <3>3, <3>4, <3>5
    <2> QED
      BY <1>6, <2>1, <2>2, <2>3
  <1>8. b \o c \in Seq(Factor) /\ Len(b \o c) = Len(b) + Len(c)
    OBVIOUS
  <1>9. PICK d \in Seq(Factor) : d = b \o c
    BY <1>8
  <1>10. a = d
    BY <1>6, <1>7, <1>8, <1>9, SeqEqual
  <1> QED
    BY <1>2, <1>3, <1>4, <1>5, <1>9, <1>10

\* A chain of nodes is turned by nothing, and by the bake once in VRM 0.x.
LEMMA FrontsOfLocals ==
    ASSUME NEW s \in Seq(Nodes)
    PROVE  Fronts(Locals(s)) = 0 /\ Fronts(Locals(s) \o FrontBake) = FrontTurns
  <1>1. PICK a \in Seq(Factor) : a = Locals(s)
    BY LocalsFacts
  <1>2. Len(a) \in Nat /\ DOMAIN a = 1 .. Len(a)
    OBVIOUS
  <1>3. \A k \in 1 .. Len(a) : a[k] # FrontTurn
    <2>1. ASSUME NEW k \in 1 .. Len(a) PROVE a[k].of = "local"
      <3>1. k \in 1 .. Len(s)
        BY <1>1, LocalsFacts
      <3>2. a[k] = [of |-> "local", value |-> s[k]]
        BY <1>1, <3>1, LocalsFacts
      <3> QED
        BY <3>2
    <2> QED
      BY <2>1 DEF FrontTurn
  <1>4. Fronts(a) = 0
    <2>1. {k \in DOMAIN a : a[k] = FrontTurn} = {}
      BY <1>2, <1>3
    <2> QED
      BY <2>1, FS_EmptySet DEF Fronts
  <1>5. Fronts(a \o FrontBake) = FrontTurns
    <2>1. CASE ~BakeFront
      <3>1. a \o FrontBake = a
        BY <2>1 DEF FrontBake
      <3> QED
        BY <1>4, <2>1, <3>1 DEF FrontTurns
    <2>2. CASE BakeFront
      <3>1. PICK turn \in Factor : turn = FrontTurn
        BY DEF Factor, FrontTurn
      <3>2. PICK b \in Seq(Factor) : b = a \o <<turn>>
        <4>1. <<turn>> \in Seq(Factor)
          OBVIOUS
        <4>2. a \o <<turn>> \in Seq(Factor)
          BY <4>1, ConcatProperties
        <4> QED
          BY <4>2
      <3>3. /\ DOMAIN b = 1 .. Len(a) + 1 /\ b[Len(a) + 1] = turn
            /\ \A k \in 1 .. Len(a) : b[k] = a[k]
        BY <1>2, <3>2
      <3>4. {k \in DOMAIN b : b[k] = FrontTurn} = {Len(a) + 1}
        BY <1>2, <1>3, <3>1, <3>3
      <3>5. Cardinality({Len(a) + 1}) = 1
        BY FS_Singleton
      <3> QED
        BY <2>2, <3>1, <3>2, <3>4, <3>5 DEF Fronts, FrontBake, FrontTurns
    <2> QED
      BY <2>1, <2>2
  <1> QED
    BY <1>1, <1>4, <1>5

-----------------------------------------------------------------------------
(* The tree of the joints *)

\* What the lemmas about an authored stage ask of the document.
Read == DocumentInv /\ EntriesInv /\ step = "done"

\* A joint is a root, or hangs from the joint of a node above its own, which precedes it.
LEMMA JointTree ==
    ASSUME Read, NEW i \in DOMAIN joints
    PROVE  /\ DOMAIN joints = 1 .. Len(joints) /\ Len(joints) \in Nat
           /\ joints[i].node \in Nodes
           /\ file.above[joints[i].node] \in Seq(Nodes)
           /\ joints[i].bind = BindOf(joints[i].node)
           /\ joints[i].parent = 0 <=> joints[i].frame = 0
           /\ joints[i].parent # 0 =>
                 /\ joints[i].parent \in 1 .. i - 1
                 /\ joints[joints[i].parent].node = joints[i].frame
                 /\ \E k \in DOMAIN file.above[joints[i].node] :
                       file.above[joints[i].node][k] = joints[i].frame
  <1> DEFINE j == joints[i]
             n == j.node
  <1>1. /\ Ordered /\ SkeletonInv /\ InverseInv /\ JointsTyped /\ file \in Files
        /\ jointOf \in [Nodes -> 0 .. Len(jointNodes)] /\ Len(joints) = Len(jointNodes)
    BY DEF Read, DocumentInv, EntriesInv, SkeletonInv, TypeInv, SkeletonTypeOK, JointsTyped, Ordered
  <1>2. DOMAIN joints = 1 .. Len(joints) /\ Len(joints) \in Nat /\ j \in Joint
    BY <1>1, JointFacts
  <1>3. n \in Nodes /\ j.parent \in Nat /\ j.frame \in Nodes \cup {0}
    BY <1>2 DEF Joint
  <1>4. file.above[n] \in Seq(Nodes)
    BY <1>1, <1>3, FileFacts
  <1>5. /\ j.bind = BindOf(n) /\ IsNearestJoint(n, j.frame) /\ j.parent < i
        /\ j.parent = IF j.frame = 0 THEN 0 ELSE jointOf[j.frame]
    BY <1>1 DEF SkeletonInv, OrderedInv, ParentsPrecedeChildren, JointsKeepTheirNode
  <1>6. ASSUME j.frame # 0
        PROVE  /\ jointOf[j.frame] # 0
               /\ \E k \in DOMAIN file.above[n] : file.above[n][k] = j.frame
    <2>1. PICK k \in JointsAbove(n) : file.above[n][k] = j.frame
      BY <1>5, <1>6 DEF IsNearestJoint
    <2> QED
      BY <2>1 DEF JointsAbove
  <1>7. j.parent = 0 <=> j.frame = 0
    BY <1>5, <1>6
  <1>8. ASSUME j.parent # 0
        PROVE  j.parent \in 1 .. i - 1 /\ joints[j.parent].node = j.frame
    <2>1. j.frame \in Nodes /\ jointOf[j.frame] # 0 /\ j.parent = jointOf[j.frame]
      BY <1>3, <1>5, <1>6, <1>7, <1>8
    <2>2. joints[jointOf[j.frame]].node = j.frame
      BY <1>1, <2>1 DEF InverseInv
    <2>3. j.parent \in 1 .. i - 1
      BY <1>2, <1>3, <1>5, <1>8
    <2> QED
      BY <2>1, <2>2, <2>3
  <1> QED
    BY <1>2, <1>3, <1>4, <1>5, <1>6, <1>7, <1>8

\* From a node up to the one below an ancestor, and on from the ancestor, is all that is above.
LEMMA UpToAncestor ==
    ASSUME file \in Files, NEW n \in Nodes, NEW p \in Nodes,
           \E k \in DOMAIN file.above[n] : file.above[n][k] = p
    PROVE  /\ UpTo(n, p) \in Seq(Nodes) /\ <<p>> \o file.above[p] \in Seq(Nodes)
           /\ UpTo(n, p) \o (<<p>> \o file.above[p]) = <<n>> \o file.above[n]
  <1>1. PICK a \in Seq(Nodes) : a = file.above[n]
    BY FileFacts
  <1>2. PICK b \in Seq(Nodes) : b = file.above[p]
    BY FileFacts
  <1> DEFINE k == CHOOSE k \in DOMAIN a : a[k] = p
  <1>3. k \in DOMAIN a /\ a[k] = p
    BY <1>1
  <1>4. UpTo(n, p) = <<n>> \o SubSeq(a, 1, k - 1)
    BY <1>1, NodesAssumption DEF UpTo
  <1>5. b = SubSeq(a, k + 1, Len(a))
    BY <1>1, <1>2, <1>3, FileFacts DEF Forest
  <1> HIDE DEF k
  <1>6. k \in 1 .. Len(a) /\ Len(a) \in Nat
    BY <1>3
  <1>7. PICK c \in Seq(Nodes) : c = SubSeq(a, 1, k - 1)
    <2>1. PICK q \in Int : q = k - 1
      BY <1>6
    <2>2. \A i \in 1 .. q : a[i] \in Nodes
      BY <1>6, <2>1
    <2>3. 1 \in Int
      OBVIOUS
    <2>4. SubSeq(a, 1, q) \in Seq(Nodes)
      BY <2>2, <2>3, SubSeqProperties
    <2> QED
      BY <2>1, <2>4
  <1>8. PICK d \in Seq(Nodes) : d = <<p>> \o b
    <2>1. <<p>> \in Seq(Nodes)
      OBVIOUS
    <2> QED
      BY <2>1, ConcatProperties
  <1>9. d = SubSeq(a, k, Len(a))
    <2>1. Len(a) \in k .. Len(a)
      BY <1>6
    <2>2. SubSeq(a, k, Len(a)) = <<a[k]>> \o SubSeq(a, k + 1, Len(a))
      BY <1>6, <2>1, SubSeqRecursiveFirst
    <2> QED
      BY <1>3, <1>5, <1>8, <2>2
  <1>10. c \o d = a
    <2>1. PICK q \in Int : q = k - 1
      BY <1>6
    <2>2. /\ 1 \in 1 .. Len(a) + 1 /\ q \in 1 - 1 .. Len(a) /\ Len(a) \in q .. Len(a)
          /\ q + 1 = k
      BY <1>6, <2>1
    <2>3. SubSeq(a, 1, q) \o SubSeq(a, q + 1, Len(a)) = SubSeq(a, 1, Len(a))
      BY <2>2, ConcatAdjacentSubSeq
    <2>4. SubSeq(a, 1, q) = c /\ SubSeq(a, q + 1, Len(a)) = d
      BY <1>7, <1>9, <2>1, <2>2
    <2>5. SubSeq(a, 1, Len(a)) = a
      BY SubSeqFull
    <2> QED
      BY <2>3, <2>4, <2>5
  <1>11. PICK e \in Seq(Nodes) : e = <<n>>
    <2>1. <<n>> \in Seq(Nodes)
      OBVIOUS
    <2> QED
      BY <2>1
  <1>12. (e \o c) \o d = e \o (c \o d) /\ e \o c \in Seq(Nodes)
    BY ConcatAssociative, ConcatProperties
  <1> QED
    BY <1>1, <1>2, <1>4, <1>7, <1>8, <1>10, <1>11, <1>12

\* Transforms compose in any grouping.
LEMMA FactorsRegroup ==
    ASSUME NEW a \in Seq(Factor), NEW b \in Seq(Factor), NEW c \in Seq(Factor)
    PROVE  a \o (b \o c) = (a \o b) \o c
  BY ConcatAssociative

\* At rest relative to an ancestor that rests in its place, a node rests in its own.
LEMMA RestsInPlace ==
    ASSUME file \in Files, NEW n \in Nodes, NEW p \in Nodes,
           \E k \in DOMAIN file.above[n] : file.above[n][k] = p
    PROVE  Locals(UpTo(n, p)) \o (WorldOf(p) \o FrontBake) = WorldOf(n) \o FrontBake
  <1>1. PICK u \in Seq(Nodes) : u = UpTo(n, p)
    BY UpToAncestor
  <1>2. PICK v \in Seq(Nodes) : v = <<p>> \o file.above[p]
    BY UpToAncestor
  <1>3. u \o v = <<n>> \o file.above[n]
    BY <1>1, <1>2, UpToAncestor
  <1>4. Locals(u \o v) = Locals(u) \o Locals(v)
    BY LocalsConcat
  <1>5. PICK a \in Seq(Factor) : a = Locals(u)
    BY LocalsFacts
  <1>6. PICK b \in Seq(Factor) : b = Locals(v)
    BY LocalsFacts
  <1>7. PICK c \in Seq(Factor) : c = FrontBake
    BY FrontBakeFacts
  <1>8. a \o (b \o c) = (a \o b) \o c
    BY FactorsRegroup
  <1>9. WorldOf(p) = b /\ WorldOf(n) = a \o b
    BY <1>2, <1>3, <1>4, <1>5, <1>6 DEF WorldOf
  <1> QED
    BY <1>1, <1>5, <1>7, <1>8, <1>9

\* The skeleton of the stage, joint by joint.
LEMMA SkeletonOfStage ==
    ASSUME Read, usda = Stage, NEW i \in DOMAIN joints
    PROVE  /\ HasSkel
           /\ usda.skeleton.rest[i] =
                 IF joints[i].parent = 0 THEN WorldOf(joints[i].node) \o FrontBake
                 ELSE Locals(UpTo(joints[i].node, joints[i].frame))
           /\ usda.skeleton.bind[i] = BindTransform(i) \o FrontBake
  <1>1. HasSkel
    BY DEF HasSkel
  <1>2. usda.skeleton = Skeleton
    BY <1>1 DEF Stage
  <1>3. usda.skeleton.bind[i] = BindTransform(i) \o FrontBake
    BY <1>2 DEF Skeleton
  <1>4. usda.skeleton.rest[i] =
            IF IsRootJoint(i) THEN RestTransform(i) \o FrontBake ELSE RestTransform(i)
    BY <1>2 DEF Skeleton
  <1>5. ASSUME joints[i].parent = 0 PROVE RestTransform(i) = WorldOf(joints[i].node)
    <2>1. PICK n \in Nodes : n = joints[i].node
      BY JointTree
    <2>2. PICK a \in Seq(Nodes) : a = file.above[n]
      BY <2>1, JointTree
    <2>3. joints[i].frame = 0
      BY <1>5, JointTree
    <2>4. SubSeq(a, 1, Len(a)) = a
      BY SubSeqFull
    <2>5. UpTo(n, 0) = <<n>> \o a
      BY <2>2, <2>4 DEF UpTo
    <2> QED
      BY <2>1, <2>2, <2>3, <2>5 DEF RestTransform, WorldOf
  <1> QED
    BY <1>1, <1>3, <1>4, <1>5 DEF RestTransform, IsRootJoint

\* Every joint rests where its node stands, turned.
LEMMA JointsRestInPlace ==
    ASSUME Read, usda = Stage, NEW i \in DOMAIN joints
    PROVE  AtRest[i] = WorldOf(joints[i].node) \o FrontBake
  <1> DEFINE rest(k) == usda.skeleton.rest[k]
             up(k) == joints[k].parent
             place(k) == WorldOf(joints[k].node) \o FrontBake
             Fits(w) == w = [k \in DOMAIN joints |->
                               IF joints[k].parent = 0 THEN usda.skeleton.rest[k]
                               ELSE usda.skeleton.rest[k] \o w[joints[k].parent]]
             h == [k \in DOMAIN joints |-> place(k)]
             w == CHOOSE w : Fits(w)
  <1>1. AtRest = w
    BY DEF AtRest
  <1>2. DOMAIN joints = 1 .. Len(joints) /\ Len(joints) \in Nat
    BY JointTree
  <1>3. ASSUME NEW k \in DOMAIN joints
        PROVE  /\ up(k) = 0 => rest(k) = place(k)
               /\ up(k) # 0 => up(k) \in 1 .. k - 1 /\ rest(k) \o place(up(k)) = place(k)
    <2>1. CASE up(k) = 0
      BY <2>1, SkeletonOfStage
    <2>2. CASE up(k) # 0
      <3>1. PICK p : p = up(k)
        OBVIOUS
      <3>2. PICK n : n = joints[k].node
        OBVIOUS
      <3>3. /\ n \in Nodes /\ p \in 1 .. k - 1 /\ joints[p].node = joints[k].frame
            /\ \E l \in DOMAIN file.above[n] : file.above[n][l] = joints[k].frame
        BY <2>2, <3>1, <3>2, JointTree
      <3>4. PICK q : q = joints[p].node
        OBVIOUS
      <3>5. q \in Nodes /\ file \in Files
        <4>1. p \in DOMAIN joints
          BY <1>2, <3>3
        <4> QED
          BY <3>4, <4>1, JointTree DEF Read, DocumentInv, SkeletonInv, TypeInv
      <3>6. rest(k) = Locals(UpTo(n, q))
        BY <2>2, <3>2, <3>3, <3>4, SkeletonOfStage
      <3>7. Locals(UpTo(n, q)) \o (WorldOf(q) \o FrontBake) = WorldOf(n) \o FrontBake
        BY <3>3, <3>4, <3>5, RestsInPlace
      <3> QED
        BY <3>1, <3>2, <3>3, <3>4, <3>6, <3>7
    <2> QED
      BY <2>1, <2>2
  <1> HIDE DEF rest, place
  <1>4. Fits(h)
    <2>1. ASSUME NEW k \in DOMAIN joints
          PROVE  h[k] = IF up(k) = 0 THEN rest(k) ELSE rest(k) \o h[up(k)]
      <3>1. up(k) # 0 => up(k) \in DOMAIN joints
        BY <1>2, <1>3
      <3> QED
        BY <1>3, <3>1
    <2>2. h = [k \in DOMAIN joints |-> h[k]]
      OBVIOUS
    <2> HIDE DEF h
    <2> QED
      BY <2>1, <2>2 DEF rest
  <1>5. Fits(w)
    BY <1>4
  <1>6. ASSUME NEW k \in DOMAIN joints
        PROVE  w[k] = IF up(k) = 0 THEN rest(k) ELSE rest(k) \o w[up(k)]
    <2> HIDE DEF w
    <2> QED
      BY <1>5 DEF rest
  <1> HIDE DEF w, h, Fits
  <1> DEFINE S == {k \in 1 .. Len(joints) : w[k] = place(k)}
  <1>7. ASSUME NEW k \in 1 .. Len(joints), \A l \in 1 .. k - 1 : l \in S
        PROVE  k \in S
    BY <1>2, <1>3, <1>6, <1>7
  <1> HIDE DEF S
  <1>8. \A k \in 1 .. Len(joints) : k \in S
    BY <1>2, <1>7, StrongInduction
  <1> QED
    BY <1>1, <1>2, <1>8 DEF S, place

\* A joint is bound as the file says, turned.
LEMMA JointsBindInPlace ==
    ASSUME Read, usda = Stage, NEW i \in DOMAIN joints
    PROVE  usda.skeleton.bind[i] =
              (IF BindOf(joints[i].node).of = "ibm" THEN <<BindOf(joints[i].node)>>
               ELSE WorldOf(joints[i].node)) \o FrontBake
  <1>1. joints[i].bind = BindOf(joints[i].node)
    BY JointTree
  <1>2. usda.skeleton.bind[i] = BindTransform(i) \o FrontBake
    BY SkeletonOfStage
  <1>3. PICK n : n = joints[i].node
    OBVIOUS
  <1>4. PICK b : b = BindOf(n)
    OBVIOUS
  <1>5. BindTransform(i) = IF b.of = "node" THEN WorldOf(b.value) ELSE <<b>>
    BY <1>1, <1>3, <1>4 DEF BindTransform
  <1>6. b = NodeWorld(n) \/ \E ibm : b = InverseBind(ibm)
    BY <1>4 DEF BindOf
  <1>7. BindTransform(i) = IF b.of = "ibm" THEN <<b>> ELSE WorldOf(n)
    <2>1. CASE b = NodeWorld(n)
      <3>1. b.of = "node" /\ b.value = n
        BY <2>1 DEF NodeWorld
      <3> QED
        BY <1>5, <3>1
    <2>2. CASE \E ibm : b = InverseBind(ibm)
      <3>1. b.of = "ibm"
        BY <2>2 DEF InverseBind
      <3> QED
        BY <1>5, <3>1
    <2> QED
      BY <1>6, <2>1, <2>2
  <1> QED
    BY <1>2, <1>3, <1>4, <1>7

-----------------------------------------------------------------------------
(* Lists of lists *)

\* The members of one list after those of another.
LEMMA Joined ==
    ASSUME NEW V, NEW s \in Seq(V), NEW t \in Seq(V)
    PROVE  /\ s \o t \in Seq(V) /\ Range(s \o t) = Range(s) \cup Range(t)
           /\ NoneTwice(s) /\ NoneTwice(t) /\ Range(s) \cap Range(t) = {} => NoneTwice(s \o t)
  <1>1. PICK u \in Seq(V) : u = s \o t
    BY ConcatProperties
  <1>2. /\ Len(u) = Len(s) + Len(t)
        /\ \A i \in 1 .. Len(s) + Len(t) : u[i] = IF i <= Len(s) THEN s[i] ELSE t[i - Len(s)]
    BY <1>1, ConcatProperties
  <1>3. /\ Len(s) \in Nat /\ Len(t) \in Nat /\ DOMAIN s = 1 .. Len(s) /\ DOMAIN t = 1 .. Len(t)
        /\ DOMAIN u = 1 .. Len(s) + Len(t)
    BY <1>2
  <1>4. ASSUME NoneTwice(s), NoneTwice(t), Range(s) \cap Range(t) = {},
               NEW i \in DOMAIN u, NEW k \in DOMAIN u, u[i] = u[k]
        PROVE  i = k
    <2>1. \A l \in DOMAIN u : \/ l \in DOMAIN s /\ u[l] = s[l]
                              \/ l - Len(s) \in DOMAIN t /\ u[l] = t[l - Len(s)]
      BY <1>2, <1>3
    <2>2. \A l \in DOMAIN s, m \in DOMAIN t : s[l] # t[m]
      BY <1>4 DEF Range
    <2>3. CASE i \in DOMAIN s /\ u[i] = s[i]
      BY <1>4, <2>1, <2>2, <2>3 DEF NoneTwice
    <2>4. CASE i - Len(s) \in DOMAIN t /\ u[i] = t[i - Len(s)]
      <3>1. k - Len(s) \in DOMAIN t /\ u[k] = t[k - Len(s)]
        BY <1>4, <2>1, <2>2, <2>4
      <3>2. i - Len(s) = k - Len(s)
        BY <1>4, <2>4, <3>1 DEF NoneTwice
      <3> QED
        BY <1>3, <3>2
    <2> QED
      BY <2>1, <2>3, <2>4
  <1>5. Range(u) = Range(s) \cup Range(t)
    BY <1>1, RangeConcatenation
  <1> QED
    BY <1>1, <1>4, <1>5 DEF NoneTwice

\* A flattened list has the members of its lists, and each once if they share none.
LEMMA Flattened ==
    ASSUME NEW V, NEW n \in Nat, NEW seqs, DOMAIN seqs = 1 .. n, Len(seqs) = n,
           n = 0 => seqs = << >>,
           \A i \in 1 .. n : seqs[i] \in Seq(V)
    PROVE  /\ FlattenSeq(seqs) \in Seq(V)
           /\ Range(FlattenSeq(seqs)) = UNION {Range(seqs[i]) : i \in 1 .. n}
           /\ /\ \A i \in 1 .. n : NoneTwice(seqs[i])
              /\ \A i, k \in 1 .. n : i # k => Range(seqs[i]) \cap Range(seqs[k]) = {}
              => NoneTwice(FlattenSeq(seqs))
  <1>1. CASE n = 0
    <2>1. FlattenSeq(seqs) = << >>
      BY <1>1 DEF FlattenSeq
    <2>2. << >> \in Seq(V) /\ Range(<< >>) = {} /\ NoneTwice(<< >>)
      BY DEF Range, NoneTwice
    <2>3. UNION {Range(seqs[i]) : i \in 1 .. n} = {}
      BY <1>1
    <2> QED
      BY <2>1, <2>2, <2>3
  <1>2. CASE n # 0
    <2> DEFINE Fits(g) == g = [i \in 1 .. Len(seqs) |->
                                  IF i = 1 THEN seqs[i] ELSE g[i - 1] \o seqs[i]]
               w == CHOOSE g : Fits(g)
               F == [i \in 1 .. n |-> [f \in [1 .. n -> Seq(V)] |->
                       IF i = 1 THEN seqs[i] ELSE f[i - 1] \o seqs[i]]]
    <2>1. FlattenSeq(seqs) = w[n]
      BY <1>2 DEF FlattenSeq
    <2>2. ASSUME NEW i \in 1 .. n, NEW f \in [1 .. n -> Seq(V)]
          PROVE  (IF i = 1 THEN seqs[i] ELSE f[i - 1] \o seqs[i]) \in Seq(V)
      <3>1. i # 1 => i - 1 \in 1 .. n
        OBVIOUS
      <3>2. i # 1 => f[i - 1] \in Seq(V)
        BY <3>1
      <3> QED
        BY <3>2, ConcatProperties
    <2>3. Causal(1, n, Seq(V), F)
      <3>1. F \in [1 .. n -> [[1 .. n -> Seq(V)] -> Seq(V)]]
        BY <2>2
      <3>2. ASSUME NEW i \in 1 .. n, NEW g \in [1 .. n -> Seq(V)], NEW h \in [1 .. n -> Seq(V)],
                   \A j \in 1 .. i - 1 : g[j] = h[j]
            PROVE  F[i][g] = F[i][h]
        <4>1. i # 1 => i - 1 \in 1 .. i - 1
          OBVIOUS
        <4> QED
          BY <3>2, <4>1
      <3>3. Seq(V) # {}
        BY EmptySeq
      <3> QED
        BY <3>1, <3>2, <3>3 DEF Causal
    <2>4. PICK f \in [1 .. n -> Seq(V)] : \A i \in 1 .. n : f[i] = F[i][f]
      <3> HIDE DEF F
      <3> QED
        BY <2>3, RecursiveFunction
    <2>5. \A i \in 1 .. n : f[i] = IF i = 1 THEN seqs[i] ELSE f[i - 1] \o seqs[i]
      BY <2>4
    <2>6. Fits(w)
      <3>1. f = [i \in 1 .. n |-> f[i]]
        OBVIOUS
      <3>2. Fits(f)
        BY <2>5, <3>1
      <3> HIDE DEF Fits
      <3> QED
        BY <3>2
    <2>7. \A i \in 1 .. n : w[i] = IF i = 1 THEN seqs[i] ELSE w[i - 1] \o seqs[i]
      <3> HIDE DEF w
      <3> QED
        BY <2>6
    <2> HIDE DEF w, F, Fits
    <2> DEFINE Apart == /\ \A i \in 1 .. n : NoneTwice(seqs[i])
                        /\ \A i, k \in 1 .. n : i # k => Range(seqs[i]) \cap Range(seqs[k]) = {}
               Holds(i) == /\ w[i] \in Seq(V)
                           /\ Range(w[i]) = UNION {Range(seqs[k]) : k \in 1 .. i}
                           /\ Apart => NoneTwice(w[i])
               S == {i \in 1 .. n : Holds(i)}
    <2>8. ASSUME NEW i \in 1 .. n, \A j \in 1 .. i - 1 : j \in S PROVE i \in S
      <3>1. CASE i = 1
        <4>1. w[i] = seqs[1]
          BY <2>7, <3>1
        <4>2. UNION {Range(seqs[k]) : k \in 1 .. i} = Range(seqs[1])
          BY <3>1
        <4> QED
          BY <3>1, <4>1, <4>2
      <3>2. CASE i # 1
        <4>1. i - 1 \in 1 .. n /\ i - 1 \in 1 .. i - 1
          BY <3>2
        <4>2. Holds(i - 1)
          BY <2>8, <4>1
        <4>3. w[i] = w[i - 1] \o seqs[i]
          BY <2>7, <3>2
        <4>4. UNION {Range(seqs[k]) : k \in 1 .. i}
                 = (UNION {Range(seqs[k]) : k \in 1 .. i - 1}) \cup Range(seqs[i])
          <5>1. 1 .. i = (1 .. i - 1) \cup {i}
            OBVIOUS
          <5> QED
            BY <5>1
        <4>5. PICK s \in Seq(V) : s = w[i - 1]
          BY <4>2
        <4>6. PICK t \in Seq(V) : t = seqs[i]
          OBVIOUS
        <4>7. Apart => NoneTwice(s) /\ NoneTwice(t) /\ Range(s) \cap Range(t) = {}
          <5>1. Range(s) = UNION {Range(seqs[k]) : k \in 1 .. i - 1}
            BY <4>2, <4>5
          <5>2. Apart => \A k \in 1 .. i - 1 : Range(seqs[k]) \cap Range(t) = {}
            BY <4>6
          <5> HIDE DEF Apart
          <5>3. Apart => Range(s) \cap Range(t) = {}
            BY <5>1, <5>2
          <5>4. Apart => NoneTwice(s)
            BY <4>2, <4>5
          <5>5. Apart => NoneTwice(t)
            BY <4>6 DEF Apart
          <5> QED
            BY <5>3, <5>4, <5>5
        <4> HIDE DEF Apart
        <4>8. w[i] = s \o t
          BY <4>3, <4>5, <4>6
        <4>9. Range(w[i]) = UNION {Range(seqs[k]) : k \in 1 .. i}
          <5>1. Range(s \o t) = Range(s) \cup Range(t)
            BY Joined
          <5>2. Range(s) = UNION {Range(seqs[k]) : k \in 1 .. i - 1}
            BY <4>2, <4>5
          <5> QED
            BY <4>4, <4>6, <4>8, <5>1, <5>2
        <4>10. w[i] \in Seq(V) /\ (Apart => NoneTwice(w[i]))
          BY <4>7, <4>8, Joined
        <4> QED
          BY <4>9, <4>10
      <3> QED
        BY <3>1, <3>2
    <2> HIDE DEF S
    <2>9. \A i \in 1 .. n : i \in S
      BY <2>8, StrongInduction
    <2>10. n \in 1 .. n
      BY <1>2
    <2>11. Holds(n)
      <3> HIDE DEF Holds
      <3> QED
        BY <2>9, <2>10 DEF S
    <2> QED
      BY <2>1, <2>11
  <1> QED
    BY <1>1, <1>2

-----------------------------------------------------------------------------
(* The names of meshes and morph targets *)

\* A list of names is a list.
LEMMA ListIsList ==
    ASSUME NEW V, NEW s \in Seq(V)
    PROVE  /\ IsList(s) /\ s \in Seq(Range(s))
           /\ DOMAIN s = 1 .. Len(s) /\ Len(s) \in Nat
  <1>1. DOMAIN s = 1 .. Len(s) /\ Len(s) \in Nat
    OBVIOUS
  <1>2. s \in Seq({s[i] : i \in DOMAIN s})
    BY <1>1
  <1> QED
    BY <1>1, <1>2 DEF IsList, Range

\* A raw name of a list is one, whatever is added to it.
LEMMA RawNames ==
    ASSUME NEW V, NEW s \in Seq(V), NEW foreign
    PROVE  IsName(Raw(s, foreign)) /\ \A w : IsName(Raw(Append(s, w), foreign))
  <1>1. ASSUME NEW W, NEW t \in Seq(W) PROVE IsName(Raw(t, foreign))
    <2>1. t \in Seq(Range(t))
      BY ListIsList
    <2>2. Raw(t, foreign).name = t
      BY DEF Raw
    <2> QED
      BY <2>1, <2>2 DEF IsName, IsArray
  <1>2. ASSUME NEW w PROVE IsName(Raw(Append(s, w), foreign))
    <2>1. s \in Seq(V \cup {w}) /\ w \in V \cup {w}
      OBVIOUS
    <2>2. PICK W : W = V \cup {w}
      OBVIOUS
    <2>3. Append(s, w) \in Seq(W)
      BY <2>1, <2>2
    <2> QED
      BY <1>1, <2>3
  <1> QED
    BY <1>1, <1>2

\* A list of entries by their places.
LEMMA ListByPlace ==
    ASSUME NEW n \in Nat, NEW f, DOMAIN f = 1 .. n, f = [i \in 1 .. n |-> f[i]]
    PROVE  IsList(f) /\ Len(f) = n
  <1>1. f \in [1 .. n -> {f[i] : i \in DOMAIN f}]
    OBVIOUS
  <1>2. f \in Seq({f[i] : i \in DOMAIN f})
    BY <1>1
  <1>3. Len(f) = n
    BY <1>2
  <1> QED
    BY <1>2, <1>3 DEF IsList

\* Every primitive of the file has a mesh name of its own.
LEMMA MeshNamesDiffer ==
    ASSUME file \in Files
    PROVE  /\ DOMAIN MeshNames = DOMAIN file.prims /\ NoneTwice(MeshNames)
           /\ \A q \in DOMAIN file.prims : IsList(MeshNames[q])
  <1> DEFINE raws == [k \in DOMAIN file.prims |-> RawMeshName(file.prims[k])]
  <1>1. DOMAIN file.prims = 1 .. Len(file.prims) /\ Len(file.prims) \in Nat
    BY ListFacts
  <1>2. IsList(raws)
    <2>1. DOMAIN raws = 1 .. Len(file.prims)
      BY <1>1
    <2>2. raws = [i \in 1 .. Len(file.prims) |-> raws[i]]
      BY <1>1
    <2> HIDE DEF raws
    <2> QED
      BY <1>1, <2>1, <2>2, ListByPlace
  <1>3. ASSUME NEW k \in DOMAIN raws PROVE IsName(raws[k])
    <2>1. PICK p : p = file.prims[k]
      OBVIOUS
    <2>2. IsName(p.named)
      BY <2>1, SceneAssumption
    <2>3. p.named.name \in Seq(Range(p.named.name))
      BY <2>2 DEF IsName, IsArray
    <2>4. IsName(Raw(Append(p.named.name, Numeral(p.part)), p.named.foreign))
      <3>1. PICK V : V = Range(p.named.name)
        OBVIOUS
      <3>2. PICK s \in Seq(V) : s = p.named.name
        BY <2>3, <3>1
      <3>3. \A w : IsName(Raw(Append(s, w), p.named.foreign))
        BY RawNames
      <3> QED
        BY <3>2, <3>3
    <2>5. raws[k] = RawMeshName(p)
      BY <2>1
    <2> QED
      BY <2>2, <2>4, <2>5 DEF RawMeshName
  <1>4. MeshNames = VrmMakeUniqueNames(raws, "Mesh") /\ DOMAIN raws = DOMAIN file.prims
    BY DEF MeshNames
  <1> HIDE DEF raws
  <1>5. LET names == VrmMakeUniqueNames(raws, "Mesh")
        IN  /\ DOMAIN names = DOMAIN raws /\ NoneTwice(names)
            /\ \A i \in DOMAIN names : IsList(names[i])
    BY <1>2, <1>3, UniqueNames
  <1> QED
    BY <1>4, <1>5

\* So has every mesh, which is of a primitive of its own.
LEMMA MeshNameDiffers ==
    ASSUME Read
    PROVE  /\ DOMAIN meshes = 1 .. Len(meshes) /\ Len(meshes) \in Nat
           /\ \A k \in DOMAIN meshes :
                 /\ IsList(MeshName(k))
                 /\ meshes[k].source \in DOMAIN file.prims
                 /\ DOMAIN meshes[k].morphs = DOMAIN file.prims[meshes[k].source].morphs
           /\ \A i, k \in DOMAIN meshes : MeshName(i) = MeshName(k) => i = k
  <1>1. IsList(meshes) /\ OwnPrimitives(meshes) /\ file \in Files
    BY DEF Read, DocumentInv, EntriesInv, LossInv, MeshesInv, SkeletonInv, TypeInv
  <1>2. DOMAIN meshes = 1 .. Len(meshes) /\ Len(meshes) \in Nat
    BY <1>1 DEF IsList
  <1> QED
    BY <1>1, <1>2, MeshNamesDiffer DEF MeshName, OwnPrimitives, NoneTwice

IsMorph(k, t) == k \in DOMAIN meshes /\ t \in DOMAIN meshes[k].morphs

\* The morph targets of all the meshes, each once.
LEMMA MorphsAre ==
    ASSUME Read
    PROVE  /\ DOMAIN Morphs = 1 .. Len(Morphs) /\ Len(Morphs) \in Nat
           /\ NoneTwice(Morphs)
           /\ \A c \in DOMAIN Morphs : \E k, t : IsMorph(k, t) /\ Morphs[c] = <<k, t>>
           /\ \A k, t : IsMorph(k, t) => \E c \in DOMAIN Morphs : Morphs[c] = <<k, t>>
  <1> DEFINE own(k) == [t \in DOMAIN meshes[k].morphs |-> <<k, t>>]
             seqs == [k \in DOMAIN meshes |-> own(k)]
             V == Nat \X Nat
  <1>1. PICK n \in Nat : n = Len(meshes)
    BY MeshNameDiffers
  <1>2. DOMAIN meshes = 1 .. n /\ file \in Files
    BY <1>1, MeshNameDiffers DEF Read, DocumentInv, SkeletonInv, TypeInv
  <1>3. ASSUME NEW k \in 1 .. n PROVE \E l \in Nat : DOMAIN meshes[k].morphs = 1 .. l
    <2>1. PICK q \in DOMAIN file.prims : DOMAIN meshes[k].morphs = DOMAIN file.prims[q].morphs
      BY <1>2, MeshNameDiffers
    <2>2. PICK p : p = file.prims[q]
      OBVIOUS
    <2>3. p.morphs \in Seq({0, p.points})
      BY <1>2, <2>2, PrimitiveFacts DEF Accessors
    <2>4. Len(p.morphs) \in Nat /\ DOMAIN p.morphs = 1 .. Len(p.morphs)
      BY <2>3
    <2> QED
      BY <2>1, <2>2, <2>4
  <1>4. ASSUME NEW k \in 1 .. n
        PROVE  /\ own(k) \in Seq(V) /\ NoneTwice(own(k))
               /\ Range(own(k)) = {<<k, t>> : t \in DOMAIN meshes[k].morphs}
    <2>1. PICK l \in Nat : DOMAIN meshes[k].morphs = 1 .. l
      BY <1>3
    <2>2. own(k) \in Seq(V)
      BY <1>1, <2>1
    <2>3. NoneTwice(own(k))
      BY <2>1 DEF NoneTwice
    <2>4. Range(own(k)) = {<<k, t>> : t \in DOMAIN meshes[k].morphs}
      BY DEF Range
    <2> QED
      BY <2>2, <2>3, <2>4
  <1> HIDE DEF own, V
  <1>5. DOMAIN seqs = 1 .. n /\ Len(seqs) = n /\ \A k \in 1 .. n : seqs[k] = own(k)
    <2>1. DOMAIN seqs = 1 .. n /\ \A k \in 1 .. n : seqs[k] = own(k)
      BY <1>2
    <2>2. seqs = [k \in 1 .. n |-> seqs[k]]
      BY <1>2
    <2> HIDE DEF seqs
    <2> QED
      BY <1>1, <2>1, <2>2, ListByPlace
  <1>6. n = 0 => seqs = << >>
    <2>1. IsList(seqs)
      <3>1. seqs = [k \in 1 .. n |-> seqs[k]]
        BY <1>2
      <3> HIDE DEF seqs
      <3> QED
        BY <1>5, <3>1, ListByPlace
    <2> HIDE DEF seqs
    <2> QED
      BY <1>5, <2>1 DEF IsList
  <1>7. Morphs = FlattenSeq(seqs)
    BY DEF Morphs, own
  <1> HIDE DEF seqs
  <1>8. PICK s : s = seqs
    OBVIOUS
  <1>9. ASSUME NEW i \in 1 .. n, NEW k \in 1 .. n, i # k PROVE Range(s[i]) \cap Range(s[k]) = {}
    BY <1>4, <1>5, <1>8, <1>9
  <1>10. /\ \A k \in 1 .. n : s[k] \in Seq(V) /\ NoneTwice(s[k])
         /\ DOMAIN s = 1 .. n /\ Len(s) = n /\ (n = 0 => s = << >>)
    BY <1>4, <1>5, <1>6, <1>8
  <1>11. /\ FlattenSeq(s) \in Seq(V) /\ NoneTwice(FlattenSeq(s))
         /\ Range(FlattenSeq(s)) = UNION {Range(s[k]) : k \in 1 .. n}
    BY <1>9, <1>10, Flattened
  <1>12. PICK m \in Seq(V) : m = Morphs
    BY <1>7, <1>8, <1>11
  <1>13. /\ NoneTwice(m)
         /\ Range(m) = UNION {{<<k, t>> : t \in DOMAIN meshes[k].morphs} : k \in 1 .. n}
    BY <1>4, <1>5, <1>7, <1>8, <1>11, <1>12
  <1>14. DOMAIN m = 1 .. Len(m) /\ Len(m) \in Nat
    OBVIOUS
  <1>15. ASSUME NEW c \in DOMAIN m
         PROVE  \E k, t : IsMorph(k, t) /\ m[c] = <<k, t>>
    <2>1. m[c] \in Range(m)
      BY DEF Range
    <2> QED
      BY <1>2, <1>13, <2>1 DEF IsMorph
  <1>16. ASSUME NEW k, NEW t, IsMorph(k, t)
         PROVE  \E c \in DOMAIN m : m[c] = <<k, t>>
    <2>1. <<k, t>> \in Range(m)
      BY <1>2, <1>13, <1>16 DEF IsMorph
    <2> QED
      BY <2>1 DEF Range
  <1> QED
    BY <1>2, <1>12, <1>13, <1>14, <1>15, <1>16

\* A name, whatever it is joined to, is a name.
LEMMA JoinedNames ==
    ASSUME NEW s, IsList(s), NEW raw, IsName(raw), NEW foreign, NEW w
    PROVE  IsName(Raw(s \o raw.name, foreign)) /\ IsName(Raw(Append(s, w), foreign))
  <1>1. PICK V : V = {s[i] : i \in DOMAIN s} \cup Range(raw.name)
    OBVIOUS
  <1>2. s \in Seq(V)
    BY <1>1 DEF IsList
  <1>3. PICK t \in Seq(V) : t = raw.name
    <2>1. PICK W : W = Range(raw.name)
      OBVIOUS
    <2>2. PICK t \in Seq(W) : t = raw.name
      BY <2>1 DEF IsName, IsArray
    <2>3. W \subseteq V
      BY <1>1, <2>1
    <2>4. t \in Seq(V)
      BY <2>3
    <2> QED
      BY <2>2, <2>4
  <1>4. PICK u \in Seq(V) : u = s \o t
    BY <1>2, ConcatProperties
  <1>5. IsName(Raw(u, foreign)) /\ IsName(Raw(Append(s, w), foreign))
    BY <1>2, RawNames
  <1> QED
    BY <1>3, <1>4, <1>5

\* Every morph target has a name of its own, and it is the name it is asked for by.
LEMMA MorphNamesDiffer ==
    ASSUME Read
    PROVE  /\ DOMAIN MorphNames = DOMAIN Morphs /\ NoneTwice(MorphNames)
           /\ \A c \in DOMAIN Morphs : MorphName(Morphs[c][1], Morphs[c][2]) = MorphNames[c]
  <1> DEFINE raws == [c \in DOMAIN Morphs |-> RawMorphName(Morphs[c][1], Morphs[c][2])]
  <1>1. DOMAIN Morphs = 1 .. Len(Morphs) /\ Len(Morphs) \in Nat
    BY MorphsAre
  <1>2. IsList(raws)
    <2>1. DOMAIN raws = 1 .. Len(Morphs)
      BY <1>1
    <2>2. raws = [i \in 1 .. Len(Morphs) |-> raws[i]]
      BY <1>1
    <2> HIDE DEF raws
    <2> QED
      BY <1>1, <2>1, <2>2, ListByPlace
  <1>3. ASSUME NEW c \in DOMAIN raws PROVE IsName(raws[c])
    <2>1. PICK k, t : IsMorph(k, t) /\ Morphs[c] = <<k, t>>
      BY MorphsAre
    <2>2. PICK q \in DOMAIN file.prims : q = meshes[k].source
      BY <2>1, MeshNameDiffers DEF IsMorph
    <2>3. PICK named : named = file.prims[q].targetNames
      OBVIOUS
    <2>4. file \in Files
      BY DEF Read, DocumentInv, SkeletonInv, TypeInv
    <2>5. \A i \in DOMAIN named : IsName(named[i])
      BY <2>3, <2>4, SceneAssumption
    <2>6. IsList(MeshName(k))
      BY <2>1, MeshNameDiffers DEF IsMorph
    <2>7. raws[c] = RawMorphName(k, t)
      BY <2>1
    <2>8. IsName(NoName)
      BY DEF NoName, Raw, IsName, IsArray, Range
    <2>9. CASE t \in DOMAIN named /\ named[t] # NoName
      <3>1. RawMorphName(k, t) = Raw(MeshName(k) \o named[t].name, named[t].foreign)
        BY <2>2, <2>3, <2>9 DEF RawMorphName
      <3> QED
        BY <2>5, <2>6, <2>7, <2>9, <3>1, JoinedNames
    <2>10. CASE ~(t \in DOMAIN named /\ named[t] # NoName)
      <3>1. RawMorphName(k, t) = Raw(Append(MeshName(k), Numbered("morph", t - 1)), FALSE)
        BY <2>2, <2>3, <2>10 DEF RawMorphName
      <3> QED
        BY <2>6, <2>7, <2>8, <3>1, JoinedNames
    <2> QED
      BY <2>9, <2>10
  <1>4. MorphNames = VrmMakeUniqueNames(raws, "Morph") /\ DOMAIN raws = DOMAIN Morphs
    BY DEF MorphNames
  <1> HIDE DEF raws
  <1>5. DOMAIN MorphNames = DOMAIN raws /\ NoneTwice(MorphNames)
    BY <1>2, <1>3, <1>4, UniqueNames
  <1>6. ASSUME NEW c \in DOMAIN Morphs
        PROVE  MorphName(Morphs[c][1], Morphs[c][2]) = MorphNames[c]
    <2>1. PICK k, t : Morphs[c] = <<k, t>>
      BY MorphsAre
    <2>2. (CHOOSE d \in DOMAIN Morphs : Morphs[d] = <<k, t>>) = c
      BY <2>1, MorphsAre DEF NoneTwice
    <2>3. MorphName(k, t) = MorphNames[c]
      BY <2>2 DEF MorphName
    <2> QED
      BY <2>1, <2>3
  <1> QED
    BY <1>4, <1>5, <1>6

-----------------------------------------------------------------------------
(* The meshes and the blend shapes of the stage *)

\* A mesh of the stage is that of a mesh of the document, and every one has its own.
LEMMA GeoOfStage ==
    ASSUME Read, usda = Stage
    PROVE  /\ \A m \in Range(usda.geo) : \E k \in DOMAIN meshes : m = GeoPrim(k)
           /\ \A k \in DOMAIN meshes :
                 GeoPrim(k) \in Range(usda.geo) /\ usda.geo[MeshName(k)] = GeoPrim(k)
  <1> DEFINE prims == [k \in DOMAIN meshes |-> GeoPrim(k)]
  <1>1. usda.geo = Define(prims)
    BY DEF Stage, GeoPrims
  <1>2. PICK n \in Nat : n = Len(meshes)
    BY MeshNameDiffers
  <1>3. /\ DOMAIN prims = 1 .. n /\ DOMAIN prims = DOMAIN meshes
        /\ \A k \in DOMAIN prims : prims[k] = GeoPrim(k) /\ prims[k].name = MeshName(k)
    BY <1>2, MeshNameDiffers DEF GeoPrim
  <1>4. \A i, k \in DOMAIN prims : prims[i].name = prims[k].name => i = k
    BY <1>3, MeshNameDiffers
  <1> HIDE DEF prims
  <1>5. \A x \in Range(Define(prims)) : \E i \in DOMAIN prims : x = prims[i]
    BY <1>3, Defined
  <1>6. \A i \in DOMAIN prims : /\ Define(prims)[prims[i].name] = prims[i]
                                /\ prims[i] \in Range(Define(prims))
    BY <1>3, <1>4, Defined
  <1> QED
    BY <1>1, <1>3, <1>5, <1>6

\* A mesh's points are turned or the mesh stands turned.
LEMMA MeshesAreTurned ==
    ASSUME Read, usda = Stage, NEW m \in Range(usda.geo)
    PROVE  (IF m.turned THEN 1 ELSE 0) + Fronts(m.place) = FrontTurns
  <1>1. PICK k \in DOMAIN meshes : m = GeoPrim(k)
    BY GeoOfStage
  <1>2. PICK n : n = meshes[k].node
    OBVIOUS
  <1>3. n \in Nodes /\ file \in Files
    <2>1. meshes[k].source \in DOMAIN file.prims /\ file \in Files
      BY MeshNameDiffers DEF Read, DocumentInv, SkeletonInv, TypeInv
    <2>2. n = file.prims[meshes[k].source].node
      BY <1>2 DEF Read, DocumentInv, LossInv, SourceInv
    <2> QED
      BY <2>1, <2>2, PrimitivesAssumption
  <1>4. m.turned = Turned(k)
    BY <1>1 DEF GeoPrim
  <1>5. m.place = IF IsSkinned(k) THEN << >> ELSE WorldOf(n) \o FrontBake
    BY <1>1, <1>2 DEF GeoPrim
  <1>6. Fronts(<< >>) = 0
    <2>1. {q \in DOMAIN << >> : << >>[q] = FrontTurn} = {}
      OBVIOUS
    <2> QED
      BY <2>1, FS_EmptySet DEF Fronts
  <1>7. Fronts(WorldOf(n) \o FrontBake) = FrontTurns
    <2>1. PICK s \in Seq(Nodes) : s = <<n>> \o file.above[n]
      <3>1. PICK a \in Seq(Nodes) : a = file.above[n]
        BY <1>3, FileFacts
      <3>2. PICK b \in Seq(Nodes) : b = <<n>>
        <4>1. <<n>> \in Seq(Nodes)
          BY <1>3
        <4> QED
          BY <4>1
      <3>3. b \o a \in Seq(Nodes)
        BY ConcatProperties
      <3> QED
        BY <3>1, <3>2, <3>3
    <2>2. WorldOf(n) = Locals(s)
      BY <2>1 DEF WorldOf
    <2> QED
      BY <2>2, FrontsOfLocals
  <1>8. CASE IsSkinned(k)
    <2>1. m.turned = BakeFront
      BY <1>4, <1>8, Zenon DEF Turned, BakeFront
    <2>2. (IF m.turned THEN 1 ELSE 0) = FrontTurns
      BY <2>1, Zenon DEF FrontTurns
    <2>3. Fronts(m.place) = 0
      BY <1>5, <1>6, <1>8
    <2> QED
      BY <2>2, <2>3 DEF FrontTurns
  <1>9. CASE ~IsSkinned(k)
    <2>1. m.turned = FALSE
      BY <1>4, <1>9, Zenon DEF Turned
    <2>2. (IF m.turned THEN 1 ELSE 0) = 0
      BY <2>1, Zenon
    <2>3. Fronts(m.place) = FrontTurns
      BY <1>5, <1>7, <1>9
    <2> QED
      BY <2>2, <2>3 DEF FrontTurns
  <1> QED
    BY <1>8, <1>9

\* The blend shapes of the stage are the document's morph targets.
LEMMA BlendShapesOfStage ==
    ASSUME Read, usda = Stage, NEW b \in Range(usda.blendShapes)
    PROVE  HasSkel /\ \E c \in DOMAIN Morphs : b = BlendShapePrim(c)
  <1> DEFINE prims == [c \in DOMAIN Morphs |-> BlendShapePrim(c)]
  <1>1. usda.blendShapes = IF HasSkel THEN Define(prims) ELSE << >>
    BY DEF Stage, BlendShapePrims
  <1>2. HasSkel
    BY <1>1 DEF Range
  <1>3. PICK n \in Nat : n = Len(Morphs)
    BY MorphsAre
  <1>4. DOMAIN prims = 1 .. n /\ DOMAIN prims = DOMAIN Morphs
    BY <1>3, MorphsAre
  <1>5. \A c \in DOMAIN Morphs : prims[c] = BlendShapePrim(c)
    OBVIOUS
  <1> HIDE DEF prims
  <1>6. \A x \in Range(Define(prims)) : \E i \in DOMAIN prims : x = prims[i]
    BY <1>4, Defined
  <1> QED
    BY <1>1, <1>2, <1>4, <1>5, <1>6

\* A blend shape's offsets are turned with the points of the mesh that has it.
LEMMA BlendShapesTurn ==
    ASSUME Read, usda = Stage, NEW b \in Range(usda.blendShapes)
    PROVE  b.turned <=> \E m \in Range(usda.geo) : m.turned /\ b.name \in Range(m.blendShapes)
  <1>1. HasSkel
    BY BlendShapesOfStage
  <1>2. PICK c \in DOMAIN Morphs : b = BlendShapePrim(c)
    BY BlendShapesOfStage
  <1>3. PICK k, t : IsMorph(k, t) /\ Morphs[c] = <<k, t>>
    BY MorphsAre
  <1>4. b.name = MorphNames[c] /\ b.turned = Turned(k)
    <2>1. Morphs[c][1] = k
      BY <1>3
    <2> QED
      BY <1>2, <2>1 DEF BlendShapePrim
  <1>5. ASSUME NEW i \in DOMAIN meshes
        PROVE  /\ GeoPrim(i).turned = Turned(i)
               /\ Range(GeoPrim(i).blendShapes)
                     = {MorphName(i, u) : u \in DOMAIN meshes[i].morphs}
    <2>1. GeoPrim(i).blendShapes = [u \in DOMAIN meshes[i].morphs |-> MorphName(i, u)]
      BY <1>1 DEF GeoPrim
    <2>2. Range([u \in DOMAIN meshes[i].morphs |-> MorphName(i, u)])
             = {MorphName(i, u) : u \in DOMAIN meshes[i].morphs}
      BY DEF Range
    <2> QED
      BY <2>1, <2>2 DEF GeoPrim
  <1>6. ASSUME Turned(k)
        PROVE  \E m \in Range(usda.geo) : m.turned /\ b.name \in Range(m.blendShapes)
    <2>1. k \in DOMAIN meshes /\ t \in DOMAIN meshes[k].morphs
      BY <1>3 DEF IsMorph
    <2>2. b.name = MorphName(k, t)
      BY <1>3, <1>4, MorphNamesDiffer
    <2>3. b.name \in Range(GeoPrim(k).blendShapes)
      BY <1>5, <2>1, <2>2
    <2> QED
      BY <1>5, <1>6, <2>1, <2>3, GeoOfStage
  <1>7. ASSUME NEW m \in Range(usda.geo), m.turned, b.name \in Range(m.blendShapes)
        PROVE  Turned(k)
    <2>1. PICK i \in DOMAIN meshes : m = GeoPrim(i)
      BY GeoOfStage
    <2>2. PICK u \in DOMAIN meshes[i].morphs : b.name = MorphName(i, u)
      BY <1>5, <1>7, <2>1
    <2>3. IsMorph(i, u)
      BY DEF IsMorph
    <2>4. PICK d \in DOMAIN Morphs : Morphs[d] = <<i, u>>
      BY <2>3, MorphsAre
    <2>5. MorphNames[d] = MorphNames[c]
      BY <1>4, <2>2, <2>4, MorphNamesDiffer
    <2>6. d = c
      BY <2>5, MorphNamesDiffer DEF NoneTwice
    <2>7. i = k
      BY <1>3, <2>4, <2>6
    <2> QED
      BY <1>5, <1>7, <2>1, <2>7
  <1> QED
    BY <1>4, <1>6, <1>7

-----------------------------------------------------------------------------
(* The joints' paths and the clips of the stage *)

\* A joint's path is one name if it is a root, and its parent's with a name more if not.
LEMMA PathsAre ==
    ASSUME Read, NEW i \in DOMAIN joints
    PROVE  /\ JointPaths[i] = IF joints[i].parent = 0 THEN <<JointName(i)>>
                              ELSE Append(JointPaths[joints[i].parent], JointName(i))
           /\ JointPaths[i] \in Seq({JointName(k) : k \in DOMAIN joints})
           /\ Len(JointPaths[i]) = 1 <=> joints[i].parent = 0
           /\ DOMAIN JointPaths = DOMAIN joints
  <1> DEFINE N == {JointName(k) : k \in DOMAIN joints}
             V == Seq(N) \ {<< >>}
             n == Len(joints)
             up(k) == joints[k].parent
             at(k, f) == IF joints[k].parent = 0 THEN <<JointName(k)>>
                         ELSE Append(f[joints[k].parent], JointName(k))
             Fits(w) == w = [k \in DOMAIN joints |-> at(k, w)]
             w == CHOOSE w : Fits(w)
             F == [k \in 1 .. n |-> [f \in [1 .. n -> V] |-> at(k, f)]]
  <1>1. JointPaths = w
    BY DEF JointPaths
  <1>2. /\ DOMAIN joints = 1 .. n /\ n \in Nat
        /\ \A k \in DOMAIN joints : up(k) # 0 => up(k) \in 1 .. k - 1
    BY JointTree
  <1>3. ASSUME NEW k \in 1 .. n, NEW f, up(k) # 0 => f[up(k)] \in V
        PROVE  at(k, f) \in V /\ (Len(at(k, f)) = 1 <=> up(k) = 0)
    <2>1. PICK name \in N : name = JointName(k)
      BY <1>2
    <2> HIDE DEF N
    <2>2. CASE up(k) = 0
      BY <2>1, <2>2
    <2>3. CASE up(k) # 0
      <3>1. PICK s \in Seq(N) : s = f[up(k)] /\ s # << >>
        BY <1>3, <2>3
      <3>2. Len(s) \in Nat \ {0}
        BY <3>1
      <3>3. Append(s, name) \in V /\ Len(Append(s, name)) # 1
        BY <3>2
      <3> QED
        BY <2>1, <2>3, <3>1, <3>3
    <2> QED
      BY <2>2, <2>3
  <1> HIDE DEF V
  <1>4. Causal(1, n, V, F)
    <2>1. F \in [1 .. n -> [[1 .. n -> V] -> V]]
      <3>1. ASSUME NEW k \in 1 .. n, NEW f \in [1 .. n -> V] PROVE at(k, f) \in V
        <4>1. up(k) # 0 => up(k) \in 1 .. n
          BY <1>2
        <4>2. up(k) # 0 => f[up(k)] \in V
          BY <4>1
        <4> HIDE DEF at
        <4> QED
          BY <1>3, <4>2
      <3> HIDE DEF at
      <3> QED
        BY <3>1
    <2>2. ASSUME NEW k \in 1 .. n, NEW g \in [1 .. n -> V], NEW h \in [1 .. n -> V],
                 \A j \in 1 .. k - 1 : g[j] = h[j]
          PROVE  F[k][g] = F[k][h]
      <3>1. up(k) # 0 => g[up(k)] = h[up(k)]
        BY <1>2, <2>2
      <3> QED
        BY <3>1
    <2>3. V # {}
      <3>1. PICK name \in N : TRUE
        OBVIOUS
      <3>2. <<name>> \in Seq(N) /\ <<name>> # << >>
        BY <3>1
      <3> QED
        BY <3>2 DEF V
    <2> HIDE DEF F
    <2> QED
      BY <2>1, <2>2, <2>3 DEF Causal
  <1>5. PICK f \in [1 .. n -> V] : \A k \in 1 .. n : f[k] = F[k][f]
    <2> HIDE DEF F
    <2> QED
      BY <1>2, <1>4, RecursiveFunction
  <1>6. Fits(w)
    <2>1. \A k \in 1 .. n : f[k] = at(k, f)
      BY <1>5
    <2>2. f = [k \in 1 .. n |-> f[k]]
      OBVIOUS
    <2>3. Fits(f)
      <3> HIDE DEF at, n
      <3> QED
        BY <1>2, <2>1, <2>2
    <2> HIDE DEF Fits
    <2> QED
      BY <2>3
  <1>7. DOMAIN w = DOMAIN joints /\ \A k \in DOMAIN joints : w[k] = at(k, w)
    <2> HIDE DEF w, at
    <2> QED
      BY <1>6
  <1> HIDE DEF w, at, Fits, F
  <1> DEFINE S == {k \in 1 .. n : w[k] \in V}
  <1>8. ASSUME NEW k \in 1 .. n, \A j \in 1 .. k - 1 : j \in S PROVE k \in S
    <2>1. up(k) # 0 => w[up(k)] \in V
      BY <1>2, <1>8
    <2> QED
      BY <1>2, <1>3, <1>7, <2>1
  <1> HIDE DEF S
  <1>9. \A k \in 1 .. n : k \in S
    BY <1>2, <1>8, StrongInduction
  <1>10. w[i] \in Seq(N) /\ w[i] = at(i, w) /\ (Len(w[i]) = 1 <=> up(i) = 0)
    <2>1. \A k \in 1 .. n : w[k] \in V
      BY <1>9 DEF S
    <2>2. up(i) # 0 => up(i) \in 1 .. n
      BY <1>2
    <2>3. up(i) # 0 => w[up(i)] \in V
      BY <2>1, <2>2
    <2>4. Len(at(i, w)) = 1 <=> up(i) = 0
      BY <1>2, <1>3, <2>3
    <2> QED
      BY <1>2, <1>7, <2>1, <2>4 DEF V
  <1> QED
    BY <1>1, <1>7, <1>10 DEF at

\* A clip of the stage is a clip of the file; it moves joints of the skeleton.
LEMMA ClipsOfStage ==
    ASSUME Read, scene = Scene, usda = Stage, NEW clip \in Range(usda.animations)
    PROVE  \E moved :
              /\ \A k \in DOMAIN moved : moved[k] \in DOMAIN joints
              /\ clip.joints = [k \in DOMAIN moved |-> JointPaths[moved[k]]]
              /\ clip.turned = [k \in DOMAIN moved |-> BakeFront /\ IsRootJoint(moved[k])]
  <1> DEFINE names == VrmMakeUniqueNames([a \in DOMAIN file.clips |-> file.clips[a].name], "Clip")
             clips == [a \in DOMAIN file.clips |-> ReadClip(names[a], file.clips[a])]
             P == {a \in DOMAIN clips : DOMAIN clips[a].pose # {}}
             all == scene.animations
             prims == [a \in DOMAIN all |-> ClipPrim(a)]
  <1>1. usda.animations = Define(prims)
    BY DEF Stage, ClipPrims
  <1>2. all = IF joints = << >> THEN << >> ELSE Entries(clips, P)
    BY DEF Scene, ReadAnimations
  <1>3. DOMAIN clips = 1 .. Len(file.clips) /\ Len(file.clips) \in Nat
    <2>1. file \in Files
      BY DEF Read, DocumentInv, SkeletonInv, TypeInv
    <2>2. file.clips \in Seq(Range(file.clips))
      BY <2>1, SceneAssumption DEF IsArray
    <2> QED
      BY <2>2
  <1>4. \A a \in DOMAIN clips : clips[a] = ReadClip(names[a], file.clips[a])
    OBVIOUS
  <1> HIDE DEF clips, names
  <1>5. /\ Cardinality(P) \in Nat
        /\ Entries(clips, P) = [i \in 1 .. Cardinality(P) |-> clips[InOrder(P)[i]]]
        /\ \A i \in 1 .. Cardinality(P) : InOrder(P)[i] \in P
    <2>1. PICK Q : Q = P
      OBVIOUS
    <2>2. PICK n \in Nat : n = Len(file.clips)
      BY <1>3
    <2>3. Q \in SUBSET (1 .. n)
      BY <1>3, <2>1, <2>2
    <2>4. PICK s : s = clips
      OBVIOUS
    <2>5. Cardinality(Q) \in Nat /\ \A i \in 1 .. Cardinality(Q) : InOrder(Q)[i] \in Q
      BY <2>3, EntriesAre
    <2>6. Entries(s, Q) = [i \in 1 .. Cardinality(Q) |-> s[InOrder(Q)[i]]]
      BY DEF Entries
    <2> QED
      BY <2>1, <2>4, <2>5, <2>6
  <1>6. \E n \in Nat : DOMAIN all = 1 .. n
    <2>1. CASE joints = << >>
      BY <1>2, <2>1
    <2>2. CASE joints # << >>
      BY <1>2, <1>5, <2>2
    <2> QED
      BY <2>1, <2>2
  <1>7. ASSUME NEW a \in DOMAIN all PROVE \E b \in DOMAIN clips : all[a] = clips[b]
    <2>1. joints # << >>
      BY <1>2
    <2> HIDE DEF all
    <2>2. all = [i \in 1 .. Cardinality(P) |-> clips[InOrder(P)[i]]]
      BY <1>2, <1>5, <2>1
    <2>3. all[a] = clips[InOrder(P)[a]] /\ InOrder(P)[a] \in P
      BY <1>5, <1>7, <2>2
    <2> QED
      BY <2>3
  <1>8. PICK a \in DOMAIN all : clip = ClipPrim(a)
    <2>1. DOMAIN prims = DOMAIN all /\ \A a \in DOMAIN all : prims[a] = ClipPrim(a)
      OBVIOUS
    <2> HIDE DEF prims, all
    <2>2. \A x \in Range(Define(prims)) : \E i \in DOMAIN prims : x = prims[i]
      BY <1>6, <2>1, Defined
    <2> QED
      BY <1>1, <2>1, <2>2
  <1>9. PICK b \in DOMAIN clips : all[a] = clips[b]
    BY <1>7
  <1>10. PICK c : c = file.clips[b]
    OBVIOUS
  <1> DEFINE animated == {k[1] : k \in DOMAIN ClipTracks(c)}
             js == InOrder(animated)
  <1>11. all[a].joints = js
    BY <1>4, <1>9, <1>10 DEF ReadClip
  <1>12. animated \subseteq DOMAIN joints
    <2>1. /\ jointOf \in [Nodes -> 0 .. Len(jointNodes)] /\ Len(joints) = Len(jointNodes)
          /\ DOMAIN joints = 1 .. Len(joints) /\ Len(joints) \in Nat
      BY DEF Read, DocumentInv, SkeletonInv, TypeInv, SkeletonTypeOK
    <2>2. ASSUME NEW n, NodeJoint(n) # 0 PROVE NodeJoint(n) \in DOMAIN joints
      BY <2>1, <2>2 DEF NodeJoint
    <2>3. \A k \in DOMAIN ClipTracks(c) : \E i \in JointChannels(c) :
             k = <<NodeJoint(c.channels[i].node), c.channels[i].path>>
      BY DEF ClipTracks
    <2>4. \A i \in JointChannels(c) : NodeJoint(c.channels[i].node) # 0
      BY DEF JointChannels
    <2>5. ASSUME NEW k \in DOMAIN ClipTracks(c) PROVE k[1] \in DOMAIN joints
      <3>1. PICK i \in JointChannels(c) :
               k = <<NodeJoint(c.channels[i].node), c.channels[i].path>>
        BY <2>3
      <3>2. k[1] = NodeJoint(c.channels[i].node)
        BY <3>1
      <3> QED
        BY <2>2, <2>4, <3>2
    <2> QED
      BY <2>5
  <1>13. IsFiniteSet(animated) /\ animated \in SUBSET Int
    <2>1. DOMAIN joints = 1 .. Len(joints) /\ Len(joints) \in Nat
      BY DEF Read, DocumentInv, SkeletonInv, TypeInv, SkeletonTypeOK
    <2>2. PICK I \in {1 .. Len(joints)} : IsFiniteSet(I)
      BY <2>1, FS_Interval
    <2>3. animated \in SUBSET I
      BY <1>12, <2>1, <2>2
    <2> HIDE DEF animated
    <2>4. IsFiniteSet(animated)
      BY <2>2, <2>3, FS_Subset
    <2> QED
      BY <2>1, <2>2, <2>3, <2>4
  <1> HIDE DEF animated, js
  <1>14. Cardinality(animated) \in Nat /\ js \in [1 .. Cardinality(animated) -> animated]
    BY <1>13, InOrderLists DEF js
  <1>15. \A k \in DOMAIN js : js[k] \in DOMAIN joints
    BY <1>12, <1>14
  <1>16. /\ clip.joints = [k \in DOMAIN js |-> JointPaths[js[k]]]
         /\ clip.turned = [k \in DOMAIN js |-> BakeFront /\ IsRootJoint(js[k])]
    BY <1>8, <1>11 DEF ClipPrim
  <1> QED
    BY <1>15, <1>16

\* Whatever a clip moves, every joint is turned once.
LEMMA ClipsTurnOnce ==
    ASSUME Read, scene = Scene, usda = Stage, NEW clip \in Range(usda.animations),
           NEW i \in DOMAIN joints
    PROVE  TurnsInClip(clip)[i] = FrontTurns
  <1> DEFINE own(k) == IF JointPaths[k] \in Range(clip.joints)
                       THEN IF clip.turned[IndexOf(JointPaths[k], clip.joints)] THEN 1 ELSE 0
                       ELSE Fronts(usda.skeleton.rest[k])
             Fits(w) == w = [k \in DOMAIN joints |->
                               IF joints[k].parent = 0 THEN own(k) ELSE own(k) + w[joints[k].parent]]
             w == CHOOSE w : Fits(w)
             h == [k \in DOMAIN joints |-> FrontTurns]
  <1>1. TurnsInClip(clip) = w
    BY DEF TurnsInClip
  <1>2. /\ DOMAIN joints = 1 .. Len(joints) /\ Len(joints) \in Nat
        /\ \A k \in DOMAIN joints : joints[k].parent # 0 => joints[k].parent \in 1 .. k - 1
    BY JointTree
  <1>3. FrontTurns \in Nat /\ FrontTurns + 0 = FrontTurns /\ 0 + FrontTurns = FrontTurns
    BY DEF FrontTurns
  <1>4. PICK moved :
           /\ \A k \in DOMAIN moved : moved[k] \in DOMAIN joints
           /\ clip.joints = [k \in DOMAIN moved |-> JointPaths[moved[k]]]
           /\ clip.turned = [k \in DOMAIN moved |-> BakeFront /\ IsRootJoint(moved[k])]
    BY ClipsOfStage
  <1>5. ASSUME NEW k \in DOMAIN joints
        PROVE  own(k) = IF joints[k].parent = 0 THEN FrontTurns ELSE 0
    <2>1. CASE JointPaths[k] \in Range(clip.joints)
      <3> DEFINE q == IndexOf(JointPaths[k], clip.joints)
      <3>1. q \in DOMAIN clip.joints /\ clip.joints[q] = JointPaths[k]
        BY <2>1 DEF IndexOf, Range
      <3> HIDE DEF q
      <3>2. PICK r \in DOMAIN joints : r = moved[q] /\ JointPaths[r] = JointPaths[k]
        BY <1>4, <3>1
      <3>3. joints[r].parent = 0 <=> joints[k].parent = 0
        <4>1. Len(JointPaths[r]) = 1 <=> joints[r].parent = 0
          BY PathsAre
        <4>2. Len(JointPaths[k]) = 1 <=> joints[k].parent = 0
          BY PathsAre
        <4> QED
          BY <3>2, <4>1, <4>2
      <3>4. clip.turned[q] = (BakeFront /\ IsRootJoint(r))
        <4>1. q \in DOMAIN moved
          BY <1>4, <3>1
        <4>2. clip.turned[q] = (BakeFront /\ IsRootJoint(moved[q]))
          BY <1>4, <4>1
        <4> QED
          BY <3>2, <4>2
      <3>5. clip.turned[q] <=> BakeFront /\ joints[k].parent = 0
        BY <3>3, <3>4 DEF IsRootJoint
      <3>6. own(k) = IF clip.turned[q] THEN 1 ELSE 0
        BY <2>1 DEF q
      <3> HIDE DEF own
      <3> QED
        BY <3>5, <3>6 DEF FrontTurns
    <2>2. CASE JointPaths[k] \notin Range(clip.joints)
      <3>1. own(k) = Fronts(usda.skeleton.rest[k])
        BY <2>2
      <3>2. PICK n \in Nodes : n = joints[k].node
        BY JointTree
      <3>3. PICK a \in Seq(Nodes) : a = file.above[n]
        BY <3>2, JointTree
      <3>4. PICK b \in Seq(Nodes) : b = <<n>>
        <4>1. <<n>> \in Seq(Nodes)
          OBVIOUS
        <4> QED
          BY <4>1
      <3>5. CASE joints[k].parent = 0
        <4>1. usda.skeleton.rest[k] = WorldOf(n) \o FrontBake
          BY <3>2, <3>5, SkeletonOfStage
        <4>2. PICK s \in Seq(Nodes) : s = b \o a
          BY ConcatProperties
        <4>3. WorldOf(n) = Locals(s)
          BY <3>3, <3>4, <4>2 DEF WorldOf
        <4>4. Fronts(Locals(s) \o FrontBake) = FrontTurns
          BY FrontsOfLocals
        <4> QED
          BY <3>1, <3>5, <4>1, <4>3, <4>4
      <3>6. CASE joints[k].parent # 0
        <4>1. PICK p : p = joints[k].frame
          OBVIOUS
        <4>2. usda.skeleton.rest[k] = Locals(UpTo(n, p))
          BY <3>2, <3>6, <4>1, SkeletonOfStage
        <4>3. file \in Files /\ p \in Nodes
          <5>1. joints[k].parent \in DOMAIN joints /\ joints[joints[k].parent].node = p
            BY <1>2, <3>6, <4>1, JointTree
          <5> QED
            BY <5>1, JointTree DEF Read, DocumentInv, SkeletonInv, TypeInv
        <4>4. \E l \in DOMAIN file.above[n] : file.above[n][l] = p
          BY <3>2, <3>6, <4>1, JointTree
        <4>5. UpTo(n, p) \in Seq(Nodes)
          BY <4>3, <4>4, UpToAncestor
        <4>6. PICK s \in Seq(Nodes) : s = UpTo(n, p)
          BY <4>5
        <4>7. Fronts(Locals(s)) = 0
          BY FrontsOfLocals
        <4> QED
          BY <3>1, <3>6, <4>2, <4>6, <4>7
      <3> QED
        BY <3>5, <3>6
    <2> QED
      BY <2>1, <2>2
  <1> HIDE DEF own
  <1>6. Fits(h)
    <2>1. ASSUME NEW k \in DOMAIN joints
          PROVE  h[k] = IF joints[k].parent = 0 THEN own(k) ELSE own(k) + h[joints[k].parent]
      <3>1. joints[k].parent # 0 => h[joints[k].parent] = FrontTurns
        BY <1>2
      <3>2. h[k] = FrontTurns
        OBVIOUS
      <3> HIDE DEF h
      <3> QED
        BY <1>3, <1>5, <3>1, <3>2
    <2>2. h = [k \in DOMAIN joints |-> h[k]]
      OBVIOUS
    <2> HIDE DEF h
    <2> QED
      BY <2>1, <2>2
  <1>7. Fits(w)
    <2> HIDE DEF Fits
    <2> QED
      BY <1>6
  <1>8. \A k \in DOMAIN joints :
           w[k] = IF joints[k].parent = 0 THEN own(k) ELSE own(k) + w[joints[k].parent]
    <2> HIDE DEF w
    <2> QED
      BY <1>7
  <1> HIDE DEF w, h, Fits
  <1> DEFINE S == {k \in 1 .. Len(joints) : w[k] = FrontTurns}
  <1>9. ASSUME NEW k \in 1 .. Len(joints), \A l \in 1 .. k - 1 : l \in S
        PROVE  k \in S
    BY <1>2, <1>3, <1>5, <1>8, <1>9
  <1> HIDE DEF S
  <1>10. \A k \in 1 .. Len(joints) : k \in S
    BY <1>2, <1>9, StrongInduction
  <1> QED
    BY <1>1, <1>2, <1>10 DEF S

\* Gravity is turned with the avatar.
LEMMA SpringsTurn ==
    ASSUME Read, scene = Scene, usda = Stage, NEW s \in Range(usda.springs)
    PROVE  s.gravityTurned <=> BakeFront
  <1> DEFINE prims == [k \in DOMAIN scene.springs |-> SpringPrim(k)]
  <1>1. usda.springs = Define(prims)
    BY DEF Stage, SpringPrims
  <1>2. \E n \in Nat : DOMAIN scene.springs = 1 .. n
    <2>1. PICK springs : springs = file.secondary.springs
      OBVIOUS
    <2>2. DOMAIN springs = 1 .. Len(springs) /\ Len(springs) \in Nat
      <3>1. springs \in Seq(Range(springs))
        BY <2>1, SceneAssumption DEF IsArray, Read, DocumentInv, SkeletonInv, TypeInv
      <3> QED
        BY <3>1
    <2>3. scene.springs = IF HasSecondary THEN ReadSprings ELSE << >>
      BY DEF Scene
    <2>4. DOMAIN ReadSprings = DOMAIN springs
      BY <2>1 DEF ReadSprings
    <2>5. CASE HasSecondary
      BY <2>2, <2>3, <2>4, <2>5
    <2>6. CASE ~HasSecondary
      BY <2>3, <2>6
    <2> QED
      BY <2>5, <2>6
  <1>3. DOMAIN prims = DOMAIN scene.springs /\ \A k \in DOMAIN prims : prims[k] = SpringPrim(k)
    OBVIOUS
  <1> HIDE DEF prims
  <1>4. \A x \in Range(Define(prims)) : \E k \in DOMAIN prims : x = prims[k]
    BY <1>2, <1>3, Defined
  <1>5. PICK k : s = SpringPrim(k)
    BY <1>1, <1>3, <1>4
  <1> QED
    BY <1>5 DEF SpringPrim

-----------------------------------------------------------------------------

(***************************************************************************)
(* For every file: an avatar of VRM 0.x is turned about once as a whole,   *)
(* and no other at all -- every joint's bind, every joint at rest and in   *)
(* every clip, every mesh and its morph targets and what hangs from them   *)
(* -- and each joint rests where its node stands in the file.  The turn is *)
(* put on root joints and unskinned meshes alone; that the rest follow is  *)
(* by induction along the joints' parents, whatever the skins' order.      *)
(***************************************************************************)
THEOREM FrontAlwaysTurnedOnce == ImportSpec => []FrontIsTurnedOnce
  <1>1. DocumentInv /\ EntriesInv /\ StageInv => FrontIsTurnedOnce
    <2> SUFFICES ASSUME DocumentInv, EntriesInv, StageInv, Authored
                 PROVE  FrontIsTurnedOnce
      BY DEF FrontIsTurnedOnce
    <2>1. Read /\ scene = Scene /\ usda = Stage
      BY DEF StageInv, Authored, Read
    <2>2. /\ FrontTurns = IF file.version = "Vrm0" THEN 1 ELSE 0
          /\ FrontBake = IF file.version = "Vrm0" THEN <<FrontTurn>> ELSE << >>
      BY FrontBakeFacts
    <2>3. ASSUME NEW i \in DOMAIN joints
          PROVE  /\ AtRest[i] = WorldOf(joints[i].node) \o FrontBake
                 /\ usda.skeleton.bind[i] =
                       (IF BindOf(joints[i].node).of = "ibm" THEN <<BindOf(joints[i].node)>>
                        ELSE WorldOf(joints[i].node)) \o FrontBake
      BY <2>1, JointsRestInPlace, JointsBindInPlace
    <2>4. \A m \in Range(usda.geo) : (IF m.turned THEN 1 ELSE 0) + Fronts(m.place) = FrontTurns
      BY <2>1, MeshesAreTurned
    <2>5. \A b \in Range(usda.blendShapes) :
             b.turned <=> \E m \in Range(usda.geo) : m.turned /\ b.name \in Range(m.blendShapes)
      BY <2>1, BlendShapesTurn
    <2>6. \A clip \in Range(usda.animations), i \in DOMAIN joints :
             TurnsInClip(clip)[i] = FrontTurns
      BY <2>1, ClipsTurnOnce
    <2>7. \A s \in Range(usda.springs) : s.gravityTurned <=> FrontTurns = 1
      BY <2>1, SpringsTurn DEF FrontTurns
    <2> QED
      BY <2>2, <2>3, <2>4, <2>5, <2>6, <2>7 DEF FrontIsTurnedOnce
  <1> QED
    BY <1>1, StageInvariant, PTL

-----------------------------------------------------------------------------
(* What the stage's names rest on *)

\* Every joint was named by a skin, and there are expressions only if the extension is read.
NamesInv ==
    /\ Ordered => \A i \in DOMAIN joints : joints[i].node \in Range(jointNodes)
    /\ expressions # << >> => Readable

LEMMA ReorderKeepsNamed ==
    ASSUME SkeletonInv, Reorder, NEW i \in DOMAIN joints'
    PROVE  joints'[i].node \in Range(jointNodes)
  <1>1. /\ step = "binds" /\ JointsTyped
        /\ DOMAIN joints' = DOMAIN joints
        /\ DOMAIN joints = DOMAIN jointNodes
    BY DEF Reorder, SkeletonInv, TypeInv, SkeletonTypeOK, JointsTyped
  <1>2. PICK old \in DOMAIN joints : old = OldIndex(i)
    BY <1>1, NewIndexNumbers
  <1>3. joints[old].node = jointNodes[old] /\ joints[old] \in Joint
    BY <1>1, JointFacts DEF SkeletonInv, PlacedInv
  <1>4. joints'[i].node = joints[old].node
    <2>1. PICK q : q = Moved(joints[old].parent)
      OBVIOUS
    <2>2. joints'[i] = [joints[old] EXCEPT !.parent = q]
      BY <1>1, <1>2, <2>1 DEF Reorder
    <2> QED
      BY <1>3, <2>2, ParentReplaced
  <1> QED
    BY <1>1, <1>3, <1>4 DEF Range

LEMMA NextKeepsNames == DocumentInv /\ NamesInv /\ [Next]_vars => NamesInv'
  <1> SUFFICES ASSUME DocumentInv, NamesInv, [Next]_vars PROVE NamesInv'
    OBVIOUS
  <1> DEFINE Joints == Ordered => \A i \in DOMAIN joints : joints[i].node \in Range(jointNodes)
  <1>1. ASSUME UNCHANGED <<jointNodes, joints>>, Ordered' => Ordered PROVE Joints'
    <2>1. CASE Ordered'
      BY <1>1, <2>1 DEF NamesInv
    <2> QED
      BY <2>1
  <1>2. ASSUME UNCHANGED <<file, expressions>> PROVE (expressions # << >> => Readable)'
    BY <1>2 DEF NamesInv, Readable
  <1> HIDE DEF Joints
  <1>3. CASE SkeletonNext /\ UNCHANGED <<meshes, bones, seen, expressions>>
    <2>1. file' = file
      BY <1>3 DEF SkeletonNext, UnifyJoint, PlaceJoints, ReadBind, Reorder
    <2>2. Joints'
      <3>1. CASE UnifyJoint
        BY <3>1 DEF UnifyJoint, Ordered, Joints
      <3>2. CASE PlaceJoints
        <4>1. SUFFICES ASSUME Ordered' PROVE DOMAIN joints' = {}
          BY DEF Joints
        <4>2. jointNodes = << >>
          BY <3>2, <4>1 DEF PlaceJoints, Ordered
        <4> QED
          BY <3>2, <4>2 DEF PlaceJoints
      <3>3. CASE ReadBind
        BY <3>3 DEF ReadBind, Ordered, Joints
      <3>4. CASE Reorder
        <4>1. jointNodes' = jointNodes /\ SkeletonInv
          BY <3>4 DEF Reorder, DocumentInv
        <4> QED
          BY <3>4, <4>1, ReorderKeepsNamed DEF Joints
      <3> QED
        BY <1>3, <3>1, <3>2, <3>3, <3>4 DEF SkeletonNext
    <2> QED
      BY <1>2, <1>3, <2>1, <2>2 DEF NamesInv, Joints
  <1>4. CASE ReadPrimitive /\ UNCHANGED <<bones, seen, expressions>>
    BY <1>1, <1>2, <1>4 DEF ReadPrimitive, Reading, Ordered, skeletonVars, NamesInv, Joints
  <1>5. CASE \/ SkipNotTriangles \/ SkipNoPosition \/ StartExtension \/ ReadBone \/ EndBones
             \/ ReadExpression \/ Finish
    <2>1. Ordered /\ UNCHANGED <<file, joints>>
      BY <1>5, LaterSteps
    <2>2. jointNodes' = jointNodes
      BY <1>5 DEF SkipNotTriangles, SkipNoPosition, Skip, StartExtension, ReadBone, EndBones,
                  ReadExpression, Finish, Document, skeletonVars
    <2>3. (expressions # << >> => Readable)'
      <3>1. CASE ReadExpression
        BY <2>1, <3>1 DEF ReadExpression, DocumentInv, LossInv, PassInv, Readable
      <3>2. CASE ~ReadExpression
        <4>1. UNCHANGED expressions
          BY <1>3, <1>4, <1>5, <3>2 DEF Next, MeshesNext, vars, StartExtension, ReadBone, EndBones,
                                    Finish, Document
        <4> QED
          BY <1>2, <2>1, <4>1
      <3> QED
        BY <3>1, <3>2
    <2> QED
      BY <1>1, <2>1, <2>2, <2>3 DEF NamesInv, Joints
  <1>6. CASE UNCHANGED vars
    <2>1. UNCHANGED <<file, step, jointNodes, joints, expressions>>
      BY <1>6 DEF vars, skeletonVars
    <2> QED
      BY <1>1, <1>2, <2>1 DEF NamesInv, Joints, Ordered
  <1> QED
    BY <1>3, <1>4, <1>5, <1>6 DEF Next, MeshesNext

LEMMA NamesInvariant == ImportSpec => [](DocumentInv /\ EntriesInv /\ StageInv /\ NamesInv)
  <1>1. Init => DocumentInv /\ NamesInv
    <2> SUFFICES ASSUME Init PROVE NamesInv
      BY InitDocumentInv
    <2> QED
      BY DEF Init, SkeletonInit, NamesInv, Ordered
  <1>2. DocumentInv /\ NamesInv /\ [Next]_vars => (DocumentInv /\ NamesInv)'
    BY NextKeepsDocument, NextKeepsNames
  <1>3. Spec => []NamesInv
    BY <1>1, <1>2, PTL DEF Spec
  <1> QED
    BY <1>3, ImportReads, StageInvariant, PTL

-----------------------------------------------------------------------------
(* The names of every scope *)

\* Raw names in a list are made names that differ.
LEMMA NamesDiffer ==
    ASSUME NEW n \in Nat, NEW raws, DOMAIN raws = 1 .. n, raws = [i \in 1 .. n |-> raws[i]],
           \A i \in 1 .. n : IsName(raws[i]), NEW prefix
    PROVE  /\ DOMAIN VrmMakeUniqueNames(raws, prefix) = 1 .. n
           /\ NoneTwice(VrmMakeUniqueNames(raws, prefix))
  <1>1. IsList(raws)
    BY ListByPlace
  <1> QED
    BY <1>1, UniqueNames

\* A scope whose entries' names differ has a prim for each of them.
LEMMA ScopeIsWhole ==
    ASSUME NEW n \in Nat, NEW prims, DOMAIN prims = 1 .. n,
           \A i, k \in 1 .. n : prims[i].name = prims[k].name => i = k
    PROVE  Cardinality(DOMAIN Define(prims)) = n
  <1> DEFINE S == {prims[i].name : i \in DOMAIN prims}
             f == [i \in 1 .. n |-> prims[i].name]
  <1>1. DOMAIN Define(prims) = S
    BY DEF Define
  <1>2. f \in Bijection(1 .. n, S)
    <2>1. f \in [1 .. n -> S] /\ \A i \in 1 .. n : f[i] = prims[i].name
      OBVIOUS
    <2>2. \A x \in S : \E i \in 1 .. n : f[i] = x
      OBVIOUS
    <2> HIDE DEF S, f
    <2> QED
      BY <2>1, <2>2 DEF Bijection, Injection, Surjection, IsInjective
  <1> HIDE DEF S, f
  <1>3. IsFiniteSet(1 .. n) /\ Cardinality(1 .. n) = n
    BY FS_Interval
  <1>4. Cardinality(S) = Cardinality(1 .. n)
    BY <1>2, <1>3, FS_Bijection DEF ExistsBijection
  <1> QED
    BY <1>1, <1>3, <1>4

\* An array of the file by its places.
LEMMA ArrayIsList ==
    ASSUME NEW s, IsArray(s)
    PROVE  DOMAIN s = 1 .. Len(s) /\ Len(s) \in Nat
  <1>1. PICK V : V = Range(s)
    OBVIOUS
  <1>2. s \in Seq(V)
    BY <1>1 DEF IsArray
  <1> QED
    BY <1>2

LEMMA FileIsRead == Read => file \in Files /\ Ordered
  BY DEF Read, DocumentInv, SkeletonInv, TypeInv, Ordered

\* The material at each place of the file has a prim of its own.
LEMMA MaterialsOfStage ==
    ASSUME Read, scene = Scene, usda = Stage
    PROVE  /\ DOMAIN file.materials = 1 .. Len(file.materials) /\ Len(file.materials) \in Nat
           /\ DOMAIN scene.materials = DOMAIN file.materials
           /\ Whole(usda.mtl, file.materials)
           /\ \A m \in DOMAIN file.materials :
                 /\ scene.materials[m].source = m
                 /\ usda.mtl[scene.materials[m].name] = scene.materials[m]
           /\ \A i, m \in DOMAIN file.materials :
                 scene.materials[i].name = scene.materials[m].name => i = m
  <1> DEFINE raws == RawMaterialNames
             all == scene.materials
             names == VrmMakeUniqueNames(raws, "Material")
  <1>0. IsArray(file.materials) /\ \A m \in DOMAIN file.materials : IsName(file.materials[m].name)
    BY FileIsRead, SceneAssumption
  <1>1. PICK n \in Nat : n = Len(file.materials) /\ DOMAIN file.materials = 1 .. n
    BY <1>0, ArrayIsList
  <1>2. /\ DOMAIN raws = 1 .. n /\ raws = [i \in 1 .. n |-> raws[i]]
        /\ \A i \in 1 .. n : IsName(raws[i])
    BY <1>0, <1>1 DEF RawMaterialNames
  <1> HIDE DEF raws
  <1>3. DOMAIN names = 1 .. n /\ NoneTwice(names)
    BY <1>2, NamesDiffer
  <1>4. /\ DOMAIN all = 1 .. n
        /\ \A m \in 1 .. n : all[m].name = names[m] /\ all[m].source = m
    <2>1. all = Materials
      BY DEF Scene
    <2> QED
      BY <1>1, <2>1 DEF Materials, raws
  <1> HIDE DEF names
  <1>5. usda.mtl = Define(all)
    BY DEF Stage, MaterialPrims
  <1> HIDE DEF all
  <1>6. \A i, k \in 1 .. n : all[i].name = all[k].name => i = k
    BY <1>3, <1>4 DEF NoneTwice
  <1>7. Cardinality(DOMAIN Define(all)) = n
    BY <1>4, <1>6, ScopeIsWhole
  <1>8. \A i \in DOMAIN all : Define(all)[all[i].name] = all[i]
    BY <1>4, <1>6, Defined
  <1> QED
    BY <1>1, <1>4, <1>5, <1>6, <1>7, <1>8 DEF Whole, all

\* Clips the file names alike are named apart, and those that move nothing are left out.
LEMMA ClipsAreWhole ==
    ASSUME Read, scene = Scene, usda = Stage
    PROVE  Whole(usda.animations, scene.animations)
  <1> DEFINE raws == [a \in DOMAIN file.clips |-> file.clips[a].name]
             names == VrmMakeUniqueNames(raws, "Clip")
             clips == [a \in DOMAIN file.clips |-> ReadClip(names[a], file.clips[a])]
             P == {a \in DOMAIN clips : DOMAIN clips[a].pose # {}}
             all == scene.animations
             prims == [a \in DOMAIN all |-> ClipPrim(a)]
  <1>0. IsArray(file.clips) /\ \A a \in DOMAIN file.clips : IsName(file.clips[a].name)
    BY FileIsRead, SceneAssumption
  <1>1. PICK n \in Nat : n = Len(file.clips) /\ DOMAIN file.clips = 1 .. n
    BY <1>0, ArrayIsList
  <1>2. /\ DOMAIN raws = 1 .. n /\ raws = [i \in 1 .. n |-> raws[i]]
        /\ \A i \in 1 .. n : IsName(raws[i])
    BY <1>0, <1>1
  <1>3. all = IF joints = << >> THEN << >> ELSE Entries(clips, P)
    BY DEF Scene, ReadAnimations
  <1> HIDE DEF raws
  <1>4. DOMAIN names = 1 .. n /\ NoneTwice(names)
    BY <1>2, NamesDiffer
  <1>5. DOMAIN clips = 1 .. n /\ \A a \in 1 .. n : clips[a].name = names[a]
    BY <1>1 DEF ReadClip
  <1>6. prims = [a \in DOMAIN all |-> prims[a]] /\ DOMAIN prims = DOMAIN all
        /\ \A a \in DOMAIN all : prims[a].name = all[a].name
    BY DEF ClipPrim
  <1>7. usda.animations = Define(prims)
    BY DEF Stage, ClipPrims
  <1> HIDE DEF names, clips, prims, all
  <1>8. \E m \in Nat : /\ DOMAIN all = 1 .. m /\ Len(all) = m
                       /\ \A i, k \in 1 .. m : all[i].name = all[k].name => i = k
    <2>1. CASE joints = << >>
      BY <1>3, <2>1
    <2>2. CASE joints # << >>
      <3>1. P \in SUBSET (1 .. n)
        BY <1>5
      <3> HIDE DEF P
      <3>2. PICK m \in Nat : m = Cardinality(P)
        BY <3>1, EntriesAre
      <3>3. PICK at : at = InOrder(P)
        OBVIOUS
      <3>4. /\ all = [i \in 1 .. m |-> clips[at[i]]]
            /\ \A i \in 1 .. m : at[i] \in P
            /\ \A i, k \in 1 .. m : i < k => at[i] < at[k]
        <4>1. /\ \A i \in 1 .. Cardinality(P) : InOrder(P)[i] \in P
              /\ \A i, k \in 1 .. Cardinality(P) : i < k => InOrder(P)[i] < InOrder(P)[k]
          BY <3>1, EntriesAre
        <4>2. Entries(clips, P) = [i \in 1 .. Cardinality(P) |-> clips[InOrder(P)[i]]]
          BY DEF Entries
        <4> QED
          BY <1>3, <2>2, <3>2, <3>3, <4>1, <4>2
      <3>5. \A i, k \in 1 .. m : at[i] = at[k] => i = k
        <4>1. \A i \in 1 .. m : at[i] \in 1 .. n
          BY <3>1, <3>4
        <4> QED
          BY <3>4, <4>1
      <3>6. ASSUME NEW i \in 1 .. m, NEW k \in 1 .. m, all[i].name = all[k].name
            PROVE  i = k
        <4>1. at[i] \in 1 .. n /\ at[k] \in 1 .. n
          BY <3>1, <3>4
        <4>2. names[at[i]] = names[at[k]]
          BY <1>5, <3>4, <3>6, <4>1
        <4> QED
          BY <1>4, <3>5, <4>1, <4>2 DEF NoneTwice
      <3>7. DOMAIN all = 1 .. m /\ Len(all) = m
        <4>1. DOMAIN all = 1 .. m /\ all = [i \in 1 .. m |-> all[i]]
          BY <3>4
        <4> QED
          BY <4>1, ListByPlace
      <3> QED
        BY <3>6, <3>7
    <2> QED
      BY <2>1, <2>2
  <1>9. PICK m \in Nat : /\ DOMAIN all = 1 .. m /\ Len(all) = m
                         /\ \A i, k \in 1 .. m : all[i].name = all[k].name => i = k
    BY <1>8
  <1>10. Cardinality(DOMAIN Define(prims)) = m
    BY <1>6, <1>9, ScopeIsWhole
  <1> QED
    BY <1>7, <1>9, <1>10 DEF Whole, all

\* The spring at each place of the block has a prim of its own.
LEMMA SpringsOfStage ==
    ASSUME Read, scene = Scene, usda = Stage
    PROVE  /\ Whole(usda.springs, scene.springs)
           /\ DOMAIN scene.springs = IF HasSecondary THEN DOMAIN file.secondary.springs ELSE {}
           /\ \A s \in DOMAIN scene.springs :
                 /\ scene.springs[s] = ReadSprings[s]
                 /\ usda.springs[NamesOf(scene.springs, "Spring")[s]] = SpringPrim(s)
  <1> DEFINE declared == file.secondary.springs
             all == scene.springs
             raws == [s \in DOMAIN all |-> all[s].name]
             names == VrmMakeUniqueNames(raws, "Spring")
             prims == [s \in DOMAIN all |-> SpringPrim(s)]
  <1>0. IsArray(declared) /\ \A s \in DOMAIN declared : IsName(declared[s].name)
    <2>1. IsArray(declared) /\ \A spring \in Range(declared) : IsName(spring.name)
      BY FileIsRead, SceneAssumption
    <2> QED
      BY <2>1 DEF Range
  <1>1. all = IF HasSecondary THEN ReadSprings ELSE << >>
    BY DEF Scene
  <1>2. PICK l \in Nat : DOMAIN declared = 1 .. l
    BY <1>0, ArrayIsList
  <1>3. /\ DOMAIN all = IF HasSecondary THEN DOMAIN declared ELSE {}
        /\ \A s \in DOMAIN all : all[s] = ReadSprings[s]
        /\ \A s \in DOMAIN all : s \in DOMAIN declared /\ all[s].name = Or(declared[s].name, "Spring", s)
    <2>1. CASE HasSecondary
      <3>1. all = ReadSprings
        BY <1>1, <2>1
      <3>2. DOMAIN ReadSprings = DOMAIN declared
        BY DEF ReadSprings
      <3>3. \A s \in DOMAIN declared : ReadSprings[s].name = Or(declared[s].name, "Spring", s)
        BY DEF ReadSprings
      <3> HIDE DEF all, declared
      <3> QED
        BY <2>1, <3>1, <3>2, <3>3
    <2>2. CASE ~HasSecondary
      <3>1. DOMAIN all = {}
        BY <1>1, <2>2
      <3> HIDE DEF all, declared
      <3> QED
        BY <2>2, <3>1
    <2> QED
      BY <2>1, <2>2
  <1>4. PICK n \in Nat : DOMAIN all = 1 .. n /\ Len(all) = n
    <2>1. CASE HasSecondary
      <3>1. all = [s \in 1 .. l |-> all[s]] /\ DOMAIN all = 1 .. l
        BY <1>1, <1>2, <2>1 DEF ReadSprings
      <3> HIDE DEF all
      <3> QED
        BY <3>1, ListByPlace
    <2>2. CASE ~HasSecondary
      BY <1>1, <2>2
    <2> QED
      BY <2>1, <2>2
  <1>5. ASSUME NEW s \in 1 .. n PROVE IsName(all[s].name)
    <2>1. IsName(Raw(<<Word("Spring"), Numeral(s - 1)>>, FALSE))
      <3>1. PICK V : V = {Word("Spring"), Numeral(s - 1)}
        OBVIOUS
      <3>2. PICK t : t = <<Word("Spring"), Numeral(s - 1)>>
        OBVIOUS
      <3>3. t \in Seq(V)
        BY <3>1, <3>2
      <3>4. IsName(Raw(t, FALSE))
        BY <3>3, RawNames
      <3> QED
        BY <3>2, <3>4
    <2>2. all[s].name = Or(declared[s].name, "Spring", s) /\ IsName(declared[s].name)
      BY <1>0, <1>3, <1>4
    <2> QED
      BY <2>1, <2>2 DEF Or
  <1>6. /\ DOMAIN raws = 1 .. n /\ raws = [i \in 1 .. n |-> raws[i]]
        /\ \A i \in 1 .. n : IsName(raws[i])
    BY <1>4, <1>5
  <1>7. NamesOf(all, "Spring") = names
    BY DEF NamesOf
  <1>8. DOMAIN prims = 1 .. n /\ \A s \in 1 .. n : prims[s] = SpringPrim(s) /\ prims[s].name = names[s]
    <2>1. DOMAIN prims = 1 .. n /\ \A s \in 1 .. n : prims[s] = SpringPrim(s)
      BY <1>4
    <2>2. \A s : SpringPrim(s).name = names[s]
      BY <1>7 DEF SpringPrim
    <2> QED
      BY <2>1, <2>2
  <1>9. usda.springs = Define(prims)
    BY DEF Stage, SpringPrims
  <1> HIDE DEF raws, prims, all
  <1>10. DOMAIN names = 1 .. n /\ NoneTwice(names)
    BY <1>6, NamesDiffer
  <1> HIDE DEF names
  <1>11. \A i, k \in 1 .. n : prims[i].name = prims[k].name => i = k
    BY <1>8, <1>10 DEF NoneTwice
  <1>12. Cardinality(DOMAIN Define(prims)) = n
    BY <1>8, <1>11, ScopeIsWhole
  <1>13. \A i \in DOMAIN prims : Define(prims)[prims[i].name] = prims[i]
    BY <1>8, <1>11, Defined
  <1> QED
    BY <1>3, <1>4, <1>7, <1>8, <1>9, <1>12, <1>13 DEF Whole, all

\* The places of the constraints the reader keeps.
LEMMA ConstraintsKept ==
    ASSUME Read, scene = Scene
    PROVE  /\ DOMAIN scene.constraints = 1 .. Len(scene.constraints)
           /\ Len(scene.constraints) \in Nat
           /\ \A c \in Range(scene.constraints) : c \in Range(file.constraints)
  <1>1. PICK all : all = file.constraints
    OBVIOUS
  <1>2. PICK n \in Nat : n = Len(all) /\ DOMAIN all = 1 .. n
    <2>1. IsArray(all)
      BY <1>1, FileIsRead, SceneAssumption
    <2> QED
      BY <2>1, ArrayIsList
  <1>3. PICK P \in SUBSET (1 .. n) : P = {i \in DOMAIN all : Stated(all[i]) /\ all[i].source \in Nodes}
    BY <1>2
  <1>4. scene.constraints = Entries(all, P)
    BY <1>1, <1>3 DEF Scene, ReadConstraints
  <1>5. PICK kept : kept = Entries(all, P)
    OBVIOUS
  <1>6. PICK m \in Nat : m = Cardinality(P)
    BY EntriesAre
  <1>7. kept = [i \in 1 .. m |-> all[InOrder(P)[i]]] /\ \A i \in 1 .. m : InOrder(P)[i] \in P
    <2>1. \A i \in 1 .. Cardinality(P) : InOrder(P)[i] \in P
      BY EntriesAre
    <2> QED
      BY <1>5, <1>6, <2>1 DEF Entries
  <1>8. DOMAIN kept = 1 .. m /\ Len(kept) = m
    <2>1. DOMAIN kept = 1 .. m /\ kept = [i \in 1 .. m |-> kept[i]]
      BY <1>7
    <2> QED
      BY <2>1, ListByPlace
  <1>9. \A i \in 1 .. m : kept[i] \in Range(all)
    BY <1>2, <1>7 DEF Range
  <1> QED
    BY <1>1, <1>4, <1>5, <1>8, <1>9 DEF Range

\* Every constraint kept has a prim of its own, with its type and its nodes' tokens.
LEMMA ConstraintsOfStage ==
    ASSUME Read, scene = Scene, usda = Stage
    PROVE  /\ Whole(usda.constraints, scene.constraints)
           /\ \A c \in Range(scene.constraints) : \E p \in Range(usda.constraints) :
                 /\ p.type = c.type
                 /\ p.constrained = JointTok(c.node) /\ p.source = JointTok(c.source)
  <1> DEFINE all == scene.constraints
             raws == [i \in DOMAIN all |-> RawConstraintName(all[i])]
             names == VrmMakeUniqueNames(raws, "Constraint")
             prims == [i \in DOMAIN all |->
                         [name |-> names[i], type |-> all[i].type,
                          constrained |-> JointTok(all[i].node),
                          source |-> JointTok(all[i].source)]]
  <1>1. usda.constraints = Define(prims)
    BY DEF Stage, ConstraintPrims
  <1>2. PICK n \in Nat : DOMAIN all = 1 .. n /\ Len(all) = n
    BY ConstraintsKept
  <1>3. ASSUME NEW i \in DOMAIN all PROVE IsName(RawConstraintName(all[i]))
    <2>1. all[i] \in Range(all)
      BY DEF Range
    <2>2. all[i] \in Range(file.constraints)
      BY <2>1, ConstraintsKept
    <2>3. PICK c : c = all[i]
      OBVIOUS
    <2>4. c.node \in Nodes
      BY <2>2, <2>3, FileIsRead, SceneAssumption
    <2>5. PICK raw : raw = file.names[c.node] /\ IsName(raw)
      BY <2>4, FileIsRead, SceneAssumption
    <2>6. PICK V : V = Range(raw.name)
      OBVIOUS
    <2>7. raw.name \in Seq(V)
      BY <2>5, <2>6 DEF IsName, IsArray
    <2>8. PICK s \in Seq(V) : s = raw.name
      BY <2>7
    <2>9. IsName(Raw(Append(s, Word(c.type)), raw.foreign))
      BY RawNames
    <2> QED
      BY <2>3, <2>5, <2>8, <2>9 DEF RawConstraintName
  <1>4. /\ DOMAIN raws = 1 .. n /\ raws = [i \in 1 .. n |-> raws[i]]
        /\ \A i \in 1 .. n : IsName(raws[i])
    BY <1>2, <1>3
  <1>5. DOMAIN prims = 1 .. n
        /\ \A i \in 1 .. n : /\ prims[i].name = names[i] /\ prims[i].type = all[i].type
                             /\ prims[i].constrained = JointTok(all[i].node)
                             /\ prims[i].source = JointTok(all[i].source)
    BY <1>2
  <1> HIDE DEF raws, prims, all
  <1>6. DOMAIN names = 1 .. n /\ NoneTwice(names)
    BY <1>4, NamesDiffer
  <1> HIDE DEF names
  <1>7. \A i, k \in 1 .. n : prims[i].name = prims[k].name => i = k
    BY <1>5, <1>6 DEF NoneTwice
  <1>8. Cardinality(DOMAIN Define(prims)) = n
    BY <1>5, <1>7, ScopeIsWhole
  <1>9. \A i \in DOMAIN prims : prims[i] \in Range(Define(prims))
    BY <1>5, <1>7, Defined
  <1>10. ASSUME NEW c \in Range(all)
         PROVE  \E p \in Range(Define(prims)) :
                   /\ p.type = c.type
                   /\ p.constrained = JointTok(c.node) /\ p.source = JointTok(c.source)
    <2>1. PICK i \in DOMAIN all : all[i] = c
      BY DEF Range
    <2>2. prims[i] \in Range(Define(prims))
      BY <1>2, <1>5, <1>9
    <2>3. /\ prims[i].type = c.type
          /\ prims[i].constrained = JointTok(c.node) /\ prims[i].source = JointTok(c.source)
      BY <1>2, <1>5, <2>1
    <2> QED
      BY <2>2, <2>3
  <1> QED
    BY <1>1, <1>2, <1>8, <1>10 DEF Whole, all

\* Every expression has a prim of its own.
LEMMA ExpressionsOfStage ==
    ASSUME Read, scene = Scene, usda = Stage
    PROVE  /\ Whole(usda.expressions, expressions)
           /\ \A e \in Range(expressions) : \E name :
                 ExpressionPrim(name, e) \in Range(usda.expressions)
  <1> DEFINE raws == [i \in DOMAIN expressions |-> Spelled[expressions[i].name]]
             names == VrmMakeUniqueNames(raws, "Expression")
             prims == [i \in DOMAIN expressions |-> ExpressionPrim(names[i], expressions[i])]
  <1>1. usda.expressions = Define(prims)
    BY DEF Stage, ExpressionPrims
  <1>2. PICK n \in Nat : DOMAIN expressions = 1 .. n /\ Len(expressions) = n
    <2>1. IsList(expressions)
      BY DEF Read, DocumentInv, LossInv
    <2> QED
      BY <2>1 DEF IsList
  <1>3. ASSUME NEW i \in 1 .. n PROVE IsName(Spelled[expressions[i].name])
    <2>1. PICK x \in DOMAIN file.expressions : expressions[i].name = file.expressions[x].name
      BY <1>2 DEF Read, EntriesInv, ExpressionsInv
    <2>2. IsName(Spelled[file.expressions[x].name])
      BY FileIsRead, SpelledAssumption
    <2> QED
      BY <2>1, <2>2
  <1>4. /\ DOMAIN raws = 1 .. n /\ raws = [i \in 1 .. n |-> raws[i]]
        /\ \A i \in 1 .. n : IsName(raws[i])
    BY <1>2, <1>3
  <1>5. DOMAIN prims = 1 .. n /\ \A i \in 1 .. n : prims[i] = ExpressionPrim(names[i], expressions[i])
    BY <1>2
  <1>6. \A name, e : ExpressionPrim(name, e).name = name
    BY DEF ExpressionPrim
  <1> HIDE DEF raws, prims
  <1>7. DOMAIN names = 1 .. n /\ NoneTwice(names)
    BY <1>4, NamesDiffer
  <1> HIDE DEF names
  <1>8. \A i, k \in 1 .. n : prims[i].name = prims[k].name => i = k
    BY <1>5, <1>6, <1>7 DEF NoneTwice
  <1>9. Cardinality(DOMAIN Define(prims)) = n
    BY <1>5, <1>8, ScopeIsWhole
  <1>10. \A i \in DOMAIN prims : prims[i] \in Range(Define(prims))
    BY <1>5, <1>8, Defined
  <1>11. ASSUME NEW e \in Range(expressions)
         PROVE  \E name : ExpressionPrim(name, e) \in Range(Define(prims))
    <2>1. PICK i \in DOMAIN expressions : expressions[i] = e
      BY DEF Range
    <2>2. ExpressionPrim(names[i], e) \in Range(Define(prims))
      BY <1>2, <1>5, <1>10, <2>1
    <2> QED
      BY <2>2
  <1> QED
    BY <1>1, <1>2, <1>9, <1>11 DEF Whole

\* The mesh scope has a prim for every mesh.
LEMMA GeoIsWhole ==
    ASSUME Read, usda = Stage
    PROVE  Whole(usda.geo, meshes)
  <1> DEFINE prims == [k \in DOMAIN meshes |-> GeoPrim(k)]
  <1>1. usda.geo = Define(prims)
    BY DEF Stage, GeoPrims
  <1>2. PICK n \in Nat : n = Len(meshes) /\ DOMAIN meshes = 1 .. n
    BY MeshNameDiffers
  <1>3. DOMAIN prims = 1 .. n /\ \A k \in 1 .. n : prims[k].name = MeshName(k)
    BY <1>2 DEF GeoPrim
  <1>4. \A i, k \in 1 .. n : prims[i].name = prims[k].name => i = k
    BY <1>2, <1>3, MeshNameDiffers
  <1> HIDE DEF prims
  <1>5. Cardinality(DOMAIN Define(prims)) = n
    BY <1>3, <1>4, ScopeIsWhole
  <1> QED
    BY <1>1, <1>2, <1>5 DEF Whole

\* A morph target's name is that of the blend shape of its primitive and its place.
LEMMA ShapesOfStage ==
    ASSUME Read, usda = Stage, HasSkel
    PROVE  /\ Whole(usda.blendShapes, Morphs)
           /\ \A k, t : IsMorph(k, t) => ShapeOf(MorphName(k, t)) = <<meshes[k].source, t>>
  <1> DEFINE prims == [c \in DOMAIN Morphs |-> BlendShapePrim(c)]
  <1>1. usda.blendShapes = Define(prims)
    BY DEF Stage, BlendShapePrims
  <1>2. PICK n \in Nat : n = Len(Morphs) /\ DOMAIN Morphs = 1 .. n
    BY MorphsAre
  <1>3. /\ DOMAIN prims = 1 .. n
        /\ \A c \in 1 .. n : prims[c] = BlendShapePrim(c) /\ prims[c].name = MorphNames[c]
    BY <1>2 DEF BlendShapePrim
  <1>4. \A i, k \in 1 .. n : prims[i].name = prims[k].name => i = k
    BY <1>2, <1>3, MorphNamesDiffer DEF NoneTwice
  <1> HIDE DEF prims
  <1>5. Cardinality(DOMAIN Define(prims)) = n
    BY <1>3, <1>4, ScopeIsWhole
  <1>6. \A c \in DOMAIN prims : Define(prims)[prims[c].name] = prims[c]
    BY <1>3, <1>4, Defined
  <1>7. ASSUME NEW k, NEW t, IsMorph(k, t)
        PROVE  ShapeOf(MorphName(k, t)) = <<meshes[k].source, t>>
    <2>1. PICK c \in DOMAIN Morphs : Morphs[c] = <<k, t>>
      BY <1>7, MorphsAre
    <2>2. Morphs[c][1] = k /\ Morphs[c][2] = t
      BY <2>1
    <2>3. MorphName(k, t) = MorphNames[c]
      BY <2>2, MorphNamesDiffer
    <2>4. usda.blendShapes[MorphName(k, t)] = BlendShapePrim(c)
      BY <1>1, <1>2, <1>3, <1>6, <2>3
    <2>5. BlendShapePrim(c).mesh = k /\ BlendShapePrim(c).morph = t
      BY <2>2 DEF BlendShapePrim
    <2> QED
      BY <2>4, <2>5 DEF ShapeOf
  <1> QED
    BY <1>1, <1>2, <1>5, <1>7 DEF Whole

\* A mesh is of its primitive, and each of its blend shapes of its morph target in that place.
LEMMA MeshesOfStage ==
    ASSUME Read, usda = Stage, NEW k \in DOMAIN meshes
    PROVE  LET m == usda.geo[MeshName(k)]
           IN  /\ m.source = meshes[k].source
               /\ HasSkel => \A t \in DOMAIN meshes[k].morphs :
                     ShapeOf(m.blendShapes[t]) = <<m.source, t>>
  <1>1. PICK m : m = usda.geo[MeshName(k)]
    OBVIOUS
  <1>2. m = GeoPrim(k)
    BY <1>1, GeoOfStage
  <1>3. m.source = meshes[k].source
    BY <1>2 DEF GeoPrim
  <1>4. ASSUME HasSkel, NEW t \in DOMAIN meshes[k].morphs
        PROVE  ShapeOf(m.blendShapes[t]) = <<m.source, t>>
    <2>1. m.blendShapes[t] = MorphName(k, t)
      BY <1>2, <1>4 DEF GeoPrim
    <2>2. IsMorph(k, t)
      BY <1>4 DEF IsMorph
    <2> QED
      BY <1>3, <1>4, <2>1, <2>2, ShapesOfStage
  <1> QED
    BY <1>1, <1>3, <1>4

-----------------------------------------------------------------------------
(* The tokens of the stage *)

\* No joint shares its name, so none its path.
LEMMA PathsDiffer ==
    ASSUME Read, NamesInv
    PROVE  \A i, k \in DOMAIN joints : JointPaths[i] = JointPaths[k] => i = k
  <1> DEFINE raws == [k \in DOMAIN jointNodes |-> file.names[jointNodes[k]]]
  <1>1. /\ jointNodes \in Seq(Nodes) /\ Ordered /\ JointsKeepTheirNode
    BY FileIsRead DEF Read, DocumentInv, SkeletonInv, TypeInv, SkeletonTypeOK, OrderedInv
  <1>2. PICK n \in Nat : n = Len(jointNodes) /\ DOMAIN jointNodes = 1 .. n
    BY <1>1
  <1>3. \A k \in 1 .. n : jointNodes[k] \in Nodes
    BY <1>1, <1>2
  <1>4. \A k \in 1 .. n : IsName(file.names[jointNodes[k]])
    BY <1>3, FileIsRead, SceneAssumption
  <1>5. /\ DOMAIN raws = 1 .. n /\ raws = [k \in 1 .. n |-> raws[k]]
        /\ \A k \in 1 .. n : IsName(raws[k])
    BY <1>2, <1>4
  <1>6. JointNames = VrmMakeUniqueNames(raws, "Joint")
    BY DEF JointNames
  <1> HIDE DEF raws
  <1>7. DOMAIN JointNames = 1 .. n /\ NoneTwice(JointNames)
    BY <1>5, <1>6, NamesDiffer
  <1>8. ASSUME NEW i \in DOMAIN joints
        PROVE  \E k \in 1 .. n : jointNodes[k] = joints[i].node /\ JointName(i) = JointNames[k]
    <2>1. \E k \in DOMAIN jointNodes : jointNodes[k] = joints[i].node
      BY <1>1 DEF NamesInv, Range
    <2>2. PICK k : k = CHOOSE l \in DOMAIN jointNodes : jointNodes[l] = joints[i].node
      OBVIOUS
    <2>3. k \in 1 .. n /\ jointNodes[k] = joints[i].node
      BY <1>2, <2>1, <2>2
    <2>4. JointName(i) = JointNames[k]
      BY <2>2 DEF JointName
    <2> QED
      BY <2>3, <2>4
  <1>9. \A i \in DOMAIN joints : jointOf[joints[i].node] = i
    BY <1>1 DEF JointsKeepTheirNode
  <1>10. ASSUME NEW i \in DOMAIN joints, NEW k \in DOMAIN joints, JointName(i) = JointName(k)
         PROVE  i = k
    <2>1. joints[i].node = joints[k].node
      BY <1>7, <1>8, <1>10 DEF NoneTwice
    <2> QED
      BY <1>9, <2>1
  <1>11. ASSUME NEW i \in DOMAIN joints
         PROVE  JointPaths[i][Len(JointPaths[i])] = JointName(i)
    <2>1. CASE joints[i].parent = 0
      <3>1. JointPaths[i] = <<JointName(i)>>
        BY <2>1, PathsAre
      <3> QED
        BY <3>1
    <2>2. CASE joints[i].parent # 0
      <3>1. PICK up \in DOMAIN joints : up = joints[i].parent
        BY <2>2, JointTree
      <3>2. PICK V : V = {JointName(k) : k \in DOMAIN joints}
        OBVIOUS
      <3>3. PICK s \in Seq(V) : s = JointPaths[up]
        BY <3>2, PathsAre
      <3>4. JointPaths[i] = Append(s, JointName(i))
        BY <2>2, <3>1, <3>3, PathsAre
      <3>5. PICK name \in V : name = JointName(i)
        BY <3>2
      <3>6. Append(s, name)[Len(Append(s, name))] = name
        OBVIOUS
      <3> QED
        BY <3>4, <3>5, <3>6
    <2> QED
      BY <2>1, <2>2
  <1> QED
    BY <1>10, <1>11

\* The token of a node that has a joint is the path of that joint, and of it alone.
LEMMA TokensName ==
    ASSUME Read, usda = Stage, NEW n
    PROVE  Names(JointTok(n), n)
  <1> SUFFICES ASSUME NodeJoint(n) # 0
               PROVE  {usda.skeleton.paths[i] : i \in {k \in DOMAIN joints : joints[k].node = n}}
                         = {JointTok(n)}
    BY DEF Names
  <1>1. n \in Nodes /\ NodeJoint(n) = jointOf[n]
    BY DEF NodeJoint
  <1>2. /\ jointOf \in [Nodes -> 0 .. Len(joints)] /\ Len(joints) \in Nat
        /\ DOMAIN joints = 1 .. Len(joints) /\ Ordered
        /\ InverseInv /\ JointsKeepTheirNode
    BY FileIsRead DEF Read, DocumentInv, EntriesInv, SkeletonInv, TypeInv, SkeletonTypeOK,
                      OrderedInv, Ordered
  <1>3. PICK j \in DOMAIN joints : j = jointOf[n] /\ joints[j].node = n
    BY <1>1, <1>2 DEF InverseInv
  <1>4. \A k \in DOMAIN joints : joints[k].node = n => k = j
    BY <1>2, <1>3 DEF JointsKeepTheirNode
  <1>5. {k \in DOMAIN joints : joints[k].node = n} = {j}
    BY <1>3, <1>4
  <1>6. usda.skeleton.paths = JointPaths
    <2>1. HasSkel
      BY <1>3 DEF HasSkel
    <2> QED
      BY <2>1 DEF Stage, Skeleton
  <1>7. JointTok(n) = JointPaths[j]
    BY <1>1, <1>3 DEF JointTok
  <1> QED
    BY <1>5, <1>6, <1>7

\* A spring's tokens are those of the nodes the file gives it.
LEMMA SpringTokens ==
    ASSUME Read, scene = Scene, usda = Stage, HasSecondary, NEW s \in DOMAIN file.secondary.springs
    PROVE  LET declared == file.secondary.springs[s]
               p == usda.springs[NamesOf(scene.springs, "Spring")[s]]
           IN  /\ Len(p.joints) = Len(declared.nodes)
               /\ \A i \in DOMAIN declared.nodes : Names(p.joints[i], declared.nodes[i])
               /\ declared.center # 0 => Names(p.center, declared.center)
  <1>1. PICK declared : declared = file.secondary.springs[s]
    OBVIOUS
  <1>2. PICK p : p = usda.springs[NamesOf(scene.springs, "Spring")[s]]
    OBVIOUS
  <1>3. p = SpringPrim(s) /\ scene.springs[s] = ReadSprings[s]
    BY <1>2, SpringsOfStage
  <1>4. scene.springs[s].nodes = declared.nodes /\ scene.springs[s].center = declared.center
    <2>1. ReadSprings[s].nodes = declared.nodes /\ ReadSprings[s].center = declared.center
      BY <1>1 DEF ReadSprings
    <2> QED
      BY <1>3, <2>1
  <1>5. PICK nodes : nodes = declared.nodes
    OBVIOUS
  <1>6. PICK n \in Nat : n = Len(nodes) /\ DOMAIN nodes = 1 .. n
    <2>1. declared \in Range(file.secondary.springs)
      BY <1>1 DEF Range
    <2>2. IsArray(nodes)
      BY <1>5, <2>1, FileIsRead, SceneAssumption
    <2> QED
      BY <2>2, ArrayIsList
  <1>7. /\ p.joints = [i \in 1 .. n |-> JointTok(nodes[i])]
        /\ declared.center # 0 => p.center = JointTok(declared.center)
    BY <1>3, <1>4, <1>5, <1>6 DEF SpringPrim
  <1>8. PICK joined : joined = p.joints
    OBVIOUS
  <1>9. Len(joined) = n
    <2>1. DOMAIN joined = 1 .. n /\ joined = [i \in 1 .. n |-> joined[i]]
      BY <1>7, <1>8
    <2> QED
      BY <2>1, ListByPlace
  <1>10. \A i \in 1 .. n : Names(p.joints[i], nodes[i])
    BY <1>7, TokensName
  <1>11. declared.center # 0 => Names(p.center, declared.center)
    BY <1>7, TokensName
  <1> QED
    BY <1>1, <1>2, <1>5, <1>6, <1>8, <1>9, <1>10, <1>11

\* A humanoid bone's token is that of the node of an entry of its name.
LEMMA HumanoidTokens ==
    ASSUME Read, usda = Stage, NEW p \in Range(usda.humanoid)
    PROVE  \E b \in Range(file.bones) : b.bone = p.name /\ Names(p.joint, b.node)
  <1> DEFINE prims == [b \in DOMAIN bones |-> [name |-> bones[b].bone,
                                               joint |-> JointPaths[bones[b].joint]]]
  <1>1. usda.humanoid = IF bones = << >> \/ ~HasSkel THEN << >> ELSE Define(prims)
    BY DEF Stage, HumanoidPrim
  <1>2. usda.humanoid = Define(prims)
    BY <1>1 DEF Range
  <1>3. PICK n \in Nat : DOMAIN bones = 1 .. n
    <2>1. IsList(bones)
      BY DEF Read, DocumentInv, LossInv
    <2> QED
      BY <2>1 DEF IsList
  <1>4. /\ DOMAIN prims = 1 .. n
        /\ \A b \in 1 .. n : prims[b] = [name |-> bones[b].bone, joint |-> JointPaths[bones[b].joint]]
    BY <1>3
  <1> HIDE DEF prims
  <1>5. PICK b \in 1 .. n : p = prims[b]
    <2>1. \A x \in Range(Define(prims)) : \E b \in DOMAIN prims : x = prims[b]
      BY <1>4, Defined
    <2> QED
      BY <1>2, <1>4, <2>1
  <1>6. p.name = bones[b].bone /\ p.joint = JointPaths[bones[b].joint]
    BY <1>4, <1>5
  <1>7. PICK i \in DOMAIN file.bones :
           /\ bones[b] = [bone |-> file.bones[i].bone, joint |-> NodeJoint(file.bones[i].node)]
           /\ bones[b].joint # 0
    <2>1. bones[b] \in Range(bones)
      BY <1>3 DEF Range
    <2> QED
      BY <2>1 DEF Read, EntriesInv, BonesInv
  <1>8. PICK entry \in Range(file.bones) : entry = file.bones[i]
    BY DEF Range
  <1>9. p.name = entry.bone /\ p.joint = JointTok(entry.node)
    BY <1>6, <1>7, <1>8 DEF JointTok
  <1>10. Names(p.joint, entry.node)
    BY <1>9, TokensName
  <1> QED
    BY <1>8, <1>9, <1>10

\* Every token of the stage is that of the node the file names.
LEMMA TokensOfStage ==
    ASSUME Read, NamesInv, scene = Scene, usda = Stage
    PROVE  TokensAreTheFiles
  <1>1. HasSkel => IsInjective(usda.skeleton.paths)
    <2> SUFFICES ASSUME HasSkel PROVE IsInjective(usda.skeleton.paths)
      OBVIOUS
    <2>1. usda.skeleton.paths = JointPaths
      BY DEF Stage, Skeleton
    <2>2. PICK i : i \in DOMAIN joints
      <3>1. joints \in Seq(Joint)
        BY DEF Read, DocumentInv, SkeletonInv, TypeInv, SkeletonTypeOK
      <3> QED
        BY <3>1 DEF HasSkel
    <2>3. DOMAIN JointPaths = DOMAIN joints
      BY <2>2, PathsAre
    <2> QED
      BY <2>1, <2>3, PathsDiffer DEF IsInjective
  <1>2. ASSUME NEW c \in Range(scene.constraints)
        PROVE  \E p \in Range(usda.constraints) :
                  Names(p.constrained, c.node) /\ Names(p.source, c.source) /\ p.type = c.type
    <2>1. PICK p \in Range(usda.constraints) :
             /\ p.type = c.type
             /\ p.constrained = JointTok(c.node) /\ p.source = JointTok(c.source)
      BY ConstraintsOfStage
    <2>2. Names(p.constrained, c.node) /\ Names(p.source, c.source)
      BY <2>1, TokensName
    <2> QED
      BY <2>1, <2>2
  <1> QED
    BY <1>1, <1>2, SpringTokens, HumanoidTokens DEF TokensAreTheFiles

-----------------------------------------------------------------------------
(* What the expressions reach *)

\* A relationship holds each of its targets, and one asked for by its place is found there.
LEMMA TargetsHold ==
    ASSUME NEW n \in Nat, NEW paths, DOMAIN paths = 1 .. n
    PROVE  /\ \A x : x \in Range(Targets(paths)) <=> x \in Range(paths)
           /\ \A x \in Range(paths) : Targets(paths)[IndexOf(x, Targets(paths))] = x
  <1>1. PICK P \in SUBSET (1 .. n) :
           P = {i \in DOMAIN paths : \A k \in 1 .. i - 1 : paths[k] # paths[i]}
    OBVIOUS
  <1>2. PICK targets : targets = Targets(paths)
    OBVIOUS
  <1>3. PICK m \in Nat : m = Cardinality(P)
    BY EntriesAre
  <1>4. /\ targets = [i \in 1 .. m |-> paths[InOrder(P)[i]]]
        /\ \A i \in 1 .. m : InOrder(P)[i] \in P
        /\ \A p \in P : \E i \in 1 .. m : InOrder(P)[i] = p
    <2>1. /\ \A i \in 1 .. Cardinality(P) : InOrder(P)[i] \in P
          /\ \A p \in P : \E i \in 1 .. Cardinality(P) : InOrder(P)[i] = p
      BY EntriesAre
    <2>2. targets = Entries(paths, P)
      BY <1>1, <1>2 DEF Targets
    <2> QED
      BY <1>3, <2>1, <2>2 DEF Entries
  <1>5. ASSUME NEW x \in Range(paths) PROVE \E i \in P : paths[i] = x
    <2>1. PICK S \in SUBSET Nat : S = {i \in 1 .. n : paths[i] = x}
      <3>1. {i \in 1 .. n : paths[i] = x} \in SUBSET Nat
        OBVIOUS
      <3> QED
        BY <3>1
    <2>2. S # {}
      BY <2>1 DEF Range
    <2>3. PICK i \in S : \A k \in S : i <= k
      BY <2>2, LeastMember
    <2>4. i \in 1 .. n /\ paths[i] = x
      BY <2>1
    <2>5. ASSUME NEW k \in 1 .. i - 1 PROVE paths[k] # x
      <3>1. k \in 1 .. n /\ ~(i <= k)
        BY <2>4
      <3> QED
        BY <2>1, <2>3, <3>1
    <2> QED
      BY <1>1, <2>4, <2>5
  <1>6. ASSUME NEW x \in Range(paths) PROVE \E i \in DOMAIN targets : targets[i] = x
    BY <1>4, <1>5
  <1>7. \A x \in Range(targets) : x \in Range(paths)
    <2>0. SUFFICES ASSUME NEW x \in Range(targets) PROVE x \in Range(paths)
      OBVIOUS
    <2>1. PICK i \in 1 .. m : x = targets[i]
      BY <1>4 DEF Range
    <2>2. InOrder(P)[i] \in DOMAIN paths
      BY <1>1, <1>4
    <2>3. x = paths[InOrder(P)[i]]
      BY <1>4, <2>1
    <2> QED
      BY <2>2, <2>3 DEF Range
  <1>8. \A x \in Range(paths) : targets[IndexOf(x, targets)] = x
    BY <1>6 DEF IndexOf
  <1>9. \A x \in Range(paths) : x \in Range(targets)
    BY <1>6 DEF Range
  <1> QED
    BY <1>2, <1>7, <1>8, <1>9

\* The meshes a bind drives.
Driven(bind) == {k \in TargetMeshes(bind.target) : bind.morph \in DOMAIN meshes[k].morphs}

LEMMA FanMeshes ==
    ASSUME NEW bind
    PROVE  {b.mesh : b \in Fan(bind)} = Driven(bind)
  <1>1. ASSUME NEW b \in Fan(bind) PROVE b.mesh \in Driven(bind)
    <2>1. PICK k \in Driven(bind) : b = [mesh |-> k, morph |-> bind.morph]
      BY DEF Fan, Driven
    <2> QED
      BY <2>1
  <1>2. ASSUME NEW k \in Driven(bind) PROVE k \in {b.mesh : b \in Fan(bind)}
    <2>1. [mesh |-> k, morph |-> bind.morph] \in Fan(bind)
      BY DEF Fan, Driven
    <2> QED
      BY <2>1
  <1> QED
    BY <1>1, <1>2

\* The binds of an expression are those of its entry, each on the meshes it drives.
LEMMA MorphBindsAre ==
    ASSUME Read, NEW e \in Range(expressions)
    PROVE  LET entries == file.expressions[e.source].binds
           IN  /\ DOMAIN MorphBinds(e) = 1 .. Len(MorphBinds(e)) /\ Len(MorphBinds(e)) \in Nat
               /\ \A x \in Range(MorphBinds(e)) : \E b \in Range(entries) :
                     x.mesh \in Driven(b) /\ x.morph = b.morph
               /\ \A b \in Range(entries) : \A k \in Driven(b) :
                     \E x \in Range(MorphBinds(e)) : x.mesh = k /\ x.morph = b.morph
  <1>1. PICK entries : entries = file.expressions[e.source].binds
    OBVIOUS
  <1>2. PICK n \in Nat : /\ n = Len(entries) /\ DOMAIN entries = 1 .. n
                         /\ \A b \in 1 .. n : entries[b].morph \in Nat
    <2>1. PICK x \in DOMAIN file.expressions : x = e.source
      BY DEF Read, EntriesInv, ExpressionsInv, Range
    <2>2. PICK B : B = [target : Nat, morph : Nat]
      OBVIOUS
    <2>3. PICK E : E = [name : STRING, binds : Seq(B)]
      OBVIOUS
    <2>4. file.expressions \in Seq(E)
      BY <2>2, <2>3, FileIsRead, ExtensionAssumption
    <2>5. entries \in Seq(B)
      <3>1. file.expressions[x] \in E
        BY <2>4
      <3> QED
        BY <1>1, <2>1, <2>3, <3>1
    <2>6. DOMAIN entries = 1 .. Len(entries) /\ Len(entries) \in Nat
          /\ \A b \in 1 .. Len(entries) : entries[b] \in B
      BY <2>5
    <2> QED
      BY <2>2, <2>6
  <1>3. PICK l \in Nat : DOMAIN meshes = 1 .. l
    BY MeshNameDiffers
  <1> DEFINE driven(b) == InOrder({bind.mesh : bind \in Fan(entries[b])})
             own(b) == [i \in DOMAIN driven(b) |->
                          [mesh |-> driven(b)[i], morph |-> entries[b].morph, weight |-> b]]
             seqs == [b \in DOMAIN entries |-> own(b)]
             V == [mesh : Nat, morph : Nat, weight : Nat]
  <1>4. MorphBinds(e) = FlattenSeq(seqs)
    BY <1>1 DEF MorphBinds
  <1>5. ASSUME NEW b \in 1 .. n
        PROVE  /\ own(b) \in Seq(V)
               /\ \A x \in Range(own(b)) : x.mesh \in Driven(entries[b]) /\ x.morph = entries[b].morph
               /\ \A k \in Driven(entries[b]) :
                     \E x \in Range(own(b)) : x.mesh = k /\ x.morph = entries[b].morph
    <2>1. PICK P \in SUBSET (1 .. l) : P = Driven(entries[b])
      <3>1. Driven(entries[b]) \in SUBSET (1 .. l)
        BY <1>3 DEF Driven, TargetMeshes
      <3> QED
        BY <3>1
    <2>2. PICK at : at = InOrder(P)
      OBVIOUS
    <2>3. driven(b) = at
      BY <2>1, <2>2, FanMeshes
    <2>4. PICK m \in Nat : m = Cardinality(P)
      BY EntriesAre
    <2>5. /\ DOMAIN at = 1 .. m
          /\ \A i \in 1 .. m : at[i] \in P
          /\ \A p \in P : \E i \in 1 .. m : at[i] = p
      <3>1. /\ \A i \in 1 .. Cardinality(P) : InOrder(P)[i] \in P
            /\ \A p \in P : \E i \in 1 .. Cardinality(P) : InOrder(P)[i] = p
        BY EntriesAre
      <3>2. DOMAIN InOrder(P) = 1 .. Cardinality(P)
        BY DEF InOrder
      <3> QED
        BY <2>2, <2>4, <3>1, <3>2
    <2>6. PICK t : t = entries[b].morph
      OBVIOUS
    <2>7. own(b) = [i \in 1 .. m |-> [mesh |-> at[i], morph |-> t, weight |-> b]]
      BY <2>3, <2>5, <2>6
    <2>8. PICK s : s = own(b)
      OBVIOUS
    <2> HIDE DEF own, driven
    <2>9. DOMAIN s = 1 .. m /\ \A i \in 1 .. m : s[i] = [mesh |-> at[i], morph |-> t, weight |-> b]
      BY <2>7, <2>8
    <2>10. s \in Seq(V)
      <3>1. t \in Nat
        BY <1>2, <2>6
      <3>2. b \in Nat /\ \A i \in 1 .. m : at[i] \in Nat
        <4>1. b \in Nat
          OBVIOUS
        <4>2. P \subseteq Nat
          OBVIOUS
        <4> QED
          BY <2>5, <4>1, <4>2
      <3>3. \A i \in 1 .. m : [mesh |-> at[i], morph |-> t, weight |-> b] \in V
        BY <3>1, <3>2
      <3> HIDE DEF V
      <3> QED
        BY <2>7, <2>8, <3>3
    <2>11. ASSUME NEW x \in Range(s) PROVE x.mesh \in P /\ x.morph = t
      <3>1. PICK i \in 1 .. m : x = [mesh |-> at[i], morph |-> t, weight |-> b]
        BY <2>9 DEF Range
      <3> QED
        BY <2>5, <3>1
    <2>12. ASSUME NEW k \in P PROVE \E x \in Range(s) : x.mesh = k /\ x.morph = t
      <3>1. PICK i \in 1 .. m : at[i] = k
        BY <2>5
      <3>2. s[i] \in Range(s) /\ s[i].mesh = k /\ s[i].morph = t
        BY <2>9, <3>1 DEF Range
      <3> QED
        BY <3>2
    <2> QED
      BY <2>1, <2>6, <2>8, <2>10, <2>11, <2>12
  <1> HIDE DEF own, driven, V
  <1>6. DOMAIN seqs = 1 .. n /\ Len(seqs) = n /\ (\A b \in 1 .. n : seqs[b] = own(b))
        /\ (n = 0 => seqs = << >>)
    <2>1. DOMAIN seqs = 1 .. n /\ \A b \in 1 .. n : seqs[b] = own(b)
      BY <1>2
    <2>2. seqs = [b \in 1 .. n |-> seqs[b]]
      BY <1>2
    <2> HIDE DEF seqs
    <2>3. IsList(seqs) /\ Len(seqs) = n
      BY <2>1, <2>2, ListByPlace
    <2> QED
      BY <2>1, <2>3 DEF IsList
  <1> HIDE DEF seqs
  <1>7. PICK s : s = seqs
    OBVIOUS
  <1>8. /\ FlattenSeq(s) \in Seq(V)
        /\ Range(FlattenSeq(s)) = UNION {Range(s[b]) : b \in 1 .. n}
    <2>1. \A b \in 1 .. n : s[b] \in Seq(V)
      BY <1>5, <1>6, <1>7
    <2> QED
      BY <1>6, <1>7, <2>1, Flattened
  <1>9. PICK flat \in Seq(V) : flat = MorphBinds(e)
    BY <1>4, <1>7, <1>8
  <1>10. DOMAIN flat = 1 .. Len(flat) /\ Len(flat) \in Nat
    OBVIOUS
  <1>11. ASSUME NEW x \in Range(flat)
         PROVE  \E b \in Range(entries) : x.mesh \in Driven(b) /\ x.morph = b.morph
    <2>1. PICK b \in 1 .. n : x \in Range(own(b))
      BY <1>4, <1>6, <1>7, <1>8, <1>9
    <2>2. x.mesh \in Driven(entries[b]) /\ x.morph = entries[b].morph
      BY <1>5, <2>1
    <2>3. entries[b] \in Range(entries)
      BY <1>2 DEF Range
    <2> QED
      BY <2>2, <2>3
  <1>12. ASSUME NEW bind \in Range(entries), NEW k \in Driven(bind)
         PROVE  \E x \in Range(flat) : x.mesh = k /\ x.morph = bind.morph
    <2>1. PICK b \in 1 .. n : entries[b] = bind
      BY <1>2 DEF Range
    <2>2. PICK x \in Range(own(b)) : x.mesh = k /\ x.morph = bind.morph
      BY <1>5, <2>1
    <2>3. x \in Range(flat)
      BY <1>4, <1>6, <1>7, <1>8, <1>9
    <2> QED
      BY <2>2, <2>3
  <1> QED
    BY <1>1, <1>9, <1>10, <1>11, <1>12

\* The targets of an expression are the morph targets its entry's binds name.
LEMMA MorphTargetsAre ==
    ASSUME Read, usda = Stage, HasSkel, NEW e \in Range(expressions), NEW name
    PROVE  {ShapeOf(n) : n \in Range(ExpressionPrim(name, e).morphTargets)} = ShapesNamed(e.source)
  <1>1. PICK entries : entries = file.expressions[e.source].binds
    OBVIOUS
  <1>2. PICK binds : binds = MorphBinds(e)
    OBVIOUS
  <1>3. PICK n \in Nat : DOMAIN binds = 1 .. n
    BY <1>2, MorphBindsAre
  <1> DEFINE paths == [i \in DOMAIN binds |-> MorphName(binds[i].mesh, binds[i].morph)]
  <1>4. ExpressionPrim(name, e).morphTargets = Targets(paths)
    BY <1>2 DEF ExpressionPrim
  <1>5. DOMAIN paths = 1 .. n
    BY <1>3
  <1>6. \A x : x \in Range(paths) <=> \E b \in Range(binds) : x = MorphName(b.mesh, b.morph)
    BY DEF Range
  <1> HIDE DEF paths
  <1>7. \A x : x \in Range(Targets(paths)) <=> x \in Range(paths)
    BY <1>5, TargetsHold
  <1>8. \A k \in DOMAIN meshes :
           LET p == file.prims[meshes[k].source]
           IN  /\ meshes[k].node = p.node /\ meshes[k].mesh = p.mesh
               /\ DOMAIN meshes[k].morphs = DOMAIN p.morphs
    BY MeshNameDiffers DEF Read, DocumentInv, LossInv, SourceInv
  <1>9. ASSUME NEW b, NEW k \in DOMAIN meshes
        PROVE  k \in Driven(b) <=>
                  LET p == file.prims[meshes[k].source]
                  IN  /\ b.target = IF file.version = "Vrm1" THEN p.node ELSE p.mesh
                      /\ b.morph \in DOMAIN p.morphs
    BY <1>8 DEF Driven, TargetMeshes
  <1>10. ASSUME NEW x \in Range(paths)
         PROVE  ShapeOf(x) \in ShapesNamed(e.source)
    <2>1. PICK bind \in Range(binds) : x = MorphName(bind.mesh, bind.morph)
      BY <1>6
    <2>2. PICK b \in Range(entries) : bind.mesh \in Driven(b) /\ bind.morph = b.morph
      BY <1>1, <1>2, MorphBindsAre
    <2>3. PICK k \in DOMAIN meshes : k = bind.mesh
      BY <2>2 DEF Driven, TargetMeshes
    <2>4. k \in Driven(b) /\ x = MorphName(k, b.morph)
      BY <2>1, <2>2, <2>3
    <2>5. ShapeOf(x) = <<meshes[k].source, b.morph>>
      <3>1. IsMorph(k, b.morph)
        BY <2>4 DEF IsMorph, Driven
      <3> QED
        BY <2>4, <3>1, ShapesOfStage
    <2>6. PICK q : q = meshes[k].source
      OBVIOUS
    <2>7. /\ q \in {m.source : m \in Range(meshes)}
          /\ b.target = IF file.version = "Vrm1" THEN file.prims[q].node ELSE file.prims[q].mesh
          /\ b.morph \in DOMAIN file.prims[q].morphs
      BY <1>9, <2>4, <2>6 DEF Range
    <2> QED
      BY <1>1, <2>5, <2>6, <2>7 DEF ShapesNamed
  <1>11. ASSUME NEW shape \in ShapesNamed(e.source)
         PROVE  \E x \in Range(paths) : shape = ShapeOf(x)
    <2>1. PICK b \in Range(entries), q \in {m.source : m \in Range(meshes)} :
             /\ shape = <<q, b.morph>>
             /\ b.target = IF file.version = "Vrm1" THEN file.prims[q].node ELSE file.prims[q].mesh
             /\ b.morph \in DOMAIN file.prims[q].morphs
      BY <1>1 DEF ShapesNamed
    <2>2. PICK k \in DOMAIN meshes : q = meshes[k].source
      BY DEF Range
    <2>3. k \in Driven(b)
      BY <1>9, <2>1, <2>2
    <2>4. PICK bind \in Range(binds) : bind.mesh = k /\ bind.morph = b.morph
      BY <1>1, <1>2, <2>3, MorphBindsAre
    <2>5. MorphName(k, b.morph) \in Range(paths)
      BY <1>6, <2>4
    <2>6. IsMorph(k, b.morph)
      BY <2>3 DEF IsMorph, Driven
    <2>7. ShapeOf(MorphName(k, b.morph)) = shape
      BY <2>1, <2>2, <2>6, ShapesOfStage
    <2> QED
      BY <2>5, <2>7
  <1>12. \A x \in Range(Targets(paths)) : ShapeOf(x) \in ShapesNamed(e.source)
    BY <1>7, <1>10
  <1>13. \A shape \in ShapesNamed(e.source) :
            \E x \in Range(Targets(paths)) : shape = ShapeOf(x)
    BY <1>7, <1>11
  <1> QED
    BY <1>4, <1>12, <1>13

\* A colour bind is of the material its entry names, or is left out.
LEMMA BoundIsNamed ==
    ASSUME Read, scene = Scene, usda = Stage, Readable, NEW c
    PROVE  /\ BoundMaterial(c) # 0 => BoundMaterial(c) \in DOMAIN file.materials
           /\ \A m \in DOMAIN file.materials : IsNamed(m, c) <=> m = BoundMaterial(c)
  <1>1. PICK n \in Nat : DOMAIN file.materials = 1 .. n
    BY MaterialsOfStage
  <1>2. file.version \in {"Vrm0", "Vrm1"}
    BY FileIsRead, ExtensionAssumption DEF Readable
  <1>3. CASE file.version = "Vrm1"
    <2>1. BoundMaterial(c) = IF c.material \in DOMAIN file.materials THEN c.material ELSE 0
      BY <1>3 DEF BoundMaterial
    <2>2. \A m \in DOMAIN file.materials : IsNamed(m, c) <=> m = c.material
      BY <1>3 DEF IsNamed
    <2> QED
      BY <1>1, <2>1, <2>2
  <1>4. CASE file.version = "Vrm0"
    <2> DEFINE S == {i \in DOMAIN file.materials : file.materials[i].name = c.named}
    <2>1. S \in SUBSET Nat /\ MaterialNamed(c.named) = Min(S)
      BY <1>1 DEF MaterialNamed
    <2>2. c.named \in ToSet(RawMaterialNames) <=> S # {}
      BY DEF ToSet, RawMaterialNames
    <2>3. BoundMaterial(c) = IF Vrm0Refusal(c) = "" THEN MaterialNamed(c.named) ELSE 0
      BY <1>4 DEF BoundMaterial
    <2>4. Vrm0Refusal(c) = "" <=> c.slot \in Slots /\ S # {} /\ c.sound
      BY <2>2 DEF Vrm0Refusal
    <2>5. \A m \in DOMAIN file.materials :
             IsNamed(m, c) <=> /\ c.slot \in Slots /\ c.sound /\ m \in S
                               /\ \A i \in 1 .. m - 1 : i \notin S
      <3>1. \A m \in DOMAIN file.materials : \A i \in 1 .. m - 1 : i \in DOMAIN file.materials
        BY <1>1
      <3> QED
        BY <1>4, <3>1 DEF IsNamed
    <2>6. S \subseteq DOMAIN file.materials
      OBVIOUS
    <2> HIDE DEF S
    <2>7. S # {} => Min(S) \in S /\ \A k \in S : Min(S) <= k
      BY <2>1, LeastMember DEF Min
    <2>8. CASE Vrm0Refusal(c) = ""
      <3>1. BoundMaterial(c) = Min(S) /\ Min(S) \in S
        BY <2>1, <2>3, <2>4, <2>7, <2>8
      <3>2. ASSUME NEW m \in DOMAIN file.materials
            PROVE  (m \in S /\ \A i \in 1 .. m - 1 : i \notin S) <=> m = Min(S)
        <4>1. ASSUME m \in S, \A i \in 1 .. m - 1 : i \notin S PROVE m = Min(S)
          <5>1. Min(S) \in Nat \ {0} /\ m \in Nat /\ Min(S) <= m
            BY <1>1, <2>6, <2>7, <4>1
          <5>2. Min(S) \notin 1 .. m - 1
            BY <2>7, <4>1
          <5> QED
            BY <5>1, <5>2
        <4>2. ASSUME m = Min(S), NEW i \in 1 .. m - 1 PROVE i \notin S
          <5>1. m \in Nat /\ ~(m <= i)
            BY <1>1
          <5> QED
            BY <2>7, <4>2, <5>1
        <4> QED
          BY <3>1, <4>1, <4>2
      <3> QED
        BY <2>4, <2>5, <2>6, <2>8, <3>1, <3>2
    <2>9. CASE Vrm0Refusal(c) # ""
      <3>1. BoundMaterial(c) = 0
        BY <2>3, <2>9
      <3>2. ASSUME NEW m \in DOMAIN file.materials, IsNamed(m, c) PROVE FALSE
        <4>1. c.slot \in Slots /\ c.sound /\ S # {}
          BY <2>5, <3>2
        <4> QED
          BY <2>4, <2>9, <4>1
      <3>3. \A m \in DOMAIN file.materials : m # 0
        BY <1>1
      <3> QED
        BY <3>1, <3>2, <3>3
    <2> QED
      BY <2>8, <2>9
  <1> QED
    BY <1>2, <1>3, <1>4

\* The colours of an expression are those of the materials its entry's colour binds name.
LEMMA ColoursAre ==
    ASSUME Read, scene = Scene, usda = Stage, Readable, NEW e \in Range(expressions), NEW name
    PROVE  LET p == ExpressionPrim(name, e)
           IN  {<<usda.mtl[p.colourTargets[p.colourIndices[i]]].source, p.slots[i]>> :
                   i \in DOMAIN p.slots} = ColoursNamed(e.source)
  <1>1. PICK entries : entries = file.colours[e.source]
    OBVIOUS
  <1>2. PICK l \in Nat : l = Len(entries) /\ DOMAIN entries = 1 .. l
    <2>1. PICK x \in DOMAIN file.expressions : x = e.source
      BY DEF Read, EntriesInv, ExpressionsInv, Range
    <2>2. IsArray(entries)
      BY <1>1, <2>1, FileIsRead, SceneAssumption
    <2> QED
      BY <2>2, ArrayIsList
  <1>3. PICK P \in SUBSET (1 .. l) : P = {i \in DOMAIN entries : BoundMaterial(entries[i]) # 0}
    BY <1>2
  <1>4. PICK n \in Nat : n = Cardinality(P)
    BY EntriesAre
  <1>5. PICK at : at = InOrder(P)
    OBVIOUS
  <1>6. (\A i \in 1 .. n : at[i] \in P) /\ \A q \in P : \E i \in 1 .. n : at[i] = q
    BY <1>4, <1>5, EntriesAre
  <1>7. PICK kept : kept = Entries(entries, P)
    OBVIOUS
  <1>8. kept = [i \in 1 .. n |-> entries[at[i]]]
    BY <1>4, <1>5, <1>7 DEF Entries
  <1>9. PICK colours : colours = ColourBinds(e)
    OBVIOUS
  <1>10. DOMAIN colours = 1 .. n /\ \A i \in 1 .. n : /\ colours[i].material = BoundMaterial(kept[i])
                                                      /\ colours[i].slot = kept[i].slot
    <2>1. colours = [i \in DOMAIN kept |-> [material |-> BoundMaterial(kept[i]), slot |-> kept[i].slot]]
      BY <1>1, <1>3, <1>7, <1>9 DEF ColourBinds
    <2>2. DOMAIN kept = 1 .. n
      BY <1>8
    <2> QED
      BY <2>1, <2>2
  <1> DEFINE painted == [i \in DOMAIN colours |-> scene.materials[colours[i].material].name]
             p == ExpressionPrim(name, e)
  <1>11. /\ p.colourTargets = Targets(painted)
         /\ p.colourIndices = [i \in DOMAIN painted |-> IndexOf(painted[i], Targets(painted))]
         /\ p.slots = [i \in DOMAIN colours |-> colours[i].slot]
    BY <1>9 DEF ExpressionPrim
  <1>12. DOMAIN painted = 1 .. n
         /\ \A i \in 1 .. n : /\ painted[i] = scene.materials[colours[i].material].name
                              /\ painted[i] \in Range(painted)
    BY <1>10 DEF Range
  <1> HIDE DEF painted
  <1>13. \A x \in Range(painted) : Targets(painted)[IndexOf(x, Targets(painted))] = x
    BY <1>12, TargetsHold
  <1>14. ASSUME NEW i \in 1 .. n
         PROVE  /\ at[i] \in P /\ kept[i] = entries[at[i]]
                /\ usda.mtl[p.colourTargets[p.colourIndices[i]]].source = BoundMaterial(kept[i])
                /\ p.slots[i] = kept[i].slot
    <2>1. at[i] \in P /\ kept[i] = entries[at[i]]
      BY <1>6, <1>8
    <2>2. PICK m : m = BoundMaterial(kept[i])
      OBVIOUS
    <2>3. m \in DOMAIN file.materials
      <3>1. m # 0
        BY <1>3, <2>1, <2>2
      <3> QED
        BY <2>2, <3>1, BoundIsNamed
    <2>4. p.colourTargets[p.colourIndices[i]] = scene.materials[m].name
      <3>1. p.colourIndices[i] = IndexOf(painted[i], Targets(painted))
        BY <1>11, <1>12
      <3>2. p.colourTargets[p.colourIndices[i]] = painted[i]
        BY <1>11, <1>12, <1>13, <3>1
      <3> QED
        BY <1>10, <1>12, <2>2, <3>2
    <2>5. usda.mtl[scene.materials[m].name].source = m
      BY <2>3, MaterialsOfStage
    <2>6. p.slots[i] = kept[i].slot
      BY <1>10, <1>11
    <2> QED
      BY <2>1, <2>2, <2>4, <2>5, <2>6
  <1>15. DOMAIN p.slots = 1 .. n
    BY <1>10, <1>11
  <1> HIDE DEF p
  <1>16. ASSUME NEW i \in DOMAIN p.slots
         PROVE  <<usda.mtl[p.colourTargets[p.colourIndices[i]]].source, p.slots[i]>>
                   \in ColoursNamed(e.source)
    <2>1. PICK c \in Range(entries) : c = kept[i] /\ BoundMaterial(c) # 0
      <3>1. at[i] \in P /\ kept[i] = entries[at[i]]
        BY <1>14, <1>15
      <3>2. entries[at[i]] \in Range(entries) /\ BoundMaterial(entries[at[i]]) # 0
        BY <1>3, <3>1 DEF Range
      <3> QED
        BY <3>1, <3>2
    <2>2. PICK m \in DOMAIN file.materials : m = BoundMaterial(c)
      BY <2>1, BoundIsNamed
    <2>3. IsNamed(m, c)
      BY <2>2, BoundIsNamed
    <2>4. <<m, c.slot>> \in ColoursNamed(e.source)
      BY <1>1, <2>3 DEF ColoursNamed
    <2> QED
      BY <1>14, <1>15, <2>1, <2>2, <2>4
  <1>17. ASSUME NEW colour \in ColoursNamed(e.source)
         PROVE  \E i \in DOMAIN p.slots :
                   colour = <<usda.mtl[p.colourTargets[p.colourIndices[i]]].source, p.slots[i]>>
    <2>1. PICK c \in Range(entries), m \in DOMAIN file.materials :
             IsNamed(m, c) /\ colour = <<m, c.slot>>
      BY <1>1 DEF ColoursNamed
    <2>2. m = BoundMaterial(c)
      BY <2>1, BoundIsNamed
    <2>3. PICK q \in P : entries[q] = c
      <3>1. PICK q \in DOMAIN entries : entries[q] = c
        BY DEF Range
      <3>2. m # 0
        BY MaterialsOfStage
      <3> QED
        BY <1>3, <2>2, <3>1, <3>2
    <2>4. PICK i \in 1 .. n : at[i] = q
      BY <1>6
    <2>5. kept[i] = c
      BY <1>14, <2>3, <2>4
    <2>6. colour = <<usda.mtl[p.colourTargets[p.colourIndices[i]]].source, p.slots[i]>>
      BY <1>14, <2>1, <2>2, <2>5
    <2> QED
      BY <1>15, <2>6
  <1>18. {<<usda.mtl[p.colourTargets[p.colourIndices[i]]].source, p.slots[i]>> : i \in DOMAIN p.slots}
            = ColoursNamed(e.source)
    BY <1>16, <1>17
  <1> QED
    BY <1>18 DEF p

\* Every expression of the stage reaches what its entry's binds name.
LEMMA FacesOfStage ==
    ASSUME Read, NamesInv, scene = Scene, usda = Stage
    PROVE  FacesAreTheFiles
  <1> SUFFICES ASSUME NEW e \in Range(expressions)
               PROVE  \E p \in Range(usda.expressions) :
                         /\ p.expressionName = e.name
                         /\ HasSkel => {ShapeOf(n) : n \in Range(p.morphTargets)} = ShapesNamed(e.source)
                         /\ {<<usda.mtl[p.colourTargets[p.colourIndices[i]]].source, p.slots[i]>> :
                                 i \in DOMAIN p.slots} = ColoursNamed(e.source)
    BY DEF FacesAreTheFiles
  <1>1. Readable
    BY DEF NamesInv, Range
  <1>2. PICK name : ExpressionPrim(name, e) \in Range(usda.expressions)
    BY ExpressionsOfStage
  <1>3. PICK p \in Range(usda.expressions) : p = ExpressionPrim(name, e)
    BY <1>2
  <1>4. p.expressionName = e.name
    BY <1>3 DEF ExpressionPrim
  <1>5. HasSkel => {ShapeOf(n) : n \in Range(p.morphTargets)} = ShapesNamed(e.source)
    BY <1>3, MorphTargetsAre
  <1>6. {<<usda.mtl[p.colourTargets[p.colourIndices[i]]].source, p.slots[i]>> :
            i \in DOMAIN p.slots} = ColoursNamed(e.source)
    BY <1>1, <1>3, ColoursAre
  <1> QED
    BY <1>4, <1>5, <1>6

(***************************************************************************)
(* For every file: the stage says what the file says whatever names it     *)
(* gives.  Every mesh, material, expression, clip, spring, constraint and  *)
(* morph target has a prim of its own, since names are made to differ; an  *)
(* expression reaches the morph targets and material slots its binds name  *)
(* and no others, and every joint token is the path of the joint of the    *)
(* node the file gives, however names repeat, primitives are skipped and   *)
(* the joints are sorted (VrmMakeUniqueNames, addBinds, jointTok).         *)
(***************************************************************************)
THEOREM StageAlwaysNamesTheFile == ImportSpec => []StageNamesWhatTheFileNames
  <1>1. DocumentInv /\ EntriesInv /\ StageInv /\ NamesInv => StageNamesWhatTheFileNames
    <2> SUFFICES ASSUME DocumentInv, EntriesInv, StageInv, NamesInv, Authored
                 PROVE  StageNamesWhatTheFileNames
      BY DEF StageNamesWhatTheFileNames
    <2>1. Read /\ scene = Scene /\ usda = Stage
      BY DEF StageInv, Authored, Read
    <2>2. /\ Whole(usda.geo, meshes) /\ Whole(usda.mtl, file.materials)
          /\ Whole(usda.expressions, expressions) /\ Whole(usda.animations, scene.animations)
      BY <2>1, GeoIsWhole, MaterialsOfStage, ExpressionsOfStage, ClipsAreWhole
    <2>3. /\ Whole(usda.springs, scene.springs) /\ Whole(usda.constraints, scene.constraints)
          /\ HasSkel => Whole(usda.blendShapes, Morphs)
      BY <2>1, SpringsOfStage, ConstraintsOfStage, ShapesOfStage
    <2>4. \A k \in DOMAIN meshes :
             LET m == usda.geo[MeshName(k)]
             IN  /\ m.source = meshes[k].source
                 /\ HasSkel => \A t \in DOMAIN meshes[k].morphs :
                       ShapeOf(m.blendShapes[t]) = <<m.source, t>>
      BY <2>1, MeshesOfStage
    <2>5. FacesAreTheFiles
      BY <2>1, FacesOfStage
    <2>6. TokensAreTheFiles
      BY <2>1, TokensOfStage
    <2> QED
      BY <2>2, <2>3, <2>4, <2>5, <2>6 DEF StageNamesWhatTheFileNames
  <1> QED
    BY <1>1, NamesInvariant, PTL
=============================================================================
