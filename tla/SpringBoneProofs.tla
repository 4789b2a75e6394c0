--------------------------- MODULE SpringBoneProofs ---------------------------
(***************************************************************************)
(* What holds of SpringBoneSolver for every rig, pose, duration and number *)
(* of copies: what a solver value holds, what a rig's joints are, where    *)
(* the walk of the skeleton leaves every joint, and from these what the    *)
(* caller is told.                                                         *)
(***************************************************************************)
EXTENDS SpringBoneSolver, Recursion, FiniteSetTheorems, TLAPS

\* The effect of a successful call on one solver value.
Accepted(c, s) == solver' = [solver EXCEPT ![c] = s]

\* Every step leaves the solvers alone or replaces exactly one of them: by a newly
\* configured value, by its own successor under Reset or Step, or by a copy.
LEMMA StepCases ==
    ASSUME [Next]_vars
    PROVE  \/ UNCHANGED solver
           \/ \E c \in Solvers, rig \in Rigs :
                /\ Accepts(rig)
                /\ Accepted(c, [rig |-> rig, joints |-> SolverJoints(rig),
                                configured |-> TRUE, initialized |-> FALSE])
           \/ \E c \in Solvers, pose \in Poses :
                CanReset(solver[c], pose) /\ Accepted(c, AfterReset(solver[c], pose))
           \/ \E c \in Solvers, pose \in Poses, seconds \in Durations :
                /\ CanStep(solver[c], pose, seconds)
                /\ Accepted(c, AfterStep(solver[c], pose, seconds))
           \/ \E from, to \in Solvers : Accepted(to, solver[from])
<1>1. CASE UNCHANGED vars
  BY <1>1 DEF vars
<1>2. ASSUME NEW c \in Solvers, NEW rig \in Rigs, Configure(c, rig)
      PROVE  \/ UNCHANGED solver
             \/ Accepts(rig) /\ Accepted(c, [rig |-> rig, joints |-> SolverJoints(rig),
                                             configured |-> TRUE, initialized |-> FALSE])
  BY <1>2 DEF Configure, Configured, Refuse, Accepted
<1>3. ASSUME NEW c \in Solvers, NEW pose \in Poses, NEW hasResult \in BOOLEAN,
             Reset(c, pose, hasResult)
      PROVE  \/ UNCHANGED solver
             \/ CanReset(solver[c], pose) /\ Accepted(c, AfterReset(solver[c], pose))
  BY <1>3 DEF Reset, Refuse, Accepted
<1>4. ASSUME NEW c \in Solvers, NEW pose \in Poses, NEW seconds \in Durations,
             NEW hasResult \in BOOLEAN, Step(c, pose, seconds, hasResult)
      PROVE  \/ UNCHANGED solver
             \/ /\ CanStep(solver[c], pose, seconds)
                /\ Accepted(c, AfterStep(solver[c], pose, seconds))
  BY <1>4 DEF Step, Refuse, Accepted
<1>5. ASSUME NEW from \in Solvers, NEW to \in Solvers, Copy(from, to)
      PROVE  Accepted(to, solver[from])
  BY <1>5 DEF Copy, Accepted
<1>6. QED
  BY <1>1, <1>2, <1>3, <1>4, <1>5 DEF Next

\* What Accepted does to each solver, the owner's and the others'.
LEMMA AcceptedValue ==
    ASSUME TypeOK, NEW c \in Solvers, NEW s, Accepted(c, s), NEW d \in Solvers
    PROVE  solver'[d] = IF d = c THEN s ELSE solver[d]
BY DEF TypeOK, Accepted

\* Spec => []TypeOK: the flags of every copy stay nested whatever rigs and poses the
\* caller passes and however copies are taken.
THEOREM TypeCorrect == Spec => []TypeOK
<1>1. Init => TypeOK
  <2>1. Unconfigured.configured = FALSE /\ Unconfigured.initialized = FALSE
    BY DEF Unconfigured
  <2>2. Init => \A c \in Solvers : solver[c] = Unconfigured
    BY DEF Init
  <2>3. Init => DOMAIN solver = Solvers /\ DOMAIN result = Solvers
    BY DEF Init
  <2>4. QED
    BY <2>1, <2>2, <2>3 DEF TypeOK
<1>2. TypeOK /\ [Next]_vars => TypeOK'
  <2> SUFFICES ASSUME TypeOK, [Next]_vars PROVE TypeOK'
    OBVIOUS
  <2>1. DOMAIN result' = Solvers
    BY DEF TypeOK, Next, vars, Configure, Configured, Reset, Step, Copy, Refuse
  <2>2. CASE UNCHANGED solver
    BY <2>1, <2>2 DEF TypeOK
  <2>3. ASSUME NEW c \in Solvers, NEW s, Accepted(c, s),
               s.configured \in BOOLEAN, s.initialized \in BOOLEAN,
               s.initialized => s.configured
        PROVE  TypeOK'
    BY <2>1, <2>3, AcceptedValue DEF TypeOK, Accepted
  <2>4. CASE \E c \in Solvers, rig \in Rigs :
               /\ Accepts(rig)
               /\ Accepted(c, [rig |-> rig, joints |-> SolverJoints(rig),
                               configured |-> TRUE, initialized |-> FALSE])
    BY <2>3, <2>4
  <2>5. CASE \E c \in Solvers, pose \in Poses :
               CanReset(solver[c], pose) /\ Accepted(c, AfterReset(solver[c], pose))
    BY <2>3, <2>5 DEF TypeOK, CanReset, ValidPose, AfterReset, Solving
  <2>6. CASE \E c \in Solvers, pose \in Poses, seconds \in Durations :
               /\ CanStep(solver[c], pose, seconds)
               /\ Accepted(c, AfterStep(solver[c], pose, seconds))
    BY <2>3, <2>6 DEF TypeOK, CanStep, ValidPose, AfterStep, Solving
  <2>7. CASE \E from, to \in Solvers : Accepted(to, solver[from])
    BY <2>3, <2>7 DEF TypeOK
  <2>8. QED
    BY <2>2, <2>4, <2>5, <2>6, <2>7, StepCases
<1>3. QED
  BY <1>1, <1>2, PTL DEF Spec

\* Finiteness of the history of one solver value.
FiniteHistory(s) ==
    s.initialized => \A k \in DOMAIN s.joints :
                        Finite(s.joints[k].current) /\ Finite(s.joints[k].previous)

LEMMA ResetIsFinite ==
    ASSUME NEW s, NEW pose, CanReset(s, pose)
    PROVE  FiniteHistory(AfterReset(s, pose))
BY DEF CanReset, FiniteHistory, AfterReset, Solving, WithHistory

LEMMA StepIsFinite ==
    ASSUME NEW s, NEW pose, NEW seconds, FiniteHistory(s), CanStep(s, pose, seconds)
    PROVE  FiniteHistory(AfterStep(s, pose, seconds))
<1> DEFINE sim == Simulate(s, pose, seconds)
           visit(k) == {i \in Turned(s) : Turn(s, i) = k}
           next == AfterStep(s, pose, seconds)
<1>1. \A k \in DOMAIN s.joints : Finite(s.joints[k].current) /\ Finite(s.joints[k].previous)
  BY DEF FiniteHistory, CanStep
<1>2. \A i \in Turned(s) : Finite(sim[i].current)
  BY DEF CanStep, FiniteSimulation
<1>3. /\ DOMAIN next.joints = DOMAIN s.joints
      /\ \A k \in DOMAIN s.joints :
           next.joints[k] = IF visit(k) = {} THEN s.joints[k]
                            ELSE WithHistory(s.joints[k],
                                             sim[CHOOSE i \in visit(k) : TRUE].current,
                                             s.joints[k].current)
  BY DEF AfterStep, StepJoints, StepJoint, Solving
<1>4. ASSUME NEW k \in DOMAIN s.joints
      PROVE  Finite(next.joints[k].current) /\ Finite(next.joints[k].previous)
  <2>1. CASE visit(k) = {}
    BY <1>1, <1>3, <2>1
  <2>2. CASE visit(k) # {}
    <3>1. (CHOOSE i \in visit(k) : TRUE) \in Turned(s)
      BY <2>2
    <3>2. Finite(sim[CHOOSE i \in visit(k) : TRUE].current)
      BY <1>2, <3>1
    <3>3. next.joints[k] = WithHistory(s.joints[k], sim[CHOOSE i \in visit(k) : TRUE].current,
                                       s.joints[k].current)
      BY <1>3, <2>2
    <3>4. /\ next.joints[k].current = sim[CHOOSE i \in visit(k) : TRUE].current
          /\ next.joints[k].previous = s.joints[k].current
      BY <3>3 DEF WithHistory
    <3>5. QED
      BY <1>1, <3>2, <3>4
  <2>3. QED
    BY <2>1, <2>2
<1>5. QED
  BY <1>3, <1>4 DEF FiniteHistory

\* Spec => []HistoryFinite: no sequence of calls makes a Step integrate from a
\* position that overflowed.
THEOREM HistoryStaysFinite == Spec => []HistoryFinite
<1>1. Init => HistoryFinite
  BY DEF Init, HistoryFinite, Unconfigured
<1>2. TypeOK /\ HistoryFinite /\ [Next]_vars => HistoryFinite'
  <2> SUFFICES ASSUME TypeOK, HistoryFinite, [Next]_vars PROVE HistoryFinite'
    OBVIOUS
  <2>1. \A c \in Solvers : FiniteHistory(solver[c])
    BY DEF HistoryFinite, FiniteHistory
  <2>2. ASSUME \A c \in Solvers : FiniteHistory(solver'[c]) PROVE HistoryFinite'
    BY <2>2 DEF HistoryFinite, FiniteHistory
  <2>3. CASE UNCHANGED solver
    BY <2>1, <2>2, <2>3
  <2>4. ASSUME NEW c \in Solvers, NEW s, Accepted(c, s), FiniteHistory(s)
        PROVE  HistoryFinite'
    BY <2>1, <2>2, <2>4, AcceptedValue
  <2>5. CASE \E c \in Solvers, rig \in Rigs :
               /\ Accepts(rig)
               /\ Accepted(c, [rig |-> rig, joints |-> SolverJoints(rig),
                               configured |-> TRUE, initialized |-> FALSE])
    BY <2>4, <2>5 DEF FiniteHistory
  <2>6. CASE \E c \in Solvers, pose \in Poses :
               CanReset(solver[c], pose) /\ Accepted(c, AfterReset(solver[c], pose))
    BY <2>4, <2>6, ResetIsFinite
  <2>7. CASE \E c \in Solvers, pose \in Poses, seconds \in Durations :
               /\ CanStep(solver[c], pose, seconds)
               /\ Accepted(c, AfterStep(solver[c], pose, seconds))
    BY <2>1, <2>4, <2>7, StepIsFinite
  <2>8. CASE \E from, to \in Solvers : Accepted(to, solver[from])
    BY <2>1, <2>4, <2>8
  <2>9. QED
    BY <2>3, <2>5, <2>6, <2>7, <2>8, StepCases
<1>3. QED
  BY <1>1, <1>2, TypeCorrect, PTL DEF Spec

\* One solver value against the rig it holds.
Matches(s) ==
    s.configured =>
      /\ Accepts(s.rig)
      /\ DOMAIN s.joints = DOMAIN SolverJoints(s.rig)
      /\ \A k \in DOMAIN s.joints :
           WithHistory(s.joints[k], 0, 0) = WithHistory(SolverJoints(s.rig)[k], 0, 0)

\* Replacing the history of joints keeps them a match for the rig.
LEMMA HistoryKeepsMatch ==
    ASSUME NEW s, NEW joints, Matches(s), s.configured,
           DOMAIN joints = DOMAIN s.joints,
           \A k \in DOMAIN joints : WithHistory(joints[k], 0, 0) = WithHistory(s.joints[k], 0, 0)
    PROVE  Matches(Solving(s, joints))
BY DEF Matches, Solving

LEMMA ResetKeepsMatch ==
    ASSUME NEW s, NEW pose, Matches(s), CanReset(s, pose)
    PROVE  Matches(AfterReset(s, pose))
<1> DEFINE joints == [k \in DOMAIN s.joints |->
                        WithHistory(s.joints[k], RestHistory(s, pose, k),
                                    RestHistory(s, pose, k))]
<1>1. \A k \in DOMAIN joints : WithHistory(joints[k], 0, 0) = WithHistory(s.joints[k], 0, 0)
  BY DEF WithHistory
<1>2. s.configured
  BY DEF CanReset, ValidPose
<1>3. DOMAIN joints = DOMAIN s.joints
  OBVIOUS
<1>4. AfterReset(s, pose) = Solving(s, joints)
  BY DEF AfterReset
<1> HIDE DEF joints
<1>5. QED
  BY <1>1, <1>2, <1>3, <1>4, HistoryKeepsMatch

LEMMA StepKeepsMatch ==
    ASSUME NEW s, NEW pose, NEW seconds, Matches(s), CanStep(s, pose, seconds)
    PROVE  Matches(AfterStep(s, pose, seconds))
<1> DEFINE sim == Simulate(s, pose, seconds)
           visit(k) == {i \in Turned(s) : Turn(s, i) = k}
           moved(k) == WithHistory(s.joints[k], sim[CHOOSE i \in visit(k) : TRUE].current,
                                   s.joints[k].current)
           joints == [k \in DOMAIN s.joints |->
                        IF visit(k) = {} THEN s.joints[k] ELSE moved(k)]
<1>1. \A k \in DOMAIN s.joints : joints[k] = s.joints[k] \/ joints[k] = moved(k)
  OBVIOUS
<1>2. \A k : WithHistory(moved(k), 0, 0) = WithHistory(s.joints[k], 0, 0)
  BY DEF WithHistory
<1>3. s.configured
  BY DEF CanStep, ValidPose
<1>4. DOMAIN joints = DOMAIN s.joints
  OBVIOUS
<1>5. AfterStep(s, pose, seconds) = Solving(s, joints)
  BY DEF AfterStep, StepJoints, StepJoint
<1> HIDE DEF joints, moved
<1>6. \A k \in DOMAIN joints : WithHistory(joints[k], 0, 0) = WithHistory(s.joints[k], 0, 0)
  BY <1>1, <1>2, <1>4
<1>7. QED
  BY <1>3, <1>4, <1>5, <1>6, HistoryKeepsMatch

\* Spec => []JointsMatchRig: whatever is configured, reset, stepped and copied, every
\* solver holds the joints of an accepted rig, its own.
THEOREM JointsAlwaysMatchRig == Spec => []JointsMatchRig
<1>1. JointsMatchRig <=> \A c \in Solvers : Matches(solver[c])
  BY DEF JointsMatchRig, Matches
<1>2. (\A c \in Solvers : Matches(solver[c]))' <=> JointsMatchRig'
  BY DEF JointsMatchRig, Matches
<1>3. Init => JointsMatchRig
  <2>1. ~Unconfigured.configured
    BY DEF Unconfigured
  <2>2. Init => \A c \in Solvers : solver[c] = Unconfigured
    BY DEF Init
  <2>3. QED
    BY <1>1, <2>1, <2>2 DEF Matches
<1>4. TypeOK /\ JointsMatchRig /\ [Next]_vars => JointsMatchRig'
  <2> SUFFICES ASSUME TypeOK, JointsMatchRig, [Next]_vars
               PROVE  \A d \in Solvers : Matches(solver'[d])
    BY <1>2
  <2>1. \A c \in Solvers : Matches(solver[c])
    BY <1>1
  <2>2. CASE UNCHANGED solver
    BY <2>1, <2>2
  <2>3. ASSUME NEW c \in Solvers, NEW s, Accepted(c, s), Matches(s)
        PROVE  \A d \in Solvers : Matches(solver'[d])
    BY <2>1, <2>3, AcceptedValue
  <2>4. ASSUME NEW rig, Accepts(rig)
        PROVE  Matches([rig |-> rig, joints |-> SolverJoints(rig),
                        configured |-> TRUE, initialized |-> FALSE])
    BY <2>4 DEF Matches
  <2>5. CASE \E c \in Solvers, rig \in Rigs :
               /\ Accepts(rig)
               /\ Accepted(c, [rig |-> rig, joints |-> SolverJoints(rig),
                               configured |-> TRUE, initialized |-> FALSE])
    BY <2>3, <2>4, <2>5
  <2>6. CASE \E c \in Solvers, pose \in Poses :
               CanReset(solver[c], pose) /\ Accepted(c, AfterReset(solver[c], pose))
    BY <2>1, <2>3, <2>6, ResetKeepsMatch
  <2>7. CASE \E c \in Solvers, pose \in Poses, seconds \in Durations :
               /\ CanStep(solver[c], pose, seconds)
               /\ Accepted(c, AfterStep(solver[c], pose, seconds))
    BY <2>1, <2>3, <2>7, StepKeepsMatch
  <2>8. CASE \E from, to \in Solvers : Accepted(to, solver[from])
    BY <2>1, <2>3, <2>8
  <2>9. QED
    BY <2>2, <2>5, <2>6, <2>7, <2>8, StepCases
<1>5. QED
  BY <1>3, <1>4, TypeCorrect, PTL DEF Spec

-----------------------------------------------------------------------------

Memory(s) == [rig |-> s.rig, joints |-> s.joints]

\* Every copy starts raw, in the contract's terms.
LEMMA InitRefines == Init => Contract!Init
<1>1. Phase(Unconfigured) = "raw"
  BY DEF Phase, Unconfigured
<1>2. Init => \A c \in Solvers : Phase(solver[c]) = "raw"
  BY <1>1 DEF Init
<1>3. QED
  BY <1>2 DEF Contract!Init

\* The effect on the contract's state of replacing one solver value.
LEMMA AcceptedRefines ==
    ASSUME TypeOK, NEW c \in Solvers, NEW s, Accepted(c, s)
    PROVE  /\ [d \in Solvers |-> Phase(solver'[d])]
                = [[d \in Solvers |-> Phase(solver[d])] EXCEPT ![c] = Phase(s)]
           /\ [d \in Solvers |-> Memory(solver'[d])]
                = [[d \in Solvers |-> Memory(solver[d])] EXCEPT ![c] = Memory(s)]
BY AcceptedValue

\* A replacement disturbs no other copy's memory.
LEMMA AcceptedIsLocal ==
    ASSUME TypeOK, NEW c \in Solvers, NEW s, Accepted(c, s)
    PROVE  Contract!Only([d \in Solvers |-> [rig |-> solver[d].rig,
                                             joints |-> solver[d].joints]], c)
BY AcceptedValue DEF Contract!Only

LEMMA ConfigureRefines ==
    ASSUME TypeOK, NEW c \in Solvers, NEW rig \in Rigs, Configure(c, rig)
    PROVE  Contract!Next
<1> DEFINE new == [rig |-> rig, joints |-> SolverJoints(rig),
                   configured |-> TRUE, initialized |-> FALSE]
<1>1. CASE Accepts(rig)
  <2>1. Accepted(c, new) /\ UNCHANGED result /\ call' = Call("Configure", c, NoPose, TRUE)
    BY <1>1 DEF Configure, Configured, Accepted, Refuse
  <2>2. Phase(new) = "configured"
    BY DEF Phase
  <2>3. Contract!Configure(c)
    BY <2>1, <2>2, AcceptedRefines, AcceptedIsLocal DEF Contract!Configure, Call
  <2>4. QED
    BY <2>3 DEF Contract!Next
<1>2. CASE ~Accepts(rig)
  BY <1>2 DEF Configure, Refuse, Call, Contract!Next, Contract!Fail
<1>3. QED
  BY <1>1, <1>2

LEMMA ResetRefines ==
    ASSUME TypeOK, NEW c \in Solvers, NEW pose \in Poses, NEW hasResult \in BOOLEAN,
           Reset(c, pose, hasResult)
    PROVE  Contract!Next
<1>1. CASE hasResult /\ CanReset(solver[c], pose)
  <2>1. /\ Accepted(c, AfterReset(solver[c], pose))
        /\ result' = [result EXCEPT ![c] = ResetResult(solver[c], pose)]
        /\ call' = Call("Reset", c, pose, TRUE)
    BY <1>1 DEF Reset, Accepted, Refuse
  <2>2. Phase(AfterReset(solver[c], pose)) = "ready"
    BY DEF Phase, AfterReset, Solving
  <2>3. Phase(solver[c]) # "raw"
    BY <1>1 DEF CanReset, ValidPose, Phase
  <2>4. Contract!Only(result, c)
    BY <2>1 DEF TypeOK, Contract!Only
  <2>5. Contract!Reset(c)
    BY <2>1, <2>2, <2>3, <2>4, AcceptedRefines, AcceptedIsLocal DEF Contract!Reset, Call
  <2>6. QED
    BY <2>5 DEF Contract!Next
<1>2. CASE ~(hasResult /\ CanReset(solver[c], pose))
  BY <1>2 DEF Reset, Refuse, Call, Contract!Next, Contract!Fail
<1>3. QED
  BY <1>1, <1>2

LEMMA StepRefines ==
    ASSUME TypeOK, NEW c \in Solvers, NEW pose \in Poses, NEW seconds \in Durations,
           NEW hasResult \in BOOLEAN, Step(c, pose, seconds, hasResult)
    PROVE  Contract!Next
<1>1. CASE hasResult /\ CanStep(solver[c], pose, seconds)
  <2>1. /\ Accepted(c, AfterStep(solver[c], pose, seconds))
        /\ result' = [result EXCEPT ![c] = StepResult(solver[c], pose, seconds)]
        /\ call' = Call("Step", c, pose, TRUE)
    BY <1>1 DEF Step, Accepted, Refuse
  <2>2. Phase(AfterStep(solver[c], pose, seconds)) = "ready"
    BY DEF Phase, AfterStep, Solving
  <2>3. Phase(solver[c]) = "ready"
    BY <1>1 DEF CanStep, Phase
  <2>4. Contract!Only(result, c)
    BY <2>1 DEF TypeOK, Contract!Only
  <2>5. UNCHANGED [d \in Solvers |-> Phase(solver[d])]
    BY <2>1, <2>2, <2>3, AcceptedValue
  <2>6. Contract!Step(c)
    BY <2>1, <2>3, <2>4, <2>5, AcceptedIsLocal DEF Contract!Step, Call
  <2>7. QED
    BY <2>6 DEF Contract!Next
<1>2. CASE ~(hasResult /\ CanStep(solver[c], pose, seconds))
  BY <1>2 DEF Step, Refuse, Call, Contract!Next, Contract!Fail
<1>3. QED
  BY <1>1, <1>2

LEMMA CopyRefines ==
    ASSUME TypeOK, NEW from \in Solvers, NEW to \in Solvers, Copy(from, to)
    PROVE  Contract!Next
<1>1. Accepted(to, solver[from]) /\ UNCHANGED result /\ call'.ok
  BY DEF Copy, Accepted, Call
<1>2. Contract!Copy(from, to)
  BY <1>1, AcceptedRefines DEF Contract!Copy, Memory
<1>3. QED
  BY <1>2 DEF Contract!Next

\* Spec => Contract!Spec: for every rig, pose and duration, the solver is a set of
\* independent values that follow Configure, Reset, Step, and on which a failed call
\* leaves no trace.
THEOREM SolverImplementsContract == Spec => ImplementsContract
<1>1. Init => Contract!Init
  BY InitRefines
<1>2. TypeOK /\ [Next]_vars =>
        [Contract!Next]_<<[c \in Solvers |-> Phase(solver[c])],
                          [c \in Solvers |-> [rig |-> solver[c].rig,
                                              joints |-> solver[c].joints]],
                          result, call.ok>>
  BY ConfigureRefines, ResetRefines, StepRefines, CopyRefines DEF Next, vars
<1>3. QED
  BY <1>1, <1>2, TypeCorrect, PTL DEF Spec, ImplementsContract, Contract!Spec

-----------------------------------------------------------------------------
(* Induction over the joints of a skeleton, and over lists of them.        *)

-----------------------------------------------------------------------------
(* What Configure derives from an accepted rig.                            *)

\* The frames of a pose, joint by joint from the roots down.
LEMMA WorldFrames ==
    ASSUME NEW rig \in AnyRig, NEW pose \in AnyPose, TopologicalSkeleton(rig),
           Len(pose.locals) = Len(rig.parents)
    PROVE  /\ World(rig, pose) \in [Skeleton(rig) -> Transform]
           /\ \A i \in Skeleton(rig) :
                World(rig, pose)[i] = Compose(IF rig.parents[i] = 0 THEN pose.placement
                                              ELSE World(rig, pose)[rig.parents[i]],
                                              pose.locals[i])
<1> DEFINE n == Len(rig.parents)
           step(i, g) == Compose(IF rig.parents[i] = 0 THEN pose.placement ELSE g[rig.parents[i]],
                                 pose.locals[i])
           F == [i \in 1 .. n |-> [g \in [1 .. n -> Transform] |-> step(i, g)]]
           Fits(g) == g = [i \in Skeleton(rig) |-> step(i, g)]
           w == World(rig, pose)
<1>1. n \in Nat /\ Skeleton(rig) = 1 .. n /\ \A i \in 1 .. n : rig.parents[i] \in 0 .. i - 1
  BY DEF AnyRig, TopologicalSkeleton, Skeleton
<1>2. pose.placement \in Transform /\ \A i \in 1 .. n : pose.locals[i] \in Transform
  BY <1>1 DEF AnyPose
<1> HIDE DEF n
<1>3. \A t, l \in Transform : Compose(t, l) \in Transform
  BY DEF Compose, Point, Transform
<1>4. ASSUME NEW i \in 1 .. n, NEW g, \A j \in 1 .. i - 1 : g[j] \in Transform
      PROVE  step(i, g) \in Transform
  <2>1. (IF rig.parents[i] = 0 THEN pose.placement ELSE g[rig.parents[i]]) \in Transform
    BY <1>1, <1>2, <1>4, SMTT(60)
  <2> QED
    BY <1>2, <1>3, <2>1
<1>5. ASSUME NEW i \in 1 .. n, NEW g, NEW h, \A j \in 1 .. i - 1 : g[j] = h[j]
      PROVE  step(i, g) = step(i, h)
  <2>1. CASE rig.parents[i] = 0
    BY <2>1
  <2>2. CASE rig.parents[i] # 0
    <3>1. g[rig.parents[i]] = h[rig.parents[i]]
      BY <1>1, <1>5, <2>2
    <3> QED
      BY <2>2, <3>1
  <2> QED
    BY <2>1, <2>2
<1> HIDE DEF step
<1>6. ASSUME NEW i \in 1 .. n, NEW g \in [1 .. n -> Transform] PROVE step(i, g) \in Transform
  <2>1. \A j \in 1 .. i - 1 : g[j] \in Transform
    BY <1>1
  <2> QED
    BY <1>4, <2>1
<1>7. w = CHOOSE g : Fits(g)
  BY DEF World, w, step, n
<1>8. PICK f \in [1 .. n -> Transform] : \A i \in 1 .. n : f[i] = step(i, f)
  <2>1. F \in [1 .. n -> [[1 .. n -> Transform] -> Transform]]
    <3>1. \A i \in 1 .. n :
            [g \in [1 .. n -> Transform] |-> step(i, g)] \in [[1 .. n -> Transform] -> Transform]
      BY <1>6
    <3> QED
      BY <3>1
  <2>2. \A i \in 1 .. n : \A g \in [1 .. n -> Transform] : F[i][g] = step(i, g)
    OBVIOUS
  <2> HIDE DEF F
  <2>3. Transform # {}
    BY <1>2
  <2>4. \A i \in 1 .. n : \A g, h \in [1 .. n -> Transform] :
          (\A j \in 1 .. i - 1 : g[j] = h[j]) => F[i][g] = F[i][h]
    <3> SUFFICES ASSUME NEW i \in 1 .. n, NEW g \in [1 .. n -> Transform],
                        NEW h \in [1 .. n -> Transform], \A j \in 1 .. i - 1 : g[j] = h[j]
                 PROVE  F[i][g] = F[i][h]
      OBVIOUS
    <3>1. step(i, g) = step(i, h)
      BY <1>5
    <3>2. F[i][g] = step(i, g) /\ F[i][h] = step(i, h)
      BY <2>2
    <3> QED
      BY <3>1, <3>2
  <2>5. Causal(1, n, Transform, F)
    BY <2>1, <2>3, <2>4 DEF Causal
  <2>6. \E f \in [1 .. n -> Transform] : \A i \in 1 .. n : f[i] = F[i][f]
    BY <1>1, <2>5, RecursiveFunction
  <2> QED
    BY <2>2, <2>6
<1>9. Fits(f)
  <2>1. f = [i \in 1 .. n |-> f[i]]
    BY <1>8
  <2> QED
    BY <1>1, <1>8, <2>1
<1> HIDE DEF w
<1>10. Fits(w)
  <2> HIDE DEF Fits
  <2> QED
    BY <1>7, <1>9
<1>11. w = [i \in 1 .. n |-> w[i]] /\ \A i \in 1 .. n : w[i] = step(i, w)
  BY <1>1, <1>10
<1>12. \A i \in 1 .. n : w[i] \in Transform
  <2> DEFINE S == {i \in 1 .. n : w[i] \in Transform}
  <2>1. ASSUME NEW i \in 1 .. n, \A j \in 1 .. i - 1 : j \in S PROVE i \in S
    BY <1>4, <1>11, <2>1
  <2> HIDE DEF S
  <2>2. \A i \in 1 .. n : i \in S
    BY <1>1, <2>1, StrongInduction
  <2> QED
    BY <2>2 DEF S
<1>13. w \in [1 .. n -> Transform]
  BY <1>11, <1>12
<1> QED
  BY <1>1, <1>11, <1>13 DEF w, step, n

\* The joints at and above each joint, by its parent's.
LEMMA AncestorSets ==
    ASSUME NEW rig \in AnyRig, TopologicalSkeleton(rig)
    PROVE  /\ AncestorsOrSelf(rig) \in [Skeleton(rig) -> SUBSET Skeleton(rig)]
           /\ \A i \in Skeleton(rig) :
                AncestorsOrSelf(rig)[i] = IF rig.parents[i] = 0 THEN {i}
                                          ELSE {i} \union AncestorsOrSelf(rig)[rig.parents[i]]
<1> DEFINE n == Len(rig.parents)
           step(i, g) == IF rig.parents[i] = 0 THEN {i} ELSE {i} \union g[rig.parents[i]]
           F == [i \in 1 .. n |-> [g \in [1 .. n -> SUBSET (1 .. n)] |-> step(i, g)]]
           Fits(g) == g = [i \in Skeleton(rig) |-> step(i, g)]
           w == AncestorsOrSelf(rig)
<1>1. n \in Nat /\ Skeleton(rig) = 1 .. n /\ \A i \in 1 .. n : rig.parents[i] \in 0 .. i - 1
  BY DEF AnyRig, TopologicalSkeleton, Skeleton
<1> HIDE DEF n
<1>4. ASSUME NEW i \in 1 .. n, NEW g, \A j \in 1 .. i - 1 : g[j] \in SUBSET (1 .. n)
      PROVE  step(i, g) \in SUBSET (1 .. n)
  <2>1. CASE rig.parents[i] = 0
    BY <2>1
  <2>2. CASE rig.parents[i] # 0
    <3>1. g[rig.parents[i]] \in SUBSET (1 .. n)
      BY <1>1, <1>4, <2>2
    <3> QED
      BY <2>2, <3>1
  <2> QED
    BY <2>1, <2>2
<1>5. ASSUME NEW i \in 1 .. n, NEW g, NEW h, \A j \in 1 .. i - 1 : g[j] = h[j]
      PROVE  step(i, g) = step(i, h)
  <2>1. CASE rig.parents[i] = 0
    BY <2>1
  <2>2. CASE rig.parents[i] # 0
    <3>1. g[rig.parents[i]] = h[rig.parents[i]]
      BY <1>1, <1>5, <2>2
    <3> QED
      BY <2>2, <3>1
  <2> QED
    BY <2>1, <2>2
<1> HIDE DEF step
<1>6. ASSUME NEW i \in 1 .. n, NEW g \in [1 .. n -> SUBSET (1 .. n)] PROVE step(i, g) \in SUBSET (1 .. n)
  <2>1. \A j \in 1 .. i - 1 : g[j] \in SUBSET (1 .. n)
    BY <1>1
  <2> QED
    BY <1>4, <2>1
<1>7. w = CHOOSE g : Fits(g)
  BY DEF AncestorsOrSelf, w, step, n
<1>8. PICK f \in [1 .. n -> SUBSET (1 .. n)] : \A i \in 1 .. n : f[i] = step(i, f)
  <2>1. F \in [1 .. n -> [[1 .. n -> SUBSET (1 .. n)] -> SUBSET (1 .. n)]]
    <3>1. \A i \in 1 .. n :
            [g \in [1 .. n -> SUBSET (1 .. n)] |-> step(i, g)] \in [[1 .. n -> SUBSET (1 .. n)] -> SUBSET (1 .. n)]
      BY <1>6
    <3> QED
      BY <3>1
  <2>2. \A i \in 1 .. n : \A g \in [1 .. n -> SUBSET (1 .. n)] : F[i][g] = step(i, g)
    OBVIOUS
  <2> HIDE DEF F
  <2>3. SUBSET (1 .. n) # {}
    OBVIOUS
  <2>4. \A i \in 1 .. n : \A g, h \in [1 .. n -> SUBSET (1 .. n)] :
          (\A j \in 1 .. i - 1 : g[j] = h[j]) => F[i][g] = F[i][h]
    <3> SUFFICES ASSUME NEW i \in 1 .. n, NEW g \in [1 .. n -> SUBSET (1 .. n)],
                        NEW h \in [1 .. n -> SUBSET (1 .. n)], \A j \in 1 .. i - 1 : g[j] = h[j]
                 PROVE  F[i][g] = F[i][h]
      OBVIOUS
    <3>1. step(i, g) = step(i, h)
      BY <1>5
    <3>2. F[i][g] = step(i, g) /\ F[i][h] = step(i, h)
      BY <2>2
    <3> QED
      BY <3>1, <3>2
  <2>5. Causal(1, n, SUBSET (1 .. n), F)
    BY <2>1, <2>3, <2>4 DEF Causal
  <2>6. \E f \in [1 .. n -> SUBSET (1 .. n)] : \A i \in 1 .. n : f[i] = F[i][f]
    BY <1>1, <2>5, RecursiveFunction
  <2> QED
    BY <2>2, <2>6
<1>9. Fits(f)
  <2>1. f = [i \in 1 .. n |-> f[i]]
    BY <1>8
  <2> QED
    BY <1>1, <1>8, <2>1
<1> HIDE DEF w
<1>10. Fits(w)
  <2> HIDE DEF Fits
  <2> QED
    BY <1>7, <1>9
<1>11. w = [i \in 1 .. n |-> w[i]] /\ \A i \in 1 .. n : w[i] = step(i, w)
  BY <1>1, <1>10
<1>12. \A i \in 1 .. n : w[i] \in SUBSET (1 .. n)
  <2> DEFINE S == {i \in 1 .. n : w[i] \in SUBSET (1 .. n)}
  <2>1. ASSUME NEW i \in 1 .. n, \A j \in 1 .. i - 1 : j \in S PROVE i \in S
    BY <1>4, <1>11, <2>1
  <2> HIDE DEF S
  <2>2. \A i \in 1 .. n : i \in S
    BY <1>1, <2>1, StrongInduction
  <2> QED
    BY <2>2 DEF S
<1>13. w \in [1 .. n -> SUBSET (1 .. n)]
  BY <1>11, <1>12
<1> QED
  BY <1>1, <1>11, <1>13 DEF w, step, n

\* The position a spring declares a joint at, or 0.
DeclaredAt(spring, i) ==
    IF Contains(Declaration(spring), i)
    THEN CHOOSE k \in DOMAIN Declaration(spring) : Declaration(spring)[k] = i
    ELSE 0

\* A declared position is one of the declaration, and names the joint.
LEMMA DeclaredPosition ==
    ASSUME NEW spring \in Spring, NEW i
    PROVE  /\ Len(Declaration(spring)) \in Nat
           /\ DeclaredAt(spring, i) \in 0 .. Len(Declaration(spring))
           /\ DeclaredAt(spring, i) # 0 => Declaration(spring)[DeclaredAt(spring, i)] = i
           /\ (\E k \in DOMAIN Declaration(spring) : Declaration(spring)[k] = i)
                => DeclaredAt(spring, i) # 0
<1> DEFINE declared == Declaration(spring)
<1>1. declared \in Seq(Int)
  BY DEF Declaration, Spring
<1> HIDE DEF declared
<1>2. Len(declared) \in Nat /\ DOMAIN declared = 1 .. Len(declared)
  BY <1>1
<1>3. Contains(declared, i) <=> \E k \in DOMAIN declared : declared[k] = i
  BY <1>2 DEF Contains
<1> QED
  BY <1>2, <1>3 DEF DeclaredAt, declared

\* The declared position a root spring hands each joint: its parent's, if it has one.
\* A joint list keeps to the declared positions.
LEMMA ParameterIndices ==
    ASSUME NEW rig \in AnyRig, NEW spring \in Spring, TopologicalSkeleton(rig)
    PROVE  /\ ParameterIndex(rig, spring)
                \in [Skeleton(rig) -> 0 .. Len(Declaration(spring))]
           /\ \A i \in Skeleton(rig) :
                ParameterIndex(rig, spring)[i]
                  = IF /\ IsRootSpring(spring) /\ rig.parents[i] # 0
                       /\ ParameterIndex(rig, spring)[rig.parents[i]] # 0
                    THEN ParameterIndex(rig, spring)[rig.parents[i]]
                    ELSE DeclaredAt(spring, i)
<1> DEFINE n == Len(rig.parents)
           step(i, g) == IF IsRootSpring(spring) /\ rig.parents[i] # 0 /\ g[rig.parents[i]] # 0
                         THEN g[rig.parents[i]] ELSE DeclaredAt(spring, i)
           m == Len(Declaration(spring))
           V == 0 .. m
           F == [i \in 1 .. n |-> [g \in [1 .. n -> V] |-> step(i, g)]]
           Fits(g) == g = [i \in Skeleton(rig) |-> step(i, g)]
           w == ParameterIndex(rig, spring)
<1>1. n \in Nat /\ Skeleton(rig) = 1 .. n /\ \A i \in 1 .. n : rig.parents[i] \in 0 .. i - 1
  BY DEF AnyRig, TopologicalSkeleton, Skeleton
<1>2. m \in Nat /\ \A i : DeclaredAt(spring, i) \in 0 .. m
  BY DeclaredPosition
<1> HIDE DEF m
<1> HIDE DEF n
<1>4. ASSUME NEW i \in 1 .. n, NEW g, \A j \in 1 .. i - 1 : g[j] \in V
      PROVE  step(i, g) \in V
  BY <1>1, <1>2, <1>4
<1>5. ASSUME NEW i \in 1 .. n, NEW g, NEW h, \A j \in 1 .. i - 1 : g[j] = h[j]
      PROVE  step(i, g) = step(i, h)
  <2>1. CASE rig.parents[i] = 0
    BY <2>1
  <2>2. CASE rig.parents[i] # 0
    <3>1. g[rig.parents[i]] = h[rig.parents[i]]
      BY <1>1, <1>5, <2>2
    <3> QED
      BY <2>2, <3>1
  <2> QED
    BY <2>1, <2>2
<1> HIDE DEF step
<1>6. ASSUME NEW i \in 1 .. n, NEW g \in [1 .. n -> V] PROVE step(i, g) \in V
  <2>1. \A j \in 1 .. i - 1 : g[j] \in V
    BY <1>1
  <2> QED
    BY <1>4, <2>1
<1>7. w = CHOOSE g : Fits(g)
  BY DEF ParameterIndex, DeclaredAt, w, step, n
<1>8. PICK f \in [1 .. n -> V] : \A i \in 1 .. n : f[i] = step(i, f)
  <2>1. F \in [1 .. n -> [[1 .. n -> V] -> V]]
    <3>1. \A i \in 1 .. n :
            [g \in [1 .. n -> V] |-> step(i, g)] \in [[1 .. n -> V] -> V]
      BY <1>6
    <3> QED
      BY <3>1
  <2>2. \A i \in 1 .. n : \A g \in [1 .. n -> V] : F[i][g] = step(i, g)
    OBVIOUS
  <2> HIDE DEF F
  <2>3. V # {}
    BY <1>2
  <2>4. \A i \in 1 .. n : \A g, h \in [1 .. n -> V] :
          (\A j \in 1 .. i - 1 : g[j] = h[j]) => F[i][g] = F[i][h]
    <3> SUFFICES ASSUME NEW i \in 1 .. n, NEW g \in [1 .. n -> V],
                        NEW h \in [1 .. n -> V], \A j \in 1 .. i - 1 : g[j] = h[j]
                 PROVE  F[i][g] = F[i][h]
      OBVIOUS
    <3>1. step(i, g) = step(i, h)
      BY <1>5
    <3>2. F[i][g] = step(i, g) /\ F[i][h] = step(i, h)
      BY <2>2
    <3> QED
      BY <3>1, <3>2
  <2>5. Causal(1, n, V, F)
    BY <2>1, <2>3, <2>4 DEF Causal
  <2>6. \E f \in [1 .. n -> V] : \A i \in 1 .. n : f[i] = F[i][f]
    <3> HIDE DEF V
    <3> QED
      BY <1>1, <2>5, RecursiveFunction
  <2> QED
    BY <2>2, <2>6
<1>9. Fits(f)
  <2>1. f = [i \in 1 .. n |-> f[i]]
    BY <1>8
  <2> QED
    BY <1>1, <1>8, <2>1
<1> HIDE DEF w
<1>10. Fits(w)
  <2> HIDE DEF Fits
  <2> QED
    BY <1>7, <1>9
<1>11. w = [i \in 1 .. n |-> w[i]] /\ \A i \in 1 .. n : w[i] = step(i, w)
  BY <1>1, <1>10
<1>12. \A i \in 1 .. n : w[i] \in V
  <2> DEFINE S == {i \in 1 .. n : w[i] \in V}
  <2>1. ASSUME NEW i \in 1 .. n, \A j \in 1 .. i - 1 : j \in S PROVE i \in S
    BY <1>4, <1>11, <2>1
  <2> HIDE DEF S
  <2>2. \A i \in 1 .. n : i \in S
    BY <1>1, <2>1, StrongInduction
  <2> QED
    BY <2>2 DEF S
<1>13. w \in [1 .. n -> V]
  BY <1>11, <1>12
<1> QED
  BY <1>1, <1>11, <1>13 DEF w, step, n, m

\* Flattening puts no member in a sequence that none of its parts has.
LEMMA FlattenedMembers ==
    ASSUME NEW X, NEW seqs \in Seq(Seq(X))
    PROVE  FlattenSeq(seqs) \in Seq(X)
<1> DEFINE n == Len(seqs)
           step(i, g) == IF i = 1 THEN seqs[i] ELSE g[i - 1] \o seqs[i]
           F == [i \in 1 .. n |-> [g \in [1 .. n -> Seq(X)] |-> step(i, g)]]
           Fits(g) == g = [i \in 1 .. Len(seqs) |-> step(i, g)]
           w == CHOOSE g : Fits(g)
<1>1. n \in Nat /\ 1 .. Len(seqs) = 1 .. n /\ \A i \in 1 .. n : seqs[i] \in Seq(X)
  OBVIOUS
<1> HIDE DEF n
<1>4. ASSUME NEW i \in 1 .. n, NEW g, \A j \in 1 .. i - 1 : g[j] \in Seq(X)
      PROVE  step(i, g) \in Seq(X)
  <2>1. CASE i = 1
    BY <1>1, <2>1
  <2>2. CASE i # 1
    <3>1. g[i - 1] \in Seq(X)
      BY <1>1, <1>4, <2>2
    <3> QED
      BY <1>1, <2>2, <3>1
  <2> QED
    BY <2>1, <2>2
<1>5. ASSUME NEW i \in 1 .. n, NEW g, NEW h, \A j \in 1 .. i - 1 : g[j] = h[j]
      PROVE  step(i, g) = step(i, h)
  <2>1. CASE i = 1
    BY <2>1
  <2>2. CASE i # 1
    <3>1. g[i - 1] = h[i - 1]
      BY <1>1, <1>5, <2>2
    <3> QED
      BY <2>2, <3>1
  <2> QED
    BY <2>1, <2>2
<1> HIDE DEF step
<1>6. ASSUME NEW i \in 1 .. n, NEW g \in [1 .. n -> Seq(X)] PROVE step(i, g) \in Seq(X)
  <2>1. \A j \in 1 .. i - 1 : g[j] \in Seq(X)
    BY <1>1
  <2> QED
    BY <1>4, <2>1
<1>7. w = CHOOSE g : Fits(g)
  BY DEF w, step, n
<1>8. PICK f \in [1 .. n -> Seq(X)] : \A i \in 1 .. n : f[i] = step(i, f)
  <2>1. F \in [1 .. n -> [[1 .. n -> Seq(X)] -> Seq(X)]]
    <3>1. \A i \in 1 .. n :
            [g \in [1 .. n -> Seq(X)] |-> step(i, g)] \in [[1 .. n -> Seq(X)] -> Seq(X)]
      BY <1>6
    <3> QED
      BY <3>1
  <2>2. \A i \in 1 .. n : \A g \in [1 .. n -> Seq(X)] : F[i][g] = step(i, g)
    OBVIOUS
  <2> HIDE DEF F
  <2>3. Seq(X) # {}
    OBVIOUS
  <2>4. \A i \in 1 .. n : \A g, h \in [1 .. n -> Seq(X)] :
          (\A j \in 1 .. i - 1 : g[j] = h[j]) => F[i][g] = F[i][h]
    <3> SUFFICES ASSUME NEW i \in 1 .. n, NEW g \in [1 .. n -> Seq(X)],
                        NEW h \in [1 .. n -> Seq(X)], \A j \in 1 .. i - 1 : g[j] = h[j]
                 PROVE  F[i][g] = F[i][h]
      OBVIOUS
    <3>1. step(i, g) = step(i, h)
      BY <1>5
    <3>2. F[i][g] = step(i, g) /\ F[i][h] = step(i, h)
      BY <2>2
    <3> QED
      BY <3>1, <3>2
  <2>5. Causal(1, n, Seq(X), F)
    BY <2>1, <2>3, <2>4 DEF Causal
  <2>6. \E f \in [1 .. n -> Seq(X)] : \A i \in 1 .. n : f[i] = F[i][f]
    BY <1>1, <2>5, RecursiveFunction
  <2> QED
    BY <2>2, <2>6
<1>9. Fits(f)
  <2>1. f = [i \in 1 .. n |-> f[i]]
    BY <1>8
  <2> QED
    BY <1>1, <1>8, <2>1
<1> HIDE DEF w
<1>10. Fits(w)
  <2> HIDE DEF Fits
  <2> QED
    BY <1>7, <1>9
<1>11. w = [i \in 1 .. n |-> w[i]] /\ \A i \in 1 .. n : w[i] = step(i, w)
  BY <1>1, <1>10
<1>12. \A i \in 1 .. n : w[i] \in Seq(X)
  <2> DEFINE S == {i \in 1 .. n : w[i] \in Seq(X)}
  <2>1. ASSUME NEW i \in 1 .. n, \A j \in 1 .. i - 1 : j \in S PROVE i \in S
    BY <1>4, <1>11, <2>1
  <2> HIDE DEF S
  <2>2. \A i \in 1 .. n : i \in S
    BY <1>1, <2>1, StrongInduction
  <2> QED
    BY <2>2 DEF S
<1>13. w \in [1 .. n -> Seq(X)]
  BY <1>11, <1>12
<1>14. FlattenSeq(seqs) = IF n = 0 THEN seqs ELSE w[n]
  BY DEF FlattenSeq, w, Fits, step, n
<1>15. n = 0 => seqs \in Seq(X)
  BY DEF n
<1> QED
  BY <1>1, <1>13, <1>14, <1>15

\* A joint's ancestors: itself, and nothing after it.
LEMMA AncestorsAbove ==
    ASSUME NEW rig \in AnyRig, TopologicalSkeleton(rig)
    PROVE  \A i \in Skeleton(rig) :
             i \in AncestorsOrSelf(rig)[i] /\ \A j \in AncestorsOrSelf(rig)[i] : j <= i
<1> DEFINE n == Len(rig.parents)
           up == AncestorsOrSelf(rig)
           S == {i \in 1 .. n : i \in up[i] /\ \A j \in up[i] : j <= i}
<1>1. n \in Nat /\ Skeleton(rig) = 1 .. n /\ \A i \in 1 .. n : rig.parents[i] \in 0 .. i - 1
  BY DEF AnyRig, TopologicalSkeleton, Skeleton
<1>2. /\ up \in [1 .. n -> SUBSET (1 .. n)]
      /\ \A i \in 1 .. n : up[i] = IF rig.parents[i] = 0 THEN {i} ELSE {i} \union up[rig.parents[i]]
  BY <1>1, AncestorSets
<1> HIDE DEF n, up
<1>3. ASSUME NEW i \in 1 .. n, \A j \in 1 .. i - 1 : j \in S PROVE i \in S
  <2>1. CASE rig.parents[i] = 0
    BY <1>1, <1>2, <2>1
  <2>2. CASE rig.parents[i] # 0
    <3> DEFINE p == rig.parents[i]
    <3>1. p \in 1 .. i - 1 /\ p \in S /\ p \in 1 .. n
      BY <1>1, <1>3, <2>2
    <3>2. \A j \in up[p] : j <= p /\ j \in 1 .. n
      BY <1>2, <3>1
    <3>3. up[i] = {i} \union up[p]
      BY <1>2, <2>2
    <3> HIDE DEF p
    <3> QED
      BY <1>1, <3>1, <3>2, <3>3
  <2> QED
    BY <2>1, <2>2
<1> HIDE DEF S
<1>4. \A i \in 1 .. n : i \in S
  BY <1>1, <1>3, StrongInduction
<1> QED
  BY <1>1, <1>4 DEF S, up

\* The colliders of a spring are colliders of its rig.
LEMMA SpringCollidersExist ==
    ASSUME NEW rig \in AnyRig, NEW spring \in Spring, ValidColliders(rig), ValidGroups(rig, spring)
    PROVE  SpringColliders(rig, spring) \in Seq(DOMAIN rig.colliders)
<1> DEFINE seqs == [g \in DOMAIN spring.groups |-> rig.groups[spring.groups[g]]]
           used == FlattenSeq(seqs)
           firsts == {n \in DOMAIN used : \A m \in DOMAIN used : used[m] = used[n] => n <= m}
           first == InOrder(firsts)
<1>1. \A g \in DOMAIN rig.groups : rig.groups[g] \in Seq(DOMAIN rig.colliders)
  <2> SUFFICES ASSUME NEW g \in DOMAIN rig.groups
               PROVE  rig.groups[g] \in Seq(DOMAIN rig.colliders)
    OBVIOUS
  <2>1. rig.groups[g] \in Seq(Int)
    BY DEF AnyRig
  <2>2. \A k \in DOMAIN rig.groups[g] : rig.groups[g][k] \in DOMAIN rig.colliders
    BY DEF ValidColliders
  <2> QED
    BY <2>1, <2>2
<1>2. seqs \in Seq(Seq(DOMAIN rig.colliders))
  <2>1. spring.groups \in Seq(Int)
    BY DEF Spring
  <2> DEFINE n == Len(spring.groups)
             Y == Seq(DOMAIN rig.colliders)
  <2>2. DOMAIN spring.groups = 1 .. n /\ n \in Nat
    BY <2>1
  <2>3. \A g \in 1 .. n : rig.groups[spring.groups[g]] \in Y
    BY <1>1, <2>2 DEF ValidGroups
  <2>4. seqs = [g \in 1 .. n |-> rig.groups[spring.groups[g]]]
    BY <2>2
  <2> HIDE DEF n, Y, seqs
  <2>5. seqs \in Seq(Y)
    BY <2>2, <2>3, <2>4
  <2> QED
    BY <2>5 DEF Y
<1> HIDE DEF seqs
<1>3. used \in Seq(DOMAIN rig.colliders)
  BY <1>2, FlattenedMembers
<1> HIDE DEF used
<1>4. firsts \in SUBSET Nat /\ IsFiniteSet(firsts)
  <2>1. DOMAIN used = 1 .. Len(used) /\ Len(used) \in Nat
    BY <1>3
  <2>2. IsFiniteSet(1 .. Len(used))
    BY <2>1, FS_Interval
  <2> QED
    BY <2>1, <2>2, FS_Subset
<1>5. firsts \subseteq DOMAIN used
  OBVIOUS
<1> HIDE DEF firsts
<1>6. first \in [1 .. Cardinality(firsts) -> firsts] /\ Cardinality(firsts) \in Nat
  BY <1>4, InOrderLists
<1>7. SpringColliders(rig, spring) = [k \in DOMAIN first |-> used[first[k]]]
  BY DEF SpringColliders, used, firsts, seqs
<1> HIDE DEF first
<1>8. \A k \in DOMAIN first : used[first[k]] \in DOMAIN rig.colliders
  BY <1>3, <1>5, <1>6
<1> QED
  BY <1>6, <1>7, <1>8

\* What an accepted rig's solver joints refer to.
SoundJoint(rig, joint) ==
    /\ joint.index \in Skeleton(rig)
    /\ joint.center \in {0} \union Skeleton(rig)
    /\ joint.tail \in Int /\ joint.tail # 0
    /\ joint.parameters \in SpringBoneParameters /\ joint.parameters.stiffness >= 0
    /\ joint.colliders \in Seq(DOMAIN rig.colliders)

\* A joint a valid spring claims has a declared position.
LEMMA ClaimedPosition ==
    ASSUME NEW rig \in AnyRig, NEW spring \in Spring, TopologicalSkeleton(rig),
           NEW i \in Claimed(rig, spring)
    PROVE  /\ i \in Skeleton(rig)
           /\ ParameterIndex(rig, spring)[i] \in DOMAIN Declaration(spring)
           /\ DOMAIN Declaration(spring) = 1 .. Len(Declaration(spring))
           /\ Len(Declaration(spring)) \in Nat
<1>1. Declaration(spring) \in Seq(Int)
  BY DEF Declaration, Spring
<1>2. i \in Skeleton(rig) /\ ParameterIndex(rig, spring)[i] # 0
  BY DEF Claimed
<1>3. ParameterIndex(rig, spring)[i] \in 0 .. Len(Declaration(spring))
  BY <1>2, ParameterIndices
<1> QED
  BY <1>1, <1>2, <1>3

\* Configure fills a solver joint with indices that exist: its parent is above it, its
\* parameters are declared, its colliders are the rig's and its centre is a joint above it.
LEMMA JointIsSound ==
    ASSUME NEW rig \in AnyRig, Accepts(rig), NEW s \in DOMAIN rig.springs,
           NEW i \in Simulated(rig, rig.springs[s])
    PROVE  SoundJoint(rig, SolverJoint(rig, rig.springs[s], i))
<1> DEFINE spring == rig.springs[s]
           k == ParameterIndex(rig, spring)[i]
<1>1. /\ TopologicalSkeleton(rig) /\ ValidColliders(rig) /\ ValidSpring(rig, spring)
      /\ NonzeroTails(rig)
  BY DEF Accepts
<1>2. spring \in Spring
  BY DEF AnyRig
<1>3. LocalTail(rig, spring, i) # 0 /\ Finite(LocalTail(rig, spring, i))
  BY <1>1 DEF NonzeroTails
<1> HIDE DEF spring
<1>4. i \in Claimed(rig, spring)
  BY DEF Simulated, spring
<1>5. i \in Skeleton(rig) /\ k \in DOMAIN Declaration(spring)
  BY <1>1, <1>2, <1>4, ClaimedPosition
<1>6. k \in DOMAIN spring.parameters
  <2>1. /\ Len(spring.parameters) = Len(Declaration(spring))
        /\ DOMAIN Declaration(spring) = 1 .. Len(Declaration(spring))
    BY <1>1, <1>2, <1>4, ClaimedPosition DEF ValidSpring, ValidDeclaration
  <2> HIDE DEF k
  <2> QED
    BY <1>2, <1>5, <2>1 DEF Spring
<1> HIDE DEF k
<1>7. spring.parameters[k] \in SpringBoneParameters
  BY <1>2, <1>6 DEF Spring
<1>8. spring.parameters[k].stiffness >= 0
  BY <1>1, <1>5 DEF ValidSpring, ValidDeclaration, ValidParameters
<1>9. spring.center \in {0} \union Skeleton(rig)
  BY <1>1 DEF ValidSpring, ValidCenter
<1>10. SpringColliders(rig, spring) \in Seq(DOMAIN rig.colliders)
  BY <1>1, <1>2, SpringCollidersExist DEF ValidSpring
<1>11. LocalTail(rig, spring, i) \in Int
  BY <1>3, FloatMaxAssumption DEF Finite, spring
<1> QED
  BY <1>3, <1>5, <1>7, <1>8, <1>9, <1>10, <1>11 DEF SoundJoint, SolverJoint, spring, k

\* The solver joints of an accepted rig: each from the one spring that drives it,
\* in skeleton order.
LEMMA DerivedJoints ==
    ASSUME NEW rig \in AnyRig, Accepts(rig)
    PROVE  /\ \E n \in Nat : DOMAIN SolverJoints(rig) = 1 .. n
           /\ \A k \in DOMAIN SolverJoints(rig) :
                \E s \in DOMAIN rig.springs :
                   /\ SolverJoints(rig)[k].index \in Simulated(rig, rig.springs[s])
                   /\ SolverJoints(rig)[k]
                        = SolverJoint(rig, rig.springs[s], SolverJoints(rig)[k].index)
           /\ \A k, l \in DOMAIN SolverJoints(rig) :
                k < l => SolverJoints(rig)[k].index < SolverJoints(rig)[l].index
<1> DEFINE U == UNION {Simulated(rig, rig.springs[s]) : s \in DOMAIN rig.springs}
           order == InOrder(U)
           c == Cardinality(U)
           joints == SolverJoints(rig)
<1>1. TopologicalSkeleton(rig) /\ ExclusiveOwners(rig)
  BY DEF Accepts
<1>2. \A s \in DOMAIN rig.springs : Simulated(rig, rig.springs[s]) \subseteq Claimed(rig, rig.springs[s])
  BY DEF Simulated
<1>3. \A s \in DOMAIN rig.springs : Claimed(rig, rig.springs[s]) \subseteq Skeleton(rig)
  BY DEF Claimed
<1>4. U \in SUBSET Nat /\ IsFiniteSet(U)
  <2>1. Len(rig.parents) \in Nat
    BY DEF AnyRig
  <2>2. Skeleton(rig) \subseteq Nat /\ IsFiniteSet(Skeleton(rig))
    BY <2>1, FS_Interval, SMTT(60) DEF Skeleton
  <2>3. U \subseteq Skeleton(rig)
    BY <1>2, <1>3
  <2> HIDE DEF U
  <2> QED
    BY <2>2, <2>3, FS_Subset
<1>5. \A i \in U : \E s \in DOMAIN rig.springs : i \in Simulated(rig, rig.springs[s])
  OBVIOUS
<1>6. joints = [k \in DOMAIN order |->
                  SolverJoint(rig, rig.springs[Owner(rig, order[k])], order[k])]
  BY DEF SolverJoints
<1> HIDE DEF U, joints
<1>7. /\ order \in [1 .. c -> U] /\ c \in Nat
      /\ \A k, l \in 1 .. c : k < l => order[k] < order[l]
  BY <1>4, InOrderLists
<1> HIDE DEF order, c
<1>8. DOMAIN order = 1 .. c /\ DOMAIN joints = DOMAIN order
  BY <1>6, <1>7
<1>9. \A k \in 1 .. c : joints[k] = SolverJoint(rig, rig.springs[Owner(rig, order[k])], order[k])
  BY <1>6, <1>8
<1>10. \A k \in 1 .. c : joints[k].index = order[k]
  <2>1. \A spring, i : SolverJoint(rig, spring, i).index = i
    BY DEF SolverJoint
  <2> QED
    BY <1>9, <2>1
<1>11. ASSUME NEW k \in 1 .. c
       PROVE  \E s \in DOMAIN rig.springs :
                 /\ joints[k].index \in Simulated(rig, rig.springs[s])
                 /\ joints[k] = SolverJoint(rig, rig.springs[s], joints[k].index)
  <2> DEFINE i == order[k]
  <2>1. PICK s \in DOMAIN rig.springs : i \in Simulated(rig, rig.springs[s])
    BY <1>5, <1>7
  <2> HIDE DEF i
  <2>2. i \in Claimed(rig, rig.springs[s])
    BY <1>2, <2>1
  <2>3. \A t \in DOMAIN rig.springs : i \in Claimed(rig, rig.springs[t]) => t = s
    BY <1>1, <2>2 DEF ExclusiveOwners
  <2>4. Owner(rig, i) = s
    BY <2>2, <2>3 DEF Owner
  <2> QED
    BY <1>9, <1>10, <2>1, <2>4 DEF i
<1>12. \A k, l \in 1 .. c : k < l => joints[k].index < joints[l].index
  BY <1>7, <1>10
<1> QED
  BY <1>7, <1>8, <1>11, <1>12 DEF joints

-----------------------------------------------------------------------------
(* The walk of the skeleton: its cursor, its pushes and its frames.        *)

\* The numbers of a set, from the smallest to the largest.
Enumerates(S, m, f) ==
    /\ \A k \in 1 .. m : f[k] \in S
    /\ \A j, k \in 1 .. m : j < k => f[j] < f[k]
    /\ \A x \in S : \E k \in 1 .. m : f[k] = x

\* Two increasing enumerations of one set agree.
LEMMA EnumerationPrefix ==
    ASSUME NEW S \in SUBSET Nat, NEW m \in Nat, NEW n \in Nat, NEW f, NEW g,
           Enumerates(S, m, f), Enumerates(S, n, g)
    PROVE  m <= n /\ \A k \in 1 .. m : f[k] = g[k]
<1> USE DEF Enumerates
<1> DEFINE P == {k \in 1 .. m : k <= n /\ f[k] = g[k]}
<1>1. ASSUME NEW k \in 1 .. m, \A j \in 1 .. k - 1 : j \in P PROVE k \in P
  <2>1. \A j \in 1 .. k - 1 : j \in 1 .. m /\ j \in 1 .. n /\ f[j] = g[j]
    BY <1>1
  <2>2. PICK l \in 1 .. n : g[l] = f[k]
    OBVIOUS
  <2>3. f[k] \in Nat
    OBVIOUS
  <2>4. l >= k
    <3>1. SUFFICES ASSUME l < k PROVE FALSE
      OBVIOUS
    <3>2. l \in 1 .. k - 1 /\ l \in 1 .. m /\ f[l] = g[l]
      BY <2>1, <3>1
    <3>3. f[l] < f[k]
      BY <3>1, <3>2
    <3> QED
      BY <2>2, <2>3, <3>2, <3>3
  <2>5. k \in 1 .. n /\ g[k] \in Nat
    <3>1. k \in 1 .. n
      BY <2>4
    <3> QED
      BY <3>1
  <2>6. PICK j \in 1 .. m : f[j] = g[k]
    BY <2>5
  <2>7. j >= k
    <3>1. SUFFICES ASSUME j < k PROVE FALSE
      OBVIOUS
    <3>2. j \in 1 .. k - 1 /\ j \in 1 .. n /\ f[j] = g[j]
      BY <2>1, <3>1
    <3>3. g[j] < g[k]
      BY <2>5, <3>1, <3>2
    <3> QED
      BY <2>5, <2>6, <3>2, <3>3
  <2>8. f[k] <= g[k]
    <3>1. CASE j = k
      BY <2>3, <2>6, <3>1
    <3>2. CASE j > k
      <4>1. f[k] < f[j]
        BY <3>2
      <4> QED
        BY <2>3, <2>5, <2>6, <4>1
    <3> QED
      BY <2>7, <3>1, <3>2
  <2>9. g[k] <= f[k]
    <3>1. CASE l = k
      BY <2>2, <2>3, <3>1
    <3>2. CASE l > k
      <4>1. g[k] < g[l]
        BY <2>5, <3>2
      <4> QED
        BY <2>2, <2>3, <2>5, <4>1
    <3> QED
      BY <2>4, <3>1, <3>2
  <2>10. f[k] = g[k] /\ k <= n
    BY <2>3, <2>5, <2>8, <2>9
  <2> QED
    BY <2>10
<1> HIDE DEF P
<1>2. \A k \in 1 .. m : k \in P
  <2>1. 1 \in Nat
    OBVIOUS
  <2> QED
    BY <1>1, <2>1, StrongInduction
<1>3. \A k \in 1 .. m : k <= n /\ f[k] = g[k]
  BY <1>2 DEF P
<1>4. CASE m = 0
  BY <1>3, <1>4
<1>5. CASE m # 0
  BY <1>3, <1>5
<1> QED
  BY <1>4, <1>5

\* A solver value whose joints suit its rig, and whose simulation moves neither a
\* collider nor a centre's parent.
Sound(s) ==
    /\ s.rig \in AnyRig /\ TopologicalSkeleton(s.rig) /\ ValidColliders(s.rig)
    /\ Len(s.joints) \in Nat /\ DOMAIN s.joints = 1 .. Len(s.joints)
    /\ \A k \in DOMAIN s.joints : SoundJoint(s.rig, s.joints[k])
    /\ \A k, l \in DOMAIN s.joints : k < l => s.joints[k].index < s.joints[l].index
    /\ CentersAboveSimulation(s.rig, s.joints)
    /\ CollidersOutsideSimulation(s.rig, s.joints)

\* The skeleton joints of a sound solver value.
LEMMA SoundIndices ==
    ASSUME NEW s, Sound(s)
    PROVE  /\ Len(s.rig.parents) \in Nat /\ Len(s.joints) \in Nat
           /\ Skeleton(s.rig) = 1 .. Len(s.rig.parents) /\ DOMAIN s.joints = 1 .. Len(s.joints)
           /\ \A k \in 1 .. Len(s.joints) : s.joints[k].index \in 1 .. Len(s.rig.parents)
           /\ \A k, l \in 1 .. Len(s.joints) : k < l => s.joints[k].index < s.joints[l].index
<1>1. Len(s.rig.parents) \in Nat
  BY DEF Sound, AnyRig
<1>2. DOMAIN s.joints = 1 .. Len(s.joints) /\ Len(s.joints) \in Nat
  BY DEF Sound
<1>3. \A k \in DOMAIN s.joints : SoundJoint(s.rig, s.joints[k])
  BY DEF Sound
<1>4. \A k \in DOMAIN s.joints : s.joints[k].index \in Skeleton(s.rig)
  BY <1>3 DEF SoundJoint
<1>5. \A k, l \in DOMAIN s.joints : k < l => s.joints[k].index < s.joints[l].index
  BY DEF Sound
<1> QED
  BY <1>1, <1>2, <1>4, <1>5 DEF Skeleton

\* The solver joint cursor after each skeleton joint, by the one before.
LEMMA CursorSteps ==
    ASSUME NEW s, Sound(s)
    PROVE  /\ Cursor(s) \in [0 .. Len(s.rig.parents) -> 0 .. Len(s.joints)]
           /\ Cursor(s)[0] = 0
           /\ \A i \in Skeleton(s.rig) :
                Cursor(s)[i] = IF /\ Cursor(s)[i - 1] < Len(s.joints)
                                  /\ s.joints[Cursor(s)[i - 1] + 1].index = i
                               THEN Cursor(s)[i - 1] + 1
                               ELSE Cursor(s)[i - 1]
<1> DEFINE n == Len(s.rig.parents)
           m == Len(s.joints)
           V == 0 .. m
           step(i, g) == IF i = 0 THEN 0
                         ELSE IF g[i - 1] < m /\ s.joints[g[i - 1] + 1].index = i
                         THEN g[i - 1] + 1
                         ELSE g[i - 1]
           F == [i \in 0 .. n |-> [g \in [0 .. n -> V] |-> step(i, g)]]
           Fits(g) == g = [i \in 0 .. Len(s.rig.parents) |-> step(i, g)]
           w == Cursor(s)
<1>1. n \in Nat /\ 0 .. Len(s.rig.parents) = 0 .. n /\ \A i \in 1 .. n : i - 1 \in 0 .. i - 1
  BY DEF Sound, AnyRig
<1>2. m \in Nat
  BY DEF Sound
<1> HIDE DEF m
<1> HIDE DEF n
<1>4. ASSUME NEW i \in 0 .. n, NEW g, \A j \in 0 .. i - 1 : g[j] \in V
      PROVE  step(i, g) \in V
  <2>1. CASE i = 0
    BY <1>2, <2>1
  <2>2. CASE i # 0
    <3>1. g[i - 1] \in V
      BY <1>1, <1>4, <2>2
    <3> QED
      BY <1>2, <2>2, <3>1
  <2> QED
    BY <2>1, <2>2
<1>5. ASSUME NEW i \in 0 .. n, NEW g, NEW h, \A j \in 0 .. i - 1 : g[j] = h[j]
      PROVE  step(i, g) = step(i, h)
  <2>1. CASE i = 0
    BY <2>1
  <2>2. CASE i # 0
    <3>1. g[i - 1] = h[i - 1]
      BY <1>1, <1>5, <2>2
    <3> QED
      BY <2>2, <3>1
  <2> QED
    BY <2>1, <2>2
<1> HIDE DEF step
<1>6. ASSUME NEW i \in 0 .. n, NEW g \in [0 .. n -> V] PROVE step(i, g) \in V
  <2>1. \A j \in 0 .. i - 1 : g[j] \in V
    BY <1>1
  <2> QED
    BY <1>4, <2>1
<1>7. w = CHOOSE g : Fits(g)
  BY DEF Cursor, w, step, n, m
<1>8. PICK f \in [0 .. n -> V] : \A i \in 0 .. n : f[i] = step(i, f)
  <2>1. F \in [0 .. n -> [[0 .. n -> V] -> V]]
    <3>1. \A i \in 0 .. n :
            [g \in [0 .. n -> V] |-> step(i, g)] \in [[0 .. n -> V] -> V]
      BY <1>6
    <3> QED
      BY <3>1
  <2>2. \A i \in 0 .. n : \A g \in [0 .. n -> V] : F[i][g] = step(i, g)
    OBVIOUS
  <2> HIDE DEF F
  <2>3. V # {}
    BY <1>2
  <2>4. \A i \in 0 .. n : \A g, h \in [0 .. n -> V] :
          (\A j \in 0 .. i - 1 : g[j] = h[j]) => F[i][g] = F[i][h]
    <3> SUFFICES ASSUME NEW i \in 0 .. n, NEW g \in [0 .. n -> V],
                        NEW h \in [0 .. n -> V], \A j \in 0 .. i - 1 : g[j] = h[j]
                 PROVE  F[i][g] = F[i][h]
      OBVIOUS
    <3>1. step(i, g) = step(i, h)
      BY <1>5
    <3>2. F[i][g] = step(i, g) /\ F[i][h] = step(i, h)
      BY <2>2
    <3> QED
      BY <3>1, <3>2
  <2>5. Causal(0, n, V, F)
    BY <2>1, <2>3, <2>4 DEF Causal
  <2>6. \E f \in [0 .. n -> V] : \A i \in 0 .. n : f[i] = F[i][f]
    <3> HIDE DEF V
    <3> QED
      BY <1>1, <2>5, RecursiveFunction
  <2> QED
    BY <2>2, <2>6
<1>9. Fits(f)
  <2>1. f = [i \in 0 .. n |-> f[i]]
    BY <1>8
  <2> QED
    BY <1>1, <1>8, <2>1
<1> HIDE DEF w
<1>10. Fits(w)
  <2> HIDE DEF Fits
  <2> QED
    BY <1>7, <1>9
<1>11. w = [i \in 0 .. n |-> w[i]] /\ \A i \in 0 .. n : w[i] = step(i, w)
  BY <1>1, <1>10
<1>12. \A i \in 0 .. n : w[i] \in V
  <2> DEFINE S == {i \in 0 .. n : w[i] \in V}
  <2>1. ASSUME NEW i \in 0 .. n, \A j \in 0 .. i - 1 : j \in S PROVE i \in S
    BY <1>4, <1>11, <2>1
  <2> HIDE DEF S
  <2>2. \A i \in 0 .. n : i \in S
    BY <1>1, <2>1, StrongInduction
  <2> QED
    BY <2>2 DEF S
<1>13. w \in [0 .. n -> V]
  BY <1>11, <1>12
<1>14. w[0] = 0 /\ \A i \in 1 .. n : w[i] = step(i, w)
  BY <1>1, <1>11, SMTT(60) DEF step
<1> QED
  BY <1>1, <1>13, <1>14 DEF w, step, n, m, Skeleton

\* The cursor has passed exactly the solver joints of the skeleton joints visited.
LEMMA CursorCounts ==
    ASSUME NEW s, Sound(s)
    PROVE  \A i \in 0 .. Len(s.rig.parents) : \A k \in DOMAIN s.joints :
             k <= Cursor(s)[i] <=> s.joints[k].index <= i
<1> DEFINE n == Len(s.rig.parents)
           m == Len(s.joints)
           c == Cursor(s)
           index(k) == s.joints[k].index
           S == {i \in 0 .. n : \A k \in 1 .. m : k <= c[i] <=> index(k) <= i}
<1>1. /\ n \in Nat /\ m \in Nat /\ Skeleton(s.rig) = 1 .. n /\ DOMAIN s.joints = 1 .. m
      /\ \A k \in 1 .. m : index(k) \in 1 .. n
      /\ \A k, l \in 1 .. m : k < l => index(k) < index(l)
  BY SoundIndices
<1>2. /\ \A i \in 0 .. n : c[i] \in 0 .. m
      /\ c[0] = 0
      /\ \A i \in 1 .. n : c[i] = IF c[i - 1] < m /\ index(c[i - 1] + 1) = i THEN c[i - 1] + 1
                                  ELSE c[i - 1]
  BY <1>1, CursorSteps
<1> HIDE DEF n, m, c, index
<1>3. ASSUME NEW i \in 0 .. n, \A j \in 0 .. i - 1 : j \in S PROVE i \in S
  <2>1. CASE i = 0
    BY <1>1, <1>2, <2>1
  <2>2. CASE i # 0
    <3> DEFINE b == c[i - 1]
    <3>1. i - 1 \in 0 .. n /\ b \in 0 .. m /\ \A k \in 1 .. m : k <= b <=> index(k) <= i - 1
      BY <1>1, <1>2, <1>3, <2>2
    <3>2. c[i] = IF b < m /\ index(b + 1) = i THEN b + 1 ELSE b
      BY <1>1, <1>2, <2>2
    <3> HIDE DEF b
    <3>3. ASSUME NEW k \in 1 .. m PROVE k <= c[i] <=> index(k) <= i
      <4>1. CASE b < m /\ index(b + 1) = i
        <5>1. c[i] = b + 1 /\ b + 1 \in 1 .. m
          BY <1>1, <3>1, <3>2, <4>1
        <5>2. k < b + 1 => index(k) < i
          BY <1>1, <4>1, <5>1
        <5>3. k > b + 1 => index(k) > i
          BY <1>1, <4>1, <5>1
        <5> QED
          BY <1>1, <3>1, <4>1, <5>1, <5>2, <5>3
      <4>2. CASE ~(b < m /\ index(b + 1) = i)
        <5>1. c[i] = b
          BY <3>2, <4>2
        <5>2. ASSUME index(k) <= i, k > b PROVE FALSE
          <6>1. b + 1 \in 1 .. m /\ b < m
            BY <1>1, <3>1, <5>2
          <6>2. index(b + 1) > i - 1
            BY <1>1, <3>1, <6>1
          <6>3. index(b + 1) <= index(k)
            <7>1. CASE k = b + 1
              BY <1>1, <6>1, <7>1
            <7>2. CASE k > b + 1
              BY <1>1, <6>1, <7>2
            <7> QED
              BY <3>1, <5>2, <7>1, <7>2
          <6> QED
            BY <1>1, <4>2, <5>2, <6>1, <6>2, <6>3
        <5> QED
          BY <1>1, <3>1, <5>1, <5>2
      <4> QED
        BY <4>1, <4>2
    <3> QED
      BY <3>3
  <2> QED
    BY <2>1, <2>2
<1> HIDE DEF S
<1>4. \A i \in 0 .. n : i \in S
  <2>1. 0 \in Nat
    OBVIOUS
  <2> QED
    BY <1>1, <1>3, <2>1, StrongInduction
<1> QED
  BY <1>1, <1>4 DEF S, n, m, c, index

\* The walk gives every solver joint its turn, at its own skeleton joint.
LEMMA EveryJointHasItsTurn ==
    ASSUME NEW s, Sound(s)
    PROVE  /\ \A i \in Skeleton(s.rig) :
                Turn(s, i) # 0 => Turn(s, i) \in DOMAIN s.joints /\ s.joints[Turn(s, i)].index = i
           /\ \A k \in DOMAIN s.joints : Turn(s, s.joints[k].index) = k
<1> DEFINE n == Len(s.rig.parents)
           m == Len(s.joints)
           c == Cursor(s)
           index(k) == s.joints[k].index
<1>1. /\ n \in Nat /\ m \in Nat /\ Skeleton(s.rig) = 1 .. n /\ DOMAIN s.joints = 1 .. m
      /\ \A k \in 1 .. m : index(k) \in 1 .. n
  BY SoundIndices
<1>2. /\ \A i \in 0 .. n : c[i] \in 0 .. m
      /\ \A i \in 1 .. n : c[i] = IF c[i - 1] < m /\ index(c[i - 1] + 1) = i THEN c[i - 1] + 1
                                  ELSE c[i - 1]
  BY <1>1, CursorSteps
<1>3. \A i \in 0 .. n : \A k \in 1 .. m : k <= c[i] <=> index(k) <= i
  BY <1>1, CursorCounts
<1>4. \A i : Turn(s, i) = IF c[i] = c[i - 1] THEN 0 ELSE c[i]
  BY DEF Turn
<1> HIDE DEF n, m, c, index
<1>5. ASSUME NEW i \in 1 .. n, Turn(s, i) # 0 PROVE Turn(s, i) \in 1 .. m /\ index(Turn(s, i)) = i
  <2>1. i - 1 \in 0 .. n
    BY <1>1
  <2>2. c[i] # c[i - 1] /\ Turn(s, i) = c[i]
    BY <1>4, <1>5
  <2> QED
    BY <1>1, <1>2, <2>1, <2>2
<1>6. ASSUME NEW k \in 1 .. m PROVE Turn(s, index(k)) = k
  <2> DEFINE i == index(k)
  <2>1. i \in 1 .. n /\ i - 1 \in 0 .. n /\ i \in 0 .. n
    BY <1>1
  <2>2. i <= i /\ ~(i <= i - 1) /\ i = index(k)
    BY <2>1
  <2> HIDE DEF i
  <2>3. k <= c[i] /\ ~(k <= c[i - 1])
    BY <1>3, <2>1, <2>2
  <2>4. c[i] = c[i - 1] + 1 /\ c[i - 1] \in 0 .. m /\ c[i] \in 0 .. m
    BY <1>2, <2>1, <2>3
  <2> QED
    BY <1>1, <1>4, <2>2, <2>3, <2>4
<1> QED
  BY <1>1, <1>5, <1>6 DEF index

\* Step reports the solver joints in their order.
LEMMA TurnedInOrder ==
    ASSUME NEW s, Sound(s)
    PROVE  /\ DOMAIN InOrder(Turned(s)) = 1 .. Len(s.joints)
           /\ \A k \in 1 .. Len(s.joints) : InOrder(Turned(s))[k] = s.joints[k].index
<1> DEFINE m == Len(s.joints)
           S == Turned(s)
           order == InOrder(S)
           c == Cardinality(S)
           g == [k \in 1 .. m |-> s.joints[k].index]
<1>1. /\ m \in Nat /\ DOMAIN s.joints = 1 .. m
      /\ \A k \in 1 .. m : s.joints[k].index \in Skeleton(s.rig)
      /\ \A k, l \in 1 .. m : k < l => s.joints[k].index < s.joints[l].index
  BY DEF Sound, SoundJoint
<1>2. S \in SUBSET Nat /\ IsFiniteSet(S)
  <2>1. Len(s.rig.parents) \in Nat
    BY DEF Sound, AnyRig
  <2>2. Skeleton(s.rig) \subseteq Nat /\ IsFiniteSet(Skeleton(s.rig))
    BY <2>1, FS_Interval, SMTT(60) DEF Skeleton
  <2>3. S \subseteq Skeleton(s.rig)
    BY DEF Turned
  <2> HIDE DEF S
  <2> QED
    BY <2>2, <2>3, FS_Subset
<1>3. \A x \in S : \E k \in 1 .. m : g[k] = x
  <2> SUFFICES ASSUME NEW x \in S PROVE \E k \in 1 .. m : g[k] = x
    OBVIOUS
  <2>1. x \in Skeleton(s.rig) /\ Turn(s, x) # 0
    BY DEF Turned
  <2>2. Turn(s, x) \in 1 .. m /\ s.joints[Turn(s, x)].index = x
    BY <1>1, <2>1, EveryJointHasItsTurn
  <2> QED
    BY <2>2
<1>4. \A k \in 1 .. m : g[k] \in S
  <2> SUFFICES ASSUME NEW k \in 1 .. m PROVE s.joints[k].index \in S
    OBVIOUS
  <2>1. Turn(s, s.joints[k].index) = k
    BY <1>1, EveryJointHasItsTurn
  <2> QED
    BY <1>1, <2>1 DEF Turned
<1>5. \A k, l \in 1 .. m : k < l => g[k] < g[l]
  BY <1>1
<1> HIDE DEF m, S
<1>6. /\ order \in [1 .. c -> S] /\ c \in Nat
      /\ \A k, l \in 1 .. c : k < l => order[k] < order[l]
      /\ \A x \in S : \E k \in 1 .. c : order[k] = x
  BY <1>2, InOrderLists
<1> HIDE DEF g, order, c
<1>7. Enumerates(S, m, g) /\ Enumerates(S, c, order)
  <2>1. Enumerates(S, m, g)
    BY <1>3, <1>4, <1>5 DEF Enumerates
  <2>2. \A k \in 1 .. c : order[k] \in S
    BY <1>6
  <2>3. Enumerates(S, c, order)
    BY <1>6, <2>2 DEF Enumerates
  <2> QED
    BY <2>1, <2>3
<1>8. S \in SUBSET Nat /\ m \in Nat /\ c \in Nat
  BY <1>1, <1>2, <1>6
<1>9. /\ m <= c /\ \A k \in 1 .. m : g[k] = order[k]
      /\ c <= m
  BY <1>7, <1>8, EnumerationPrefix, SMTT(60)
<1>10. c = m
  BY <1>8, <1>9
<1> QED
  BY <1>6, <1>9, <1>10 DEF order, S, g, m

\* The line's transforms act on the integers.
LEMMA LineTypes ==
    /\ \A t \in Transform : t.translation \in Int /\ t.rotation \in Int
    /\ \A t \in Transform, p \in Int : Point(t, p) \in Int /\ InversePoint(t, p) \in Int
    /\ \A t, l \in Transform : Compose(t, l) \in Transform
    /\ Identity \in Transform
    /\ \A v, f \in Int : Unit(v, f) \in Int /\ Magnitude(v) \in Int
    /\ \A v \in Int, f \in {-1, 1} : Unit(v, f) \in {-1, 1}
  BY DEF Transform, Point, InversePoint, Compose, Identity, Unit, Magnitude

\* The projection back to the bone length is a number, at that length from the head
\* whenever the bone has a direction to fall back on.
LEMMA ProjectType ==
    ASSUME NEW head \in Int, NEW tail \in Int, NEW direction \in Int, NEW length \in Int
    PROVE  /\ Project(head, tail, direction, length) \in Int
           /\ direction \in {-1, 1}
                => Project(head, tail, direction, length) \in {head - length, head + length}
<1>1. Unit(tail - head, direction) \in Int
  BY DEF Unit
<1>2. direction \in {-1, 1} => Unit(tail - head, direction) \in {-1, 1}
  BY DEF Unit
<1> DEFINE u == Unit(tail - head, direction)
<1>3. Project(head, tail, direction, length) = head + u * length
  BY DEF Project
<1> HIDE DEF u
<1>4. u = 1 => u * length = length
  OBVIOUS
<1>5. u = -1 => u * length = -length
  OBVIOUS
<1>6. u * length \in Int
  BY <1>1 DEF u
<1> QED
  BY <1>2, <1>3, <1>4, <1>5, <1>6 DEF u

\* The nearest point of a collider is a point.
LEMMA ClosestType ==
    ASSUME NEW collider \in SpringBoneCollider, NEW attachment \in Transform, NEW tail \in Int
    PROVE  Closest(collider, attachment, tail) \in Int
<1>1. Point(attachment, collider.offset) \in Int /\ Point(attachment, collider.tail) \in Int
  BY LineTypes DEF SpringBoneCollider
<1> QED
  BY <1>1 DEF Closest

\* A push either leaves the tail or puts it at the bone's length from its head.
LEMMA PushType ==
    ASSUME NEW s, NEW joint, NEW c, NEW animated, NEW head \in Int, NEW direction \in Int,
           NEW tail \in Int,
           Sound(s), SoundJoint(s.rig, joint), c \in DOMAIN s.rig.colliders,
           animated \in [Skeleton(s.rig) -> Transform]
    PROVE  LET pushed == Push(s, joint, s.rig.colliders[c], animated, head, direction, tail)
               length == Magnitude(joint.tail)
           IN  /\ pushed \in Int
               /\ direction \in {-1, 1} => pushed \in {tail, head - length, head + length}
<1> DEFINE collider == s.rig.colliders[c]
           frame == Frame(animated, collider.joint)
           closest == Closest(collider, frame, tail)
           length == Magnitude(joint.tail)
           radius == collider.radius + joint.parameters.hitRadius
           target == closest + Unit(tail - closest, 0) * radius
<1>1. collider \in SpringBoneCollider /\ collider.joint \in {0} \union Skeleton(s.rig)
  BY DEF Sound, AnyRig, ValidColliders
<1>2. frame \in Transform
  BY <1>1, LineTypes DEF Frame
<1> HIDE DEF frame
<1>3. closest \in Int
  BY <1>1, <1>2, ClosestType
<1>4. length \in Int
  BY LineTypes DEF SoundJoint
<1>5. radius \in Int
  BY <1>1, SMTT(60) DEF SoundJoint, SpringBoneParameters, SpringBoneCollider
<1>6. Unit(tail - closest, 0) \in Int
  BY <1>3, LineTypes
<1>7. target \in Int
  BY <1>3, <1>5, <1>6
<1>8. Push(s, joint, collider, animated, head, direction, tail)
        = IF Magnitude(tail - closest) < radius THEN Project(head, target, direction, length) ELSE tail
  BY DEF Push, frame
<1> HIDE DEF target, radius, length, closest, collider
<1>9. CASE Magnitude(tail - closest) < radius
  <2>1. /\ Project(head, target, direction, length) \in Int
        /\ direction \in {-1, 1}
             => Project(head, target, direction, length) \in {head - length, head + length}
    BY <1>4, <1>7, ProjectType
  <2> QED
    BY <1>8, <1>9, <2>1 DEF length, collider
<1>10. CASE ~(Magnitude(tail - closest) < radius)
  BY <1>8, <1>10 DEF collider
<1> QED
  BY <1>9, <1>10

\* Pushed folds Push over the joint's colliders, in their order.
LEMMA Pushes ==
    ASSUME NEW s, NEW joint, NEW animated, NEW head \in Int, NEW direction \in Int, NEW tail \in Int,
           Sound(s), SoundJoint(s.rig, joint), animated \in [Skeleton(s.rig) -> Transform]
    PROVE  \E push \in [0 .. Len(joint.colliders) -> Int] :
             /\ push[0] = tail
             /\ Pushed(s, joint, animated, head, direction, tail) = push[Len(joint.colliders)]
             /\ \A n \in 1 .. Len(joint.colliders) :
                  push[n] = Push(s, joint, s.rig.colliders[joint.colliders[n]], animated, head,
                                 direction, push[n - 1])
<1> DEFINE n == Len(joint.colliders)
           step(i, g) == IF i = 0 THEN tail
                         ELSE Push(s, joint, s.rig.colliders[joint.colliders[i]], animated, head,
                                   direction, g[i - 1])
           F == [i \in 0 .. n |-> [g \in [0 .. n -> Int] |-> step(i, g)]]
           Fits(g) == g = [i \in 0 .. Len(joint.colliders) |-> step(i, g)]
           w == CHOOSE g : Fits(g)
<1>1. n \in Nat /\ 0 .. Len(joint.colliders) = 0 .. n
  BY DEF SoundJoint
<1>2. \A i \in 1 .. n : joint.colliders[i] \in DOMAIN s.rig.colliders
  BY DEF SoundJoint
<1> HIDE DEF n
<1>3. \A i \in 1 .. n : \A t \in Int :
        Push(s, joint, s.rig.colliders[joint.colliders[i]], animated, head, direction, t) \in Int
  BY <1>2, PushType
<1>4. ASSUME NEW i \in 0 .. n, NEW g, \A j \in 0 .. i - 1 : g[j] \in Int
      PROVE  step(i, g) \in Int
  <2>1. CASE i = 0
    BY <2>1
  <2>2. CASE i # 0
    <3>1. g[i - 1] \in Int /\ i \in 1 .. n
      BY <1>1, <1>4, <2>2
    <3> QED
      BY <1>3, <2>2, <3>1
  <2> QED
    BY <2>1, <2>2
<1>5. ASSUME NEW i \in 0 .. n, NEW g, NEW h, \A j \in 0 .. i - 1 : g[j] = h[j]
      PROVE  step(i, g) = step(i, h)
  <2>1. CASE i = 0
    BY <2>1
  <2>2. CASE i # 0
    <3>1. g[i - 1] = h[i - 1]
      BY <1>1, <1>5, <2>2
    <3> QED
      BY <2>2, <3>1
  <2> QED
    BY <2>1, <2>2
<1> HIDE DEF step
<1>6. ASSUME NEW i \in 0 .. n, NEW g \in [0 .. n -> Int] PROVE step(i, g) \in Int
  <2>1. \A j \in 0 .. i - 1 : g[j] \in Int
    BY <1>1
  <2> QED
    BY <1>4, <2>1
<1>7. w = CHOOSE g : Fits(g)
  BY DEF w, step, n
<1>8. PICK f \in [0 .. n -> Int] : \A i \in 0 .. n : f[i] = step(i, f)
  <2>1. F \in [0 .. n -> [[0 .. n -> Int] -> Int]]
    <3>1. \A i \in 0 .. n :
            [g \in [0 .. n -> Int] |-> step(i, g)] \in [[0 .. n -> Int] -> Int]
      BY <1>6
    <3> QED
      BY <3>1
  <2>2. \A i \in 0 .. n : \A g \in [0 .. n -> Int] : F[i][g] = step(i, g)
    OBVIOUS
  <2> HIDE DEF F
  <2>3. Int # {}
    OBVIOUS
  <2>4. \A i \in 0 .. n : \A g, h \in [0 .. n -> Int] :
          (\A j \in 0 .. i - 1 : g[j] = h[j]) => F[i][g] = F[i][h]
    <3> SUFFICES ASSUME NEW i \in 0 .. n, NEW g \in [0 .. n -> Int],
                        NEW h \in [0 .. n -> Int], \A j \in 0 .. i - 1 : g[j] = h[j]
                 PROVE  F[i][g] = F[i][h]
      OBVIOUS
    <3>1. step(i, g) = step(i, h)
      BY <1>5
    <3>2. F[i][g] = step(i, g) /\ F[i][h] = step(i, h)
      BY <2>2
    <3> QED
      BY <3>1, <3>2
  <2>5. Causal(0, n, Int, F)
    BY <2>1, <2>3, <2>4 DEF Causal
  <2>6. \E f \in [0 .. n -> Int] : \A i \in 0 .. n : f[i] = F[i][f]
    BY <1>1, <2>5, RecursiveFunction
  <2> QED
    BY <2>2, <2>6
<1>9. Fits(f)
  <2>1. f = [i \in 0 .. n |-> f[i]]
    BY <1>8
  <2> QED
    BY <1>1, <1>8, <2>1
<1> HIDE DEF w
<1>10. Fits(w)
  <2> HIDE DEF Fits
  <2> QED
    BY <1>7, <1>9
<1>11. w = [i \in 0 .. n |-> w[i]] /\ \A i \in 0 .. n : w[i] = step(i, w)
  BY <1>1, <1>10
<1>12. \A i \in 0 .. n : w[i] \in Int
  <2> DEFINE S == {i \in 0 .. n : w[i] \in Int}
  <2>1. ASSUME NEW i \in 0 .. n, \A j \in 0 .. i - 1 : j \in S PROVE i \in S
    BY <1>4, <1>11, <2>1
  <2> HIDE DEF S
  <2>2. \A i \in 0 .. n : i \in S
    BY <1>1, <2>1, StrongInduction
  <2> QED
    BY <2>2 DEF S
<1>13. w \in [0 .. n -> Int]
  BY <1>11, <1>12
<1>14. /\ w[0] = tail
       /\ \A i \in 1 .. n :
            w[i] = Push(s, joint, s.rig.colliders[joint.colliders[i]], animated, head,
                        direction, w[i - 1])
  <2>1. 0 \in 0 .. n /\ \A i \in 1 .. n : i \in 0 .. n /\ i # 0
    BY <1>1
  <2>2. w[0] = step(0, w) /\ \A i \in 1 .. n : w[i] = step(i, w)
    BY <1>11, <2>1
  <2>3. step(0, w) = tail
    BY DEF step
  <2>4. ASSUME NEW i \in 1 .. n
        PROVE  step(i, w) = Push(s, joint, s.rig.colliders[joint.colliders[i]], animated, head,
                                 direction, w[i - 1])
    BY <2>1 DEF step
  <2> QED
    BY <2>2, <2>3, <2>4
<1>15. Pushed(s, joint, animated, head, direction, tail) = w[n]
  BY DEF Pushed, w, Fits, step, n
<1> QED
  BY <1>1, <1>13, <1>14, <1>15 DEF n

\* However a tail is pushed, it stays at the bone's length from its head.
LEMMA PushedKeepsLength ==
    ASSUME NEW s, NEW joint, NEW animated, NEW head \in Int, NEW direction \in {-1, 1},
           NEW tail \in {head - Magnitude(joint.tail), head + Magnitude(joint.tail)},
           Sound(s), SoundJoint(s.rig, joint), animated \in [Skeleton(s.rig) -> Transform]
    PROVE  Pushed(s, joint, animated, head, direction, tail)
             \in {head - Magnitude(joint.tail), head + Magnitude(joint.tail)}
<1> DEFINE n == Len(joint.colliders)
           ends == {head - Magnitude(joint.tail), head + Magnitude(joint.tail)}
<1>1. Magnitude(joint.tail) \in Int
  BY LineTypes DEF SoundJoint
<1>2. tail \in Int /\ direction \in Int
  BY <1>1
<1>3. PICK push \in [0 .. n -> Int] :
        /\ push[0] = tail
        /\ Pushed(s, joint, animated, head, direction, tail) = push[n]
        /\ \A i \in 1 .. n :
             push[i] = Push(s, joint, s.rig.colliders[joint.colliders[i]], animated, head,
                            direction, push[i - 1])
  BY <1>2, Pushes
<1>4. n \in Nat /\ \A i \in 1 .. n : joint.colliders[i] \in DOMAIN s.rig.colliders
  BY DEF SoundJoint
<1> HIDE DEF n
<1> DEFINE S == {i \in 0 .. n : push[i] \in ends}
<1>5. ASSUME NEW i \in 0 .. n, \A j \in 0 .. i - 1 : j \in S PROVE i \in S
  <2>1. CASE i = 0
    BY <1>3, <2>1
  <2>2. CASE i # 0
    <3>1. push[i - 1] \in ends /\ push[i - 1] \in Int /\ i \in 1 .. n
      BY <1>3, <1>4, <1>5, <2>2
    <3>2. push[i] \in {push[i - 1]} \union ends
      <4> DEFINE c == joint.colliders[i]
      <4>1. c \in DOMAIN s.rig.colliders /\ direction \in Int
        BY <1>4, <3>1
      <4>2. push[i] = Push(s, joint, s.rig.colliders[c], animated, head, direction, push[i - 1])
        BY <1>3, <3>1
      <4> HIDE DEF c
      <4> DEFINE t == push[i - 1]
      <4>3. t \in Int
        BY <3>1
      <4> HIDE DEF t
      <4>4. Push(s, joint, s.rig.colliders[c], animated, head, direction, t)
              \in {t, head - Magnitude(joint.tail), head + Magnitude(joint.tail)}
        BY <4>1, <4>3, PushType
      <4> QED
        BY <4>2, <4>4 DEF t
    <3> QED
      BY <3>1, <3>2
  <2> QED
    BY <2>1, <2>2
<1> HIDE DEF S
<1>6. \A i \in 0 .. n : i \in S
  <2>1. 0 \in Nat
    OBVIOUS
  <2> QED
    BY <1>4, <1>5, <2>1, StrongInduction
<1> QED
  BY <1>3, <1>4, <1>6 DEF S

\* A solver value whose joints have a history.
Moving(s) ==
    \A k \in DOMAIN s.joints : s.joints[k].current \in Int /\ s.joints[k].previous \in Int

\* What the walk records at a skeleton joint.
Visited == [world : Transform, rotation : Int, inertial : Int, next : Int, current : Int]

\* What a sound joint reads is there and is a number.
LEMMA JointTypes ==
    ASSUME NEW s, Sound(s), NEW k \in DOMAIN s.joints
    PROVE  /\ SoundJoint(s.rig, s.joints[k])
           /\ s.joints[k].tail \in Int /\ s.joints[k].tail # 0
           /\ s.joints[k].parameters.stiffness \in Int /\ s.joints[k].parameters.stiffness >= 0
           /\ s.joints[k].parameters.drag \in Int
           /\ s.joints[k].parameters.gravity \in Int
           /\ Unit(s.joints[k].tail, 0) \in {-1, 1}
           /\ Magnitude(s.joints[k].tail) \in Int
<1>1. SoundJoint(s.rig, s.joints[k])
  BY DEF Sound
<1>2. s.joints[k].tail \in Int /\ s.joints[k].tail # 0 /\ s.joints[k].parameters.stiffness >= 0
  BY <1>1 DEF SoundJoint
<1>3. s.joints[k].parameters \in SpringBoneParameters
  BY <1>1 DEF SoundJoint
<1>4. Unit(s.joints[k].tail, 0) \in {-1, 1} /\ Magnitude(s.joints[k].tail) \in Int
  BY <1>2 DEF Unit, Magnitude
<1> QED
  BY <1>1, <1>2, <1>3, <1>4 DEF SpringBoneParameters

\* A solver joint's centre is a frame of the pose, or the model's.
LEMMA CenterType ==
    ASSUME NEW s, Sound(s), NEW k \in DOMAIN s.joints, NEW animated \in [Skeleton(s.rig) -> Transform]
    PROVE  Center(animated, s.joints[k]) \in Transform
<1>1. s.joints[k].center \in {0} \union Skeleton(s.rig)
  BY JointTypes DEF SoundJoint
<1> QED
  BY <1>1, LineTypes DEF Center, Frame

\* Inertia, stiffness and gravity add up to a point.
LEMMA InertialType ==
    ASSUME NEW s, Sound(s), Moving(s), NEW k \in DOMAIN s.joints, NEW center \in Transform,
           NEW direction \in Int, NEW seconds \in Int
    PROVE  Inertial(s.joints[k], direction, center, seconds) \in Int
<1> DEFINE joint == s.joints[k]
           p == joint.parameters
           past == (joint.current - joint.previous) * (1 - p.drag)
<1>1. joint.current \in Int /\ joint.previous \in Int
  BY DEF Moving
<1>2. p.stiffness \in Int /\ p.drag \in Int /\ p.gravity \in Int
  BY JointTypes
<1>3. Inertial(joint, direction, center, seconds)
        = Point(center, joint.current + past) + direction * p.stiffness * seconds
            + p.gravity * seconds
  BY DEF Inertial
<1> HIDE DEF joint, p
<1>4. past \in Int
  BY <1>1, <1>2
<1> HIDE DEF past
<1>5. Point(center, joint.current + past) \in Int
  <2>1. joint.current + past \in Int
    BY <1>1, <1>4
  <2> QED
    BY <2>1, LineTypes
<1>6. direction * p.stiffness * seconds \in Int /\ p.gravity * seconds \in Int
  BY <1>2
<1>7. Point(center, joint.current + past) + direction * p.stiffness * seconds
        + p.gravity * seconds \in Int
  BY <1>5, <1>6
<1> QED
  BY <1>3, <1>7 DEF joint

\* A solver joint's turn: the tail it projects from the inertial position and pushes
\* out of the colliders, at the bone's length from its head.
LEMMA VisitTurn ==
    ASSUME NEW s, NEW k \in DOMAIN s.joints, NEW here \in Transform, NEW parent \in Transform,
           NEW local \in Transform, NEW animated \in [Skeleton(s.rig) -> Transform],
           NEW seconds \in Int, Sound(s), Moving(s)
    PROVE  LET joint     == s.joints[k]
               direction == here.rotation * Unit(joint.tail, 0)
               inertial  == Inertial(joint, direction, Center(animated, joint), seconds)
               next      == Pushed(s, joint, animated, here.translation, direction,
                                   Project(here.translation, inertial, direction,
                                           Magnitude(joint.tail)))
           IN  /\ direction \in Int /\ inertial \in Int /\ next \in Int
               /\ Visit(s, k, here, parent, local, animated, seconds)
                    = Turning(joint, here, parent, local, Center(animated, joint), direction,
                              inertial, next)
<1> DEFINE joint == s.joints[k]
           direction == here.rotation * Unit(joint.tail, 0)
           inertial == Inertial(joint, direction, Center(animated, joint), seconds)
           first == Project(here.translation, inertial, direction, Magnitude(joint.tail))
           next == Pushed(s, joint, animated, here.translation, direction, first)
<1>1. k # 0
  BY DEF Sound
<1>2. here.rotation \in Int /\ here.translation \in Int
  BY LineTypes
<1>3. Unit(joint.tail, 0) \in Int /\ Magnitude(joint.tail) \in Int
  BY JointTypes
<1>4. Visit(s, k, here, parent, local, animated, seconds)
        = Turning(joint, here, parent, local, Center(animated, joint), direction, inertial, next)
  BY <1>1 DEF Visit, Integrate, Integrated
<1>5. SoundJoint(s.rig, joint)
  BY JointTypes
<1>6. Center(animated, joint) \in Transform
  BY CenterType
<1>7. direction \in Int
  BY <1>2, <1>3
<1> HIDE DEF direction
<1>8. inertial \in Int
  BY <1>6, <1>7, InertialType
<1> HIDE DEF inertial, joint
<1>9. first \in Int
  BY <1>2, <1>3, <1>7, <1>8, ProjectType
<1> HIDE DEF first
<1>10. next \in Int
  <2>1. Len(joint.colliders) \in Nat
    BY <1>5 DEF SoundJoint
  <2>2. PICK push \in [0 .. Len(joint.colliders) -> Int] : next = push[Len(joint.colliders)]
    BY <1>2, <1>5, <1>7, <1>9, Pushes
  <2> QED
    BY <2>1, <2>2
<1> QED
  BY <1>4, <1>7, <1>8, <1>10 DEF joint, direction, inertial, first

\* A turned bone is recorded with a frame, a rotation and three points.
LEMMA TurningType ==
    ASSUME NEW s, Sound(s), NEW k \in DOMAIN s.joints, NEW here \in Transform,
           NEW parent \in Transform, NEW local \in Transform, NEW center \in Transform,
           NEW direction \in Int, NEW inertial \in Int, NEW next \in Int
    PROVE  Turning(s.joints[k], here, parent, local, center, direction, inertial, next) \in Visited
<1> DEFINE rotation == local.rotation
                         * FromTo(Unit(s.joints[k].tail, 0),
                                  here.rotation * Unit(next - here.translation, direction))
           turned == [local EXCEPT !.rotation = rotation]
<1>1. here.rotation \in Int /\ here.translation \in Int /\ local.rotation \in Int
  BY LineTypes
<1>2. Unit(s.joints[k].tail, 0) \in Int /\ Unit(next - here.translation, direction) \in Int
  BY <1>1, JointTypes DEF Unit
<1>3. rotation \in Int
  BY <1>1, <1>2 DEF FromTo
<1> HIDE DEF rotation
<1>4. turned \in Transform
  BY <1>3 DEF Transform
<1>5. Compose(parent, turned) \in Transform /\ InversePoint(center, next) \in Int
  BY <1>4, LineTypes
<1>6. Turning(s.joints[k], here, parent, local, center, direction, inertial, next)
        = [world |-> Compose(parent, turned), rotation |-> rotation, inertial |-> inertial,
           next |-> next, current |-> InversePoint(center, next)]
  BY DEF Turning, rotation
<1> HIDE DEF turned
<1> QED
  BY <1>3, <1>5, <1>6 DEF Visited

\* So is every visited joint of the skeleton, driven or not.
LEMMA VisitBelowType ==
    ASSUME NEW s, NEW i \in Skeleton(s.rig), NEW parent \in Transform, NEW local \in Transform,
           NEW animated \in [Skeleton(s.rig) -> Transform], NEW seconds \in Int,
           Sound(s), Moving(s)
    PROVE  VisitBelow(s, i, parent, local, animated, seconds) \in Visited
<1> DEFINE here == Compose(parent, local)
           k == Turn(s, i)
<1>1. here \in Transform /\ local.rotation \in Int
  BY LineTypes
<1>2. VisitBelow(s, i, parent, local, animated, seconds)
        = Visit(s, k, here, parent, local, animated, seconds)
  BY DEF VisitBelow
<1>3. k # 0 => k \in DOMAIN s.joints
  BY EveryJointHasItsTurn
<1> HIDE DEF here, k
<1>4. CASE k = 0
  BY <1>1, <1>2, <1>4 DEF Visit, Visited
<1>5. CASE k # 0
  <2>1. k \in DOMAIN s.joints
    BY <1>3, <1>5
  <2>2. PICK direction \in Int, inertial \in Int, next \in Int :
          Visit(s, k, here, parent, local, animated, seconds)
            = Turning(s.joints[k], here, parent, local, Center(animated, s.joints[k]), direction,
                      inertial, next)
    BY <1>1, <2>1, VisitTurn
  <2>3. Center(animated, s.joints[k]) \in Transform
    BY <2>1, CenterType
  <2> QED
    BY <1>1, <1>2, <2>1, <2>2, <2>3, TurningType
<1> QED
  BY <1>4, <1>5

\* The walk's simulated frames, joint by joint from the roots down.
LEMMA WalkFrames ==
    ASSUME NEW s, NEW pose \in AnyPose, NEW animated, NEW seconds \in Int,
           Sound(s), Moving(s), Len(pose.locals) = Len(s.rig.parents),
           animated \in [Skeleton(s.rig) -> Transform]
    PROVE  /\ Walk(s, pose, animated, seconds) \in [Skeleton(s.rig) -> Visited]
           /\ \A i \in Skeleton(s.rig) :
                Walk(s, pose, animated, seconds)[i]
                  = VisitBelow(s, i, IF s.rig.parents[i] = 0 THEN pose.placement
                                     ELSE Walk(s, pose, animated, seconds)[s.rig.parents[i]].world,
                               pose.locals[i], animated, seconds)
<1> DEFINE n == Len(s.rig.parents)
           step(i, g) == VisitBelow(s, i, IF s.rig.parents[i] = 0 THEN pose.placement
                                       ELSE g[s.rig.parents[i]].world,
                                 pose.locals[i], animated, seconds)
           F == [i \in 1 .. n |-> [g \in [1 .. n -> Visited] |-> step(i, g)]]
           Fits(g) == g = [i \in Skeleton(s.rig) |-> step(i, g)]
           w == Walk(s, pose, animated, seconds)
<1>1. /\ n \in Nat /\ Skeleton(s.rig) = 1 .. n /\ \A i \in 1 .. n : s.rig.parents[i] \in 0 .. i - 1
  BY DEF Sound, AnyRig, TopologicalSkeleton, Skeleton
<1>2. pose.placement \in Transform /\ \A i \in 1 .. n : pose.locals[i] \in Transform
  BY <1>1 DEF AnyPose
<1> HIDE DEF n
<1>3. \A i \in 1 .. n : \A t, l \in Transform : VisitBelow(s, i, t, l, animated, seconds) \in Visited
  BY <1>1, VisitBelowType
<1>4. ASSUME NEW i \in 1 .. n, NEW g, \A j \in 1 .. i - 1 : g[j] \in Visited
      PROVE  step(i, g) \in Visited
  <2>1. (IF s.rig.parents[i] = 0 THEN pose.placement ELSE g[s.rig.parents[i]].world) \in Transform
    <3>1. CASE s.rig.parents[i] = 0
      BY <1>2, <3>1
    <3>2. CASE s.rig.parents[i] # 0
      <4>1. g[s.rig.parents[i]] \in Visited
        BY <1>1, <1>4, <3>2
      <4> QED
        BY <3>2, <4>1 DEF Visited
    <3> QED
      BY <3>1, <3>2
  <2> QED
    BY <1>2, <1>3, <2>1
<1>5. ASSUME NEW i \in 1 .. n, NEW g, NEW h, \A j \in 1 .. i - 1 : g[j] = h[j]
      PROVE  step(i, g) = step(i, h)
  <2>1. CASE s.rig.parents[i] = 0
    BY <2>1
  <2>2. CASE s.rig.parents[i] # 0
    <3>1. s.rig.parents[i] \in 1 .. i - 1
      BY <1>1, <2>2
    <3>2. g[s.rig.parents[i]] = h[s.rig.parents[i]]
      BY <1>5, <3>1
    <3> QED
      BY <2>2, <3>2
  <2> QED
    BY <2>1, <2>2
<1> HIDE DEF step
<1>6. ASSUME NEW i \in 1 .. n, NEW g \in [1 .. n -> Visited] PROVE step(i, g) \in Visited
  <2>1. \A j \in 1 .. i - 1 : g[j] \in Visited
    BY <1>1
  <2> QED
    BY <1>4, <2>1
<1>7. w = CHOOSE g : Fits(g)
  BY DEF Walk, w, step, n
<1>8. PICK f \in [1 .. n -> Visited] : \A i \in 1 .. n : f[i] = step(i, f)
  <2>1. F \in [1 .. n -> [[1 .. n -> Visited] -> Visited]]
    <3>1. \A i \in 1 .. n :
            [g \in [1 .. n -> Visited] |-> step(i, g)] \in [[1 .. n -> Visited] -> Visited]
      BY <1>6
    <3> QED
      BY <3>1
  <2>2. \A i \in 1 .. n : \A g \in [1 .. n -> Visited] : F[i][g] = step(i, g)
    OBVIOUS
  <2> HIDE DEF F
  <2>3. Visited # {}
    <3>1. [world |-> Identity, rotation |-> 0, inertial |-> 0, next |-> 0, current |-> 0] \in Visited
      BY LineTypes DEF Visited
    <3> QED
      BY <3>1
  <2>4. \A i \in 1 .. n : \A g, h \in [1 .. n -> Visited] :
          (\A j \in 1 .. i - 1 : g[j] = h[j]) => F[i][g] = F[i][h]
    <3> SUFFICES ASSUME NEW i \in 1 .. n, NEW g \in [1 .. n -> Visited],
                        NEW h \in [1 .. n -> Visited], \A j \in 1 .. i - 1 : g[j] = h[j]
                 PROVE  F[i][g] = F[i][h]
      OBVIOUS
    <3>1. step(i, g) = step(i, h)
      BY <1>5
    <3>2. F[i][g] = step(i, g) /\ F[i][h] = step(i, h)
      BY <2>2
    <3> QED
      BY <3>1, <3>2
  <2>5. Causal(1, n, Visited, F)
    BY <2>1, <2>3, <2>4 DEF Causal
  <2>6. \E f \in [1 .. n -> Visited] : \A i \in 1 .. n : f[i] = F[i][f]
    BY <1>1, <2>5, RecursiveFunction
  <2> QED
    BY <2>2, <2>6
<1>9. Fits(f)
  <2>1. f = [i \in 1 .. n |-> f[i]]
    BY <1>8
  <2> QED
    BY <1>1, <1>8, <2>1
<1> HIDE DEF w
<1>10. Fits(w)
  <2> HIDE DEF Fits
  <2> QED
    BY <1>7, <1>9
<1>11. w = [i \in 1 .. n |-> w[i]] /\ \A i \in 1 .. n : w[i] = step(i, w)
  BY <1>1, <1>10
<1>12. \A i \in 1 .. n : w[i] \in Visited
  <2> DEFINE S == {i \in 1 .. n : w[i] \in Visited}
  <2>1. ASSUME NEW i \in 1 .. n, \A j \in 1 .. i - 1 : j \in S PROVE i \in S
    BY <1>4, <1>11, <2>1
  <2> HIDE DEF S
  <2>2. \A i \in 1 .. n : i \in S
    BY <1>1, <2>1, StrongInduction
  <2> QED
    BY <2>2 DEF S
<1>13. w \in [1 .. n -> Visited]
  BY <1>11, <1>12
<1> QED
  BY <1>1, <1>11, <1>13 DEF w, step, n

\* The frames of a pose the solver accepts are rigid.
LEMMA ValidPoseFrames ==
    ASSUME NEW s, NEW pose \in AnyPose, Sound(s), ValidPose(s, pose)
    PROVE  /\ Len(pose.locals) = Len(s.rig.parents)
           /\ pose.placement \in Transform /\ pose.placement.rotation \in {-1, 1}
           /\ \A i \in Skeleton(s.rig) :
                pose.locals[i] \in Transform /\ pose.locals[i].rotation \in {-1, 1}
           /\ World(s.rig, pose) \in [Skeleton(s.rig) -> Transform]
           /\ \A i \in Skeleton(s.rig) : World(s.rig, pose)[i].rotation \in {-1, 1}
<1>1. Len(pose.locals) = Len(s.rig.parents) /\ s.rig \in AnyRig /\ TopologicalSkeleton(s.rig)
  BY DEF ValidPose, Sound
<1>2. DOMAIN pose.locals = Skeleton(s.rig) /\ \A i \in DOMAIN pose.locals : pose.locals[i] \in Transform
  BY <1>1 DEF AnyPose, Skeleton
<1>3. \A i \in DOMAIN pose.locals : pose.locals[i].rotation \in {-1, 1}
  BY DEF ValidPose, ValidTransform
<1>4. pose.placement \in Transform /\ pose.placement.rotation \in {-1, 1}
  BY DEF ValidPose, ValidTransform, AnyPose
<1>5. World(s.rig, pose) \in [Skeleton(s.rig) -> Transform]
  BY <1>1, WorldFrames
<1>6. \A i \in Skeleton(s.rig) : World(s.rig, pose)[i].rotation \in {-1, 1}
  BY DEF ValidPose, ValidTransform
<1> QED
  BY <1>1, <1>2, <1>3, <1>4, <1>5, <1>6

\* Rotations of the line: their product is one, and they keep or change a sign.
LEMMA SignArithmetic ==
    /\ \A a, b \in {-1, 1} : a * b \in {-1, 1}
    /\ \A a \in {-1, 1}, x \in Int : a * x = IF a = 1 THEN x ELSE -x
<1>1. \A x \in Int : 1 * x = x /\ (-1) * x = -x
  OBVIOUS
<1> QED
  BY <1>1

\* A rotation out of a frame and back into it cancels.
LEMMA SignCancel ==
    \A a, b, c, u \in {-1, 1} : a * (b * (c * ((a * b) * u))) = c * u
<1> SUFFICES ASSUME NEW a \in {-1, 1}, NEW b \in {-1, 1}, NEW c \in {-1, 1}, NEW u \in {-1, 1}
             PROVE  a * (b * (c * ((a * b) * u))) = c * u
  OBVIOUS
<1>1. \A x \in Int : 1 * x = x /\ (-1) * x = -x
  OBVIOUS
<1>2. c * u \in Int /\ c * (-u) = -(c * u) /\ u \in Int /\ -u \in Int
  BY <1>1
<1>3. CASE a = 1 /\ b = 1
  BY <1>1, <1>2, <1>3
<1>4. CASE a = 1 /\ b = -1
  BY <1>1, <1>2, <1>4
<1>5. CASE a = -1 /\ b = 1
  BY <1>1, <1>2, <1>5
<1>6. CASE a = -1 /\ b = -1
  BY <1>1, <1>2, <1>6
<1> QED
  BY <1>3, <1>4, <1>5, <1>6

\* A local transform with another rotation.
Rotated(local, rotation) == [translation |-> local.translation, rotation |-> rotation]

\* A bone turned onto its new tail ends there.
LEMMA TurningReachesNext ==
    ASSUME NEW joint, joint.tail \in Int, joint.tail # 0,
           NEW parent \in Transform, parent.rotation \in {-1, 1},
           NEW local \in Transform, local.rotation \in {-1, 1},
           NEW here, here = Compose(parent, local),
           NEW center, NEW direction, NEW inertial, NEW next,
           next \in {here.translation - Magnitude(joint.tail),
                     here.translation + Magnitude(joint.tail)},
           NEW v, v = Turning(joint, here, parent, local, center, direction, inertial, next)
    PROVE  /\ v.rotation \in {-1, 1}
           /\ v.world = Compose(parent, Rotated(local, v.rotation))
           /\ v.next = next /\ v.current = InversePoint(center, next)
           /\ next = Point(v.world, joint.tail)
<1> DEFINE tail == joint.tail
           head == here.translation
           u == Unit(next - head, direction)
           r == local.rotation * FromTo(Unit(tail, 0), here.rotation * u)
<1>1. here.rotation = parent.rotation * local.rotation /\ head = Point(parent, local.translation)
  BY DEF Compose
<1>2. head \in Int /\ here.rotation \in {-1, 1}
  BY <1>1, LineTypes, SignArithmetic
<1>3. tail \in Int /\ tail # 0 /\ Unit(tail, 0) \in {-1, 1}
  BY DEF Unit
<1>4. v = [world |-> Compose(parent, [local EXCEPT !.rotation = r]), rotation |-> r,
           inertial |-> inertial, next |-> next, current |-> InversePoint(center, next)]
  BY DEF Turning
<1>5. next \in {head - Magnitude(tail), head + Magnitude(tail)}
  OBVIOUS
<1> HIDE DEF tail
<1>6. u \in {-1, 1} /\ next = head + u * Magnitude(tail)
  BY <1>2, <1>3, <1>5 DEF Unit, Magnitude
<1> HIDE DEF u
<1>7. here.rotation * u \in {-1, 1}
  BY <1>2, <1>6, SignArithmetic
<1>8. FromTo(Unit(tail, 0), here.rotation * u) \in {-1, 1}
  BY <1>3, <1>7, SignArithmetic DEF FromTo
<1>9. r \in {-1, 1}
  BY <1>8, SignArithmetic
<1>10. parent.rotation * r = Unit(tail, 0) * u
  <2>1. r = local.rotation * (Unit(tail, 0) * ((parent.rotation * local.rotation) * u))
    BY <1>1 DEF FromTo
  <2> HIDE DEF r
  <2> QED
    BY <1>3, <1>6, <2>1, SignCancel
<1> HIDE DEF r
<1>11. [local EXCEPT !.rotation = r] = [translation |-> local.translation, rotation |-> r]
  BY DEF Transform
<1>12. v.world = [translation |-> head, rotation |-> Unit(tail, 0) * u]
  BY <1>1, <1>4, <1>10, <1>11 DEF Compose
<1>13. Point(v.world, tail) = head + (Unit(tail, 0) * u) * tail
  BY <1>12 DEF Point
<1>14. (Unit(tail, 0) * u) * tail = u * Magnitude(tail)
  <2>1. CASE u = 1
    BY <1>3, <2>1 DEF Unit, Magnitude
  <2>2. CASE u = -1
    BY <1>3, <2>2 DEF Unit, Magnitude
  <2> QED
    BY <1>6, <2>1, <2>2
<1> QED
  BY <1>4, <1>6, <1>9, <1>11, <1>13, <1>14 DEF tail, Rotated

\* What one skeleton joint's visit leaves, under a rigid parent frame: its frame is
\* composed from its reported rotation, and the new tail of a solver joint is where
\* that frame puts it.
LEMMA VisitBelowFrame ==
    ASSUME NEW s, Sound(s), Moving(s), NEW i \in Skeleton(s.rig), NEW parent \in Transform,
           NEW local \in Transform, NEW animated \in [Skeleton(s.rig) -> Transform],
           NEW seconds \in Int, NEW v, parent.rotation \in {-1, 1}, local.rotation \in {-1, 1},
           v = VisitBelow(s, i, parent, local, animated, seconds)
    PROVE  /\ v.rotation \in {-1, 1} /\ v.world.rotation \in {-1, 1}
           /\ v.world = Compose(parent, Rotated(local, v.rotation))
           /\ Turn(s, i) = 0 => v.rotation = local.rotation
           /\ Turn(s, i) # 0 =>
                /\ v.next \in Int
                /\ v.current = InversePoint(Center(animated, s.joints[Turn(s, i)]), v.next)
                /\ v.next = Point(v.world, s.joints[Turn(s, i)].tail)
<1> DEFINE here == Compose(parent, local)
           k == Turn(s, i)
<1>1. here \in Transform /\ here.translation \in Int
  BY LineTypes
<1>2. v = Visit(s, k, here, parent, local, animated, seconds)
  BY DEF VisitBelow
<1>3. k # 0 => k \in DOMAIN s.joints
  BY EveryJointHasItsTurn
<1>4. here.rotation \in {-1, 1}
  BY SignArithmetic DEF Compose
<1>5. local = [translation |-> local.translation, rotation |-> local.rotation]
  BY DEF Transform
<1> HIDE DEF k
<1>6. CASE k = 0
  <2>1. v.world = here /\ v.rotation = local.rotation
    BY <1>2, <1>6 DEF Visit
  <2>2. v.world = Compose(parent, Rotated(local, v.rotation))
    BY <1>5, <2>1 DEF Rotated
  <2> QED
    BY <1>4, <1>6, <2>1, <2>2 DEF k
<1>7. CASE k # 0
  <2> DEFINE joint == s.joints[k]
             direction == here.rotation * Unit(joint.tail, 0)
             inertial == Inertial(joint, direction, Center(animated, joint), seconds)
             length == Magnitude(joint.tail)
             first == Project(here.translation, inertial, direction, length)
             next == Pushed(s, joint, animated, here.translation, direction, first)
  <2>1. k \in DOMAIN s.joints
    BY <1>3, <1>7
  <2>2. /\ direction \in Int /\ inertial \in Int /\ next \in Int
        /\ v = Turning(joint, here, parent, local, Center(animated, joint), direction, inertial, next)
    BY <1>1, <1>2, <2>1, VisitTurn
  <2>3. Unit(joint.tail, 0) \in {-1, 1} /\ length \in Int /\ SoundJoint(s.rig, joint)
    BY <2>1, JointTypes
  <2>4. direction \in {-1, 1}
    BY <1>4, <2>3, SignArithmetic
  <2> HIDE DEF direction, inertial
  <2>5. first \in {here.translation - length, here.translation + length}
    BY <1>1, <2>2, <2>3, <2>4, ProjectType
  <2> HIDE DEF first, here
  <2>6. next \in {here.translation - length, here.translation + length}
    BY <1>1, <2>3, <2>4, <2>5, PushedKeepsLength
  <2> HIDE DEF next
  <2>7. /\ v.rotation \in {-1, 1}
        /\ v.world = Compose(parent, Rotated(local, v.rotation))
        /\ v.next = next /\ v.current = InversePoint(Center(animated, joint), next)
        /\ next = Point(v.world, joint.tail)
    <3>1. here = Compose(parent, local)
      BY DEF here
    <3>2. joint.tail \in Int /\ joint.tail # 0
      BY <2>1, JointTypes
    <3> HIDE DEF joint
    <3> QED
      BY <2>2, <2>6, <3>1, <3>2, TurningReachesNext
  <2>8. v.world.rotation \in {-1, 1}
    <3>1. v.world.rotation = parent.rotation * v.rotation
      BY <2>7 DEF Compose, Rotated
    <3> QED
      BY <2>7, <3>1, SignArithmetic
  <2> QED
    BY <1>7, <2>2, <2>7, <2>8 DEF k
<1> QED
  BY <1>6, <1>7

\* The frame the walk reads above a joint.
Above(s, pose, sim, i) ==
    IF s.rig.parents[i] = 0 THEN pose.placement ELSE sim[s.rig.parents[i]].world

\* The walk's frames are composed from the rotations it reports, and every solver
\* joint's new tail is where its frame puts it.
LEMMA StepFrames ==
    ASSUME NEW s, NEW pose \in AnyPose, NEW seconds \in Int,
           Sound(s), Moving(s), ValidPose(s, pose)
    PROVE  \A i \in Skeleton(s.rig) :
             LET animated == World(s.rig, pose)
                 sim == Simulate(s, pose, seconds)
             IN  /\ sim[i].rotation \in {-1, 1} /\ sim[i].world.rotation \in {-1, 1}
                 /\ sim[i].world \in Transform
                 /\ sim[i].world = Compose(Above(s, pose, sim, i),
                                           Rotated(pose.locals[i], sim[i].rotation))
                 /\ Turn(s, i) = 0 => sim[i].rotation = pose.locals[i].rotation
                 /\ Turn(s, i) # 0 =>
                      /\ sim[i].next \in Int
                      /\ sim[i].current
                           = InversePoint(Center(animated, s.joints[Turn(s, i)]), sim[i].next)
                      /\ sim[i].next = Point(sim[i].world, s.joints[Turn(s, i)].tail)
<1> DEFINE n == Len(s.rig.parents)
           animated == World(s.rig, pose)
           sim == Simulate(s, pose, seconds)
           S == {i \in 1 .. n : sim[i].world.rotation \in {-1, 1}}
<1>1. /\ Len(pose.locals) = Len(s.rig.parents)
      /\ pose.placement \in Transform /\ pose.placement.rotation \in {-1, 1}
      /\ \A i \in Skeleton(s.rig) : pose.locals[i] \in Transform /\ pose.locals[i].rotation \in {-1, 1}
      /\ animated \in [Skeleton(s.rig) -> Transform]
  BY ValidPoseFrames
<1>2. n \in Nat /\ Skeleton(s.rig) = 1 .. n /\ \A i \in 1 .. n : s.rig.parents[i] \in 0 .. i - 1
  BY DEF Sound, AnyRig, TopologicalSkeleton, Skeleton
<1>3. sim = Walk(s, pose, animated, seconds)
  BY DEF Simulate
<1> HIDE DEF animated, sim, n
<1>4. /\ sim \in [Skeleton(s.rig) -> Visited]
      /\ \A i \in Skeleton(s.rig) :
           sim[i] = VisitBelow(s, i, IF s.rig.parents[i] = 0 THEN pose.placement
                                     ELSE sim[s.rig.parents[i]].world,
                               pose.locals[i], animated, seconds)
  BY <1>1, <1>3, WalkFrames
<1>5. /\ \A i \in Skeleton(s.rig) : sim[i].world \in Transform
      /\ \A i \in Skeleton(s.rig) :
           sim[i] = VisitBelow(s, i, Above(s, pose, sim, i), pose.locals[i], animated, seconds)
  BY <1>4 DEF Above, Visited
<1>6. ASSUME NEW i \in 1 .. n, \A j \in 1 .. i - 1 : j \in S
      PROVE  Above(s, pose, sim, i) \in Transform /\ Above(s, pose, sim, i).rotation \in {-1, 1}
  <2>1. CASE s.rig.parents[i] = 0
    BY <1>1, <2>1 DEF Above
  <2>2. CASE s.rig.parents[i] # 0
    <3>1. s.rig.parents[i] \in 1 .. i - 1 /\ s.rig.parents[i] \in 1 .. n
      BY <1>2, <2>2
    <3>2. s.rig.parents[i] \in S
      BY <1>6, <3>1
    <3> QED
      BY <1>2, <1>5, <2>2, <3>1, <3>2 DEF Above
  <2> QED
    BY <2>1, <2>2
<1>7. ASSUME NEW i \in 1 .. n, \A j \in 1 .. i - 1 : j \in S PROVE i \in S
  <2>1. Above(s, pose, sim, i) \in Transform /\ Above(s, pose, sim, i).rotation \in {-1, 1}
    BY <1>6, <1>7
  <2> DEFINE parent == Above(s, pose, sim, i)
             local == pose.locals[i]
             v == sim[i]
  <2>2. /\ i \in Skeleton(s.rig) /\ local \in Transform /\ local.rotation \in {-1, 1}
        /\ v = VisitBelow(s, i, parent, local, animated, seconds)
    BY <1>1, <1>2, <1>5
  <2> HIDE DEF parent, local, v
  <2>3. v.world.rotation \in {-1, 1}
    BY <1>1, <2>1, <2>2, VisitBelowFrame DEF parent
  <2> QED
    BY <2>3 DEF v
<1>8. \A i \in 1 .. n : i \in S
  <2> HIDE DEF S
  <2>1. 1 \in Nat
    OBVIOUS
  <2> QED
    BY <1>2, <1>7, <2>1, StrongInduction
<1>9. ASSUME NEW i \in 1 .. n
      PROVE  Above(s, pose, sim, i) \in Transform /\ Above(s, pose, sim, i).rotation \in {-1, 1}
  <2>1. \A j \in 1 .. i - 1 : j \in S
    <3>1. \A j \in 1 .. i - 1 : j \in 1 .. n
      BY <1>2
    <3> HIDE DEF S
    <3> QED
      BY <1>8, <3>1
  <2> QED
    BY <1>6, <2>1
<1> SUFFICES ASSUME NEW i \in Skeleton(s.rig)
             PROVE  /\ sim[i].rotation \in {-1, 1} /\ sim[i].world.rotation \in {-1, 1}
                    /\ sim[i].world \in Transform
                    /\ sim[i].world = Compose(Above(s, pose, sim, i),
                                              Rotated(pose.locals[i], sim[i].rotation))
                    /\ Turn(s, i) = 0 => sim[i].rotation = pose.locals[i].rotation
                    /\ Turn(s, i) # 0 =>
                         /\ sim[i].next \in Int
                         /\ sim[i].current
                              = InversePoint(Center(animated, s.joints[Turn(s, i)]), sim[i].next)
                         /\ sim[i].next = Point(sim[i].world, s.joints[Turn(s, i)].tail)
  BY DEF animated, sim
<1> DEFINE parent == Above(s, pose, sim, i)
           local == pose.locals[i]
           v == sim[i]
<1>10. /\ local \in Transform /\ local.rotation \in {-1, 1} /\ v.world \in Transform
       /\ v = VisitBelow(s, i, parent, local, animated, seconds)
  BY <1>1, <1>5
<1>11. /\ parent \in Transform /\ parent.rotation \in {-1, 1}
       /\ animated \in [Skeleton(s.rig) -> Transform]
  BY <1>1, <1>2, <1>9
<1> HIDE DEF parent, local, v
<1>12. /\ v.rotation \in {-1, 1} /\ v.world.rotation \in {-1, 1}
       /\ v.world = Compose(parent, Rotated(local, v.rotation))
       /\ Turn(s, i) = 0 => v.rotation = local.rotation
       /\ Turn(s, i) # 0 =>
            /\ v.next \in Int
            /\ v.current = InversePoint(Center(animated, s.joints[Turn(s, i)]), v.next)
            /\ v.next = Point(v.world, s.joints[Turn(s, i)].tail)
  BY <1>10, <1>11, VisitBelowFrame, SMTT(60)
<1> QED
  BY <1>10, <1>12 DEF parent, local, v

-----------------------------------------------------------------------------
(* What a Reset and a Step answer.                                         *)

\* Two solver joints that differ in their history only.
LEMMA SameJoint ==
    ASSUME NEW a, NEW b, WithHistory(a, 0, 0) = WithHistory(b, 0, 0)
    PROVE  /\ a.index = b.index /\ a.center = b.center /\ a.tail = b.tail
           /\ a.parameters = b.parameters /\ a.colliders = b.colliders
<1>1. \A j : /\ WithHistory(j, 0, 0).index = j.index /\ WithHistory(j, 0, 0).center = j.center
             /\ WithHistory(j, 0, 0).tail = j.tail
             /\ WithHistory(j, 0, 0).parameters = j.parameters
             /\ WithHistory(j, 0, 0).colliders = j.colliders
  BY DEF WithHistory
<1> QED
  BY <1>1

\* Soundness does not look at the history.
LEMMA HistoryKeepsSound ==
    ASSUME NEW s, NEW t, Sound(s), t.rig = s.rig, DOMAIN t.joints = DOMAIN s.joints,
           \A k \in DOMAIN s.joints : WithHistory(t.joints[k], 0, 0) = WithHistory(s.joints[k], 0, 0)
    PROVE  Sound(t)
<1>1. /\ s.rig \in AnyRig /\ TopologicalSkeleton(s.rig) /\ ValidColliders(s.rig)
      /\ Len(s.joints) \in Nat /\ DOMAIN s.joints = 1 .. Len(s.joints)
      /\ \A k \in DOMAIN s.joints : SoundJoint(s.rig, s.joints[k])
      /\ \A k, l \in DOMAIN s.joints : k < l => s.joints[k].index < s.joints[l].index
  BY DEF Sound
<1>2. \A k \in DOMAIN s.joints :
        /\ t.joints[k].index = s.joints[k].index /\ t.joints[k].center = s.joints[k].center
        /\ t.joints[k].tail = s.joints[k].tail /\ t.joints[k].parameters = s.joints[k].parameters
        /\ t.joints[k].colliders = s.joints[k].colliders
  BY SameJoint
<1>3. Len(t.joints) = Len(s.joints)
  BY <1>1
<1>4. \A k \in DOMAIN t.joints : SoundJoint(t.rig, t.joints[k])
  BY <1>1, <1>2 DEF SoundJoint
<1>5. Driven(t.joints) = Driven(s.joints)
  BY <1>2 DEF Driven
<1>6. \A i : HasDrivenAncestor(t.rig, t.joints, i) <=> HasDrivenAncestor(s.rig, s.joints, i)
  BY <1>5 DEF HasDrivenAncestor
<1>7. CentersAboveSimulation(t.rig, t.joints)
  <2>1. CentersAboveSimulation(s.rig, s.joints)
    BY DEF Sound
  <2> QED
    BY <1>2, <1>6, <2>1 DEF CentersAboveSimulation
<1>8. CollidersOutsideSimulation(t.rig, t.joints)
  <2>1. CollidersOutsideSimulation(s.rig, s.joints)
    BY DEF Sound
  <2> QED
    BY <1>2, <1>6, <2>1 DEF CollidersOutsideSimulation
<1>9. \A k, l \in DOMAIN t.joints : k < l => t.joints[k].index < t.joints[l].index
  BY <1>1, <1>2
<1> QED
  BY <1>1, <1>3, <1>4, <1>7, <1>8, <1>9 DEF Sound

\* A configured solver value is sound: its joints are those of an accepted rig.
LEMMA MatchingIsSound ==
    ASSUME NEW s, s.rig \in AnyRig, s.configured, Matches(s)
    PROVE  Sound(s)
<1> DEFINE rig == s.rig
           fresh == [rig |-> rig, joints |-> SolverJoints(rig)]
<1>1. /\ Accepts(rig) /\ DOMAIN s.joints = DOMAIN SolverJoints(rig)
      /\ \A k \in DOMAIN s.joints :
           WithHistory(s.joints[k], 0, 0) = WithHistory(SolverJoints(rig)[k], 0, 0)
  BY DEF Matches
<1> HIDE DEF rig
<1>2. rig \in AnyRig
  BY DEF rig
<1>3. /\ \E n \in Nat : DOMAIN SolverJoints(rig) = 1 .. n
      /\ \A k \in DOMAIN SolverJoints(rig) :
           \E p \in DOMAIN rig.springs :
              /\ SolverJoints(rig)[k].index \in Simulated(rig, rig.springs[p])
              /\ SolverJoints(rig)[k]
                   = SolverJoint(rig, rig.springs[p], SolverJoints(rig)[k].index)
      /\ \A k, l \in DOMAIN SolverJoints(rig) :
           k < l => SolverJoints(rig)[k].index < SolverJoints(rig)[l].index
  BY <1>1, <1>2, DerivedJoints
<1>4. \A k \in DOMAIN SolverJoints(rig) : SoundJoint(rig, SolverJoints(rig)[k])
  BY <1>1, <1>2, <1>3, JointIsSound
<1>5. /\ TopologicalSkeleton(rig) /\ ValidColliders(rig)
      /\ CentersAboveSimulation(rig, SolverJoints(rig))
      /\ CollidersOutsideSimulation(rig, SolverJoints(rig))
  BY <1>1 DEF Accepts
<1>6. Len(SolverJoints(rig)) \in Nat /\ DOMAIN SolverJoints(rig) = 1 .. Len(SolverJoints(rig))
  BY <1>3
<1>7. fresh.rig = rig /\ fresh.joints = SolverJoints(rig)
  OBVIOUS
<1> HIDE DEF fresh
<1>8. Sound(fresh)
  BY <1>2, <1>3, <1>4, <1>5, <1>6, <1>7 DEF Sound
<1> QED
  BY <1>1, <1>7, <1>8, HistoryKeepsSound DEF rig

\* A pose with its rotations replaced by those of an answer.
Answered(pose, rotations) ==
    [pose EXCEPT !.locals = [i \in DOMAIN pose.locals |->
                               [pose.locals[i] EXCEPT !.rotation = rotations[i]]]]

\* A pose with the rotations of an answer is a pose.
LEMMA AnsweredPose ==
    ASSUME NEW pose \in AnyPose, NEW rotations, \A i \in DOMAIN pose.locals : rotations[i] \in Int
    PROVE  /\ Answered(pose, rotations) \in AnyPose
           /\ Answered(pose, rotations).placement = pose.placement
           /\ Len(Answered(pose, rotations).locals) = Len(pose.locals)
           /\ DOMAIN Answered(pose, rotations).locals = DOMAIN pose.locals
           /\ \A i \in DOMAIN pose.locals :
                Answered(pose, rotations).locals[i] = Rotated(pose.locals[i], rotations[i])
<1> DEFINE n == Len(pose.locals)
           locals == [i \in 1 .. n |-> Rotated(pose.locals[i], rotations[i])]
           q == Answered(pose, rotations)
<1>1. n \in Nat /\ DOMAIN pose.locals = 1 .. n /\ \A i \in 1 .. n : pose.locals[i] \in Transform
  BY DEF AnyPose
<1>2. \A i \in 1 .. n : [pose.locals[i] EXCEPT !.rotation = rotations[i]]
                          = Rotated(pose.locals[i], rotations[i])
  BY <1>1 DEF Transform, Rotated
<1>3. [i \in DOMAIN pose.locals |-> [pose.locals[i] EXCEPT !.rotation = rotations[i]]] = locals
  BY <1>1, <1>2
<1> HIDE DEF locals
<1>4. q = [locals |-> locals, placement |-> pose.placement]
  <2>1. q = [pose EXCEPT !.locals = locals]
    BY <1>3 DEF Answered
  <2>2. \A l : \A p \in AnyPose : [p EXCEPT !.locals = l] = [locals |-> l, placement |-> p.placement]
    BY DEF AnyPose
  <2> HIDE DEF q
  <2> QED
    BY <2>1, <2>2
<1>5. pose.placement \in Transform
  BY DEF AnyPose
<1>6. \A i \in 1 .. n : Rotated(pose.locals[i], rotations[i]) \in Transform
  BY <1>1 DEF Rotated, Transform
<1>7. locals \in Seq(Transform) /\ Len(locals) = n /\ DOMAIN locals = 1 .. n
      /\ \A i \in 1 .. n : locals[i] = Rotated(pose.locals[i], rotations[i])
  BY <1>1, <1>6 DEF locals
<1> HIDE DEF n, q
<1>8. q \in AnyPose
  BY <1>4, <1>5, <1>7 DEF AnyPose
<1> QED
  BY <1>1, <1>4, <1>7, <1>8 DEF q, n

\* Frames composed from the roots down are those of the pose.
LEMMA ComposedFrames ==
    ASSUME NEW rig \in AnyRig, TopologicalSkeleton(rig), NEW q \in AnyPose,
           Len(q.locals) = Len(rig.parents), NEW w,
           \A i \in Skeleton(rig) :
              w[i] = Compose(IF rig.parents[i] = 0 THEN q.placement ELSE w[rig.parents[i]],
                             q.locals[i])
    PROVE  \A i \in Skeleton(rig) : World(rig, q)[i] = w[i]
<1> DEFINE n == Len(rig.parents)
           world == World(rig, q)
           S == {i \in 1 .. n : world[i] = w[i]}
<1>1. n \in Nat /\ Skeleton(rig) = 1 .. n /\ \A i \in 1 .. n : rig.parents[i] \in 0 .. i - 1
  BY DEF AnyRig, TopologicalSkeleton, Skeleton
<1>2. \A i \in 1 .. n : world[i] = Compose(IF rig.parents[i] = 0 THEN q.placement
                                           ELSE world[rig.parents[i]], q.locals[i])
  BY <1>1, WorldFrames
<1> HIDE DEF n, world
<1>3. ASSUME NEW i \in 1 .. n, \A j \in 1 .. i - 1 : j \in S PROVE i \in S
  <2>1. CASE rig.parents[i] = 0
    BY <1>1, <1>2, <2>1
  <2>2. CASE rig.parents[i] # 0
    <3>1. rig.parents[i] \in 1 .. i - 1
      BY <1>1, <2>2
    <3>2. world[rig.parents[i]] = w[rig.parents[i]]
      BY <1>3, <3>1
    <3> QED
      BY <1>1, <1>2, <2>2, <3>2
  <2> QED
    BY <2>1, <2>2
<1> HIDE DEF S
<1>4. \A i \in 1 .. n : i \in S
  <2>1. 1 \in Nat
    OBVIOUS
  <2> QED
    BY <1>1, <1>3, <2>1, StrongInduction
<1> QED
  BY <1>1, <1>4 DEF S, world

\* The frame of a joint depends on the rotations at and above it only.
LEMMA SameFrames ==
    ASSUME NEW rig \in AnyRig, TopologicalSkeleton(rig), NEW p \in AnyPose, NEW q \in AnyPose,
           Len(p.locals) = Len(rig.parents), Len(q.locals) = Len(rig.parents),
           q.placement = p.placement
    PROVE  \A i \in Skeleton(rig) :
             (\A j \in AncestorsOrSelf(rig)[i] : q.locals[j] = p.locals[j])
               => World(rig, q)[i] = World(rig, p)[i]
<1> DEFINE n == Len(rig.parents)
           up == AncestorsOrSelf(rig)
           S == {i \in 1 .. n : (\A j \in up[i] : q.locals[j] = p.locals[j])
                                  => World(rig, q)[i] = World(rig, p)[i]}
<1>1. n \in Nat /\ Skeleton(rig) = 1 .. n /\ \A i \in 1 .. n : rig.parents[i] \in 0 .. i - 1
  BY DEF AnyRig, TopologicalSkeleton, Skeleton
<1>2. /\ \A i \in 1 .. n : World(rig, p)[i] = Compose(IF rig.parents[i] = 0 THEN p.placement
                                                      ELSE World(rig, p)[rig.parents[i]],
                                                      p.locals[i])
      /\ \A i \in 1 .. n : World(rig, q)[i] = Compose(IF rig.parents[i] = 0 THEN q.placement
                                                      ELSE World(rig, q)[rig.parents[i]],
                                                      q.locals[i])
  BY <1>1, WorldFrames
<1>3. \A i \in 1 .. n : up[i] = IF rig.parents[i] = 0 THEN {i} ELSE {i} \union up[rig.parents[i]]
  BY <1>1, AncestorSets
<1> HIDE DEF n, up
<1>4. ASSUME NEW i \in 1 .. n, \A j \in 1 .. i - 1 : j \in S PROVE i \in S
  <2> SUFFICES ASSUME \A j \in up[i] : q.locals[j] = p.locals[j]
               PROVE  World(rig, q)[i] = World(rig, p)[i]
    OBVIOUS
  <2>1. q.locals[i] = p.locals[i]
    BY <1>3
  <2>2. CASE rig.parents[i] = 0
    BY <1>2, <2>1, <2>2
  <2>3. CASE rig.parents[i] # 0
    <3> DEFINE a == rig.parents[i]
    <3>1. a \in 1 .. i - 1 /\ a \in S /\ up[i] = {i} \union up[a]
      <4>1. a \in 1 .. i - 1
        BY <1>1, <2>3
      <4> HIDE DEF S
      <4> QED
        BY <1>3, <1>4, <2>3, <4>1
    <3>2. \A j \in up[a] : q.locals[j] = p.locals[j]
      BY <3>1
    <3>3. World(rig, q)[a] = World(rig, p)[a]
      BY <3>1, <3>2
    <3> QED
      BY <1>2, <2>1, <2>3, <3>3
  <2> QED
    BY <2>2, <2>3
<1> HIDE DEF S
<1>5. \A i \in 1 .. n : i \in S
  <2>1. 1 \in Nat
    OBVIOUS
  <2> QED
    BY <1>1, <1>4, <2>1, StrongInduction
<1> QED
  BY <1>1, <1>5 DEF S, up

\* A result r of solver value s at a pose: the rotations, each joint's tail where
\* they put it, the history behind it, and no other joint turned.
Answers(s, r, pose) ==
    /\ Sound(s) /\ pose \in AnyPose /\ ValidPose(s, pose)
    /\ \A i \in Skeleton(s.rig) : r.rotations[i] \in Int
    /\ Len(r.tails) = Len(s.joints) /\ DOMAIN r.tails = DOMAIN s.joints
    /\ \A k \in DOMAIN s.joints :
         /\ r.tails[k].joint = s.joints[k].index
         /\ r.tails[k].position \in Int
         /\ r.tails[k].position
              = Point(World(s.rig, Answered(pose, r.rotations))[s.joints[k].index],
                      s.joints[k].tail)
         /\ s.joints[k].current
              = InversePoint(Center(World(s.rig, pose), s.joints[k]), r.tails[k].position)
    /\ \A i \in Skeleton(s.rig) :
         i \notin Driven(s.joints) => r.rotations[i] = pose.locals[i].rotation

\* What a successful Reset leaves and reports.
LEMMA ResetOutcome ==
    ASSUME NEW s, NEW pose, NEW t, t = AfterReset(s, pose), NEW r, r = ResetResult(s, pose)
    PROVE  /\ t.rig = s.rig /\ t.configured = s.configured
           /\ DOMAIN t.joints = DOMAIN s.joints
           /\ \A k \in DOMAIN s.joints :
                /\ WithHistory(t.joints[k], 0, 0) = WithHistory(s.joints[k], 0, 0)
                /\ t.joints[k].current = RestHistory(s, pose, k)
                /\ t.joints[k].previous = RestHistory(s, pose, k)
           /\ \A i \in Skeleton(s.rig) : r.rotations[i] = pose.locals[i].rotation
           /\ DOMAIN r.tails = DOMAIN s.joints
           /\ \A k \in DOMAIN s.joints :
                r.tails[k].joint = s.joints[k].index /\ r.tails[k].position = RestTail(s, pose, k)
<1> DEFINE joints == [k \in DOMAIN s.joints |->
                        WithHistory(s.joints[k], RestHistory(s, pose, k), RestHistory(s, pose, k))]
<1>1. AfterReset(s, pose) = Solving(s, joints)
  BY DEF AfterReset
<1>2. \A k \in DOMAIN s.joints :
        joints[k] = WithHistory(s.joints[k], RestHistory(s, pose, k), RestHistory(s, pose, k))
  OBVIOUS
<1>3. DOMAIN joints = DOMAIN s.joints
  OBVIOUS
<1> HIDE DEF joints
<1>4. \A j, a, b : /\ WithHistory(WithHistory(j, a, b), 0, 0) = WithHistory(j, 0, 0)
                   /\ WithHistory(j, a, b).current = a /\ WithHistory(j, a, b).previous = b
  BY DEF WithHistory
<1>5. /\ Solving(s, joints).rig = s.rig /\ Solving(s, joints).configured = s.configured
      /\ Solving(s, joints).joints = joints
  BY DEF Solving
<1>6. /\ \A i \in Skeleton(s.rig) : r.rotations[i] = pose.locals[i].rotation
      /\ DOMAIN r.tails = DOMAIN s.joints
      /\ \A k \in DOMAIN s.joints :
           r.tails[k].joint = s.joints[k].index /\ r.tails[k].position = RestTail(s, pose, k)
  BY DEF ResetResult
<1> QED
  BY <1>1, <1>2, <1>3, <1>4, <1>5, <1>6

\* Reset reports the pose's own rotations, and the tails where they put them.
LEMMA ResetAnswers ==
    ASSUME NEW s, NEW pose \in AnyPose, Sound(s), ValidPose(s, pose)
    PROVE  Answers(AfterReset(s, pose), ResetResult(s, pose), pose)
<1> DEFINE t == AfterReset(s, pose)
           r == ResetResult(s, pose)
           world == World(s.rig, pose)
           m == Len(s.joints)
<1>1. /\ t.rig = s.rig /\ t.configured = s.configured
      /\ DOMAIN t.joints = DOMAIN s.joints
      /\ \A k \in DOMAIN s.joints :
           /\ WithHistory(t.joints[k], 0, 0) = WithHistory(s.joints[k], 0, 0)
           /\ t.joints[k].current = RestHistory(s, pose, k)
      /\ \A i \in Skeleton(s.rig) : r.rotations[i] = pose.locals[i].rotation
      /\ DOMAIN r.tails = DOMAIN s.joints
      /\ \A k \in DOMAIN s.joints :
           r.tails[k].joint = s.joints[k].index /\ r.tails[k].position = RestTail(s, pose, k)
  BY ResetOutcome
<1> HIDE DEF t, r
<1>2. Sound(t)
  BY <1>1, HistoryKeepsSound
<1>3. ValidPose(t, pose)
  BY <1>1 DEF ValidPose
<1>4. /\ m \in Nat /\ DOMAIN s.joints = 1 .. m
      /\ \A k \in DOMAIN s.joints : s.joints[k].index \in Skeleton(s.rig) /\ s.joints[k].tail \in Int
  BY SoundIndices, JointTypes
<1>5. /\ Len(pose.locals) = Len(s.rig.parents) /\ DOMAIN pose.locals = Skeleton(s.rig)
      /\ \A i \in Skeleton(s.rig) : pose.locals[i] \in Transform
      /\ world \in [Skeleton(s.rig) -> Transform]
  <2>1. DOMAIN pose.locals = 1 .. Len(pose.locals)
    BY DEF AnyPose
  <2> QED
    BY <2>1, ValidPoseFrames DEF Skeleton
<1>6. \A i \in Skeleton(s.rig) : r.rotations[i] = pose.locals[i].rotation
  BY <1>1
<1>7. \A i \in Skeleton(s.rig) : r.rotations[i] \in Int
  BY <1>5, <1>6, LineTypes
<1>8. Len(r.tails) = m /\ DOMAIN r.tails = 1 .. m
  BY <1>1, <1>4
<1>9. \A k \in DOMAIN s.joints :
        /\ t.joints[k].index = s.joints[k].index /\ t.joints[k].center = s.joints[k].center
        /\ t.joints[k].tail = s.joints[k].tail
  BY <1>1, SameJoint
<1>10. Len(t.joints) = m
  BY <1>1, <1>4
<1>11. \A i \in Skeleton(s.rig) : World(s.rig, Answered(pose, r.rotations))[i] = world[i]
  <2> DEFINE q == Answered(pose, r.rotations)
  <2>1. /\ q \in AnyPose /\ q.placement = pose.placement /\ Len(q.locals) = Len(s.rig.parents)
        /\ \A i \in Skeleton(s.rig) : q.locals[i] = Rotated(pose.locals[i], r.rotations[i])
    BY <1>5, <1>7, AnsweredPose
  <2> HIDE DEF q
  <2>2. \A i \in Skeleton(s.rig) : q.locals[i] = pose.locals[i]
    BY <1>5, <1>6, <2>1 DEF Rotated, Transform
  <2>3. s.rig \in AnyRig /\ TopologicalSkeleton(s.rig)
    BY DEF Sound
  <2>4. \A i \in Skeleton(s.rig) : AncestorsOrSelf(s.rig)[i] \subseteq Skeleton(s.rig)
    BY <2>3, AncestorSets
  <2>5. \A i \in Skeleton(s.rig) : World(s.rig, q)[i] = World(s.rig, pose)[i]
    BY <1>5, <2>1, <2>2, <2>3, <2>4, SameFrames
  <2> QED
    BY <2>5 DEF q
<1> HIDE DEF world, m
<1>12. ASSUME NEW k \in DOMAIN s.joints
       PROVE  /\ r.tails[k].joint = t.joints[k].index
              /\ r.tails[k].position = Point(world[s.joints[k].index], s.joints[k].tail)
              /\ r.tails[k].position \in Int
              /\ t.joints[k].current = InversePoint(Center(world, t.joints[k]), r.tails[k].position)
  <2>1. r.tails[k].joint = s.joints[k].index /\ r.tails[k].position = RestTail(s, pose, k)
    BY <1>1
  <2>2. RestTail(s, pose, k) = Point(world[s.joints[k].index], s.joints[k].tail)
    BY DEF RestTail, world
  <2>3. Point(world[s.joints[k].index], s.joints[k].tail) \in Int
    BY <1>4, <1>5, LineTypes
  <2>4. t.joints[k].current = InversePoint(Center(world, s.joints[k]), RestTail(s, pose, k))
    BY <1>1 DEF RestHistory, world
  <2>5. Center(world, t.joints[k]) = Center(world, s.joints[k])
    BY <1>9 DEF Center
  <2> QED
    BY <1>9, <2>1, <2>2, <2>3, <2>4, <2>5
<1>13. \A k \in DOMAIN t.joints :
         /\ r.tails[k].joint = t.joints[k].index
         /\ r.tails[k].position \in Int
         /\ r.tails[k].position
              = Point(World(t.rig, Answered(pose, r.rotations))[t.joints[k].index], t.joints[k].tail)
         /\ t.joints[k].current
              = InversePoint(Center(World(t.rig, pose), t.joints[k]), r.tails[k].position)
  BY <1>1, <1>4, <1>9, <1>11, <1>12 DEF world
<1> QED
  BY <1>1, <1>2, <1>3, <1>4, <1>6, <1>7, <1>8, <1>10, <1>13 DEF Answers, t, r

\* What a successful Step leaves and reports: no joint is skipped.
LEMMA StepOutcome ==
    ASSUME NEW s, NEW pose, NEW seconds, Sound(s), NEW sim, sim = Simulate(s, pose, seconds),
           NEW t, t = AfterStep(s, pose, seconds), NEW r, r = StepResult(s, pose, seconds)
    PROVE  /\ t.rig = s.rig /\ t.configured = s.configured
           /\ DOMAIN t.joints = DOMAIN s.joints
           /\ \A k \in DOMAIN s.joints :
                /\ WithHistory(t.joints[k], 0, 0) = WithHistory(s.joints[k], 0, 0)
                /\ t.joints[k].current = sim[s.joints[k].index].current
           /\ \A i \in Skeleton(s.rig) : r.rotations[i] = sim[i].rotation
           /\ DOMAIN r.tails = DOMAIN s.joints
           /\ \A k \in DOMAIN s.joints :
                /\ r.tails[k].joint = s.joints[k].index
                /\ r.tails[k].position = sim[s.joints[k].index].next
<1> DEFINE visit(k) == {i \in Turned(s) : Turn(s, i) = k}
           joints == [k \in DOMAIN s.joints |-> StepJoint(s, sim, k, visit(k))]
           order == InOrder(Turned(s))
<1>1. t = Solving(s, joints)
  BY DEF AfterStep, StepJoints
<1>2. DOMAIN joints = DOMAIN s.joints /\ \A k \in DOMAIN s.joints : joints[k] = StepJoint(s, sim, k, visit(k))
  OBVIOUS
<1> HIDE DEF joints
<1>3. \A k \in DOMAIN s.joints : visit(k) = {s.joints[k].index}
  <2> SUFFICES ASSUME NEW k \in DOMAIN s.joints PROVE visit(k) = {s.joints[k].index}
    OBVIOUS
  <2>1. s.joints[k].index \in Skeleton(s.rig) /\ k # 0
    BY SoundIndices, SMTT(60)
  <2>2. Turn(s, s.joints[k].index) = k
    BY EveryJointHasItsTurn
  <2>3. \A i \in Skeleton(s.rig) : Turn(s, i) = k => s.joints[k].index = i
    BY <2>1, EveryJointHasItsTurn
  <2> QED
    BY <2>1, <2>2, <2>3 DEF Turned
<1>4. \A k : \A i : StepJoint(s, sim, k, {i}) = WithHistory(s.joints[k], sim[i].current, s.joints[k].current)
  <2> SUFFICES ASSUME NEW k, NEW i
               PROVE  StepJoint(s, sim, k, {i})
                        = WithHistory(s.joints[k], sim[i].current, s.joints[k].current)
    OBVIOUS
  <2>1. (CHOOSE j \in {i} : TRUE) = i
    OBVIOUS
  <2> QED
    BY <2>1 DEF StepJoint
<1> HIDE DEF visit
<1>5. \A k \in DOMAIN s.joints :
        joints[k] = WithHistory(s.joints[k], sim[s.joints[k].index].current, s.joints[k].current)
  BY <1>2, <1>3, <1>4
<1>6. \A j, a, b : /\ WithHistory(WithHistory(j, a, b), 0, 0) = WithHistory(j, 0, 0)
                   /\ WithHistory(j, a, b).current = a
  BY DEF WithHistory
<1>7. t.rig = s.rig /\ t.configured = s.configured /\ t.joints = joints
  BY <1>1 DEF Solving
<1>8. \A k \in DOMAIN s.joints : /\ WithHistory(t.joints[k], 0, 0) = WithHistory(s.joints[k], 0, 0)
                                 /\ t.joints[k].current = sim[s.joints[k].index].current
  BY <1>5, <1>6, <1>7
<1>9. r = Report(s, sim)
  BY DEF StepResult
<1>10. \A i \in Skeleton(s.rig) : r.rotations[i] = sim[i].rotation
  BY <1>9 DEF Report
<1>11. r.tails = ReportedTails(sim, order)
  BY <1>9 DEF Report
<1>12. DOMAIN order = DOMAIN s.joints /\ \A k \in DOMAIN s.joints : order[k] = s.joints[k].index
  BY TurnedInOrder, SoundIndices
<1> HIDE DEF order
<1>13. /\ DOMAIN r.tails = DOMAIN s.joints
       /\ \A k \in DOMAIN s.joints :
            r.tails[k].joint = s.joints[k].index /\ r.tails[k].position = sim[s.joints[k].index].next
  BY <1>11, <1>12 DEF ReportedTails
<1> QED
  BY <1>2, <1>7, <1>8, <1>10, <1>13

\* Step reports the rotations that put the joints at the tails it reports.
LEMMA StepAnswers ==
    ASSUME NEW s, NEW pose \in AnyPose, NEW seconds \in Int, Sound(s), Moving(s), ValidPose(s, pose)
    PROVE  Answers(AfterStep(s, pose, seconds), StepResult(s, pose, seconds), pose)
<1> DEFINE t == AfterStep(s, pose, seconds)
           r == StepResult(s, pose, seconds)
           sim == Simulate(s, pose, seconds)
           world == World(s.rig, pose)
           q == Answered(pose, r.rotations)
           m == Len(s.joints)
<1>1. /\ t.rig = s.rig /\ t.configured = s.configured
      /\ DOMAIN t.joints = DOMAIN s.joints
      /\ \A k \in DOMAIN s.joints :
           /\ WithHistory(t.joints[k], 0, 0) = WithHistory(s.joints[k], 0, 0)
           /\ t.joints[k].current = sim[s.joints[k].index].current
      /\ \A i \in Skeleton(s.rig) : r.rotations[i] = sim[i].rotation
      /\ DOMAIN r.tails = DOMAIN s.joints
      /\ \A k \in DOMAIN s.joints :
           /\ r.tails[k].joint = s.joints[k].index
           /\ r.tails[k].position = sim[s.joints[k].index].next
  BY StepOutcome
<1>2. \A i \in Skeleton(s.rig) :
        /\ sim[i].rotation \in {-1, 1} /\ sim[i].world \in Transform
        /\ sim[i].world = Compose(Above(s, pose, sim, i), Rotated(pose.locals[i], sim[i].rotation))
        /\ Turn(s, i) = 0 => sim[i].rotation = pose.locals[i].rotation
        /\ Turn(s, i) # 0 =>
             /\ sim[i].next \in Int
             /\ sim[i].current = InversePoint(Center(world, s.joints[Turn(s, i)]), sim[i].next)
             /\ sim[i].next = Point(sim[i].world, s.joints[Turn(s, i)].tail)
  BY StepFrames
<1> HIDE DEF t, r, sim
<1>3. Sound(t)
  BY <1>1, HistoryKeepsSound
<1>4. ValidPose(t, pose)
  BY <1>1 DEF ValidPose
<1>5. /\ m \in Nat /\ DOMAIN s.joints = 1 .. m
      /\ \A k \in DOMAIN s.joints : s.joints[k].index \in Skeleton(s.rig)
  BY SoundIndices
<1>6. /\ Len(pose.locals) = Len(s.rig.parents) /\ DOMAIN pose.locals = Skeleton(s.rig)
      /\ \A i \in Skeleton(s.rig) : pose.locals[i] \in Transform
  <2>1. DOMAIN pose.locals = 1 .. Len(pose.locals)
    BY DEF AnyPose
  <2> QED
    BY <2>1, ValidPoseFrames DEF Skeleton
<1>7. \A i \in Skeleton(s.rig) : r.rotations[i] \in Int
  BY <1>1, <1>2
<1>8. Len(r.tails) = m /\ DOMAIN r.tails = 1 .. m /\ Len(t.joints) = m
  BY <1>1, <1>5
<1>9. \A k \in DOMAIN s.joints :
        /\ t.joints[k].index = s.joints[k].index /\ t.joints[k].center = s.joints[k].center
        /\ t.joints[k].tail = s.joints[k].tail
  BY <1>1, SameJoint
<1>10. \A i \in Skeleton(s.rig) : World(s.rig, q)[i] = sim[i].world
  <2> DEFINE w == [i \in Skeleton(s.rig) |-> sim[i].world]
  <2>1. /\ q \in AnyPose /\ q.placement = pose.placement /\ Len(q.locals) = Len(s.rig.parents)
        /\ \A i \in Skeleton(s.rig) : q.locals[i] = Rotated(pose.locals[i], r.rotations[i])
    BY <1>6, <1>7, AnsweredPose
  <2> HIDE DEF q
  <2>2. s.rig \in AnyRig /\ TopologicalSkeleton(s.rig)
    BY DEF Sound
  <2>3. ASSUME NEW i \in Skeleton(s.rig)
        PROVE  w[i] = Compose(IF s.rig.parents[i] = 0 THEN q.placement ELSE w[s.rig.parents[i]],
                              q.locals[i])
    <3>1. s.rig.parents[i] # 0 => s.rig.parents[i] \in Skeleton(s.rig)
      BY <2>2, SMTT(60) DEF AnyRig, TopologicalSkeleton, Skeleton
    <3>2. Above(s, pose, sim, i) = IF s.rig.parents[i] = 0 THEN q.placement ELSE w[s.rig.parents[i]]
      BY <2>1, <3>1 DEF Above
    <3>3. w[i] = Compose(Above(s, pose, sim, i), Rotated(pose.locals[i], sim[i].rotation))
      BY <1>2
    <3>4. q.locals[i] = Rotated(pose.locals[i], sim[i].rotation)
      BY <1>1, <2>1
    <3> QED
      BY <3>2, <3>3, <3>4
  <2>4. \A i \in Skeleton(s.rig) : w[i] = sim[i].world
    OBVIOUS
  <2> HIDE DEF w
  <2>5. \A i \in Skeleton(s.rig) : World(s.rig, q)[i] = w[i]
    BY <2>1, <2>2, <2>3, ComposedFrames
  <2> QED
    BY <2>4, <2>5
<1> HIDE DEF q, m
<1>11. ASSUME NEW k \in DOMAIN s.joints
       PROVE  /\ r.tails[k].joint = t.joints[k].index
              /\ r.tails[k].position \in Int
              /\ r.tails[k].position = Point(World(s.rig, q)[t.joints[k].index], t.joints[k].tail)
              /\ t.joints[k].current = InversePoint(Center(world, t.joints[k]), r.tails[k].position)
  <2> DEFINE i == s.joints[k].index
  <2>1. i \in Skeleton(s.rig) /\ Turn(s, i) = k /\ k # 0
    BY <1>5, EveryJointHasItsTurn
  <2>2. /\ r.tails[k].joint = i /\ r.tails[k].position = sim[i].next
        /\ t.joints[k].current = sim[i].current /\ t.joints[k].index = i
    BY <1>1, <1>9
  <2> HIDE DEF i
  <2>3. /\ sim[i].next \in Int
        /\ sim[i].current = InversePoint(Center(world, s.joints[k]), sim[i].next)
        /\ sim[i].next = Point(sim[i].world, s.joints[k].tail)
    BY <1>2, <2>1
  <2>4. Center(world, t.joints[k]) = Center(world, s.joints[k]) /\ t.joints[k].tail = s.joints[k].tail
    BY <1>9 DEF Center
  <2> QED
    BY <1>10, <2>1, <2>2, <2>3, <2>4
<1>12. ASSUME NEW i \in Skeleton(s.rig), i \notin Driven(t.joints)
       PROVE  r.rotations[i] = pose.locals[i].rotation
  <2>1. Turn(s, i) = 0
    <3>1. SUFFICES ASSUME Turn(s, i) # 0 PROVE FALSE
      OBVIOUS
    <3>2. Turn(s, i) \in DOMAIN s.joints /\ s.joints[Turn(s, i)].index = i
      BY <3>1, EveryJointHasItsTurn
    <3> QED
      BY <1>1, <1>9, <1>12, <3>2 DEF Driven
  <2> QED
    BY <1>1, <1>2, <2>1
<1> QED
  BY <1>1, <1>3, <1>4, <1>5, <1>7, <1>8, <1>11, <1>12 DEF Answers, t, r, q, m

-----------------------------------------------------------------------------
(* The invariants of the calls.                                            *)

\* Every configured copy holds one of the caller's rigs.
RigsHeld == \A c \in Solvers : solver[c].configured => solver[c].rig \in AnyRig

\* A call's own invariant: the last answer is an answer of the value that gave it.
LastAnswer ==
    /\ call.solver \in Solvers
    /\ Solved => Answers(solver[call.solver], result[call.solver], call.pose)

\* A solver only ever holds rigs its caller passed to Configure, by a copy or directly.
LEMMA RigsAreHeld == Spec => []RigsHeld
<1> DEFINE Held(s) == s.configured => s.rig \in AnyRig
<1>1. RigsHeld <=> \A c \in Solvers : Held(solver[c])
  BY DEF RigsHeld
<1>2. (\A c \in Solvers : Held(solver[c]))' <=> RigsHeld'
  BY DEF RigsHeld
<1>3. Init => RigsHeld
  <2>1. ~Unconfigured.configured
    BY DEF Unconfigured
  <2>2. Init => \A c \in Solvers : solver[c] = Unconfigured
    BY DEF Init
  <2> QED
    BY <1>1, <2>1, <2>2
<1>4. TypeOK /\ RigsHeld /\ [Next]_vars => RigsHeld'
  <2> SUFFICES ASSUME TypeOK, RigsHeld, [Next]_vars PROVE \A d \in Solvers : Held(solver'[d])
    BY <1>2
  <2>1. \A c \in Solvers : Held(solver[c])
    BY <1>1
  <2>2. CASE UNCHANGED solver
    BY <2>1, <2>2
  <2>3. ASSUME NEW c \in Solvers, NEW s, Accepted(c, s), Held(s)
        PROVE  \A d \in Solvers : Held(solver'[d])
    BY <2>1, <2>3, AcceptedValue
  <2>4. CASE \E c \in Solvers, rig \in Rigs :
               /\ Accepts(rig)
               /\ Accepted(c, [rig |-> rig, joints |-> SolverJoints(rig),
                               configured |-> TRUE, initialized |-> FALSE])
    <3>1. PICK c \in Solvers, rig \in Rigs :
               Accepted(c, [rig |-> rig, joints |-> SolverJoints(rig),
                            configured |-> TRUE, initialized |-> FALSE])
      BY <2>4
    <3>2. rig \in AnyRig
      BY CallersAssumption
    <3> QED
      BY <2>3, <3>1, <3>2
  <2>5. CASE \E c \in Solvers, pose \in Poses :
               CanReset(solver[c], pose) /\ Accepted(c, AfterReset(solver[c], pose))
    <3>1. PICK c \in Solvers, pose \in Poses : Accepted(c, AfterReset(solver[c], pose))
      BY <2>5
    <3>2. Held(AfterReset(solver[c], pose))
      BY <2>1 DEF AfterReset, Solving
    <3> QED
      BY <2>3, <3>1, <3>2
  <2>6. CASE \E c \in Solvers, pose \in Poses, seconds \in Durations :
               /\ CanStep(solver[c], pose, seconds)
               /\ Accepted(c, AfterStep(solver[c], pose, seconds))
    <3>1. PICK c \in Solvers, pose \in Poses, seconds \in Durations :
               Accepted(c, AfterStep(solver[c], pose, seconds))
      BY <2>6
    <3>2. Held(AfterStep(solver[c], pose, seconds))
      BY <2>1 DEF AfterStep, Solving
    <3> QED
      BY <2>3, <3>1, <3>2
  <2>7. CASE \E from, to \in Solvers : Accepted(to, solver[from])
    BY <2>1, <2>3, <2>7
  <2> QED
    BY <2>2, <2>4, <2>5, <2>6, <2>7, StepCases
<1> QED
  BY <1>3, <1>4, TypeCorrect, PTL DEF Spec

\* A configured copy is sound, and one that can step remembers numbers.
LEMMA SoundCopies ==
    ASSUME TypeOK, HistoryFinite, JointsMatchRig, RigsHeld, NEW c \in Solvers
    PROVE  /\ solver[c].configured => Sound(solver[c])
           /\ solver[c].initialized => Moving(solver[c])
<1>1. Matches(solver[c])
  BY DEF JointsMatchRig, Matches
<1>2. solver[c].configured => Sound(solver[c])
  BY <1>1, MatchingIsSound DEF RigsHeld
<1>3. \A v : Finite(v) => v \in Int
  BY FloatMaxAssumption DEF Finite
<1>4. solver[c].initialized => Moving(solver[c])
  BY <1>3 DEF HistoryFinite, Moving
<1> QED
  BY <1>2, <1>4

\* Until the next call the last answer stands beside the value it was given by: no
\* other copy's call has changed that value since.
LEMMA AnswersStand == Spec => []LastAnswer
<1>1. Init => LastAnswer
  <2> SUFFICES ASSUME Init PROVE LastAnswer
    OBVIOUS
  <2>1. PICK c \in Solvers : call = Call("none", c, NoPose, TRUE)
    BY DEF Init
  <2> QED
    BY <2>1 DEF LastAnswer, Solved, Call
<1>2. TypeOK /\ HistoryFinite /\ JointsMatchRig /\ RigsHeld /\ LastAnswer /\ [Next]_vars
        => LastAnswer'
  <2> SUFFICES ASSUME TypeOK, HistoryFinite, JointsMatchRig, RigsHeld, LastAnswer, [Next]_vars
               PROVE  LastAnswer'
    OBVIOUS
  <2>1. ASSUME NEW op, NEW c \in Solvers, NEW pose, NEW ok,
               call' = Call(op, c, pose, ok), ok => op \notin {"Reset", "Step"}
        PROVE  LastAnswer'
    BY <2>1 DEF LastAnswer, Solved, Call
  <2>2. ASSUME NEW op, NEW c \in Solvers, NEW pose, call' = Call(op, c, pose, TRUE),
               Answers(solver'[c], result'[c], pose)
        PROVE  LastAnswer'
    <3>1. call'.solver = c /\ call'.pose = pose
      BY <2>2 DEF Call
    <3>2. (Answers(solver[call.solver], result[call.solver], call.pose))'
            <=> Answers(solver'[c], result'[c], pose)
      BY <3>1
    <3> QED
      BY <2>2, <3>1, <3>2 DEF LastAnswer
  <2>3. CASE UNCHANGED vars
    BY <2>3 DEF LastAnswer, Solved, vars
  <2>4. ASSUME NEW c \in Solvers, NEW rig \in Rigs, Configure(c, rig) PROVE LastAnswer'
    BY <2>1, <2>4 DEF Configure, Configured, Refuse
  <2>5. ASSUME NEW c \in Solvers, NEW pose \in Poses, NEW hasResult \in BOOLEAN,
               Reset(c, pose, hasResult)
        PROVE  LastAnswer'
    <3>1. CASE ~(hasResult /\ CanReset(solver[c], pose))
      BY <2>1, <2>5, <3>1 DEF Reset, Refuse
    <3>2. CASE hasResult /\ CanReset(solver[c], pose)
      <4>1. ValidPose(solver[c], pose) /\ pose \in AnyPose
        BY <3>2, CallersAssumption DEF CanReset
      <4>2. Sound(solver[c])
        BY <4>1, SoundCopies DEF ValidPose
      <4>3. Answers(AfterReset(solver[c], pose), ResetResult(solver[c], pose), pose)
        BY <4>1, <4>2, ResetAnswers
      <4>4. /\ solver'[c] = AfterReset(solver[c], pose)
            /\ result'[c] = ResetResult(solver[c], pose)
            /\ call' = Call("Reset", c, pose, TRUE)
        BY <2>5, <3>2 DEF Reset, TypeOK
      <4> QED
        BY <2>2, <4>3, <4>4
    <3> QED
      BY <3>1, <3>2
  <2>6. ASSUME NEW c \in Solvers, NEW pose \in Poses, NEW seconds \in Durations,
               NEW hasResult \in BOOLEAN, Step(c, pose, seconds, hasResult)
        PROVE  LastAnswer'
    <3>1. CASE ~(hasResult /\ CanStep(solver[c], pose, seconds))
      BY <2>1, <2>6, <3>1 DEF Step, Refuse
    <3>2. CASE hasResult /\ CanStep(solver[c], pose, seconds)
      <4>1. ValidPose(solver[c], pose) /\ pose \in AnyPose /\ seconds \in Int
            /\ solver[c].initialized
        BY <3>2, CallersAssumption DEF CanStep
      <4>2. Sound(solver[c]) /\ Moving(solver[c])
        BY <4>1, SoundCopies DEF ValidPose
      <4>3. Answers(AfterStep(solver[c], pose, seconds), StepResult(solver[c], pose, seconds), pose)
        BY <4>1, <4>2, StepAnswers
      <4>4. /\ solver'[c] = AfterStep(solver[c], pose, seconds)
            /\ result'[c] = StepResult(solver[c], pose, seconds)
            /\ call' = Call("Step", c, pose, TRUE)
        BY <2>6, <3>2 DEF Step, TypeOK
      <4> QED
        BY <2>2, <4>3, <4>4
    <3> QED
      BY <3>1, <3>2
  <2>7. ASSUME NEW from \in Solvers, NEW to \in Solvers, Copy(from, to) PROVE LastAnswer'
    BY <2>1, <2>7 DEF Copy
  <2> QED
    BY <2>3, <2>4, <2>5, <2>6, <2>7 DEF Next
<1> QED
  BY <1>1, <1>2, TypeCorrect, HistoryStaysFinite, JointsAlwaysMatchRig, RigsAreHeld, PTL DEF Spec

\* The pose of the caller's answer.
LEMMA SolvedPoseIsAnswered ==
    SolvedPose = Answered(call.pose, result[call.solver].rotations)
BY DEF SolvedPose, Answered

\* Spec => []TailsFollowRotations: after every successful Reset or Step of every
\* copy, posing the skeleton with the reported rotations puts every reported tail at
\* its reported position, for every accepted rig, pose, duration and history.
THEOREM TailsAlwaysFollowRotations == Spec => []TailsFollowRotations
<1>1. LastAnswer => TailsFollowRotations
  <2> SUFFICES ASSUME LastAnswer, Solved
               PROVE  LET s == solver[call.solver]
                          tails == result[call.solver].tails
                          world == World(s.rig, SolvedPose)
                      IN  /\ Len(tails) = Len(s.joints)
                          /\ \A k \in DOMAIN tails :
                                /\ tails[k].joint = s.joints[k].index
                                /\ tails[k].position
                                     = Point(world[s.joints[k].index], s.joints[k].tail)
    BY DEF TailsFollowRotations
  <2>1. Answers(solver[call.solver], result[call.solver], call.pose)
    BY DEF LastAnswer
  <2> QED
    BY <2>1, SolvedPoseIsAnswered DEF Answers
<1> QED
  BY <1>1, AnswersStand, PTL

\* A point seen from a frame and put back.
LEMMA FrameInverse ==
    ASSUME NEW t \in Transform, t.rotation \in {-1, 1}, NEW p \in Int
    PROVE  Point(t, InversePoint(t, p)) = p
<1> DEFINE a == t.rotation
           b == t.translation
<1>1. b \in Int /\ a \in {-1, 1}
  BY DEF Transform
<1>2. Point(t, InversePoint(t, p)) = b + a * (a * (p - b))
  BY DEF Point, InversePoint
<1> HIDE DEF a, b
<1>3. CASE a = 1
  BY <1>1, <1>2, <1>3
<1>4. CASE a = -1
  <2>1. \A x \in Int : (-1) * x = -x
    OBVIOUS
  <2>2. a * (p - b) = b - p /\ a * (b - p) = p - b
    BY <1>1, <1>4, <2>1
  <2> QED
    BY <1>1, <1>2, <2>2
<1> QED
  BY <1>1, <1>3, <1>4

\* Spec => []HistoryIsReportedTail: what every copy remembers, seen from the animated
\* centre, is what it reported.
THEOREM HistoryIsAlwaysReportedTail == Spec => []HistoryIsReportedTail
<1>1. LastAnswer => HistoryIsReportedTail
  <2> SUFFICES ASSUME LastAnswer, Solved, NEW k \in DOMAIN solver[call.solver].joints
               PROVE  Point(Center(World(solver[call.solver].rig, call.pose),
                                   solver[call.solver].joints[k]),
                            solver[call.solver].joints[k].current)
                        = result[call.solver].tails[k].position
    BY DEF HistoryIsReportedTail
  <2> DEFINE s == solver[call.solver]
             r == result[call.solver]
             pose == call.pose
             world == World(s.rig, pose)
             center == Center(world, s.joints[k])
  <2>1. Answers(s, r, pose)
    BY DEF LastAnswer
  <2> HIDE DEF s, r, pose
  <2>2. /\ Sound(s) /\ pose \in AnyPose /\ ValidPose(s, pose)
        /\ r.tails[k].position \in Int
        /\ s.joints[k].current = InversePoint(center, r.tails[k].position)
    BY <2>1 DEF Answers, s
  <2>3. /\ world \in [Skeleton(s.rig) -> Transform]
        /\ \A i \in Skeleton(s.rig) : world[i].rotation \in {-1, 1}
    BY <2>2, ValidPoseFrames
  <2> HIDE DEF world
  <2>4. s.joints[k].center \in {0} \union Skeleton(s.rig)
    BY <2>2 DEF Sound, SoundJoint, s
  <2>5. center \in Transform /\ center.rotation \in {-1, 1}
    <3>1. Identity \in Transform /\ Identity.rotation = 1
      BY DEF Identity, Transform
    <3> QED
      BY <2>3, <2>4, <3>1 DEF Center, Frame
  <2>6. Point(center, s.joints[k].current) = r.tails[k].position
    BY <2>2, <2>5, FrameInverse
  <2> QED
    BY <2>6 DEF s, r, pose, world
<1> QED
  BY <1>1, AnswersStand, PTL

\* What is above a joint is a joint, or nothing.
LEMMA ParentInSkeleton ==
    ASSUME NEW rig \in AnyRig, TopologicalSkeleton(rig), NEW i \in Skeleton(rig)
    PROVE  rig.parents[i] \in {0} \union Skeleton(rig)
<1>1. Len(rig.parents) \in Nat /\ rig.parents[i] \in 0 .. i - 1 /\ i \in 1 .. Len(rig.parents)
  BY DEF AnyRig, TopologicalSkeleton, Skeleton
<1> QED
  BY <1>1 DEF Skeleton

\* An answer moves no frame without a driven joint at or above it.
LEMMA UndrivenFramesStay ==
    ASSUME NEW s, NEW r, NEW pose, Answers(s, r, pose), NEW i,
           i \in {0} \union Skeleton(s.rig), ~HasDrivenAncestor(s.rig, s.joints, i)
    PROVE  i # 0 => World(s.rig, Answered(pose, r.rotations))[i] = World(s.rig, pose)[i]
<1> SUFFICES ASSUME i # 0
             PROVE  World(s.rig, Answered(pose, r.rotations))[i] = World(s.rig, pose)[i]
  OBVIOUS
<1> DEFINE q == Answered(pose, r.rotations)
<1>1. /\ Sound(s) /\ pose \in AnyPose /\ ValidPose(s, pose)
      /\ \A j \in Skeleton(s.rig) : r.rotations[j] \in Int
      /\ \A j \in Skeleton(s.rig) : j \notin Driven(s.joints) => r.rotations[j] = pose.locals[j].rotation
  BY DEF Answers
<1>2. s.rig \in AnyRig /\ TopologicalSkeleton(s.rig) /\ i \in Skeleton(s.rig)
  BY <1>1 DEF Sound
<1>3. /\ Len(pose.locals) = Len(s.rig.parents) /\ DOMAIN pose.locals = Skeleton(s.rig)
      /\ \A j \in Skeleton(s.rig) : pose.locals[j] \in Transform
  <2>1. DOMAIN pose.locals = 1 .. Len(pose.locals)
    BY <1>1 DEF AnyPose
  <2> QED
    BY <1>1, <2>1, ValidPoseFrames DEF Skeleton
<1>4. /\ q \in AnyPose /\ q.placement = pose.placement /\ Len(q.locals) = Len(s.rig.parents)
      /\ \A j \in Skeleton(s.rig) : q.locals[j] = Rotated(pose.locals[j], r.rotations[j])
  BY <1>1, <1>3, AnsweredPose
<1> HIDE DEF q
<1>5. AncestorsOrSelf(s.rig)[i] \subseteq Skeleton(s.rig)
  BY <1>2, AncestorSets
<1>6. \A j \in AncestorsOrSelf(s.rig)[i] : j \notin Driven(s.joints)
  BY DEF HasDrivenAncestor
<1>7. \A j \in AncestorsOrSelf(s.rig)[i] : q.locals[j] = pose.locals[j]
  <2>1. \A l \in Transform : Rotated(l, l.rotation) = l
    BY DEF Rotated, Transform
  <2> QED
    BY <1>1, <1>3, <1>4, <1>5, <1>6, <2>1
<1>8. World(s.rig, q)[i] = World(s.rig, pose)[i]
  BY <1>1, <1>2, <1>3, <1>4, <1>7, SameFrames
<1> QED
  BY <1>8 DEF q

\* Spec => []AnimatedFramesAreSimulated: whatever is solved, the frames colliders and
\* centres hang from are those of the animated pose Step read them in.
THEOREM AnimatedFramesAreAlwaysSimulated == Spec => []AnimatedFramesAreSimulated
<1>1. LastAnswer => AnimatedFramesAreSimulated
  <2> SUFFICES ASSUME LastAnswer, Solved PROVE AnimatedFramesAreSimulated
    BY DEF AnimatedFramesAreSimulated
  <2> DEFINE s == solver[call.solver]
             r == result[call.solver]
             pose == call.pose
             still(i) == i # 0 => World(s.rig, SolvedPose)[i] = World(s.rig, pose)[i]
  <2>1. Answers(s, r, pose)
    BY DEF LastAnswer
  <2>2. Sound(s)
    BY <2>1 DEF Answers
  <2>3. ASSUME NEW i \in {0} \union Skeleton(s.rig), ~HasDrivenAncestor(s.rig, s.joints, i)
        PROVE  still(i)
    BY <2>1, <2>3, UndrivenFramesStay, SolvedPoseIsAnswered
  <2>4. ASSUME NEW k \in DOMAIN s.joints, s.joints[k].center # 0
        PROVE  still(s.rig.parents[s.joints[k].center])
    <3>1. s.joints[k].center \in Skeleton(s.rig) /\ TopologicalSkeleton(s.rig) /\ s.rig \in AnyRig
      BY <2>2, <2>4 DEF Sound, SoundJoint
    <3>2. s.rig.parents[s.joints[k].center] \in {0} \union Skeleton(s.rig)
      BY <3>1, ParentInSkeleton
    <3>3. ~HasDrivenAncestor(s.rig, s.joints, s.rig.parents[s.joints[k].center])
      BY <2>2, <2>4 DEF Sound, CentersAboveSimulation
    <3> HIDE DEF s, still
    <3> QED
      BY <2>3, <3>2, <3>3
  <2>5. ASSUME NEW k \in DOMAIN s.joints, NEW n \in DOMAIN s.joints[k].colliders
        PROVE  still(s.rig.colliders[s.joints[k].colliders[n]].joint)
    <3>1. s.joints[k].colliders[n] \in DOMAIN s.rig.colliders /\ ValidColliders(s.rig)
      BY <2>2, SMTT(60) DEF Sound, SoundJoint
    <3>2. s.rig.colliders[s.joints[k].colliders[n]].joint \in {0} \union Skeleton(s.rig)
      BY <3>1 DEF ValidColliders
    <3>3. ~HasDrivenAncestor(s.rig, s.joints, s.rig.colliders[s.joints[k].colliders[n]].joint)
      BY <2>2 DEF Sound, CollidersOutsideSimulation
    <3> HIDE DEF s, still
    <3> QED
      BY <2>3, <3>2, <3>3
  <2> QED
    BY <2>4, <2>5 DEF AnimatedFramesAreSimulated
<1> QED
  BY <1>1, AnswersStand, PTL

\* A root spring claims a joint only below one of its declared roots.
LEMMA ClaimedBelowRoot ==
    ASSUME NEW rig \in AnyRig, NEW spring \in Spring, TopologicalSkeleton(rig),
           IsRootSpring(spring)
    PROVE  \A i \in Skeleton(rig) :
             ParameterIndex(rig, spring)[i] # 0
               => AncestorsOrSelf(rig)[i] \intersect ToSet(spring.rootJoints) # {}
<1> DEFINE n == Len(rig.parents)
           up == AncestorsOrSelf(rig)
           roots == ToSet(spring.rootJoints)
           index == ParameterIndex(rig, spring)
           S == {i \in 1 .. n : index[i] # 0 => up[i] \intersect roots # {}}
<1>1. n \in Nat /\ Skeleton(rig) = 1 .. n /\ \A i \in 1 .. n : rig.parents[i] \in 0 .. i - 1
  BY DEF AnyRig, TopologicalSkeleton, Skeleton
<1>2. \A i \in 1 .. n : up[i] = IF rig.parents[i] = 0 THEN {i} ELSE {i} \union up[rig.parents[i]]
  BY <1>1, AncestorSets
<1>3. \A i \in 1 .. n : index[i] = IF rig.parents[i] # 0 /\ index[rig.parents[i]] # 0
                                   THEN index[rig.parents[i]] ELSE DeclaredAt(spring, i)
  BY <1>1, ParameterIndices
<1>4. \A i : DeclaredAt(spring, i) # 0 => i \in roots
  <2>1. Declaration(spring) = spring.rootJoints
    BY DEF Declaration
  <2>2. \A i : DeclaredAt(spring, i) # 0 => DeclaredAt(spring, i) \in DOMAIN spring.rootJoints
    <3>1. \A i : DeclaredAt(spring, i) \in 0 .. Len(Declaration(spring))
      BY DeclaredPosition
    <3>2. DOMAIN spring.rootJoints = 1 .. Len(spring.rootJoints)
      BY DEF Spring
    <3> QED
      BY <2>1, <3>1, <3>2
  <2>3. \A i : DeclaredAt(spring, i) # 0 => Declaration(spring)[DeclaredAt(spring, i)] = i
    BY DeclaredPosition
  <2> QED
    BY <2>1, <2>2, <2>3 DEF ToSet
<1> HIDE DEF n, up, roots, index
<1>5. ASSUME NEW i \in 1 .. n, \A j \in 1 .. i - 1 : j \in S PROVE i \in S
  <2> SUFFICES ASSUME index[i] # 0 PROVE up[i] \intersect roots # {}
    OBVIOUS
  <2>1. CASE rig.parents[i] # 0 /\ index[rig.parents[i]] # 0
    <3>1. rig.parents[i] \in 1 .. i - 1
      BY <1>1, <2>1
    <3>2. up[rig.parents[i]] \intersect roots # {}
      BY <1>5, <2>1, <3>1
    <3> QED
      BY <1>2, <2>1, <3>2
  <2>2. CASE ~(rig.parents[i] # 0 /\ index[rig.parents[i]] # 0)
    <3>1. i \in roots
      BY <1>3, <1>4, <2>2
    <3>2. i \in up[i]
      BY <1>2
    <3> QED
      BY <3>1, <3>2
  <2> QED
    BY <2>1, <2>2
<1> HIDE DEF S
<1>6. \A i \in 1 .. n : i \in S
  <2>1. 1 \in Nat
    OBVIOUS
  <2> QED
    BY <1>1, <1>5, <2>1, StrongInduction
<1> QED
  BY <1>1, <1>6 DEF S, up, roots, index

\* The highest declared root hands its own position down to every joint below it.
LEMMA HighestRootIndex ==
    ASSUME NEW rig \in AnyRig, NEW spring \in Spring, TopologicalSkeleton(rig),
           IsRootSpring(spring), DistinctDeclaration(spring),
           NEW d \in DOMAIN spring.rootJoints, NEW top, top = spring.rootJoints[d],
           top \in Skeleton(rig),
           AncestorsOrSelf(rig)[top] \intersect ToSet(spring.rootJoints) = {top}
    PROVE  \A i \in Skeleton(rig) :
             top \in AncestorsOrSelf(rig)[i] => ParameterIndex(rig, spring)[i] = d
<1> DEFINE n == Len(rig.parents)
           up == AncestorsOrSelf(rig)
           index == ParameterIndex(rig, spring)
           S == {i \in 1 .. n : top \in up[i] => index[i] = d}
<1>1. n \in Nat /\ Skeleton(rig) = 1 .. n /\ \A i \in 1 .. n : rig.parents[i] \in 0 .. i - 1
  BY DEF AnyRig, TopologicalSkeleton, Skeleton
<1>2. \A i \in 1 .. n : up[i] = IF rig.parents[i] = 0 THEN {i} ELSE {i} \union up[rig.parents[i]]
  BY <1>1, AncestorSets
<1>3. \A i \in 1 .. n : index[i] = IF rig.parents[i] # 0 /\ index[rig.parents[i]] # 0
                                   THEN index[rig.parents[i]] ELSE DeclaredAt(spring, i)
  BY <1>1, ParameterIndices
<1>4. d # 0 /\ DeclaredAt(spring, top) = d
  <2>1. Declaration(spring) = spring.rootJoints
    BY DEF Declaration
  <2>2. DOMAIN spring.rootJoints = 1 .. Len(spring.rootJoints) /\ Len(spring.rootJoints) \in Nat
    BY DEF Spring
  <2>3. DeclaredAt(spring, top) # 0
    BY <2>1, DeclaredPosition
  <2>4. DeclaredAt(spring, top) \in DOMAIN spring.rootJoints
    <3>1. DeclaredAt(spring, top) \in 0 .. Len(spring.rootJoints)
      BY <2>1, DeclaredPosition
    <3> QED
      BY <2>2, <2>3, <3>1
  <2>5. spring.rootJoints[DeclaredAt(spring, top)] = top
    BY <2>1, <2>3, DeclaredPosition
  <2> QED
    BY <2>1, <2>2, <2>4, <2>5 DEF DistinctDeclaration, IsInjective
<1>5. top \in 1 .. n /\ \A i \in 1 .. n : \A j \in up[i] : j <= i /\ j \in 1 .. n
  BY <1>1, AncestorSets, AncestorsAbove
<1>6. ASSUME rig.parents[top] # 0 PROVE index[rig.parents[top]] = 0
  <2> DEFINE a == rig.parents[top]
  <2>1. a \in 1 .. n /\ a < top
    <3>1. a \in 0 .. top - 1 /\ a # 0 /\ top \in 1 .. n
      BY <1>1, <1>5, <1>6
    <3> HIDE DEF a, n
    <3> QED
      BY <1>1, <3>1
  <2>2. up[a] \subseteq up[top] /\ top \notin up[a]
    <3>1. up[top] = {top} \union up[a]
      BY <1>2, <1>5, <1>6
    <3>2. \A j \in up[a] : j <= a /\ j \in 1 .. n
      BY <1>5, <2>1
    <3> HIDE DEF a, n, up
    <3>3. top \notin up[a]
      <4>1. \A x \in 1 .. n : x < top => ~(top <= x)
        BY <1>1, <1>5
      <4> QED
        BY <2>1, <3>2, <4>1
    <3> QED
      BY <3>1, <3>3
  <2>3. up[a] \intersect ToSet(spring.rootJoints) = {}
    BY <2>2
  <2> QED
    BY <1>1, <2>1, <2>3, ClaimedBelowRoot
<1> HIDE DEF n, up, index
<1>7. index[top] = d
  BY <1>3, <1>4, <1>5, <1>6
<1>8. ASSUME NEW i \in 1 .. n, \A j \in 1 .. i - 1 : j \in S PROVE i \in S
  <2> SUFFICES ASSUME top \in up[i], i # top PROVE index[i] = d
    BY <1>7
  <2>1. rig.parents[i] # 0 /\ top \in up[rig.parents[i]]
    <3>1. up[i] = IF rig.parents[i] = 0 THEN {i} ELSE {i} \union up[rig.parents[i]]
      BY <1>2
    <3> QED
      BY <3>1
  <2>2. rig.parents[i] \in 1 .. i - 1
    BY <1>1, <2>1
  <2>3. index[rig.parents[i]] = d
    BY <1>8, <2>1, <2>2
  <2> QED
    BY <1>3, <1>4, <2>1, <2>3
<1> HIDE DEF S
<1>9. \A i \in 1 .. n : i \in S
  <2>1. 1 \in Nat
    OBVIOUS
  <2> QED
    BY <1>1, <1>8, <2>1, StrongInduction
<1> QED
  BY <1>1, <1>9 DEF S, up, index

\* A joint under a root that is the highest declared one above it is claimed by the root's
\* spring alone, at the root's place.
LEMMA HighestRootClaims ==
    ASSUME NEW rig \in AnyRig, Accepts(rig),
           NEW s \in DOMAIN rig.springs, IsRootSpring(rig.springs[s]),
           NEW d \in DOMAIN rig.springs[s].rootJoints,
           AncestorsOrSelf(rig)[rig.springs[s].rootJoints[d]]
             \intersect ToSet(rig.springs[s].rootJoints) = {rig.springs[s].rootJoints[d]},
           NEW t \in DOMAIN rig.springs, NEW i \in Claimed(rig, rig.springs[t]),
           rig.springs[s].rootJoints[d] \in AncestorsOrSelf(rig)[i]
    PROVE  t = s /\ ParameterIndex(rig, rig.springs[s])[i] = d
<1>1. PICK spring : spring = rig.springs[s]
  OBVIOUS
<1>2. PICK top : top = spring.rootJoints[d]
  OBVIOUS
<1>3. spring \in Spring /\ rig.springs[t] \in Spring
  BY <1>1 DEF AnyRig
<1>4. TopologicalSkeleton(rig) /\ ValidSpring(rig, spring) /\ ExclusiveOwners(rig)
  BY <1>1 DEF Accepts
<1>5. ValidDeclaration(rig, spring) /\ Declaration(spring) = spring.rootJoints
  BY <1>1, <1>4 DEF ValidSpring, Declaration
<1>6. DistinctDeclaration(spring) /\ top \in Skeleton(rig)
  BY <1>1, <1>2, <1>3, <1>4, <1>5 DEF ValidDeclaration, ValidSpring
<1>7. i \in Skeleton(rig)
  BY DEF Claimed
<1>8. \A k \in Skeleton(rig) :
         top \in AncestorsOrSelf(rig)[k] => ParameterIndex(rig, spring)[k] = d
  BY <1>1, <1>2, <1>3, <1>4, <1>6, HighestRootIndex
<1>9. ParameterIndex(rig, spring)[i] = d
  BY <1>1, <1>2, <1>7, <1>8
<1>10. DOMAIN spring.rootJoints = 1 .. Len(spring.rootJoints)
  BY <1>3 DEF Spring
<1>11. d # 0
  BY <1>1, <1>10
<1>12. i \in Claimed(rig, spring)
  BY <1>7, <1>9, <1>11 DEF Claimed
<1>13. t = s
  BY <1>1, <1>4, <1>12 DEF ExclusiveOwners
<1> QED
  BY <1>1, <1>9, <1>13

\* Spec => []HighestDeclaredRootOwns: in every accepted rig, however its nested roots
\* were declared, a solver joint has the parameters of the highest one above it.
THEOREM HighestDeclaredRootAlwaysOwns == Spec => []HighestDeclaredRootOwns
<1>1. JointsMatchRig /\ RigsHeld => HighestDeclaredRootOwns
  <2> SUFFICES ASSUME JointsMatchRig, RigsHeld, NEW c \in Solvers, solver[c].configured,
                      NEW s \in DOMAIN solver[c].rig.springs,
                      IsRootSpring(solver[c].rig.springs[s]),
                      NEW d \in DOMAIN solver[c].rig.springs[s].rootJoints,
                      AncestorsOrSelf(solver[c].rig)[solver[c].rig.springs[s].rootJoints[d]]
                        \intersect ToSet(solver[c].rig.springs[s].rootJoints)
                          = {solver[c].rig.springs[s].rootJoints[d]},
                      NEW k \in DOMAIN solver[c].joints,
                      solver[c].rig.springs[s].rootJoints[d]
                        \in AncestorsOrSelf(solver[c].rig)[solver[c].joints[k].index]
               PROVE  solver[c].joints[k].parameters = solver[c].rig.springs[s].parameters[d]
    BY DEF HighestDeclaredRootOwns
  <2> DEFINE rig == solver[c].rig
             spring == rig.springs[s]
             top == spring.rootJoints[d]
             joint == SolverJoints(rig)[k]
  <2>1. /\ Accepts(rig) /\ rig \in AnyRig /\ k \in DOMAIN SolverJoints(rig)
        /\ WithHistory(solver[c].joints[k], 0, 0) = WithHistory(joint, 0, 0)
    BY DEF JointsMatchRig, RigsHeld
  <2>2. solver[c].joints[k].index = joint.index /\ solver[c].joints[k].parameters = joint.parameters
    BY <2>1, SameJoint
  <2>3. PICK t \in DOMAIN rig.springs :
           /\ joint.index \in Simulated(rig, rig.springs[t])
           /\ joint = SolverJoint(rig, rig.springs[t], joint.index)
    <3> HIDE DEF rig
    <3> QED
      BY <2>1, DerivedJoints
  <2> DEFINE i == joint.index
  <2>4. top \in AncestorsOrSelf(rig)[i]
    BY <2>2
  <2>5. joint.parameters = rig.springs[t].parameters[ParameterIndex(rig, rig.springs[t])[i]]
    <3>1. \A j : SolverJoint(rig, rig.springs[t], j).parameters
                   = rig.springs[t].parameters[ParameterIndex(rig, rig.springs[t])[j]]
      BY DEF SolverJoint
    <3> HIDE DEF joint
    <3> QED
      BY <2>3, <3>1
  <2>6. i \in Claimed(rig, rig.springs[t])
    BY <2>3 DEF Simulated
  <2>7. AncestorsOrSelf(rig)[top] \intersect ToSet(spring.rootJoints) = {top}
    OBVIOUS
  <2>8. IsRootSpring(spring) /\ d \in DOMAIN spring.rootJoints /\ s \in DOMAIN rig.springs
    OBVIOUS
  <2> HIDE DEF rig, joint, i
  <2>9. t = s /\ ParameterIndex(rig, spring)[i] = d
    BY <2>1, <2>4, <2>6, <2>7, <2>8, HighestRootClaims
  <2> QED
    BY <2>2, <2>5, <2>9 DEF rig, spring
<1> QED
  BY <1>1, JointsAlwaysMatchRig, RigsAreHeld, PTL

-----------------------------------------------------------------------------
(* A Step after a Reset, for springs nothing pulls or pushes.              *)

\* A solver value whose joints are at rest in a pose: no velocity, and the tails
\* where the pose puts them.
AtRest(s, pose) ==
    \A k \in DOMAIN s.joints :
      /\ s.joints[k].current = RestHistory(s, pose, k)
      /\ s.joints[k].previous = RestHistory(s, pose, k)

\* The frame a centre or a collider gives is a valid one.
LEMMA CenterFrame ==
    ASSUME NEW s, NEW pose \in AnyPose, Sound(s), ValidPose(s, pose), NEW k \in DOMAIN s.joints
    PROVE  /\ Center(World(s.rig, pose), s.joints[k]) \in Transform
           /\ Center(World(s.rig, pose), s.joints[k]).rotation \in {-1, 1}
<1> DEFINE world == World(s.rig, pose)
<1>1. /\ world \in [Skeleton(s.rig) -> Transform]
      /\ \A i \in Skeleton(s.rig) : world[i].rotation \in {-1, 1}
  BY ValidPoseFrames
<1> HIDE DEF world
<1>2. s.joints[k].center \in {0} \union Skeleton(s.rig)
  BY DEF Sound, SoundJoint
<1>3. Identity \in Transform /\ Identity.rotation = 1
  BY DEF Identity, Transform
<1>4. /\ Center(world, s.joints[k]) \in Transform
      /\ Center(world, s.joints[k]).rotation \in {-1, 1}
  BY <1>1, <1>2, <1>3 DEF Center, Frame
<1> QED
  BY <1>4 DEF world

\* Without velocity and gravity, only stiffness moves the tail: along the bone.
LEMMA RestInertial ==
    ASSUME NEW joint, joint.parameters.gravity = 0, joint.parameters.drag \in Int,
           joint.parameters.stiffness \in Int,
           NEW center \in Transform, center.rotation \in {-1, 1}, NEW rest \in Int,
           joint.current = InversePoint(center, rest), joint.previous = joint.current,
           NEW direction \in Int, NEW seconds \in Int
    PROVE  Inertial(joint, direction, center, seconds)
             = rest + direction * joint.parameters.stiffness * seconds
<1> DEFINE p == joint.current
           d == 1 - joint.parameters.drag
           force == direction * joint.parameters.stiffness * seconds
<1>1. p \in Int /\ d \in Int /\ force \in Int
  BY LineTypes
<1>2. p + (p - joint.previous) * d = p
  <2>1. p - joint.previous = 0
    BY <1>1
  <2>2. \A x \in Int : 0 * x = 0
    OBVIOUS
  <2> HIDE DEF p, d
  <2> QED
    BY <1>1, <2>1, <2>2
<1>3. Point(center, p) = rest
  BY FrameInverse
<1>4. 0 * seconds = 0
  OBVIOUS
<1>5. Inertial(joint, direction, center, seconds)
        = Point(center, p + (p - joint.previous) * d) + force
            + joint.parameters.gravity * seconds
  BY DEF Inertial
<1> HIDE DEF p, d, force
<1>6. Inertial(joint, direction, center, seconds) = rest + force + 0
  BY <1>2, <1>3, <1>4, <1>5
<1> QED
  BY <1>1, <1>6 DEF force

\* Along the bone, the projection back to its length is where the pose had it.
LEMMA RestProjection ==
    ASSUME NEW here \in Transform, here.rotation \in {-1, 1}, NEW tail \in Int, tail # 0,
           NEW push \in Int, push >= 0,
           NEW direction, direction = here.rotation * Unit(tail, 0)
    PROVE  /\ direction \in {-1, 1}
           /\ Project(here.translation, Point(here, tail) + direction * push, direction,
                      Magnitude(tail))
                = Point(here, tail)
           /\ Unit(Point(here, tail) - here.translation, direction) = direction
           /\ FromTo(Unit(tail, 0), here.rotation * direction) = 1
<1> DEFINE a == here.rotation
           b == here.translation
           u == Unit(tail, 0)
           l == Magnitude(tail)
<1>1. a \in {-1, 1} /\ b \in Int
  BY DEF Transform
<1>2. u \in {-1, 1} /\ l \in Int /\ l > 0 /\ tail = IF u = 1 THEN l ELSE -l
  BY DEF Unit, Magnitude
<1>3. Point(here, tail) = b + a * tail /\ direction = a * u
  BY DEF Point
<1> HIDE DEF a, b, u, l
<1>4. \A x \in Int : 1 * x = x /\ (-1) * x = -x
  OBVIOUS
<1>5. direction \in {-1, 1} /\ a * direction = u /\ u * u = 1
  BY <1>1, <1>2, <1>3
<1>6. a * tail = IF direction = 1 THEN l ELSE -l
  <2>1. CASE a = 1
    BY <1>2, <1>3, <1>4, <2>1
  <2>2. CASE a = -1
    BY <1>2, <1>3, <1>4, <2>2
  <2> QED
    BY <1>1, <2>1, <2>2
<1>7. direction * push = IF direction = 1 THEN push ELSE -push
  BY <1>4, <1>5
<1>8. direction * l = IF direction = 1 THEN l ELSE -l
  BY <1>2, <1>4, <1>5
<1>9. Unit((b + a * tail) - b, direction) = direction
  BY <1>1, <1>2, <1>5, <1>6 DEF Unit
<1>10. Unit((b + a * tail + direction * push) - b, direction) = direction
  BY <1>1, <1>2, <1>5, <1>6, <1>7 DEF Unit
<1>11. b + direction * l = b + a * tail
  BY <1>6, <1>8
<1> DEFINE x == b + a * tail + direction * push
           y == b + a * tail
<1>12. Project(b, x, direction, l) = b + Unit(x - b, direction) * l
  BY DEF Project
<1>13. x = y + direction * push /\ Unit(y - b, direction) = direction
  BY <1>9
<1> HIDE DEF x
<1>14. Project(b, x, direction, l) = y
  BY <1>10, <1>11, <1>12 DEF x
<1>15. Point(here, tail) = y
  BY <1>3
<1> HIDE DEF y
<1>16. Project(b, Point(here, tail) + direction * push, direction, l) = Point(here, tail)
  BY <1>13, <1>14, <1>15
<1>17. Unit(Point(here, tail) - b, direction) = direction
  BY <1>13, <1>15
<1>18. FromTo(u, a * direction) = 1
  BY <1>5 DEF FromTo
<1> QED
  BY <1>5, <1>16, <1>17, <1>18 DEF b, a, l, u

\* A tail at rest is a number.
LEMMA RestTailType ==
    ASSUME NEW s, NEW pose \in AnyPose, Sound(s), ValidPose(s, pose), NEW k \in DOMAIN s.joints
    PROVE  /\ World(s.rig, pose)[s.joints[k].index] \in Transform
           /\ World(s.rig, pose)[s.joints[k].index].rotation \in {-1, 1}
           /\ RestTail(s, pose, k) \in Int /\ RestHistory(s, pose, k) \in Int
<1>1. s.joints[k].index \in Skeleton(s.rig) /\ s.joints[k].tail \in Int
  BY JointTypes DEF SoundJoint
<1>2. /\ World(s.rig, pose)[s.joints[k].index] \in Transform
      /\ World(s.rig, pose)[s.joints[k].index].rotation \in {-1, 1}
  BY <1>1, ValidPoseFrames
<1>3. RestTail(s, pose, k) \in Int
  BY <1>1, <1>2, LineTypes DEF RestTail
<1>4. RestHistory(s, pose, k) \in Int
  BY <1>3, CenterFrame, LineTypes DEF RestHistory
<1> QED
  BY <1>2, <1>3, <1>4

\* The rotation that turns a bone onto its new tail.
TurnedRotation(joint, here, local, direction, next) ==
    local.rotation * FromTo(Unit(joint.tail, 0),
                            here.rotation * Unit(next - here.translation, direction))

\* How Turning turns a bone, and the frame it leaves.
LEMMA TurningFrame ==
    ASSUME NEW joint, NEW here, NEW parent, NEW local \in Transform, NEW center, NEW direction,
           NEW inertial, NEW next,
           NEW v, v = Turning(joint, here, parent, local, center, direction, inertial, next)
    PROVE  /\ v.rotation = TurnedRotation(joint, here, local, direction, next)
           /\ v.world = Compose(parent, Rotated(local, v.rotation))
           /\ v.next = next
<1> DEFINE rotation == TurnedRotation(joint, here, local, direction, next)
<1>1. /\ v.world = Compose(parent, [local EXCEPT !.rotation = rotation])
      /\ v.rotation = rotation /\ v.next = next
  BY DEF Turning, TurnedRotation
<1> HIDE DEF rotation
<1>2. [local EXCEPT !.rotation = rotation] = Rotated(local, rotation)
  BY DEF Transform, Rotated
<1> QED
  BY <1>1, <1>2 DEF rotation

\* The tails a joint's colliders push, one after the other.
PushSequence(s, joint, animated, head, direction, tail, push) ==
    /\ push \in [0 .. Len(joint.colliders) -> Int]
    /\ push[0] = tail
    /\ Pushed(s, joint, animated, head, direction, tail) = push[Len(joint.colliders)]
    /\ \A n \in 1 .. Len(joint.colliders) :
         push[n] = Push(s, joint, s.rig.colliders[joint.colliders[n]], animated, head,
                        direction, push[n - 1])

\* Pushes, with that name.
LEMMA PushSequenceExists ==
    ASSUME NEW s, NEW joint, NEW animated, NEW head \in Int, NEW direction \in Int, NEW tail \in Int,
           Sound(s), SoundJoint(s.rig, joint), animated \in [Skeleton(s.rig) -> Transform]
    PROVE  \E f : PushSequence(s, joint, animated, head, direction, tail, f)
BY Pushes, SMTT(60) DEF PushSequence

\* Without colliders nothing pushes.
LEMMA NothingPushes ==
    ASSUME NEW s, NEW joint, NEW animated, NEW head \in Int, NEW direction \in Int, NEW tail \in Int,
           Sound(s), SoundJoint(s.rig, joint),
           animated \in [Skeleton(s.rig) -> Transform]
    PROVE  Len(joint.colliders) = 0
             => Pushed(s, joint, animated, head, direction, tail) = tail
<1>1. PICK push : PushSequence(s, joint, animated, head, direction, tail, push)
  BY PushSequenceExists
<1> QED
  BY <1>1 DEF PushSequence

\* A joint at rest, free of gravity and colliders, stays there.
LEMMA RestVisit ==
    ASSUME NEW s, NEW pose \in AnyPose, NEW seconds \in Int, seconds > 0,
           Sound(s), Moving(s), ValidPose(s, pose), AtRest(s, pose), Free(s),
           NEW k \in DOMAIN s.joints, NEW parent \in Transform, NEW local \in Transform,
           NEW here, here = Compose(parent, local),
           NEW animated, animated = World(s.rig, pose), here = animated[s.joints[k].index],
           NEW v, v = Visit(s, k, here, parent, local, animated, seconds)
    PROVE  v.world = here /\ v.rotation = local.rotation /\ v.next = RestTail(s, pose, k)
<1> DEFINE joint     == s.joints[k]
           center    == Center(animated, joint)
           direction == here.rotation * Unit(joint.tail, 0)
           inertial  == Inertial(joint, direction, center, seconds)
           tail      == Project(here.translation, inertial, direction, Magnitude(joint.tail))
           next      == Pushed(s, joint, animated, here.translation, direction, tail)
           rest      == RestTail(s, pose, k)
           push      == joint.parameters.stiffness * seconds
<1>1. /\ here \in Transform /\ here.rotation \in {-1, 1} /\ rest \in Int
      /\ joint.current = InversePoint(center, rest) /\ joint.previous = joint.current
      /\ rest = Point(here, joint.tail)
  BY RestTailType DEF AtRest, RestHistory, RestTail
<1>2. animated \in [Skeleton(s.rig) -> Transform]
  BY ValidPoseFrames
<1>3. /\ SoundJoint(s.rig, joint) /\ joint.tail \in Int /\ joint.tail # 0
      /\ joint.parameters.stiffness \in Int /\ joint.parameters.stiffness >= 0
      /\ joint.parameters.drag \in Int /\ Magnitude(joint.tail) \in Int
  BY JointTypes
<1>4. joint.parameters.gravity = 0 /\ joint.colliders = << >>
  BY DEF Free
<1>5. center \in Transform /\ center.rotation \in {-1, 1}
  BY CenterFrame
<1>6. /\ direction \in Int /\ inertial \in Int
      /\ v = Turning(joint, here, parent, local, center, direction, inertial, next)
  <2>1. direction \in Int
    <3>1. Unit(joint.tail, 0) \in {-1, 1}
      BY JointTypes
    <3>2. here.rotation \in {-1, 1}
      BY <1>1
    <3> HIDE DEF joint
    <3> QED
      BY <3>1, <3>2
  <2>2. inertial \in Int
    <3> HIDE DEF direction, center
    <3> QED
      BY <1>5, <2>1, InertialType
  <2>3. k # 0
    BY SoundIndices
  <2>4. v = Turning(joint, here, parent, local, center, direction, inertial, next)
    BY <2>3 DEF Visit, Integrate, Integrated
  <2> QED
    BY <2>1, <2>2, <2>4
<1> HIDE DEF joint, center, rest
<1>7. push \in Int /\ push >= 0
  <2>1. \A x, y \in Nat : x * y \in Nat
    OBVIOUS
  <2>2. joint.parameters.stiffness \in Nat /\ seconds \in Nat
    BY <1>3
  <2> QED
    BY <2>1, <2>2
<1>8. inertial = rest + direction * push
  <2>1. direction \in Int
    BY <1>6
  <2>2. inertial = rest + direction * joint.parameters.stiffness * seconds
    <3>1. /\ rest \in Int /\ joint.parameters.drag \in Int /\ joint.parameters.stiffness \in Int
          /\ joint.current = InversePoint(center, rest) /\ joint.previous = joint.current
      BY <1>1, <1>3
    <3> HIDE DEF direction
    <3> QED
      BY <1>4, <1>5, <2>1, <3>1, RestInertial
  <2>3. \A x, y, z \in Int : x * y * z = x * (y * z)
    OBVIOUS
  <2>4. direction * joint.parameters.stiffness * seconds = direction * push
    <3> HIDE DEF direction
    <3> QED
      BY <1>3, <2>1, <2>3
  <2> HIDE DEF direction, inertial, push
  <2> QED
    BY <2>2, <2>4
<1>9. /\ direction \in {-1, 1}
      /\ Project(here.translation, rest + direction * push, direction, Magnitude(joint.tail)) = rest
      /\ Unit(rest - here.translation, direction) = direction
      /\ FromTo(Unit(joint.tail, 0), here.rotation * direction) = 1
  <2> HIDE DEF push
  <2> QED
    BY <1>1, <1>3, <1>7, RestProjection, SMTT(60)
<1>10. tail = rest
  <2> HIDE DEF inertial, direction, push
  <2> QED
    BY <1>8, <1>9
<1>11. next = tail
  <2>1. direction \in Int /\ tail \in Int /\ here.translation \in Int /\ SoundJoint(s.rig, joint)
    <3>1. direction \in Int
      BY <1>6
    <3>2. tail \in Int
      BY <1>1, <1>10
    <3> QED
      BY <1>1, <1>3, <3>1, <3>2 DEF Transform
  <2>2. Len(joint.colliders) = 0
    BY <1>4
  <2> HIDE DEF tail, direction
  <2> QED
    BY <1>2, <2>1, <2>2, NothingPushes
<1> HIDE DEF next, tail, inertial, direction, push
<1>12. FromTo(Unit(joint.tail, 0), here.rotation * Unit(next - here.translation, direction)) = 1
  <2>1. next = rest
    BY <1>10, <1>11
  <2>2. /\ Unit(rest - here.translation, direction) = direction
        /\ FromTo(Unit(joint.tail, 0), here.rotation * direction) = 1
    BY <1>9
  <2> QED
    BY <2>1, <2>2
<1>13. /\ v.rotation = TurnedRotation(joint, here, local, direction, next)
       /\ v.world = Compose(parent, Rotated(local, v.rotation))
       /\ v.next = next
  <2>1. v = Turning(joint, here, parent, local, center, direction, inertial, next)
    BY <1>6
  <2> QED
    BY <2>1, TurningFrame
<1>14. v.rotation = local.rotation
  <2>1. \A x \in Int : x * 1 = x
    OBVIOUS
  <2>2. local.rotation \in Int
    BY LineTypes
  <2>3. v.rotation = local.rotation * 1
    BY <1>12, <1>13 DEF TurnedRotation
  <2> QED
    BY <2>1, <2>2, <2>3
<1>15. Rotated(local, local.rotation) = local
  BY DEF Rotated, Transform
<1>16. v.world = here
  BY <1>13, <1>14, <1>15
<1> QED
  BY <1>10, <1>11, <1>13, <1>14, <1>16 DEF rest

\* Over the pose it rests in, a free solver walks the animated frames themselves.
LEMMA RestWalk ==
    ASSUME NEW s, NEW pose \in AnyPose, NEW seconds \in Int, seconds > 0,
           Sound(s), Moving(s), ValidPose(s, pose), AtRest(s, pose), Free(s),
           NEW sim, sim = Simulate(s, pose, seconds)
    PROVE  \A i \in Skeleton(s.rig) :
             /\ sim[i].world = World(s.rig, pose)[i]
             /\ sim[i].rotation = pose.locals[i].rotation
             /\ Turn(s, i) # 0 => sim[i].next = RestTail(s, pose, Turn(s, i))
<1> DEFINE n == Len(s.rig.parents)
           world == World(s.rig, pose)
           parent(i) == IF s.rig.parents[i] = 0 THEN pose.placement ELSE world[s.rig.parents[i]]
           S == {i \in 1 .. n : sim[i].world = world[i]}
<1>1. /\ n \in Nat /\ Skeleton(s.rig) = 1 .. n /\ s.rig \in AnyRig /\ TopologicalSkeleton(s.rig)
      /\ \A i \in 1 .. n : s.rig.parents[i] \in 0 .. i - 1
  BY SMTT(60) DEF Sound, AnyRig, TopologicalSkeleton, Skeleton
<1>2. /\ Len(pose.locals) = Len(s.rig.parents) /\ pose.placement \in Transform
      /\ \A i \in Skeleton(s.rig) : pose.locals[i] \in Transform
      /\ world \in [Skeleton(s.rig) -> Transform]
  BY ValidPoseFrames
<1>3. \A i \in 1 .. n : world[i] = Compose(parent(i), pose.locals[i])
  BY <1>1, <1>2, WorldFrames
<1>4. \A i \in 1 .. n :
        sim[i] = VisitBelow(s, i, IF s.rig.parents[i] = 0 THEN pose.placement
                                  ELSE sim[s.rig.parents[i]].world,
                            pose.locals[i], world, seconds)
  <2>1. sim = Walk(s, pose, world, seconds)
    BY DEF Simulate
  <2> HIDE DEF world
  <2>2. \A i \in Skeleton(s.rig) :
          sim[i] = VisitBelow(s, i, IF s.rig.parents[i] = 0 THEN pose.placement
                                    ELSE sim[s.rig.parents[i]].world,
                              pose.locals[i], world, seconds)
    BY <1>2, <2>1, WalkFrames
  <2> QED
    BY <1>1, <2>2
<1> HIDE DEF n, world
<1>5. \A i \in 1 .. n : parent(i) \in Transform
  <2> TAKE i \in 1 .. n
  <2>1. CASE s.rig.parents[i] = 0
    BY <1>2, <2>1
  <2>2. CASE s.rig.parents[i] # 0
    <3>1. s.rig.parents[i] \in 1 .. n
      BY <1>1, <2>2
    <3> QED
      BY <1>1, <1>2, <2>2, <3>1
  <2> QED
    BY <2>1, <2>2
<1> HIDE DEF parent
<1>6. ASSUME NEW i \in 1 .. n, NEW v, v = VisitBelow(s, i, parent(i), pose.locals[i], world, seconds)
      PROVE  /\ v.world = world[i] /\ v.rotation = pose.locals[i].rotation
             /\ Turn(s, i) # 0 => v.next = RestTail(s, pose, Turn(s, i))
  <2> DEFINE k == Turn(s, i)
             here == Compose(parent(i), pose.locals[i])
  <2>1. here = world[i] /\ v = Visit(s, k, here, parent(i), pose.locals[i], world, seconds)
    BY <1>3, <1>6 DEF VisitBelow
  <2>2. k # 0 => k \in DOMAIN s.joints /\ s.joints[k].index = i
    BY <1>1, EveryJointHasItsTurn
  <2>3. parent(i) \in Transform /\ pose.locals[i] \in Transform
    BY <1>1, <1>2, <1>5
  <2> HIDE DEF k
  <2>4. CASE k = 0
    BY <2>1, <2>4 DEF Visit, k
  <2>5. CASE k # 0
    <3>1. k \in DOMAIN s.joints /\ here = world[s.joints[k].index]
      BY <2>1, <2>2, <2>5
    <3> HIDE DEF here
    <3>2. v.world = here /\ v.rotation = pose.locals[i].rotation /\ v.next = RestTail(s, pose, k)
      BY <2>1, <2>3, <3>1, RestVisit DEF world, here
    <3> QED
      BY <2>1, <3>2 DEF k
  <2> QED
    BY <2>4, <2>5
<1>7. ASSUME NEW i \in 1 .. n, \A j \in 1 .. i - 1 : j \in S
      PROVE  sim[i] = VisitBelow(s, i, parent(i), pose.locals[i], world, seconds)
  <2>1. CASE s.rig.parents[i] = 0
    BY <1>4, <2>1 DEF parent
  <2>2. CASE s.rig.parents[i] # 0
    <3>1. s.rig.parents[i] \in 1 .. i - 1
      BY <1>1, <2>2
    <3>2. sim[s.rig.parents[i]].world = world[s.rig.parents[i]]
      BY <1>7, <3>1
    <3> QED
      BY <1>4, <2>2, <3>2 DEF parent
  <2> QED
    BY <2>1, <2>2
<1>8. ASSUME NEW i \in 1 .. n, \A j \in 1 .. i - 1 : j \in S PROVE i \in S
  BY <1>6, <1>7, <1>8
<1> HIDE DEF S
<1>9. \A i \in 1 .. n : i \in S
  <2>1. 1 \in Nat
    OBVIOUS
  <2> QED
    BY <1>1, <1>8, <2>1, StrongInduction
<1>10. \A i \in 1 .. n : sim[i] = VisitBelow(s, i, parent(i), pose.locals[i], world, seconds)
  <2> TAKE i \in 1 .. n
  <2>1. \A j \in 1 .. i - 1 : j \in 1 .. n
    BY <1>1
  <2> QED
    BY <1>7, <1>9, <2>1
<1> QED
  BY <1>1, <1>6, <1>10 DEF world

\* A Step over the pose a free solver rests in answers as the Reset did.
LEMMA RestStepAnswer ==
    ASSUME NEW s, NEW pose \in AnyPose, NEW seconds \in Int, seconds > 0,
           Sound(s), Moving(s), ValidPose(s, pose), AtRest(s, pose), Free(s)
    PROVE  StepResult(s, pose, seconds) = ResetResult(s, pose)
<1> DEFINE sim == Simulate(s, pose, seconds)
           order == InOrder(Turned(s))
           rotations == [i \in Skeleton(s.rig) |-> pose.locals[i].rotation]
           tails == [k \in DOMAIN s.joints |->
                       [joint |-> s.joints[k].index, position |-> RestTail(s, pose, k)]]
<1>1. \A i \in Skeleton(s.rig) :
        /\ sim[i].rotation = pose.locals[i].rotation
        /\ Turn(s, i) # 0 => sim[i].next = RestTail(s, pose, Turn(s, i))
  BY RestWalk
<1>2. DOMAIN order = DOMAIN s.joints /\ \A k \in DOMAIN s.joints : order[k] = s.joints[k].index
  BY TurnedInOrder, SoundIndices
<1>3. StepResult(s, pose, seconds) = Report(s, sim)
  BY DEF StepResult
<1> HIDE DEF sim, order
<1>4. \A k \in DOMAIN s.joints : sim[s.joints[k].index].next = RestTail(s, pose, k)
  <2> TAKE k \in DOMAIN s.joints
  <2>1. s.joints[k].index \in Skeleton(s.rig) /\ k # 0
    BY SoundIndices, SMTT(60)
  <2>2. Turn(s, s.joints[k].index) = k
    BY EveryJointHasItsTurn
  <2> QED
    BY <1>1, <2>1, <2>2
<1>5. [i \in Skeleton(s.rig) |-> sim[i].rotation] = rotations
  BY <1>1
<1>6. ReportedTails(sim, order) = tails
  BY <1>2, <1>4 DEF ReportedTails
<1>7. Report(s, sim) = [rotations |-> [i \in Skeleton(s.rig) |-> sim[i].rotation],
                        tails |-> ReportedTails(sim, order)]
  BY DEF Report, order
<1>8. ResetResult(s, pose) = [rotations |-> rotations, tails |-> tails]
  BY DEF ResetResult
<1> HIDE DEF rotations, tails
<1> QED
  BY <1>3, <1>5, <1>6, <1>7, <1>8

\* After a Reset, and until the next call, its value is at rest and its answer says so.
Rested ==
    call.ok /\ call.op = "Reset" =>
      /\ AtRest(solver[call.solver], call.pose)
      /\ result[call.solver] = ResetResult(solver[call.solver], call.pose)

\* What Reset leaves is at rest, and would be reset to the same answer.
LEMMA ResetRests ==
    ASSUME NEW s, NEW pose
    PROVE  /\ AtRest(AfterReset(s, pose), pose)
           /\ ResetResult(AfterReset(s, pose), pose) = ResetResult(s, pose)
<1> DEFINE t == AfterReset(s, pose)
<1>1. /\ t.rig = s.rig /\ DOMAIN t.joints = DOMAIN s.joints
      /\ \A k \in DOMAIN s.joints :
           /\ WithHistory(t.joints[k], 0, 0) = WithHistory(s.joints[k], 0, 0)
           /\ t.joints[k].current = RestHistory(s, pose, k)
           /\ t.joints[k].previous = RestHistory(s, pose, k)
  BY ResetOutcome
<1> HIDE DEF t
<1>2. \A k \in DOMAIN s.joints :
        /\ t.joints[k].index = s.joints[k].index /\ t.joints[k].center = s.joints[k].center
        /\ t.joints[k].tail = s.joints[k].tail
  BY <1>1, SameJoint
<1>3. \A k \in DOMAIN s.joints : RestTail(t, pose, k) = RestTail(s, pose, k)
  BY <1>1, <1>2 DEF RestTail
<1>4. \A k \in DOMAIN s.joints : RestHistory(t, pose, k) = RestHistory(s, pose, k)
  BY <1>1, <1>2, <1>3 DEF RestHistory, Center
<1>5. AtRest(t, pose)
  BY <1>1, <1>4 DEF AtRest
<1>6. [k \in DOMAIN t.joints |-> [joint |-> t.joints[k].index, position |-> RestTail(t, pose, k)]]
        = [k \in DOMAIN s.joints |-> [joint |-> s.joints[k].index, position |-> RestTail(s, pose, k)]]
  BY <1>1, <1>2, <1>3
<1>7. ResetResult(t, pose) = ResetResult(s, pose)
  BY <1>1, <1>6 DEF ResetResult
<1> QED
  BY <1>5, <1>7 DEF t

\* What Reset leaves stays at rest until the next call on that value.
LEMMA ResetsRest == Spec => []Rested
<1>1. Init => Rested
  <2> SUFFICES ASSUME Init PROVE Rested
    OBVIOUS
  <2>1. PICK c \in Solvers : call = Call("none", c, NoPose, TRUE)
    BY DEF Init
  <2> QED
    BY <2>1 DEF Rested, Call
<1>2. TypeOK /\ Rested /\ [Next]_vars => Rested'
  <2> SUFFICES ASSUME TypeOK, Rested, [Next]_vars PROVE Rested'
    OBVIOUS
  <2>1. ASSUME NEW op, NEW c \in Solvers, NEW pose, NEW ok, call' = Call(op, c, pose, ok),
               ok => op \notin {"Reset"}
        PROVE  Rested'
    BY <2>1 DEF Rested, Call
  <2>2. CASE UNCHANGED vars
    BY <2>2 DEF Rested, vars
  <2>3. ASSUME NEW c \in Solvers, NEW rig \in Rigs, Configure(c, rig) PROVE Rested'
    BY <2>1, <2>3 DEF Configure, Configured, Refuse
  <2>4. ASSUME NEW c \in Solvers, NEW pose \in Poses, NEW hasResult \in BOOLEAN,
               Reset(c, pose, hasResult)
        PROVE  Rested'
    <3>1. CASE ~(hasResult /\ CanReset(solver[c], pose))
      BY <2>1, <2>4, <3>1 DEF Reset, Refuse
    <3>2. CASE hasResult /\ CanReset(solver[c], pose)
      <4>1. /\ solver'[c] = AfterReset(solver[c], pose)
            /\ result'[c] = ResetResult(solver[c], pose)
            /\ call' = Call("Reset", c, pose, TRUE)
        BY <2>4, <3>2 DEF Reset, TypeOK
      <4>2. call'.solver = c /\ call'.pose = pose
        BY <4>1 DEF Call
      <4>3. AtRest(solver'[c], pose) /\ result'[c] = ResetResult(solver'[c], pose)
        BY <4>1, ResetRests
      <4>4. (AtRest(solver[call.solver], call.pose))' <=> AtRest(solver'[c], pose)
        BY <4>2
      <4>5. (ResetResult(solver[call.solver], call.pose))' = ResetResult(solver'[c], pose)
        BY <4>2
      <4> QED
        BY <4>2, <4>3, <4>4, <4>5 DEF Rested
    <3> QED
      BY <3>1, <3>2
  <2>5. ASSUME NEW c \in Solvers, NEW pose \in Poses, NEW seconds \in Durations,
               NEW hasResult \in BOOLEAN, Step(c, pose, seconds, hasResult)
        PROVE  Rested'
    BY <2>1, <2>5 DEF Step, Refuse
  <2>6. ASSUME NEW from \in Solvers, NEW to \in Solvers, Copy(from, to) PROVE Rested'
    BY <2>1, <2>6 DEF Copy
  <2> QED
    BY <2>2, <2>3, <2>4, <2>5, <2>6 DEF Next
<1> QED
  BY <1>1, <1>2, TypeCorrect, PTL DEF Spec

\* Spec => ResetIsAtRest: for every accepted rig without gravity and colliders, a Step
\* over the pose just reset, of whatever duration, reports what the Reset reported.
THEOREM ResetIsAlwaysAtRest == Spec => ResetIsAtRest
<1> DEFINE Stepped ==
             call.op = "Reset" /\ call'.op = "Step" /\ call.ok /\ call'.ok
               /\ call.solver = call'.solver /\ call.pose = call'.pose
               /\ Free(solver[call.solver])
           A == Stepped => result'[call.solver] = result[call.solver]
<1>1. TypeOK /\ HistoryFinite /\ JointsMatchRig /\ RigsHeld /\ Rested /\ [Next]_vars => [A]_vars
  <2> SUFFICES ASSUME TypeOK, HistoryFinite, JointsMatchRig, RigsHeld, Rested, Next, Stepped
               PROVE  result'[call.solver] = result[call.solver]
    OBVIOUS
  <2>1. PICK c \in Solvers, pose \in Poses, seconds \in Durations, hasResult \in BOOLEAN :
          Step(c, pose, seconds, hasResult)
    <3>1. call'.op = "Step"
      OBVIOUS
    <3>2. ASSUME NEW c \in Solvers, NEW rig \in Rigs, Configure(c, rig) PROVE FALSE
      <4>1. call'.op = "Configure"
        BY <3>2 DEF Configure, Configured, Refuse, Call
      <4> QED
        BY <3>1, <4>1
    <3>3. ASSUME NEW c \in Solvers, NEW pose \in Poses, NEW hasResult \in BOOLEAN,
                 Reset(c, pose, hasResult)
          PROVE  FALSE
      <4>1. call'.op = "Reset"
        BY <3>3 DEF Reset, Refuse, Call
      <4> QED
        BY <3>1, <4>1
    <3>4. ASSUME NEW from \in Solvers, NEW to \in Solvers, Copy(from, to) PROVE FALSE
      <4>1. call'.op = "Copy"
        BY <3>4 DEF Copy, Call
      <4> QED
        BY <3>1, <4>1
    <3> HIDE DEF Stepped
    <3> QED
      BY <3>2, <3>3, <3>4 DEF Next
  <2>2. hasResult /\ CanStep(solver[c], pose, seconds)
    BY <2>1 DEF Step, Refuse, Call
  <2>3. /\ result'[c] = StepResult(solver[c], pose, seconds)
        /\ call.solver = c /\ call.pose = pose
    BY <2>1, <2>2 DEF Step, Call, TypeOK
  <2>4. AtRest(solver[c], pose) /\ Free(solver[c]) /\ result[c] = ResetResult(solver[c], pose)
    BY <2>3 DEF Rested
  <2> HIDE DEF Stepped
  <2>5. /\ ValidPose(solver[c], pose) /\ pose \in AnyPose /\ seconds \in Int /\ seconds > 0
        /\ solver[c].initialized /\ solver[c].configured
    BY <2>2, CallersAssumption DEF CanStep, ValidPose
  <2>6. Sound(solver[c]) /\ Moving(solver[c])
    BY <2>5, SoundCopies
  <2>7. StepResult(solver[c], pose, seconds) = ResetResult(solver[c], pose)
    BY <2>4, <2>5, <2>6, RestStepAnswer
  <2> QED
    BY <2>3, <2>4, <2>7
<1>2. TypeOK /\ HistoryFinite /\ JointsMatchRig /\ RigsHeld /\ Rested /\ [Next]_vars
        => [ /\ call.op = "Reset" /\ call'.op = "Step" /\ call.ok /\ call'.ok
             /\ call.solver = call'.solver /\ call.pose = call'.pose
             /\ Free(solver[call.solver])
             => result'[call.solver] = result[call.solver] ]_vars
  BY <1>1
<1> HIDE DEF A, Stepped
<1> QED
  BY <1>2, TypeCorrect, HistoryStaysFinite, JointsAlwaysMatchRig, RigsAreHeld, ResetsRest, PTL
     DEF Spec, ResetIsAtRest

-----------------------------------------------------------------------------
(* A Step under a moved placement, for springs with a centre.              *)

\* A valid rigid motion of the line.
Motion == {d \in Transform : d.rotation \in {-1, 1}}

\* Multiplying by a sign.
LEMMA Signs ==
    /\ \A x \in Int : 1 * x = x /\ (-1) * x = -x
    /\ \A d \in Motion : d.rotation \in {-1, 1} /\ d.translation \in Int /\ d \in Transform
BY DEF Motion, Transform

\* Seen through a motion, distances keep or change their sign together.
LEMMA MovedPoints ==
    ASSUME NEW d \in Motion, NEW p \in Int, NEW q \in Int
    PROVE  /\ Point(d, p) \in Int /\ d.rotation * q \in Int
           /\ Point(d, p) - Point(d, q) = d.rotation * (p - q)
           /\ Point(d, p + q) = Point(d, p) + d.rotation * q
           /\ d.rotation * (d.rotation * q) = q
<1> DEFINE g == d.rotation
           b == d.translation
<1>1. g \in {-1, 1} /\ b \in Int
  BY Signs
<1>2. \A x : Point(d, x) = b + g * x
  BY DEF Point
<1> HIDE DEF g, b
<1>3. CASE g = 1
  <2>1. \A x \in Int : g * x = x
    BY <1>3
  <2>2. g * p = p /\ g * q = q /\ g * (p - q) = p - q /\ g * (p + q) = p + q
    BY <2>1
  <2> QED
    BY <1>1, <1>2, <2>2 DEF g
<1>4. CASE g = -1
  <2>1. \A x \in Int : g * x = -x
    BY <1>4
  <2>2. g * p = -p /\ g * q = -q /\ g * (p - q) = q - p /\ g * (p + q) = -(p + q) /\ g * (-q) = q
    BY <2>1
  <2> QED
    BY <1>1, <1>2, <2>2 DEF g
<1> QED
  BY <1>1, <1>3, <1>4

\* Directions turn with a motion, lengths do not.
LEMMA MovedDirections ==
    ASSUME NEW d \in Motion, NEW x \in Int, NEW fallback \in Int
    PROVE  /\ Unit(d.rotation * x, d.rotation * fallback) = d.rotation * Unit(x, fallback)
           /\ Unit(d.rotation * x, 0) = d.rotation * Unit(x, 0)
           /\ Magnitude(d.rotation * x) = Magnitude(x)
<1> DEFINE g == d.rotation
<1>1. g \in {-1, 1}
  BY Signs
<1> HIDE DEF g
<1>2. CASE g = 1
  <2>1. \A y \in Int : g * y = y
    BY <1>2
  <2> QED
    BY <2>1 DEF Unit, Magnitude, g
<1>3. CASE g = -1
  <2>1. \A y \in Int : g * y = -y
    BY <1>3
  <2>2. g * x = -x /\ g * fallback = -fallback /\ g * 1 = -1 /\ g * (-1) = 1 /\ g * 0 = 0
    BY <2>1
  <2> QED
    BY <2>2 DEF Unit, Magnitude, g
<1> QED
  BY <1>1, <1>2, <1>3

\* A point of a moved frame is the moved point of the frame.
LEMMA MovedFrames ==
    ASSUME NEW d \in Motion, NEW t \in Motion, NEW p \in Int
    PROVE  /\ Point(Compose(d, t), p) = Point(d, Point(t, p))
           /\ Compose(d, t) \in Motion
<1> DEFINE g == d.rotation
           r == t.rotation
           b == t.translation
<1>1. g \in {-1, 1} /\ r \in {-1, 1} /\ b \in Int
  BY Signs
<1>2. /\ Compose(d, t).translation = Point(d, b) /\ Compose(d, t).rotation = g * r
      /\ Compose(d, t) = [translation |-> Point(d, b), rotation |-> g * r]
  BY DEF Compose
<1>3. Point(Compose(d, t), p) = Point(d, b) + g * r * p
  BY <1>2 DEF Point
<1>4. Point(t, p) = b + r * p
  BY DEF Point
<1> HIDE DEF g, r, b
<1>5. r * p \in Int
  BY <1>1
<1>6. Point(d, b + r * p) = Point(d, b) + g * (r * p)
  BY <1>1, <1>5, MovedPoints DEF g
<1>7. g * r * p = g * (r * p)
  <2>1. CASE g = 1
    BY <1>1, <1>5, <2>1
  <2>2. CASE g = -1
    <3>1. g * r = -r /\ g * (r * p) = -(r * p)
      BY <1>1, <1>5, <2>2, Signs
    <3>2. CASE r = 1
      BY <3>1, <3>2, Signs
    <3>3. CASE r = -1
      <4>1. g * r = 1 /\ r * p = -p
        BY <3>1, <3>3, Signs
      <4>2. 1 * p = p /\ -(-p) = p
        OBVIOUS
      <4> QED
        BY <3>1, <4>1, <4>2
    <3> QED
      BY <1>1, <3>2, <3>3
  <2> QED
    BY <1>1, <2>1, <2>2
<1>8. Compose(d, t) \in Motion
  <2>1. g * r \in {-1, 1}
    BY <1>1, SignArithmetic
  <2>2. Point(d, b) \in Int
    BY <1>1, MovedPoints
  <2> QED
    BY <1>2, <2>1, <2>2 DEF Motion, Transform
<1> QED
  BY <1>3, <1>4, <1>6, <1>7, <1>8

\* Composition is associative.
LEMMA MovedComposition ==
    ASSUME NEW d \in Motion, NEW t \in Motion, NEW l \in Transform
    PROVE  Compose(Compose(d, t), l) = Compose(d, Compose(t, l))
<1>1. l.translation \in Int /\ l.rotation \in Int /\ t.rotation \in {-1, 1} /\ d.rotation \in {-1, 1}
  BY Signs, LineTypes
<1>2. Point(Compose(d, t), l.translation) = Point(d, Point(t, l.translation))
  BY <1>1, MovedFrames
<1>3. \A a, b, c \in Int : a * b * c = a * (b * c)
  OBVIOUS
<1>4. d.rotation * t.rotation * l.rotation = d.rotation * (t.rotation * l.rotation)
  BY <1>1, <1>3
<1> QED
  BY <1>2, <1>4 DEF Compose

\* The bone length is restored about the moved head as it was about the head.
LEMMA MovedProject ==
    ASSUME NEW d \in Motion, NEW head \in Int, NEW tail \in Int, NEW direction \in Int,
           NEW length \in Int
    PROVE  Project(Point(d, head), Point(d, tail), d.rotation * direction, length)
             = Point(d, Project(head, tail, direction, length))
<1> DEFINE u == Unit(tail - head, direction)
           g == d.rotation
<1>1. u \in Int /\ g \in Int /\ tail - head \in Int
  BY LineTypes, Signs
<1>2. Point(d, tail) - Point(d, head) = g * (tail - head)
  BY MovedPoints
<1>3. Unit(g * (tail - head), g * direction) = g * u
  BY <1>1, MovedDirections
<1>4. Project(Point(d, head), Point(d, tail), g * direction, length)
        = Point(d, head) + g * u * length
  BY <1>2, <1>3 DEF Project
<1>5. Project(head, tail, direction, length) = head + u * length
  BY DEF Project
<1> HIDE DEF u, g
<1>6. \A a, b, c \in Int : a * b * c = a * (b * c) /\ b * c \in Int
  OBVIOUS
<1>7. g * u * length = g * (u * length) /\ u * length \in Int
  BY <1>1, <1>6
<1>8. Point(d, head + u * length) = Point(d, head) + g * (u * length)
  BY <1>7, MovedPoints DEF g
<1> QED
  BY <1>4, <1>5, <1>7, <1>8 DEF g

\* The nearest point of a moved collider is the moved nearest point.
LEMMA MovedClosest ==
    ASSUME NEW d \in Motion, NEW attachment \in Motion, NEW tail \in Int,
           NEW collider \in SpringBoneCollider
    PROVE  Closest(collider, Compose(d, attachment), Point(d, tail))
             = Point(d, Closest(collider, attachment, tail))
<1> DEFINE a == Point(attachment, collider.offset)
           b == Point(attachment, collider.tail)
           a2 == Point(Compose(d, attachment), collider.offset)
           b2 == Point(Compose(d, attachment), collider.tail)
           t2 == Point(d, tail)
           g == d.rotation
<1>1. collider.offset \in Int /\ collider.tail \in Int
  BY DEF SpringBoneCollider
<1>2. a \in Int /\ b \in Int
  BY <1>1, Signs, LineTypes
<1>3. a2 = Point(d, a) /\ b2 = Point(d, b)
  BY <1>1, MovedFrames
<1>4. Closest(collider, attachment, tail)
        = IF collider.shape = "sphere" THEN a
          ELSE IF tail < (IF a < b THEN a ELSE b) THEN (IF a < b THEN a ELSE b)
          ELSE IF tail > (IF a < b THEN b ELSE a) THEN (IF a < b THEN b ELSE a) ELSE tail
  BY DEF Closest
<1>5. Closest(collider, Compose(d, attachment), t2)
        = IF collider.shape = "sphere" THEN a2
          ELSE IF t2 < (IF a2 < b2 THEN a2 ELSE b2) THEN (IF a2 < b2 THEN a2 ELSE b2)
          ELSE IF t2 > (IF a2 < b2 THEN b2 ELSE a2) THEN (IF a2 < b2 THEN b2 ELSE a2) ELSE t2
  BY DEF Closest
<1> HIDE DEF a, b, a2, b2, t2
<1>6. /\ a2 - b2 = g * (a - b) /\ t2 - a2 = g * (tail - a) /\ t2 - b2 = g * (tail - b)
      /\ a2 \in Int /\ b2 \in Int /\ t2 \in Int
  BY <1>2, <1>3, MovedPoints DEF t2
<1>7. CASE collider.shape = "sphere"
  BY <1>3, <1>4, <1>5, <1>7 DEF t2
<1>8. CASE collider.shape # "sphere"
  <2> DEFINE close == IF tail < (IF a < b THEN a ELSE b) THEN (IF a < b THEN a ELSE b)
                      ELSE IF tail > (IF a < b THEN b ELSE a) THEN (IF a < b THEN b ELSE a)
                      ELSE tail
             close2 == IF t2 < (IF a2 < b2 THEN a2 ELSE b2) THEN (IF a2 < b2 THEN a2 ELSE b2)
                       ELSE IF t2 > (IF a2 < b2 THEN b2 ELSE a2) THEN (IF a2 < b2 THEN b2 ELSE a2)
                       ELSE t2
  <2>1. \/ close = a /\ close2 = a2
        \/ close = b /\ close2 = b2
        \/ close = tail /\ close2 = t2
    <3>1. CASE g = 1
      <4>1. \A x \in Int : g * x = x
        BY <3>1
      <4>2. a2 - b2 = a - b /\ t2 - a2 = tail - a /\ t2 - b2 = tail - b
        BY <1>2, <1>6, <4>1
      <4> QED
        BY <1>2, <1>6, <4>2
    <3>2. CASE g = -1
      <4>1. \A x \in Int : g * x = -x
        BY <3>2
      <4>2. a2 - b2 = b - a /\ t2 - a2 = a - tail /\ t2 - b2 = b - tail
        BY <1>2, <1>6, <4>1
      <4> HIDE DEF g
      <4>3. (a2 < b2 <=> b < a) /\ (b2 < a2 <=> a < b) /\ (a2 = b2 <=> a = b)
        BY <1>2, <1>6, <4>2
      <4>4. (t2 < a2 <=> a < tail) /\ (a2 < t2 <=> tail < a) /\ (t2 = a2 <=> tail = a)
        BY <1>2, <1>6, <4>2
      <4>5. (t2 < b2 <=> b < tail) /\ (b2 < t2 <=> tail < b) /\ (t2 = b2 <=> tail = b)
        BY <1>2, <1>6, <4>2
      <4> QED
        BY <1>2, <1>6, <4>3, <4>4, <4>5
    <3> QED
      BY <3>1, <3>2, Signs
  <2>2. Closest(collider, attachment, tail) = close
    BY <1>4, <1>8
  <2>3. Closest(collider, Compose(d, attachment), t2) = close2
    BY <1>5, <1>8
  <2> HIDE DEF close, close2
  <2> QED
    BY <1>3, <2>1, <2>2, <2>3 DEF t2
<1> QED
  BY <1>7, <1>8

\* A frame seen by the joints of the skeleton, moved.
Carried(s, d, animated, moved) == \A i \in Skeleton(s.rig) : moved[i] = Compose(d, animated[i])

\* A frame array of valid frames.
Frames(s) == {w \in [Skeleton(s.rig) -> Transform] : \A i \in Skeleton(s.rig) : w[i].rotation \in {-1, 1}}

\* A collider that hangs from the skeleton pushes the moved tail as it did the tail.
LEMMA MovedPush ==
    ASSUME NEW s, Sound(s), NEW d \in Motion, NEW animated \in Frames(s), NEW moved \in Frames(s),
           Carried(s, d, animated, moved), NEW joint, SoundJoint(s.rig, joint),
           NEW collider \in SpringBoneCollider, collider.joint \in Skeleton(s.rig),
           NEW head \in Int, NEW direction \in Int, NEW tail \in Int
    PROVE  Push(s, joint, collider, moved, Point(d, head), d.rotation * direction, Point(d, tail))
             = Point(d, Push(s, joint, collider, animated, head, direction, tail))
<1> DEFINE attachment == animated[collider.joint]
           closest == Closest(collider, attachment, tail)
           closest2 == Closest(collider, Compose(d, attachment), Point(d, tail))
           delta == tail - closest
           delta2 == Point(d, tail) - closest2
           radius == collider.radius + joint.parameters.hitRadius
           length == Magnitude(joint.tail)
           u == Unit(delta, 0)
           g == d.rotation
           out == closest + u * radius
           out2 == closest2 + Unit(delta2, 0) * radius
           head2 == Point(d, head)
           direction2 == g * direction
<1>1. attachment \in Motion /\ attachment \in Transform
  BY DEF Frames, Motion
<1>2. closest \in Int /\ closest2 = Point(d, closest)
  <2> HIDE DEF attachment
  <2> QED
    BY <1>1, ClosestType, MovedClosest
<1>3. radius \in Int /\ length \in Int
  <2>1. collider.radius \in Int
    BY DEF SpringBoneCollider
  <2>2. joint.parameters.hitRadius \in Int /\ joint.tail \in Int
    BY DEF SoundJoint, SpringBoneParameters
  <2>3. length \in Int
    BY <2>2, LineTypes
  <2> QED
    BY <2>1, <2>2, <2>3
<1>4. /\ Frame(animated, collider.joint) = attachment
      /\ Frame(moved, collider.joint) = Compose(d, attachment)
  <2>1. collider.joint # 0
    <3>1. Len(s.rig.parents) \in Nat
      BY SoundIndices
    <3> QED
      BY <3>1 DEF Skeleton
  <2> QED
    BY <2>1 DEF Frame, Carried
<1>5. Push(s, joint, collider, animated, head, direction, tail)
        = IF Magnitude(delta) < radius THEN Project(head, out, direction, length) ELSE tail
  BY <1>4 DEF Push
<1>6. Push(s, joint, collider, moved, head2, direction2, Point(d, tail))
        = IF Magnitude(delta2) < radius THEN Project(head2, out2, direction2, length)
          ELSE Point(d, tail)
  BY <1>4 DEF Push
<1> HIDE DEF attachment, closest, closest2, radius, length, head2, direction2
<1>7. delta \in Int /\ delta2 = g * delta
  BY <1>2, MovedPoints
<1>8. Magnitude(delta2) = Magnitude(delta) /\ Unit(delta2, 0) = g * u /\ u \in Int
  <2> HIDE DEF delta, delta2
  <2>1. Unit(g * delta, 0) = g * Unit(delta, 0) /\ Magnitude(g * delta) = Magnitude(delta)
    <3>1. 0 \in Int
      OBVIOUS
    <3> QED
      BY <1>7, <3>1, MovedDirections
  <2>2. Unit(delta, 0) \in Int
    BY <1>7 DEF Unit
  <2> QED
    BY <1>7, <2>1, <2>2
<1>9. out \in Int /\ out2 = Point(d, out)
  <2>1. g \in Int
    BY Signs
  <2> HIDE DEF delta, delta2, u, g
  <2>2. \A a, b, c \in Int : a * b * c = a * (b * c) /\ b * c \in Int
    OBVIOUS
  <2>3. g * u * radius = g * (u * radius) /\ u * radius \in Int
    BY <1>3, <1>8, <2>1, <2>2
  <2>4. Point(d, closest + u * radius) = Point(d, closest) + g * (u * radius)
    BY <1>2, <2>3, MovedPoints DEF g
  <2> QED
    BY <1>2, <1>8, <2>3, <2>4
<1>10. Project(head2, out2, direction2, length) = Point(d, Project(head, out, direction, length))
  <2> HIDE DEF out, out2
  <2> QED
    BY <1>3, <1>9, MovedProject DEF head2, direction2
<1> HIDE DEF delta, delta2, out, out2
<1> QED
  BY <1>5, <1>6, <1>8, <1>10 DEF head2, direction2

\* So do all of a joint's colliders, one after the other.
LEMMA MovedPushed ==
    ASSUME NEW s, Sound(s), NEW d \in Motion, NEW animated \in Frames(s), NEW moved \in Frames(s),
           Carried(s, d, animated, moved), NEW joint, SoundJoint(s.rig, joint),
           \A n \in DOMAIN joint.colliders : s.rig.colliders[joint.colliders[n]].joint # 0,
           NEW head \in Int, NEW direction \in Int, NEW tail \in Int
    PROVE  Pushed(s, joint, moved, Point(d, head), d.rotation * direction, Point(d, tail))
             = Point(d, Pushed(s, joint, animated, head, direction, tail))
<1> DEFINE m == Len(joint.colliders)
           head2 == Point(d, head)
           tail2 == Point(d, tail)
           direction2 == d.rotation * direction
<1>1. head2 \in Int /\ tail2 \in Int /\ direction2 \in Int
  BY MovedPoints
<1>2. animated \in [Skeleton(s.rig) -> Transform] /\ moved \in [Skeleton(s.rig) -> Transform]
  BY DEF Frames
<1> HIDE DEF head2, tail2, direction2
<1>3. PICK f : PushSequence(s, joint, animated, head, direction, tail, f)
  BY <1>2, PushSequenceExists
<1>4. PICK f2 : PushSequence(s, joint, moved, head2, direction2, tail2, f2)
  BY <1>1, <1>2, PushSequenceExists
<1>5. /\ m \in Nat
      /\ \A n \in 1 .. m : LET c == s.rig.colliders[joint.colliders[n]]
                           IN  c \in SpringBoneCollider /\ c.joint \in Skeleton(s.rig)
  <2>1. joint.colliders \in Seq(DOMAIN s.rig.colliders)
    BY DEF SoundJoint
  <2>2. m \in Nat /\ DOMAIN joint.colliders = 1 .. m
        /\ \A n \in 1 .. m : joint.colliders[n] \in DOMAIN s.rig.colliders
    BY <2>1
  <2>3. \A c \in DOMAIN s.rig.colliders :
          /\ s.rig.colliders[c] \in SpringBoneCollider
          /\ s.rig.colliders[c].joint \in {0} \union Skeleton(s.rig)
    <3>1. s.rig.colliders \in Seq(SpringBoneCollider) /\ ValidColliders(s.rig)
      BY DEF Sound, AnyRig
    <3> QED
      BY <3>1 DEF ValidColliders
  <2> HIDE DEF m
  <2> QED
    BY <2>2, <2>3
<1> DEFINE S == {n \in 0 .. m : f2[n] = Point(d, f[n])}
<1> HIDE DEF m
<1>6. ASSUME NEW n \in 0 .. m, \A j \in 0 .. n - 1 : j \in S PROVE n \in S
  <2>1. CASE n = 0
    BY <1>3, <1>4, <1>5, <2>1 DEF tail2, PushSequence
  <2>2. CASE n # 0
    <3>1. n \in 1 .. m /\ n - 1 \in 0 .. n - 1 /\ n - 1 \in 0 .. m
      BY <1>5, <2>2
    <3> DEFINE c == s.rig.colliders[joint.colliders[n]]
    <3>2. f2[n - 1] = Point(d, f[n - 1]) /\ f[n - 1] \in Int
      BY <1>3, <1>6, <3>1 DEF PushSequence, m
    <3>3. c \in SpringBoneCollider /\ c.joint \in Skeleton(s.rig)
      BY <1>5, <3>1
    <3>4. /\ f[n] = Push(s, joint, c, animated, head, direction, f[n - 1])
          /\ f2[n] = Push(s, joint, c, moved, head2, direction2, f2[n - 1])
      BY <1>3, <1>4, <3>1 DEF PushSequence, m
    <3> HIDE DEF c
    <3>5. Push(s, joint, c, moved, head2, direction2, Point(d, f[n - 1]))
            = Point(d, Push(s, joint, c, animated, head, direction, f[n - 1]))
      BY <3>2, <3>3, MovedPush DEF head2, direction2
    <3>6. f2[n] = Point(d, f[n])
      BY <3>2, <3>4, <3>5
    <3> QED
      BY <3>6
  <2> QED
    BY <2>1, <2>2
<1> HIDE DEF S
<1>7. \A n \in 0 .. m : n \in S
  <2>1. 0 \in Nat
    OBVIOUS
  <2> QED
    BY <1>5, <1>6, <2>1, StrongInduction
<1>8. f2[m] = Point(d, f[m])
  BY <1>5, <1>7 DEF S
<1>9. /\ Pushed(s, joint, animated, head, direction, tail) = f[m]
      /\ Pushed(s, joint, moved, head2, direction2, tail2) = f2[m]
  BY <1>3, <1>4 DEF PushSequence, m
<1> QED
  BY <1>8, <1>9 DEF head2, tail2, direction2

\* A motion does not carry gravity with it, so only a joint without gravity keeps its
\* inertia.
LEMMA MovedInertial ==
    ASSUME NEW joint, joint.parameters.gravity = 0, joint.parameters.drag \in Int,
           joint.parameters.stiffness \in Int, joint.current \in Int, joint.previous \in Int,
           NEW d \in Motion, NEW center \in Motion, NEW direction \in Int, NEW seconds \in Int
    PROVE  Inertial(joint, d.rotation * direction, Compose(d, center), seconds)
             = Point(d, Inertial(joint, direction, center, seconds))
<1> DEFINE p == joint.current + (joint.current - joint.previous) * (1 - joint.parameters.drag)
           k == joint.parameters.stiffness
           g == d.rotation
           force == direction * k * seconds
<1>1. p \in Int /\ k \in Int /\ g \in Int
  BY Signs
<1>2. Inertial(joint, direction, center, seconds)
        = Point(center, p) + direction * k * seconds + joint.parameters.gravity * seconds
  BY DEF Inertial
<1>3. Inertial(joint, g * direction, Compose(d, center), seconds)
        = Point(Compose(d, center), p) + g * direction * k * seconds
            + joint.parameters.gravity * seconds
  BY DEF Inertial
<1> HIDE DEF p, k, g
<1>4. joint.parameters.gravity * seconds = 0
  OBVIOUS
<1>5. Point(Compose(d, center), p) = Point(d, Point(center, p)) /\ Point(center, p) \in Int
  BY <1>1, MovedFrames, MovedPoints
<1>6. g * direction * k * seconds = g * force /\ force \in Int
  <2>1. \A a, b, c, e \in Int : a * b * c * e = a * (b * c * e) /\ b * c * e \in Int
    OBVIOUS
  <2> QED
    BY <1>1, <2>1
<1> HIDE DEF force
<1>7. Point(d, Point(center, p) + force) = Point(d, Point(center, p)) + g * force
  BY <1>5, <1>6, MovedPoints DEF g
<1>8. Inertial(joint, direction, center, seconds) = Point(center, p) + force
  BY <1>2, <1>4, <1>5, <1>6 DEF force
<1>9. g * force \in Int /\ Point(d, Point(center, p)) \in Int
  BY <1>1, <1>5, <1>6, MovedPoints
<1>10. Inertial(joint, g * direction, Compose(d, center), seconds)
         = Point(d, Point(center, p)) + g * force
  BY <1>3, <1>4, <1>5, <1>6, <1>9
<1> QED
  BY <1>7, <1>8, <1>10 DEF g

\* The values a turn is made of, and the turn.
LEMMA TurnOutcome ==
    ASSUME NEW s, Sound(s), Moving(s), NEW k \in DOMAIN s.joints, NEW animated \in Frames(s),
           NEW here \in Motion, NEW parent, NEW local \in Transform, NEW seconds \in Int,
           NEW direction, direction = here.rotation * Unit(s.joints[k].tail, 0),
           NEW inertial, inertial = Inertial(s.joints[k], direction,
                                             Center(animated, s.joints[k]), seconds),
           NEW first, first = Project(here.translation, inertial, direction,
                                      Magnitude(s.joints[k].tail)),
           NEW next, next = Pushed(s, s.joints[k], animated, here.translation, direction, first),
           NEW v, v = Visit(s, k, here, parent, local, animated, seconds)
    PROVE  /\ direction \in Int /\ inertial \in Int /\ first \in Int /\ next \in Int
           /\ here.translation \in Int
           /\ v.rotation = TurnedRotation(s.joints[k], here, local, direction, next)
           /\ v.world = Compose(parent, Rotated(local, v.rotation))
<1> DEFINE joint == s.joints[k]
<1>1. animated \in [Skeleton(s.rig) -> Transform]
  BY DEF Frames
<1>2. SoundJoint(s.rig, joint) /\ Unit(joint.tail, 0) \in {-1, 1} /\ Magnitude(joint.tail) \in Int
  BY JointTypes
<1>3. here.rotation \in {-1, 1} /\ here.translation \in Int
  BY Signs
<1>4. direction \in Int
  <2> HIDE DEF joint
  <2> QED
    BY <1>2, <1>3 DEF joint
<1>5. Center(animated, joint) \in Transform
  BY <1>1, CenterType
<1>6. inertial \in Int
  BY <1>4, <1>5, InertialType
<1> HIDE DEF joint
<1>7. first \in Int
  BY <1>2, <1>3, <1>4, <1>6, ProjectType DEF joint
<1>8. next \in Int
  <2>1. PICK f : PushSequence(s, joint, animated, here.translation, direction, first, f)
    BY <1>1, <1>2, <1>3, <1>4, <1>7, PushSequenceExists
  <2>2. Len(joint.colliders) \in Nat
    BY <1>2 DEF SoundJoint
  <2> QED
    <3>1. next = f[Len(joint.colliders)]
      BY <2>1 DEF PushSequence, joint
    <3>2. f \in [0 .. Len(joint.colliders) -> Int]
      BY <2>1 DEF PushSequence
    <3>3. f[Len(joint.colliders)] \in Int
      BY <2>2, <3>2
    <3> QED
      BY <3>1, <3>3
<1>9. v = Turning(joint, here, parent, local, Center(animated, joint), direction, inertial, next)
  <2>1. k # 0
    BY SoundIndices
  <2> QED
    BY <2>1 DEF Visit, Integrate, Integrated, joint
<1>10. /\ v.rotation = TurnedRotation(joint, here, local, direction, next)
       /\ v.world = Compose(parent, Rotated(local, v.rotation))
  <2> DEFINE center == Center(animated, joint)
  <2>1. v = Turning(joint, here, parent, local, center, direction, inertial, next)
    BY <1>9
  <2> HIDE DEF joint, center
  <2> QED
    BY ONLY <2>1, TurningFrame, local \in Transform
<1> QED
  BY <1>3, <1>4, <1>6, <1>7, <1>8, <1>10 DEF joint

\* A centred joint turns in the moved model as it did in the model.
LEMMA MovedTurn ==
    ASSUME NEW s, Sound(s), Moving(s), Centred(s), NEW d \in Motion,
           NEW animated \in Frames(s), NEW moved \in Frames(s), Carried(s, d, animated, moved),
           NEW k \in DOMAIN s.joints, NEW here \in Motion, NEW parent, NEW parent2,
           NEW local \in Transform, NEW seconds \in Int,
           NEW v, v = Visit(s, k, here, parent, local, animated, seconds),
           NEW v2, v2 = Visit(s, k, Compose(d, here), parent2, local, moved, seconds)
    PROVE  /\ v2.rotation = v.rotation
           /\ v.world = Compose(parent, Rotated(local, v.rotation))
           /\ v2.world = Compose(parent2, Rotated(local, v2.rotation))
<1> DEFINE joint == s.joints[k]
           g == d.rotation
           u == Unit(joint.tail, 0)
           length == Magnitude(joint.tail)
           head == here.translation
           direction == here.rotation * u
           inertial == Inertial(joint, direction, Center(animated, joint), seconds)
           first == Project(head, inertial, direction, length)
           next == Pushed(s, joint, animated, head, direction, first)
           here2 == Compose(d, here)
           head2 == here2.translation
           direction2 == here2.rotation * u
           inertial2 == Inertial(joint, direction2, Center(moved, joint), seconds)
           first2 == Project(head2, inertial2, direction2, length)
           next2 == Pushed(s, joint, moved, head2, direction2, first2)
<1>1. here2 \in Motion
  <2>1. 0 \in Int
    OBVIOUS
  <2> QED
    BY <2>1, MovedFrames
<1>2. /\ direction \in Int /\ inertial \in Int /\ first \in Int /\ next \in Int /\ head \in Int
      /\ v.rotation = TurnedRotation(joint, here, local, direction, next)
      /\ v.world = Compose(parent, Rotated(local, v.rotation))
  BY TurnOutcome
<1>3. /\ v2.rotation = TurnedRotation(joint, here2, local, direction2, next2)
      /\ v2.world = Compose(parent2, Rotated(local, v2.rotation))
  <2> HIDE DEF here2
  <2>1. v2 = Visit(s, k, here2, parent2, local, moved, seconds)
    BY DEF here2
  <2> QED
    BY <1>1, <2>1, TurnOutcome
<1>4. head2 = Point(d, head) /\ here2.rotation = g * here.rotation
  BY DEF Compose
<1>5. /\ g \in {-1, 1} /\ here.rotation \in {-1, 1} /\ u \in {-1, 1} /\ length \in Int
      /\ SoundJoint(s.rig, joint)
      /\ joint.parameters.drag \in Int /\ joint.parameters.stiffness \in Int
      /\ joint.parameters.gravity = 0 /\ joint.current \in Int /\ joint.previous \in Int
  BY Signs, JointTypes DEF Centred, Moving
<1>6. Center(animated, joint) \in Motion /\ Center(moved, joint) = Compose(d, Center(animated, joint))
  <2>1. joint.center \in Skeleton(s.rig) /\ joint.center # 0
    BY <1>5 DEF Centred, SoundJoint
  <2> QED
    BY <2>1 DEF Center, Frame, Frames, Carried, Motion
<1>7. \A n \in DOMAIN joint.colliders : s.rig.colliders[joint.colliders[n]].joint # 0
  BY DEF Centred
<1> HIDE DEF joint, u, length, head, head2, here2
<1>8. direction2 = g * direction
  <2>1. \A a, b, c \in Int : a * b * c = a * (b * c)
    OBVIOUS
  <2> QED
    BY <1>4, <1>5, <2>1
<1> HIDE DEF direction, direction2
<1>9. inertial2 = Point(d, inertial)
  BY <1>2, <1>5, <1>6, <1>8, MovedInertial
<1> HIDE DEF inertial, inertial2
<1>10. first2 = Point(d, first)
  BY <1>2, <1>4, <1>5, <1>8, <1>9, MovedProject
<1> HIDE DEF first, first2
<1>11. next2 = Point(d, next)
  BY <1>2, <1>4, <1>5, <1>7, <1>8, <1>10, MovedPushed
<1> HIDE DEF next, next2
<1>12. next2 - head2 = g * (next - head)
  BY <1>2, <1>4, <1>11, MovedPoints
<1>13. Unit(next2 - head2, direction2) = g * Unit(next - head, direction)
  <2>1. next - head \in Int
    BY <1>2
  <2> DEFINE x == next - head
  <2> HIDE DEF x
  <2>2. Unit(g * x, g * direction) = g * Unit(x, direction)
    BY <1>2, <2>1, MovedDirections DEF x
  <2> QED
    BY <1>8, <1>12, <2>2 DEF x
<1>14. Unit(next - head, direction) \in Int
  <2>1. next - head \in Int
    BY <1>2
  <2> QED
    BY <1>2, <2>1, LineTypes
<1>15. here2.rotation * Unit(next2 - head2, direction2)
         = here.rotation * Unit(next - head, direction)
  <2> DEFINE w == Unit(next - head, direction)
             h == here.rotation
  <2> HIDE DEF w, h, g
  <2>1. \A y \in Int : 1 * y = y /\ (-1) * y = -y
    OBVIOUS
  <2>2. w \in Int /\ h \in {-1, 1} /\ g \in {-1, 1}
    BY <1>5, <1>14 DEF w, h
  <2>3. (g * h) * (g * w) = h * w
    <3>1. CASE g = 1
      BY <2>2, <3>1
    <3>2. CASE g = -1
      <4>1. g * h = -h /\ g * w = -w
        BY <2>1, <2>2, <3>2
      <4>2. CASE h = 1
        <5>1. (-1) * (-w) = w /\ 1 * w = w
          BY <2>2
        <5> QED
          BY <4>1, <4>2, <5>1
      <4>3. CASE h = -1
        <5>1. 1 * (-w) = -w /\ (-1) * w = -w
          BY <2>2
        <5> QED
          BY <4>1, <4>3, <5>1
      <4> QED
        BY <2>2, <4>2, <4>3
    <3> QED
      BY <2>2, <3>1, <3>2
  <2> QED
    BY <1>4, <1>13, <2>3 DEF w, h
<1>16. v2.rotation = v.rotation
  <2>1. /\ TurnedRotation(joint, here, local, direction, next)
             = local.rotation * FromTo(u, here.rotation * Unit(next - head, direction))
        /\ TurnedRotation(joint, here2, local, direction2, next2)
             = local.rotation * FromTo(u, here2.rotation * Unit(next2 - head2, direction2))
    BY DEF TurnedRotation, u, head, head2
  <2> QED
    BY <1>2, <1>3, <1>15, <2>1
<1> QED
  BY <1>2, <1>3, <1>16

\* So does every joint of the skeleton, driven or not.
LEMMA MovedVisit ==
    ASSUME NEW s, Sound(s), Moving(s), Centred(s), NEW d \in Motion,
           NEW animated \in Frames(s), NEW moved \in Frames(s), Carried(s, d, animated, moved),
           NEW i \in Skeleton(s.rig), NEW parent \in Motion, NEW local \in Motion,
           NEW seconds \in Int,
           NEW v, v = VisitBelow(s, i, parent, local, animated, seconds),
           NEW v2, v2 = VisitBelow(s, i, Compose(d, parent), local, moved, seconds)
    PROVE  v2.rotation = v.rotation /\ v2.world = Compose(d, v.world)
<1> DEFINE k == Turn(s, i)
           here == Compose(parent, local)
           parent2 == Compose(d, parent)
<1>1. local \in Transform /\ here \in Motion
  <2>1. 0 \in Int
    OBVIOUS
  <2> QED
    BY <2>1, Signs, MovedFrames
<1>2. Compose(parent2, local) = Compose(d, here)
  BY <1>1, MovedComposition
<1>3. /\ v = Visit(s, k, here, parent, local, animated, seconds)
      /\ v2 = Visit(s, k, Compose(d, here), parent2, local, moved, seconds)
  BY <1>2 DEF VisitBelow
<1>4. k # 0 => k \in DOMAIN s.joints
  BY EveryJointHasItsTurn
<1> HIDE DEF k
<1>5. CASE k = 0
  BY <1>3, <1>5 DEF Visit
<1>6. CASE k # 0
  <2> HIDE DEF here, parent2
  <2>1. /\ v2.rotation = v.rotation
        /\ v.world = Compose(parent, Rotated(local, v.rotation))
        /\ v2.world = Compose(parent2, Rotated(local, v2.rotation))
    BY <1>1, <1>3, <1>4, <1>6, MovedTurn
  <2>2. v.rotation \in {-1, 1}
    <3>1. animated \in [Skeleton(s.rig) -> Transform]
      BY DEF Frames
    <3>2. /\ parent \in Transform /\ parent.rotation \in {-1, 1}
          /\ local \in Transform /\ local.rotation \in {-1, 1}
      BY Signs
    <3> QED
      BY <3>1, <3>2, VisitBelowFrame
  <2>3. Rotated(local, v.rotation) \in Transform
    BY <2>2, Signs DEF Rotated, Transform
  <2>4. Compose(parent2, Rotated(local, v.rotation))
          = Compose(d, Compose(parent, Rotated(local, v.rotation)))
    BY <2>3, MovedComposition DEF parent2
  <2> QED
    BY <2>1, <2>4
<1> QED
  BY <1>5, <1>6

\* Moving the placement moves every animated frame with it.
LEMMA MovedWorld ==
    ASSUME NEW s, Sound(s), NEW d \in Motion, NEW pose \in AnyPose, NEW moved \in AnyPose,
           ValidPose(s, pose), ValidPose(s, moved), moved.locals = pose.locals,
           moved.placement = Compose(d, pose.placement)
    PROVE  /\ World(s.rig, pose) \in Frames(s) /\ World(s.rig, moved) \in Frames(s)
           /\ Carried(s, d, World(s.rig, pose), World(s.rig, moved))
<1> DEFINE n == Len(s.rig.parents)
           world == World(s.rig, pose)
           w == [i \in Skeleton(s.rig) |-> Compose(d, world[i])]
           above(i) == IF s.rig.parents[i] = 0 THEN pose.placement ELSE world[s.rig.parents[i]]
<1>1. World(s.rig, pose) \in Frames(s) /\ World(s.rig, moved) \in Frames(s)
  BY ValidPoseFrames DEF Frames
<1>2. /\ n \in Nat /\ Skeleton(s.rig) = 1 .. n /\ s.rig \in AnyRig /\ TopologicalSkeleton(s.rig)
      /\ \A i \in 1 .. n : s.rig.parents[i] \in 0 .. i - 1
  BY DEF Sound, AnyRig, TopologicalSkeleton, Skeleton
<1>3. /\ Len(pose.locals) = n /\ Len(moved.locals) = n /\ pose.placement \in Motion
      /\ \A i \in Skeleton(s.rig) : pose.locals[i] \in Transform
  BY ValidPoseFrames DEF Motion
<1>4. \A i \in Skeleton(s.rig) : world[i] = Compose(above(i), pose.locals[i]) /\ world[i] \in Motion
  BY <1>1, <1>2, <1>3, WorldFrames DEF Frames, Motion
<1>5. \A i \in Skeleton(s.rig) : w[i] = Compose(d, world[i])
  OBVIOUS
<1> HIDE DEF n, world, w
<1>6. ASSUME NEW i \in Skeleton(s.rig)
      PROVE  w[i] = Compose(IF s.rig.parents[i] = 0 THEN moved.placement ELSE w[s.rig.parents[i]],
                            moved.locals[i])
  <2>1. s.rig.parents[i] \in {0} \union Skeleton(s.rig)
    BY <1>2, ParentInSkeleton
  <2>2. above(i) \in Motion
    BY <1>3, <1>4, <2>1
  <2>3. (IF s.rig.parents[i] = 0 THEN moved.placement ELSE w[s.rig.parents[i]])
          = Compose(d, above(i))
    BY <1>5, <2>1
  <2> HIDE DEF above
  <2>4. Compose(Compose(d, above(i)), pose.locals[i]) = Compose(d, Compose(above(i), pose.locals[i]))
    BY <1>3, <2>2, MovedComposition
  <2> QED
    BY <1>4, <1>5, <2>3, <2>4
<1>7. \A i \in Skeleton(s.rig) : World(s.rig, moved)[i] = w[i]
  BY <1>2, <1>3, <1>6, ComposedFrames DEF n
<1> QED
  BY <1>1, <1>5, <1>7 DEF Carried, world

\* And the whole solve with it: the rotations are the same.
LEMMA MovedWalk ==
    ASSUME NEW s, Sound(s), Moving(s), Centred(s), NEW d \in Motion,
           NEW pose \in AnyPose, NEW moved \in AnyPose, NEW seconds \in Int,
           ValidPose(s, pose), ValidPose(s, moved), moved.locals = pose.locals,
           moved.placement = Compose(d, pose.placement),
           NEW sim, sim = Simulate(s, pose, seconds), NEW sim2, sim2 = Simulate(s, moved, seconds)
    PROVE  \A i \in Skeleton(s.rig) :
             sim2[i].rotation = sim[i].rotation /\ sim2[i].world = Compose(d, sim[i].world)
<1> DEFINE n == Len(s.rig.parents)
           animated == World(s.rig, pose)
           animated2 == World(s.rig, moved)
           above(i) == IF s.rig.parents[i] = 0 THEN pose.placement
                       ELSE sim[s.rig.parents[i]].world
           above2(i) == IF s.rig.parents[i] = 0 THEN moved.placement
                        ELSE sim2[s.rig.parents[i]].world
           S == {i \in 1 .. n : /\ sim2[i].rotation = sim[i].rotation
                                /\ sim2[i].world = Compose(d, sim[i].world)}
<1>1. /\ animated \in Frames(s) /\ animated2 \in Frames(s) /\ Carried(s, d, animated, animated2)
  BY MovedWorld
<1>2. /\ n \in Nat /\ Skeleton(s.rig) = 1 .. n
      /\ \A i \in 1 .. n : s.rig.parents[i] \in 0 .. i - 1
  BY DEF Sound, AnyRig, TopologicalSkeleton, Skeleton
<1>3. /\ Len(pose.locals) = n /\ Len(moved.locals) = n /\ pose.placement \in Motion
      /\ \A i \in 1 .. n : pose.locals[i] \in Motion
  BY <1>2, ValidPoseFrames DEF Motion
<1>4. \A i \in 1 .. n : sim[i].world \in Motion
  BY <1>2, StepFrames DEF Motion
<1>5. \A i \in 1 .. n : sim[i] = VisitBelow(s, i, above(i), pose.locals[i], animated, seconds)
  <2>1. sim = Walk(s, pose, animated, seconds) /\ animated \in [Skeleton(s.rig) -> Transform]
    BY <1>1 DEF Simulate, Frames
  <2> HIDE DEF animated
  <2>2. Len(pose.locals) = Len(s.rig.parents)
    BY <1>3
  <2>3. \A i \in Skeleton(s.rig) :
          sim[i] = VisitBelow(s, i, IF s.rig.parents[i] = 0 THEN pose.placement
                                    ELSE sim[s.rig.parents[i]].world,
                              pose.locals[i], animated, seconds)
    BY <2>1, <2>2, WalkFrames
  <2> QED
    BY <1>2, <2>3
<1>6. \A i \in 1 .. n : sim2[i] = VisitBelow(s, i, above2(i), pose.locals[i], animated2, seconds)
  <2>1. sim2 = Walk(s, moved, animated2, seconds) /\ animated2 \in [Skeleton(s.rig) -> Transform]
    BY <1>1 DEF Simulate, Frames
  <2> HIDE DEF animated2
  <2>2. Len(moved.locals) = Len(s.rig.parents)
    BY <1>3
  <2>3. \A i \in Skeleton(s.rig) :
          sim2[i] = VisitBelow(s, i, IF s.rig.parents[i] = 0 THEN moved.placement
                                    ELSE sim2[s.rig.parents[i]].world,
                              moved.locals[i], animated2, seconds)
    BY <2>1, <2>2, WalkFrames
  <2> QED
    BY <1>2, <2>3
<1> HIDE DEF n, animated, animated2
<1>7. ASSUME NEW i \in 1 .. n, \A j \in 1 .. i - 1 : j \in S PROVE i \in S
  <2>1. above(i) \in Motion /\ above2(i) = Compose(d, above(i))
    <3>1. CASE s.rig.parents[i] = 0
      BY <1>3, <3>1
    <3>2. CASE s.rig.parents[i] # 0
      <4>1. s.rig.parents[i] \in 1 .. i - 1 /\ s.rig.parents[i] \in 1 .. n
        BY <1>2, <3>2
      <4>2. s.rig.parents[i] \in S
        BY <1>7, <4>1
      <4> QED
        BY <1>4, <3>2, <4>1, <4>2
    <3> QED
      BY <3>1, <3>2
  <2>2. /\ sim[i] = VisitBelow(s, i, above(i), pose.locals[i], animated, seconds)
        /\ sim2[i] = VisitBelow(s, i, Compose(d, above(i)), pose.locals[i], animated2, seconds)
    BY <1>5, <1>6, <2>1
  <2>3. pose.locals[i] \in Motion /\ i \in Skeleton(s.rig)
    BY <1>2, <1>3
  <2> HIDE DEF above, above2
  <2>4. sim2[i].rotation = sim[i].rotation /\ sim2[i].world = Compose(d, sim[i].world)
    BY <1>1, <2>1, <2>2, <2>3, MovedVisit
  <2> QED
    BY <2>4
<1> HIDE DEF S
<1>8. \A i \in 1 .. n : i \in S
  <2>1. 1 \in Nat
    OBVIOUS
  <2> QED
    BY <1>2, <1>7, <2>1, StrongInduction
<1> QED
  BY <1>2, <1>8 DEF S

\* The motion that takes one placement to another.
LEMMA MotionBetween ==
    ASSUME NEW p \in Motion, NEW q \in Motion
    PROVE  \E d \in Motion : q = Compose(d, p)
<1> DEFINE g == q.rotation * p.rotation
           d == [translation |-> q.translation - g * p.translation, rotation |-> g]
<1>1. /\ q.rotation \in {-1, 1} /\ p.rotation \in {-1, 1}
      /\ q.translation \in Int /\ p.translation \in Int
      /\ q = [translation |-> q.translation, rotation |-> q.rotation]
  BY DEF Motion, Transform
<1>2. g \in {-1, 1} /\ g * p.rotation = q.rotation
  BY <1>1
<1> HIDE DEF g
<1>3. g * p.translation \in Int
  BY <1>1, <1>2
<1>4. d \in Motion
  BY <1>1, <1>2, <1>3 DEF Motion, Transform
<1>5. Compose(d, p) = [translation |-> (q.translation - g * p.translation) + g * p.translation,
                       rotation |-> g * p.rotation]
  BY DEF Compose, Point
<1>6. (q.translation - g * p.translation) + g * p.translation = q.translation
  BY <1>1, <1>3
<1>7. Compose(d, p) = q
  BY <1>1, <1>2, <1>5, <1>6
<1> HIDE DEF d
<1> QED
  BY <1>4, <1>7

\* Spec => []CentreHidesPlacement: for every rig whose springs all have centres,
\* every history, pose and duration, where the model is placed does not show in the
\* rotations.
THEOREM CentreAlwaysHidesPlacement == Spec => []CentreHidesPlacement
<1>1. TypeOK /\ HistoryFinite /\ JointsMatchRig /\ RigsHeld => CentreHidesPlacement
  <2> SUFFICES ASSUME TypeOK, HistoryFinite, JointsMatchRig, RigsHeld,
                      NEW c \in Solvers, solver[c].initialized, Centred(solver[c]),
                      NEW pose \in Poses, NEW moved \in Poses, NEW seconds \in Durations,
                      pose.locals = moved.locals, CanStep(solver[c], pose, seconds),
                      CanStep(solver[c], moved, seconds)
               PROVE  StepResult(solver[c], pose, seconds).rotations
                        = StepResult(solver[c], moved, seconds).rotations
    BY DEF CentreHidesPlacement
  <2> DEFINE s == solver[c]
             sim == Simulate(s, pose, seconds)
             sim2 == Simulate(s, moved, seconds)
  <2>1. Sound(s) /\ Moving(s)
    BY SoundCopies DEF TypeOK
  <2>2. /\ pose \in AnyPose /\ moved \in AnyPose /\ seconds \in Int
        /\ ValidPose(s, pose) /\ ValidPose(s, moved) /\ Centred(s)
    BY CallersAssumption DEF CanStep
  <2> HIDE DEF s
  <2>3. pose.placement \in Motion /\ moved.placement \in Motion
    BY <2>1, <2>2, ValidPoseFrames DEF Motion
  <2>4. PICK d \in Motion : moved.placement = Compose(d, pose.placement)
    BY <2>3, MotionBetween
  <2>5. \A i \in Skeleton(s.rig) : sim2[i].rotation = sim[i].rotation
    BY <2>1, <2>2, <2>4, MovedWalk
  <2>6. /\ StepResult(s, pose, seconds).rotations = [i \in Skeleton(s.rig) |-> sim[i].rotation]
        /\ StepResult(s, moved, seconds).rotations = [i \in Skeleton(s.rig) |-> sim2[i].rotation]
    BY DEF StepResult, Report
  <2> HIDE DEF sim, sim2
  <2> QED
    BY <2>5, <2>6 DEF s
<1> QED
  BY <1>1, TypeCorrect, HistoryStaysFinite, JointsAlwaysMatchRig, RigsAreHeld, PTL

=============================================================================
