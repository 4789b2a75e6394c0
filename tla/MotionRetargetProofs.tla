------------------------ MODULE MotionRetargetProofs ------------------------
(***************************************************************************)
(* For every disk, every set of command lines and every number of runs:    *)
(* a bake writes nothing but its report and its output, which is no root   *)
(* layer it read and no layer it replaces before it saves; what it leaves  *)
(* there is its own bake and nothing of a layer before it; the eyes it     *)
(* bakes are where the last gaze of the clip left them; and the face it    *)
(* bakes is the sum of its expressions, each suppressed once.              *)
(* What has to be remembered between OpenOutput's check and Save's write   *)
(* is that the check was passed by the very options Save writes to; between*)
(* Author and the exit, that the layer is this run's and lists this run's  *)
(* samples; between RetargetBody and OpenOutput, whose gaze the poses      *)
(* hold; and from OpenAvatar to the faces, that the rig, the clip and the  *)
(* gaze are of numbers the resolver can add.  The resolver folds over      *)
(* lists in the order they have; the sums of FaceIsArbitratedOnce know no  *)
(* order, so the lemmas on folds and sums come before those on the faces.  *)
(***************************************************************************)
EXTENDS MotionRetarget, Recursion, FiniteSetTheorems

(* Lists *)

\* A function on the numbers up to n is a list of n.
LEMMA Listed ==
    ASSUME NEW n \in Nat, NEW s, s = [i \in 1 .. n |-> s[i]]
    PROVE  IsList(s) /\ Len(s) = n
  <1>1. s \in [1 .. n -> Range(s)]
    BY DEF Range
  <1> QED
    BY <1>1 DEF IsList

\* A list is a function on its places.
LEMMA ListDomain ==
    ASSUME NEW s, IsList(s)
    PROVE  Len(s) \in Nat /\ DOMAIN s = 1 .. Len(s) /\ s = [i \in 1 .. Len(s) |-> s[i]]
  BY DEF IsList

\* A function on the places of a list is a list.
LEMMA SamplesAreList ==
    ASSUME NEW s, IsList(s), NEW t, DOMAIN t = DOMAIN s, t = [i \in DOMAIN t |-> t[i]]
    PROVE  IsList(t)
<1>1. Len(s) \in Nat /\ DOMAIN s = 1 .. Len(s)
  BY ListDomain
<1>2. t = [i \in 1 .. Len(s) |-> t[i]]
  BY <1>1
<1> QED
  BY <1>1, <1>2, Listed

\* The empty list is one.
LEMMA NothingIsList == IsList(<< >>)
  BY DEF IsList, Range

\* What is written over a map stands, and what it does not name stays.
LEMMA Overlay ==
    ASSUME NEW f, NEW g
    PROVE  /\ DOMAIN Over(f, g) = DOMAIN f \cup DOMAIN g
           /\ \A x \in DOMAIN f : Over(f, g)[x] = f[x]
           /\ \A x \in DOMAIN g \ DOMAIN f : Over(f, g)[x] = g[x]
  BY DEF Over

(* The command line *)

\* Everything an option may be set to by some arguments.
Values(words) ==
    {words[i][2] : i \in DOMAIN words} \cup {Default(f) : f \in Flags} \cup {TRUE}

\* Options whose paths reach files, or are not given.
Sound(words) ==
    {o \in [Flags -> Values(words)] :
        /\ \A f \in FileFlags : o[f] \in DOMAIN Files \cup {""}
        /\ o["--resample"] \in Nat}

Reads(words) == [outcome : {"reading", "information", "error"}, options : Sound(words)]

\* A parse starts from sound options.
LEMMA DefaultsAreSound == ASSUME NEW words PROVE DefaultOptions \in Sound(words)
  <1>1. /\ \A f \in FileFlags : Default(f) = "" /\ f \in Flags
        /\ "--resample" \in Flags /\ Default("--resample") = 0
    BY DEF Default, FileFlags, Paths, Flags, ValueFlags, Switches
  <1>2. DefaultOptions \in [Flags -> Values(words)]
    BY DEF DefaultOptions, Values
  <1>3. \A f \in Flags : DefaultOptions[f] = Default(f)
    BY DEF DefaultOptions
  <1>4. DefaultOptions["--resample"] \in Nat
    <2>1. "--resample" \in Flags
      BY <1>1
    <2>2. DefaultOptions["--resample"] = Default("--resample")
      BY <1>3, <2>1
    <2>3. Default("--resample") = 0
      BY <1>1
    <2> QED
      BY <2>2, <2>3
  <1> QED
    BY <1>1, <1>2, <1>3, <1>4 DEF Sound

\* Setting one option to a sound value keeps them sound.
LEMMA SettingStaysSound ==
    ASSUME NEW words, NEW o \in Sound(words), NEW flag \in Flags, NEW v \in Values(words),
           flag \in FileFlags => v \in DOMAIN Files, flag = "--resample" => v \in Nat
    PROVE  [o EXCEPT ![flag] = v] \in Sound(words)
  <1>1. [o EXCEPT ![flag] = v] \in [Flags -> Values(words)]
    BY DEF Sound
  <1>2. FileFlags \subseteq Flags /\ "--resample" \in Flags
    BY DEF FileFlags, Paths, Flags, ValueFlags
  <1>3. \A f \in FileFlags \cup {"--resample"} :
           [o EXCEPT ![flag] = v][f] = IF f = flag THEN v ELSE o[f]
    BY <1>2 DEF Sound
  <1> QED
    BY <1>1, <1>3 DEF Sound

\* Every argument read keeps the options sound.
LEMMA ReadingStaysSound ==
    ASSUME NEW words \in CommandLines, NEW i \in DOMAIN words, NEW r \in Reads(words)
    PROVE  ReadArgument(r, words[i]) \in Reads(words)
  <1> DEFINE flag == words[i][1]
             value == words[i][2]
             given(v) == [r EXCEPT !.options[flag] = v]
             ended(how) == [r EXCEPT !.outcome = how]
  <1>1. r.outcome \in {"reading", "information", "error"} /\ r.options \in Sound(words)
    BY DEF Reads
  <1>2. ASSUME NEW v \in Values(words), flag \in Flags, flag \in FileFlags => v \in DOMAIN Files,
               flag = "--resample" => v \in Nat
        PROVE  given(v) \in Reads(words)
    <2>1. [r.options EXCEPT ![flag] = v] \in Sound(words)
      <3> HIDE DEF flag
      <3> QED
        BY <1>1, <1>2, SettingStaysSound
    <2>2. given(v) = [outcome |-> r.outcome, options |-> [r.options EXCEPT ![flag] = v]]
      BY DEF Reads
    <2> QED
      BY <1>1, <2>1, <2>2 DEF Reads
  <1>3. ended("information") \in Reads(words) /\ ended("error") \in Reads(words)
    BY DEF Reads
  <1>4. value \in Values(words) /\ TRUE \in Values(words)
    BY DEF Values
  <1>5. /\ flag \in FileFlags /\ Takes(flag, value) => value \in DOMAIN Files
        /\ flag = "--resample" /\ Takes(flag, value) => value \in Nat
    BY CommandLinesAssumption DEF Takes
  <1>6. /\ Switches \cap FileFlags = {} /\ "--resample" \notin Switches
        /\ Switches \subseteq Flags /\ ValueFlags \subseteq Flags
    BY DEF Switches, FileFlags, Paths, Flags
  <1>7. \/ ReadArgument(r, words[i]) = r
        \/ ReadArgument(r, words[i]) \in {ended("information"), ended("error")}
        \/ flag \in Switches /\ ReadArgument(r, words[i]) = given(TRUE)
        \/ flag \in ValueFlags /\ Takes(flag, value) /\ ReadArgument(r, words[i]) = given(value)
    BY DEF ReadArgument
  <1> HIDE DEF flag, value, given, ended
  <1> QED
    BY <1>2, <1>3, <1>4, <1>5, <1>6, <1>7

\* What is parsed from a command line is sound, and complete where the run goes on.
LEMMA ParsedOptions ==
    ASSUME NEW words \in CommandLines
    PROVE  /\ ParseOptions(words).options \in Sound(words)
           /\ ParseOptions(words).outcome \in {"run", "information", "error"}
           /\ ParseOptions(words).outcome = "run" => Complete(ParseOptions(words).options)
  <1> DEFINE n == Len(words)
             V == Reads(words)
             first == [outcome |-> "reading", options |-> DefaultOptions]
             Fits(g) == g = [i \in 0 .. Len(words) |->
                                IF i = 0 THEN [outcome |-> "reading", options |-> DefaultOptions]
                                ELSE ReadArgument(g[i - 1], words[i])]
             w == CHOOSE g : Fits(g)
  <1>1. n \in Nat /\ DOMAIN words = 1 .. n
    BY CommandLinesAssumption
  <1>2. ParseOptions(words) =
            IF w[n].outcome # "reading" THEN w[n]
            ELSE [w[n] EXCEPT !.outcome = IF Complete(w[n].options) THEN "run" ELSE "error"]
    BY DEF ParseOptions
  <1>3. first \in V
    BY DefaultsAreSound DEF Reads
  <1>4. \A i \in 1 .. n : \A r \in V : ReadArgument(r, words[i]) \in V
    BY <1>1, ReadingStaysSound
  <1> HIDE DEF n, V
  <1>5. \E f \in [0 .. n -> V] : Fits(f)
    <2> DEFINE G == [i \in 1 .. n |-> [r \in V |-> ReadArgument(r, words[i])]]
    <2>1. Steps(n, V, G)
      <3>1. \A i \in 1 .. n : [r \in V |-> ReadArgument(r, words[i])] \in [V -> V]
        BY <1>4
      <3> QED
        BY <3>1 DEF Steps
    <2>2. \A i \in 1 .. n : \A r \in V : G[i][r] = ReadArgument(r, words[i])
      OBVIOUS
    <2> HIDE DEF G, first
    <2>3. PICK f \in [0 .. n -> V] : Iterates(n, first, G, f)
      BY <1>1, <1>3, <2>1, Iteration
    <2>4. ASSUME NEW i \in 1 .. n PROVE f[i] = ReadArgument(f[i - 1], words[i])
      <3>1. i - 1 \in 0 .. n
        BY <1>1
      <3> QED
        BY <2>2, <2>3, <3>1 DEF Iterates
    <2>5. f = [i \in 0 .. n |-> IF i = 0 THEN first ELSE ReadArgument(f[i - 1], words[i])]
      <3>1. f = [i \in 0 .. n |-> f[i]]
        OBVIOUS
      <3>2. \A i \in 0 .. n : f[i] = IF i = 0 THEN first ELSE ReadArgument(f[i - 1], words[i])
        BY <1>1, <2>3, <2>4 DEF Iterates
      <3> QED
        BY <3>1, <3>2
    <2> QED
      BY <2>5 DEF n, first
  <1>6. Fits(w)
    <2> HIDE DEF Fits
    <2> QED
      BY <1>5
  <1> HIDE DEF w
  <1>7. w[n] \in V
    <2> DEFINE S == {i \in 0 .. n : w[i] \in V}
    <2>1. w[0] = first /\ \A i \in 1 .. n : w[i] = ReadArgument(w[i - 1], words[i])
      BY <1>1, <1>6 DEF n
    <2>2. ASSUME NEW i \in 0 .. n, \A j \in 0 .. i - 1 : j \in S PROVE i \in S
      <3>1. i # 0 => i - 1 \in 0 .. i - 1 /\ i \in 1 .. n
        OBVIOUS
      <3> QED
        BY <1>3, <1>4, <2>1, <2>2, <3>1
    <2> HIDE DEF S
    <2>3. \A i \in 0 .. n : i \in S
      BY <1>1, <2>2, StrongInduction
    <2> QED
      BY <1>1, <2>3 DEF S
  <1>8. w[n].outcome \in {"reading", "information", "error"} /\ w[n].options \in Sound(words)
        /\ w[n] = [outcome |-> w[n].outcome, options |-> w[n].options]
    BY <1>7 DEF V, Reads
  <1> QED
    BY <1>2, <1>8

(* The clip's poses *)

\* A list of poses, each at some tick.
Timed(samples) ==
    /\ IsList(samples) /\ Len(samples) # 0
    /\ \A i \in DOMAIN samples : samples[i].timestamp \in Int

\* A clip that is not refused is a semantic stage, and has a pose at every tick of its tracks.
LEMMA ClipIsRead ==
    ASSUME NEW file, IsInput(file), NEW named, ReadClip(file, named).code = 0
    PROVE  /\ Opens(file) /\ file.semantic
           /\ PoseTimes(file) \in SUBSET Int /\ IsFiniteSet(PoseTimes(file))
           /\ ReadClip(file, named).samples =
                  [i \in DOMAIN InOrder(PoseTimes(file)) |->
                      Pose(file, InOrder(PoseTimes(file))[i])]
  <1> DEFINE times == InOrder(PoseTimes(file))
             samples == [i \in DOMAIN times |-> Pose(file, times[i])]
             found == FindSkeleton(file.skeletons, named, UnsupportedSourceFeature)
  <1>1. ClipRefusal(file, found) = 0 /\ ReadClip(file, named).samples = samples
    <2> HIDE DEF found
    <2>1. CASE ClipRefusal(file, found) # 0
      BY <2>1 DEF ReadClip, found
    <2>2. CASE ClipRefusal(file, found) = 0
      BY <2>2 DEF ReadClip, found
    <2> QED
      BY <2>1, <2>2
  <1>2. Opens(file) /\ file.semantic
    <2> HIDE DEF found
    <2>1. FailToOpen(file) # 0
      BY DEF FailToOpen, StageFailure, InvalidUserInput
    <2>2. Opens(file)
      BY <1>1, <2>1 DEF ClipRefusal
    <2>3. UnsupportedSourceFeature # 0
      BY DEF UnsupportedSourceFeature
    <2>4. file.semantic
      BY <1>1, <2>2, <2>3 DEF ClipRefusal
    <2> QED
      BY <2>2, <2>4
  <1>3. PoseTimes(file) \in SUBSET Int /\ IsFiniteSet(PoseTimes(file))
    BY <1>2 DEF IsInput
  <1> QED
    BY <1>1, <1>2, <1>3

\* A clip that is not refused has a pose at every tick of its tracks, and one at least.
LEMMA ReadClipIsTimed ==
    ASSUME NEW file, IsInput(file), NEW named, ReadClip(file, named).code = 0
    PROVE  Timed(ReadClip(file, named).samples)
  <1> DEFINE times == InOrder(PoseTimes(file))
             samples == [i \in DOMAIN times |-> Pose(file, times[i])]
  <1>1. ReadClip(file, named).samples = samples
    BY ClipIsRead
  <1>2. PoseTimes(file) \in SUBSET Int /\ IsFiniteSet(PoseTimes(file))
    BY ClipIsRead
  <1>3. /\ IsList(times) /\ Len(times) = Cardinality(PoseTimes(file))
        /\ \A i \in 1 .. Cardinality(PoseTimes(file)) : times[i] \in PoseTimes(file)
    <2>1. /\ Cardinality(PoseTimes(file)) \in Nat
          /\ times \in [1 .. Cardinality(PoseTimes(file)) -> PoseTimes(file)]
      BY <1>2, InOrderLists
    <2> HIDE DEF times
    <2> QED
      BY <2>1, Listed
  <1>4. \A t : Pose(file, t).timestamp = t
    BY DEF Pose
  <1> HIDE DEF times
  <1>5. Len(times) \in Nat /\ DOMAIN times = 1 .. Len(times)
    BY <1>3, ListDomain
  <1>6. samples = [i \in 1 .. Len(times) |-> samples[i]] /\ DOMAIN samples = 1 .. Len(times)
    BY <1>5
  <1>7. \A i \in DOMAIN samples : samples[i].timestamp = times[i]
    BY <1>4
  <1> HIDE DEF samples
  <1>8. IsList(samples) /\ Len(samples) = Len(times)
    BY <1>5, <1>6, Listed
  <1>9. PoseTimes(file) # {}
    BY DEF PoseTimes, LibraryTimes
  <1>10. Cardinality(PoseTimes(file)) # 0
    BY <1>2, <1>9, FS_EmptySet
  <1> QED
    BY <1>1, <1>2, <1>3, <1>6, <1>7, <1>8, <1>10 DEF Timed

\* Resampling gives a list, the ends of the clip in whatever order.
LEMMA ResampleIsList ==
    ASSUME NEW samples, Timed(samples), NEW step \in Int, step > 0
    PROVE  IsList(Resample(samples, step))
  <1> DEFINE first == samples[1].timestamp
             last == samples[Len(samples)].timestamp
             n == (last - first) \div step + 1
             r == Resample(samples, step)
  <1>1. Len(samples) \in Nat /\ DOMAIN samples = 1 .. Len(samples)
    BY ListDomain DEF Timed
  <1>2. Len(samples) # 0
    BY DEF Timed
  <1>3. first \in Int /\ last \in Int
    BY <1>1, <1>2 DEF Timed
  <1>4. n \in Int
    <2> HIDE DEF first, last
    <2>1. \A a \in Int : a \div step \in Int
      OBVIOUS
    <2>2. last - first \in Int
      BY <1>3
    <2> QED
      BY <2>1, <2>2
  <1>5. DOMAIN r = 1 .. n
    BY DEF Resample, Last
  <1>6. r = [i \in DOMAIN r |-> r[i]]
    BY DEF Resample
  <1> HIDE DEF n, r
  <1>7. PICK m \in Nat : 1 .. n = 1 .. m
    <2>1. CASE n >= 0
      BY <1>4, <2>1
    <2>2. CASE n < 0
      BY <1>4, <2>2
    <2> QED
      BY <1>4, <2>1, <2>2
  <1>8. r = [i \in 1 .. m |-> r[i]]
    BY <1>5, <1>6, <1>7
  <1>9. IsList(r)
    BY <1>8, Listed
  <1> QED
    BY <1>9 DEF r

(* The last of a run of samples *)

\* k is the last number up to i in S, or 0.
IsLast(k, i, S) ==
    \/ k \in (1 .. i) \cap S /\ \A m \in k + 1 .. i : m \notin S
    \/ k = 0 /\ \A m \in 1 .. i : m \notin S

\* The largest number up to i in a set, 0 standing for none, is the last.
LEMMA LastOf ==
    ASSUME NEW i \in Nat, NEW S
    PROVE  IsLast(Max({0} \cup ((1 .. i) \cap S)), i, S)
  <1> DEFINE T == {0} \cup ((1 .. i) \cap S)
             U == {i - k : k \in T}
  <1>1. T \in SUBSET (0 .. i) /\ 0 \in T
    OBVIOUS
  <1> HIDE DEF T
  <1>2. U \in SUBSET Nat /\ U # {}
    BY <1>1
  <1>3. PICK m \in U : \A k \in U : m <= k
    BY <1>2, LeastMember
  <1>4. PICK x \in T : m = i - x
    BY <1>3
  <1>5. \A y \in T : x >= y
    <2> SUFFICES ASSUME NEW y \in T PROVE x >= y
      OBVIOUS
    <2>1. m <= i - y
      BY <1>3
    <2> QED
      BY <1>1, <1>4, <2>1
  <1>6. Max(T) \in T /\ \A y \in T : Max(T) >= y
    BY <1>5 DEF Max
  <1>7. Max(T) \in 0 .. i
    BY <1>1, <1>6
  <1> DEFINE k == Max(T)
  <1> HIDE DEF k
  <1>8. ASSUME NEW m_1 \in 1 .. i, m_1 \in S PROVE m_1 <= k
    BY <1>6, <1>8 DEF T, k
  <1>9. k = 0 \/ k \in (1 .. i) \cap S
    BY <1>6 DEF T, k
  <1>10. k \in 0 .. i
    BY <1>7 DEF k
  <1>11. IsLast(k, i, S)
    <2>1. \A j \in k + 1 .. i : j \notin S
      <3> SUFFICES ASSUME NEW j \in k + 1 .. i, j \in S PROVE FALSE
        OBVIOUS
      <3>1. j \in 1 .. i /\ ~(j <= k)
        BY <1>10
      <3> QED
        BY <1>8, <3>1
    <2> QED
      BY <1>9, <2>1 DEF IsLast
  <1> QED
    BY <1>11 DEF T, k

\* One more sample: the last is the new one, or the last before.
LEMMA LastSteps ==
    ASSUME NEW i \in Nat \ {0}, NEW S, NEW k, IsLast(k, i, S)
    PROVE  IF i \in S THEN k = i ELSE IsLast(k, i - 1, S)
  <1>1. CASE i \in S
    <2>1. k # 0
      BY <1>1 DEF IsLast
    <2>2. k \in 1 .. i /\ \A m \in k + 1 .. i : m \notin S
      BY <2>1 DEF IsLast
    <2>3. ~(i \in k + 1 .. i)
      BY <1>1, <2>2
    <2> QED
      BY <1>1, <2>2, <2>3
  <1>2. CASE i \notin S
    <2>1. CASE k = 0
      BY <2>1, <1>2 DEF IsLast
    <2>2. CASE k # 0
      <3>1. k \in (1 .. i) \cap S /\ \A m \in k + 1 .. i : m \notin S
        BY <2>2 DEF IsLast
      <3>2. k # i
        BY <1>2, <3>1
      <3>3. k \in (1 .. i - 1) \cap S /\ \A m \in k + 1 .. i - 1 : m \notin S
        BY <3>1, <3>2
      <3> QED
        BY <1>2, <3>3 DEF IsLast
    <2> QED
      BY <2>1, <2>2
  <1> QED
    BY <1>1, <1>2

\* There is one last.
LEMMA LastIsOne ==
    ASSUME NEW i \in Nat, NEW S, NEW k, NEW m, IsLast(k, i, S), IsLast(m, i, S)
    PROVE  k = m
  <1>1. \A x, y : IsLast(x, i, S) /\ IsLast(y, i, S) /\ x # 0 /\ y # 0 => ~(x < y)
    <2> SUFFICES ASSUME NEW x, NEW y, IsLast(x, i, S), IsLast(y, i, S), x # 0, y # 0, x < y
                 PROVE  FALSE
      OBVIOUS
    <2>1. x \in 1 .. i /\ y \in 1 .. i /\ y \in S /\ \A j \in x + 1 .. i : j \notin S
      BY DEF IsLast
    <2>2. y \in x + 1 .. i
      BY <2>1
    <2> QED
      BY <2>1, <2>2
  <1>2. k \in 0 .. i /\ m \in 0 .. i
    BY DEF IsLast
  <1>3. k = 0 <=> m = 0
    BY DEF IsLast
  <1> QED
    BY <1>1, <1>2, <1>3

\* The last is the new one, or else the last before.
LEMMA LastGrows ==
    ASSUME NEW i \in Nat \ {0}, NEW S
    PROVE  /\ i \in S => IsLast(i, i, S)
           /\ \A k : i \notin S /\ IsLast(k, i - 1, S) => IsLast(k, i, S)
  <1>1. i \in S => IsLast(i, i, S)
    BY DEF IsLast
  <1>2. ASSUME NEW k, i \notin S, IsLast(k, i - 1, S) PROVE IsLast(k, i, S)
    <2>1. \A j \in k + 1 .. i : j = i \/ j \in k + 1 .. i - 1
      BY <1>2 DEF IsLast
    <2>2. \A j \in 1 .. i : j = i \/ j \in 1 .. i - 1
      OBVIOUS
    <2>3. \A j \in 1 .. i - 1 : j \in 1 .. i
      OBVIOUS
    <2> QED
      BY <1>2, <2>1, <2>2, <2>3 DEF IsLast
  <1> QED
    BY <1>1, <1>2

\* The samples that say something of a thing are those of its set.
LEMMA LastAmong ==
    ASSUME NEW i \in Nat, NEW S, NEW k, IsLast(k, i, S),
           NEW T, T = (1 .. i) \cap S
    PROVE  Max({0} \cup T) = k
  BY LastOf, LastIsOne

(* The rows of blend-shape weights *)

\* The samples whose face states a weight for a blend shape.
Stating(target) == {k \in DOMAIN expressions : States(target, k)}

\* Rows of a place for each sample, each weight the last a sample up to it stated.
RowsHold(rows) ==
    /\ Len(rows) = Len(expressions) /\ DOMAIN rows = DOMAIN expressions
    /\ \A i \in DOMAIN expressions, t \in Slots :
          \E k : /\ IsLast(k, i, Stating(t))
                 /\ rows[i][t] = IF k = 0 THEN 0 ELSE expressions[k].morphTargets[t]

\* Carrying a value from sample to sample is holding the last one stated.
LEMMA RowsHoldTheLastWeight ==
    ASSUME IsList(expressions)
    PROVE  RowsHold(BlendShapeWeights)
  <1> DEFINE n == Len(expressions)
             W == {0} \cup {expressions[i].morphTargets[t] : i \in 1 .. n, t \in Slots}
             V == [Slots -> W]
             first == [t \in Slots |-> 0]
             next(i, r) == [t \in Slots |-> IF t \in DOMAIN expressions[i].morphTargets
                                            THEN expressions[i].morphTargets[t] ELSE r[t]]
             Fits(g) == g = [i \in 0 .. Len(expressions) |->
                                [t \in Slots |->
                                    IF i = 0 THEN 0
                                    ELSE IF t \in DOMAIN expressions[i].morphTargets
                                    THEN expressions[i].morphTargets[t] ELSE g[i - 1][t]]]
             w == CHOOSE g : Fits(g)
  <1>1. n \in Nat /\ DOMAIN expressions = 1 .. n
    BY ListDomain
  <1>2. BlendShapeWeights = [i \in DOMAIN expressions |-> w[i]]
    BY DEF BlendShapeWeights
  <1>3. first \in V /\ \A i \in 1 .. n : \A r \in V : next(i, r) \in V
    OBVIOUS
  <1>4. \A g : Fits(g) <=> g = [i \in 0 .. n |-> IF i = 0 THEN first ELSE next(i, g[i - 1])]
    <2> SUFFICES ASSUME NEW g
                 PROVE  Fits(g) <=> g = [i \in 0 .. n |-> IF i = 0 THEN first
                                                         ELSE next(i, g[i - 1])]
      OBVIOUS
    <2>1. ASSUME NEW i \in 0 .. n
          PROVE  [t \in Slots |->
                     IF i = 0 THEN 0
                     ELSE IF t \in DOMAIN expressions[i].morphTargets
                     THEN expressions[i].morphTargets[t] ELSE g[i - 1][t]]
                 = IF i = 0 THEN first ELSE next(i, g[i - 1])
      <3>1. CASE i = 0
        BY <3>1
      <3>2. CASE i # 0
        BY <3>2
      <3> QED
        BY <3>1, <3>2
    <2>2. [i \in 0 .. n |->
              [t \in Slots |->
                  IF i = 0 THEN 0
                  ELSE IF t \in DOMAIN expressions[i].morphTargets
                  THEN expressions[i].morphTargets[t] ELSE g[i - 1][t]]]
          = [i \in 0 .. n |-> IF i = 0 THEN first ELSE next(i, g[i - 1])]
      <3> HIDE DEF first, next
      <3> QED
        BY <2>1
    <2> HIDE DEF first, next
    <2> QED
      BY <2>2
  <1>5. \A i \in 1 .. n, r \in V, t \in Slots :
           next(i, r)[t] = IF t \in DOMAIN expressions[i].morphTargets
                           THEN expressions[i].morphTargets[t] ELSE r[t]
    OBVIOUS
  <1>6. \A t \in Slots : first[t] = 0
    OBVIOUS
  <1> HIDE DEF n, V, W, first, next, Fits
  <1>7. \E f : Fits(f)
    <2> DEFINE G == [i \in 1 .. n |-> [r \in V |-> next(i, r)]]
    <2>1. Steps(n, V, G)
      <3>1. \A i \in 1 .. n : [r \in V |-> next(i, r)] \in [V -> V]
        BY <1>3
      <3> QED
        BY <3>1 DEF Steps
    <2>2. \A i \in 1 .. n : \A r \in V : G[i][r] = next(i, r)
      OBVIOUS
    <2> HIDE DEF G
    <2>3. PICK f \in [0 .. n -> V] : Iterates(n, first, G, f)
      BY <1>1, <1>3, <2>1, Iteration
    <2>4. ASSUME NEW i \in 1 .. n PROVE f[i] = next(i, f[i - 1])
      <3>1. i - 1 \in 0 .. n
        BY <1>1
      <3> QED
        BY <2>2, <2>3, <3>1 DEF Iterates
    <2>5. f = [i \in 0 .. n |-> IF i = 0 THEN first ELSE next(i, f[i - 1])]
      <3>1. f = [i \in 0 .. n |-> f[i]]
        OBVIOUS
      <3>2. \A i \in 0 .. n : f[i] = IF i = 0 THEN first ELSE next(i, f[i - 1])
        BY <1>1, <2>3, <2>4 DEF Iterates
      <3> QED
        BY <3>1, <3>2
    <2> QED
      BY <1>4, <2>5
  <1>8. Fits(w)
    BY <1>7
  <1> HIDE DEF w
  <1>9. w = [i \in 0 .. n |-> IF i = 0 THEN first ELSE next(i, w[i - 1])]
    BY <1>4, <1>8
  <1>10. w[0] = first /\ \A i \in 1 .. n : w[i] = next(i, w[i - 1])
    BY <1>1, <1>9
  <1> DEFINE Holds(i) ==
               /\ w[i] \in V
               /\ \A t \in Slots :
                     \E k : /\ IsLast(k, i, Stating(t))
                            /\ w[i][t] = IF k = 0 THEN 0 ELSE expressions[k].morphTargets[t]
             S == {i \in 0 .. n : Holds(i)}
  <1>11. Holds(0)
    <2>1. \A t \in Slots : IsLast(0, 0, Stating(t))
      BY DEF IsLast
    <2> QED
      BY <1>3, <1>6, <1>10, <2>1
  <1>12. ASSUME NEW i \in 1 .. n, Holds(i - 1) PROVE Holds(i)
    <2>1. w[i - 1] \in V /\ w[i] = next(i, w[i - 1]) /\ w[i] \in V
      BY <1>3, <1>10, <1>12
    <2>2. ASSUME NEW t \in Slots
          PROVE  \E k : /\ IsLast(k, i, Stating(t))
                        /\ w[i][t] = IF k = 0 THEN 0 ELSE expressions[k].morphTargets[t]
      <3>1. w[i][t] = IF t \in DOMAIN expressions[i].morphTargets
                      THEN expressions[i].morphTargets[t] ELSE w[i - 1][t]
        BY <1>5, <2>1
      <3>2. i \in Stating(t) <=> t \in DOMAIN expressions[i].morphTargets
        BY <1>1 DEF Stating, States
      <3>3. CASE i \in Stating(t)
        <4>1. IsLast(i, i, Stating(t)) /\ i # 0
          BY <1>1, <3>3 DEF IsLast
        <4> QED
          BY <3>1, <3>2, <3>3, <4>1
      <3>4. CASE i \notin Stating(t)
        <4>1. PICK k : /\ IsLast(k, i - 1, Stating(t))
                       /\ w[i - 1][t] = IF k = 0 THEN 0 ELSE expressions[k].morphTargets[t]
          BY <1>12
        <4>2. IsLast(k, i, Stating(t))
          <5>1. \A j \in k + 1 .. i : j = i \/ j \in k + 1 .. i - 1
            BY <1>1, <4>1 DEF IsLast
          <5>2. \A j \in 1 .. i : j = i \/ j \in 1 .. i - 1
            BY <1>1
          <5>3. \A j \in 1 .. i - 1 : j \in 1 .. i
            BY <1>1
          <5> QED
            BY <3>4, <4>1, <5>1, <5>2, <5>3 DEF IsLast
        <4> QED
          BY <3>1, <3>2, <3>4, <4>1, <4>2
      <3> QED
        BY <3>3, <3>4
    <2> HIDE DEF w
    <2> QED
      BY <2>1, <2>2
  <1> HIDE DEF Holds
  <1>13. \A i \in 0 .. n : i \in S
    <2>1. ASSUME NEW i \in 0 .. n, \A j \in 0 .. i - 1 : j \in S PROVE i \in S
      <3>1. i # 0 => i - 1 \in 0 .. i - 1 /\ i \in 1 .. n
        OBVIOUS
      <3> QED
        BY <1>11, <1>12, <2>1, <3>1
    <2> HIDE DEF S
    <2> QED
      BY <1>1, <2>1, StrongInduction
  <1>14. BlendShapeWeights = [i \in 1 .. n |-> w[i]]
    BY <1>1, <1>2
  <1>15. /\ DOMAIN BlendShapeWeights = 1 .. n
         /\ \A i \in 1 .. n : BlendShapeWeights[i] = w[i]
    BY <1>14
  <1>16. IsList(BlendShapeWeights) /\ Len(BlendShapeWeights) = n
    <2>1. BlendShapeWeights = [i \in 1 .. n |-> BlendShapeWeights[i]]
      BY <1>14, <1>15
    <2> QED
      BY <1>1, <2>1, Listed
  <1>17. ASSUME NEW i \in DOMAIN expressions, NEW t \in Slots
         PROVE  \E k : /\ IsLast(k, i, Stating(t))
                       /\ BlendShapeWeights[i][t] =
                             IF k = 0 THEN 0 ELSE expressions[k].morphTargets[t]
    <2>1. i \in 1 .. n /\ i \in 0 .. n
      BY <1>1
    <2>2. Holds(i)
      BY <1>13, <2>1
    <2> QED
      BY <1>15, <2>1, <2>2 DEF Holds
  <1> QED
    BY <1>1, <1>15, <1>16, <1>17 DEF n, RowsHold

(* The gaze held *)

\* The samples whose gaze tells a joint where to point.
Aiming(gazes, token) == {k \in DOMAIN gazes : Told(gazes[k], token) # {}}

\* The rotation the gaze of one sample tells a joint.
Aimed(g, token) == EyeRotation(g.eyeRotations[Max(Told(g, token))])

\* The joints a gaze tells where to point.
ToldBy(g) == {j \in Joints : Told(g, j) # {}}

\* One sample's hold: the joints it tells, over those held before.
LEMMA HoldOf ==
    ASSUME NEW held, NEW g
    PROVE  /\ DOMAIN GazeHold(held, g) = ToldBy(g) \cup DOMAIN held
           /\ \A j \in ToldBy(g) : GazeHold(held, g)[j] = Aimed(g, j)
           /\ \A j \in DOMAIN held : j \notin ToldBy(g) =>
                 GazeHold(held, g)[j] = held[j]
  <1> DEFINE told == [token \in {j \in Joints : Told(g, j) # {}} |->
                         EyeRotation(g.eyeRotations[Max(Told(g, token))])]
  <1>1. GazeHold(held, g) = Over(told, held)
    BY DEF GazeHold
  <1>2. /\ DOMAIN told = ToldBy(g)
        /\ \A j \in ToldBy(g) : told[j] = Aimed(g, j)
    BY DEF Aimed, ToldBy
  <1> HIDE DEF told
  <1>4. /\ DOMAIN Over(told, held) = DOMAIN told \cup DOMAIN held
        /\ \A x \in DOMAIN told : Over(told, held)[x] = told[x]
        /\ \A x \in DOMAIN held \ DOMAIN told : Over(told, held)[x] = held[x]
    BY Overlay
  <1>5. DOMAIN GazeHold(held, g) = ToldBy(g) \cup DOMAIN held
    BY <1>1, <1>2, <1>4
  <1>6. \A j \in ToldBy(g) : GazeHold(held, g)[j] = Aimed(g, j)
    <2> TAKE j \in ToldBy(g)
    <2>1. j \in DOMAIN told
      BY <1>2
    <2>2. Over(told, held)[j] = told[j]
      BY <1>4, <2>1
    <2> QED
      BY <1>1, <1>2, <2>2
  <1>7. \A j \in DOMAIN held : j \notin ToldBy(g) => GazeHold(held, g)[j] = held[j]
    BY <1>1, <1>2, <1>4
  <1> QED
    BY <1>5, <1>6, <1>7

\* What is held is a map.
LEMMA HoldIsMap ==
    ASSUME NEW held, NEW g
    PROVE  \E f : GazeHold(held, g) = [j \in DOMAIN GazeHold(held, g) |-> f[j]]
  <1>1. \A f, h : Over(f, h) = [j \in DOMAIN Over(f, h) |-> Over(f, h)[j]]
    BY DEF Over
  <1>2. \E f, h : GazeHold(held, g) = Over(f, h)
    BY DEF GazeHold
  <1> QED
    BY <1>1, <1>2

\* What is held of a joint after i samples is what the last that told it said.
HoldsLast(gazes, i, held) ==
    /\ DOMAIN held \subseteq Joints
    /\ \A j \in Joints :
          \E k : /\ IsLast(k, i, Aiming(gazes, j))
                 /\ j \in DOMAIN held <=> k # 0
                 /\ k # 0 => held[j] = Aimed(gazes[k], j)

\* Holding the last gaze up to one sample, a further one holds the last up to the next.
LEMMA HoldGoesOn ==
    ASSUME NEW gazes, NEW i \in Nat \ {0}, i \in DOMAIN gazes, NEW held,
           HoldsLast(gazes, i - 1, held)
    PROVE  HoldsLast(gazes, i, GazeHold(held, gazes[i]))
  <1>0. PICK new : new = GazeHold(held, gazes[i])
    OBVIOUS
  <1>1. /\ DOMAIN new = ToldBy(gazes[i]) \cup DOMAIN held
        /\ \A j \in ToldBy(gazes[i]) : new[j] = Aimed(gazes[i], j)
        /\ \A j \in DOMAIN held : j \notin ToldBy(gazes[i]) => new[j] = held[j]
    <2>1. PICK g : g = gazes[i]
      OBVIOUS
    <2>2. /\ DOMAIN GazeHold(held, g) = ToldBy(g) \cup DOMAIN held
          /\ \A j \in ToldBy(g) : GazeHold(held, g)[j] = Aimed(g, j)
          /\ \A j \in DOMAIN held : j \notin ToldBy(g) =>
                GazeHold(held, g)[j] = held[j]
      BY HoldOf
    <2> QED
      BY <1>0, <2>1, <2>2
  <1>2. DOMAIN new \subseteq Joints
    <2>1. ToldBy(gazes[i]) \subseteq Joints
      BY DEF ToldBy
    <2> QED
      BY <1>1, <2>1 DEF HoldsLast
  <1>3. ASSUME NEW j \in Joints
        PROVE  \E k : /\ IsLast(k, i, Aiming(gazes, j))
                      /\ j \in DOMAIN new <=> k # 0
                      /\ k # 0 => new[j] = Aimed(gazes[k], j)
    <2>1. i \in Aiming(gazes, j) <=> j \in ToldBy(gazes[i])
      BY DEF Aiming, ToldBy
    <2>2. CASE i \in Aiming(gazes, j)
      <3>1. IsLast(i, i, Aiming(gazes, j))
        BY <2>2, LastGrows
      <3> QED
        BY <1>1, <2>1, <2>2, <3>1
    <2>3. CASE i \notin Aiming(gazes, j)
      <3>1. PICK k : /\ IsLast(k, i - 1, Aiming(gazes, j))
                     /\ j \in DOMAIN held <=> k # 0
                     /\ k # 0 => held[j] = Aimed(gazes[k], j)
        BY DEF HoldsLast
      <3>2. IsLast(k, i, Aiming(gazes, j))
        BY <2>3, <3>1, LastGrows
      <3>3. j \in DOMAIN new <=> k # 0
        BY <1>1, <2>1, <2>3, <3>1
      <3>4. k # 0 => new[j] = Aimed(gazes[k], j)
        BY <1>1, <2>1, <2>3, <3>1
      <3> QED
        BY <3>2, <3>3, <3>4
    <2> QED
      BY <2>2, <2>3
  <1> QED
    BY <1>0, <1>2, <1>3 DEF HoldsLast

\* The recursion over the samples holds the last gaze up to each.
LEMMA HeldIsLast ==
    ASSUME NEW gazes, IsList(gazes)
    PROVE  \A i \in 0 .. Len(gazes) : HoldsLast(gazes, i, Held(gazes)[i])
  <1> DEFINE n == Len(gazes)
             W == {Aimed(gazes[k], j) : k \in 1 .. n, j \in Joints}
             V == UNION {[T -> W] : T \in SUBSET Joints}
             Fits(g) == g = [i \in 0 .. Len(gazes) |->
                                IF i = 0 THEN NoneHeld ELSE GazeHold(g[i - 1], gazes[i])]
             w == CHOOSE g : Fits(g)
  <1>1. n \in Nat /\ DOMAIN gazes = 1 .. n
    BY ListDomain
  <1>2. Held(gazes) = w
    BY DEF Held
  <1>3. NoneHeld \in V
    <2>1. NoneHeld \in [{} -> W]
      BY DEF NoneHeld
    <2>2. {} \in SUBSET Joints
      OBVIOUS
    <2> HIDE DEF W
    <2> QED
      BY <2>1, <2>2
  <1>4. ASSUME NEW i \in 1 .. n, NEW held \in V PROVE GazeHold(held, gazes[i]) \in V
    <2>0. PICK new : new = GazeHold(held, gazes[i])
      OBVIOUS
    <2>1. PICK T \in SUBSET Joints : held \in [T -> W]
      <3> HIDE DEF W
      <3> QED
        OBVIOUS
    <2>2. /\ DOMAIN new = ToldBy(gazes[i]) \cup DOMAIN held
          /\ \A j \in ToldBy(gazes[i]) : new[j] = Aimed(gazes[i], j)
          /\ \A j \in DOMAIN held : j \notin ToldBy(gazes[i]) => new[j] = held[j]
      <3> HIDE DEF n, W, V, Fits, w
      <3>1. PICK g : g = gazes[i]
        OBVIOUS
      <3>2. /\ DOMAIN GazeHold(held, g) = ToldBy(g) \cup DOMAIN held
            /\ \A j \in ToldBy(g) : GazeHold(held, g)[j] = Aimed(g, j)
            /\ \A j \in DOMAIN held : j \notin ToldBy(g) =>
                  GazeHold(held, g)[j] = held[j]
        BY HoldOf
      <3> QED
        BY <2>0, <3>1, <3>2
    <2>6. new = [j \in DOMAIN new |-> new[j]]
      <3>1. PICK f : new = [j \in DOMAIN new |-> f[j]]
        BY <2>0, HoldIsMap
      <3> QED
        BY <3>1
    <2>3. ToldBy(gazes[i]) \subseteq Joints /\ \A j \in Joints : Aimed(gazes[i], j) \in W
      BY DEF ToldBy
    <2> HIDE DEF W
    <2>4. DOMAIN new \in SUBSET Joints /\ \A j \in DOMAIN new : new[j] \in W
      <3>1. \A j \in T : held[j] \in W /\ j \in Joints /\ j \in DOMAIN held
        BY <2>1
      <3>2. DOMAIN held = T
        BY <2>1
      <3> QED
        BY <2>2, <2>3, <3>1, <3>2
    <2>5. new \in [DOMAIN new -> W]
      BY <2>4, <2>6
    <2> QED
      BY <2>0, <2>4, <2>5
  <1> HIDE DEF n, W, V
  <1>5. \E f : Fits(f)
    <2> DEFINE G == [i \in 1 .. n |-> [held \in V |-> GazeHold(held, gazes[i])]]
    <2>1. Steps(n, V, G)
      <3>1. \A i \in 1 .. n : [held \in V |-> GazeHold(held, gazes[i])] \in [V -> V]
        BY <1>4
      <3> QED
        BY <3>1 DEF Steps
    <2>2. \A i \in 1 .. n : \A held \in V : G[i][held] = GazeHold(held, gazes[i])
      OBVIOUS
    <2> HIDE DEF G
    <2>3. PICK f \in [0 .. n -> V] : Iterates(n, NoneHeld, G, f)
      BY <1>1, <1>3, <2>1, Iteration
    <2>4. ASSUME NEW i \in 1 .. n PROVE f[i] = GazeHold(f[i - 1], gazes[i])
      <3>1. i - 1 \in 0 .. n
        BY <1>1
      <3> QED
        BY <2>2, <2>3, <3>1 DEF Iterates
    <2>5. f = [i \in 0 .. n |-> IF i = 0 THEN NoneHeld ELSE GazeHold(f[i - 1], gazes[i])]
      <3>1. f = [i \in 0 .. n |-> f[i]]
        OBVIOUS
      <3>2. \A i \in 0 .. n : f[i] = IF i = 0 THEN NoneHeld ELSE GazeHold(f[i - 1], gazes[i])
        BY <1>1, <2>3, <2>4 DEF Iterates
      <3> QED
        BY <3>1, <3>2
    <2> QED
      BY <2>5 DEF n
  <1>6. Fits(w)
    <2> HIDE DEF Fits
    <2> QED
      BY <1>5
  <1> HIDE DEF w
  <1>7. w[0] = NoneHeld /\ \A i \in 1 .. n : w[i] = GazeHold(w[i - 1], gazes[i])
    BY <1>1, <1>6 DEF n
  <1> DEFINE S == {i \in 0 .. n : HoldsLast(gazes, i, w[i])}
  <1>8. HoldsLast(gazes, 0, w[0])
    <2>1. DOMAIN w[0] = {}
      BY <1>7 DEF NoneHeld
    <2>2. \A j : IsLast(0, 0, Aiming(gazes, j))
      BY DEF IsLast
    <2> QED
      BY <2>1, <2>2 DEF HoldsLast
  <1>9. ASSUME NEW i \in 0 .. n, \A j \in 0 .. i - 1 : j \in S PROVE i \in S
    <2>1. CASE i = 0
      BY <1>8, <2>1
    <2>2. CASE i # 0
      <3>1. i - 1 \in 0 .. i - 1 /\ i \in 1 .. n /\ i \in Nat \ {0}
        BY <2>2
      <3>2. HoldsLast(gazes, i - 1, w[i - 1])
        BY <1>9, <3>1
      <3>3. HoldsLast(gazes, i, GazeHold(w[i - 1], gazes[i]))
        BY <1>1, <3>1, <3>2, HoldGoesOn
      <3> QED
        BY <1>7, <3>1, <3>3
    <2> QED
      BY <2>1, <2>2
  <1> HIDE DEF S
  <1>10. \A i \in 0 .. n : i \in S
    BY <1>1, <1>9, StrongInduction
  <1> QED
    BY <1>2, <1>10 DEF S, n

\* Poses of the source's samples, with each joint at the last gaze it was told, and
\* before the first where the body's retarget puts it.
EyesHeld(gazes, poses) ==
    /\ IsList(gazes)
    /\ DOMAIN poses = DOMAIN gazes
    /\ \A i \in DOMAIN poses, j \in Joints :
          \E k : /\ IsLast(k, i, Aiming(gazes, j))
                 /\ poses[i].rotations[j] = IF k = 0 THEN Retarget(source[i]).rotations[j]
                                            ELSE Aimed(gazes[k], j)

\* Eyes turned over the body's poses hold the last gaze.
LEMMA EyesAreHeld ==
    ASSUME NEW gazes, IsList(gazes), DOMAIN gazes = DOMAIN source,
           retargeted = [i \in DOMAIN source |-> Retarget(source[i])]
    PROVE  EyesHeld(gazes, ApplyEyeRotations(gazes))
  <1> DEFINE poses == ApplyEyeRotations(gazes)
             n == Len(gazes)
  <1>1. n \in Nat /\ DOMAIN gazes = 1 .. n
    BY ListDomain
  <1>2. DOMAIN poses = DOMAIN gazes
    BY DEF ApplyEyeRotations
  <1>3. ASSUME NEW i \in DOMAIN gazes
        PROVE  poses[i].rotations = Over(Held(gazes)[i], Retarget(source[i]).rotations)
    <2>1. retargeted[i] = Retarget(source[i]) /\ ~(i > n) /\ i \in DOMAIN retargeted
      BY <1>1
    <2>2. poses[i] = [Retarget(source[i]) EXCEPT !.rotations = Over(Held(gazes)[i], @)]
      BY <2>1 DEF ApplyEyeRotations
    <2> QED
      BY <2>2 DEF Retarget
  <1>4. ASSUME NEW i \in DOMAIN gazes, NEW j \in Joints
        PROVE  \E k : /\ IsLast(k, i, Aiming(gazes, j))
                      /\ poses[i].rotations[j] = IF k = 0 THEN Retarget(source[i]).rotations[j]
                                                 ELSE Aimed(gazes[k], j)
    <2>1. DOMAIN Retarget(source[i]).rotations = Joints
      BY DEF Retarget
    <2>2. i \in 0 .. Len(gazes)
      BY <1>1
    <2>3. HoldsLast(gazes, i, Held(gazes)[i])
      BY <2>2, HeldIsLast
    <2>4. PICK k : /\ IsLast(k, i, Aiming(gazes, j))
                   /\ j \in DOMAIN Held(gazes)[i] <=> k # 0
                   /\ k # 0 => Held(gazes)[i][j] = Aimed(gazes[k], j)
      BY <2>3 DEF HoldsLast
    <2>5. PICK held, body : held = Held(gazes)[i] /\ body = Retarget(source[i]).rotations
      OBVIOUS
    <2>6. /\ DOMAIN Over(held, body) = DOMAIN held \cup DOMAIN body
          /\ \A x \in DOMAIN held : Over(held, body)[x] = held[x]
          /\ \A x \in DOMAIN body \ DOMAIN held : Over(held, body)[x] = body[x]
      BY Overlay
    <2>7. poses[i].rotations = Over(held, body)
      BY <1>3, <2>5
    <2> HIDE DEF poses
    <2>8. CASE k = 0
      <3>1. j \in DOMAIN body \ DOMAIN held
        BY <2>1, <2>4, <2>5, <2>8
      <3>2. Over(held, body)[j] = body[j]
        BY <2>6, <3>1
      <3> QED
        BY <2>4, <2>5, <2>7, <2>8, <3>2
    <2>9. CASE k # 0
      <3>1. j \in DOMAIN held
        BY <2>4, <2>5, <2>9
      <3>2. Over(held, body)[j] = held[j]
        BY <2>6, <3>1
      <3> QED
        BY <2>4, <2>5, <2>7, <2>9, <3>2
    <2> QED
      BY <2>8, <2>9
  <1> HIDE DEF poses
  <1> QED
    BY <1>2, <1>4 DEF EyesHeld, poses

(* What a step that leaves its subject alone keeps *)

ThisBake(l) ==
    /\ IsList(expressions)
    /\ DOMAIN l.animations = {options["--animation-name"]}
    /\ RowsHold(l.animations[options["--animation-name"]].blendShapes)
    /\ DOMAIN l.colors = ColorTargets
    /\ l.binding = <<avatar.skeleton.path, options["--animation-name"]>>

\* Of the variables, a bake is judged by the options, the avatar and the faces alone.
LEMMA BakeStays ==
    ASSUME UNCHANGED <<options, avatar, expressions>>, NEW l, ThisBake(l)
    PROVE  ThisBake(l)'
  <1>1. Slots' = Slots
    BY DEF Slots
  <1>2. ColorTargets' = ColorTargets
    BY DEF ColorTargets, ComposedMaterials, Id
  <1>3. \A t : (Stating(t))' = Stating(t)
    BY DEF Stating, States
  <1>4. \A rows : RowsHold(rows) => RowsHold(rows)'
    BY <1>1, <1>3 DEF RowsHold
  <1> QED
    BY <1>2, <1>4 DEF ThisBake

\* Of the variables, the eyes are judged by the avatar and the source alone.
LEMMA EyesStay ==
    ASSUME UNCHANGED <<avatar, source>>, NEW g, NEW r, EyesHeld(g, r)
    PROVE  EyesHeld(g, r)'
  <1>1. Joints' = Joints
    BY DEF Joints
  <1>2. \A h, j : (Aimed(h, j))' = Aimed(h, j)
    BY DEF Aimed, EyeRotation, RestOf, JointIndex
  <1>3. \A i : (Retarget(source[i]))' = Retarget(source[i])
    BY <1>1 DEF Retarget
  <1> QED
    BY <1>1, <1>2, <1>3 DEF EyesHeld

(* What holds along a run *)

\* The process has no exit code until it returns one or is killed.
Running == pc \notin {"return", "exited"} => exit = None

\* The command line the run was started with, and the options it was parsed into.
Parsed ==
    /\ arguments \in CommandLines
    /\ pc \notin {"parse", "exited"} => options \in Sound(arguments) /\ Complete(options)

DiskHasPlaces == DOMAIN disk = {File(p) : p \in DOMAIN Files}

\* The poses and the faces are lists where a step reads them.
Sampled ==
    /\ pc \in {"retarget", "gaze", "face"} => IsList(source)
    /\ pc \in {"open", "author"} => IsList(expressions)

\* The layer holds nothing but this run's bake, and that only once it is authored.
Authored ==
    /\ pc \notin {"save", "return", "exited"} => layer = EmptyLayer
    /\ pc = "save" => ThisBake(layer)

\* What a run that succeeded left, until it reports over it.
Saved ==
    (exit = 0 /\ layer # EmptyLayer) =>
        /\ ThisBake(layer)
        /\ \/ disk[File(options["--output"])] = layer
           \/ pc = "exited" /\ ReportsTo(File(options["--output"]))

RunInv == Running /\ Parsed /\ DiskHasPlaces /\ Sampled /\ Authored /\ Saved

\* A first run starts so.
LEMMA InitRuns == Init => RunInv
<1> SUFFICES ASSUME Init PROVE RunInv
  OBVIOUS
<1>1. exit # 0 /\ pc = "parse" /\ exit = None /\ layer = EmptyLayer
  BY WeightAssumption DEF Init, Number
<1>2. Running /\ Sampled /\ Authored /\ Saved
  BY <1>1 DEF Running, Sampled, Authored, Saved
<1>3. Parsed
  BY <1>1 DEF Init, Parsed
<1>4. DOMAIN disk = {File(p) : p \in DOMAIN Files}
  BY DEF Init, FirstDisk
<1> QED
  BY <1>2, <1>3, <1>4 DEF RunInv, DiskHasPlaces

\* The paths of parsed options reach files, and Save's is a place of the disk.
LEMMA PathsReach ==
    ASSUME RunInv, pc \notin {"parse", "exited"}
    PROVE  /\ \A f \in Paths : options[f] \in DOMAIN Files
           /\ options["--resample"] \in Nat
           /\ File(options["--output"]) \in DOMAIN disk
<1>1. options \in Sound(arguments) /\ Complete(options)
  BY DEF RunInv, Parsed
<1>2. \A f \in Paths : options[f] \in DOMAIN Files \cup {""} /\ options[f] # ""
  BY <1>1 DEF Sound, Complete, FileFlags
<1>3. \A f \in Paths : options[f] \in DOMAIN Files
  BY <1>2
<1>4. options["--output"] \in DOMAIN Files
  BY <1>3 DEF Paths
<1>5. options["--resample"] \in Nat
  BY <1>1 DEF Sound
<1> QED
  BY <1>3, <1>4, <1>5 DEF RunInv, DiskHasPlaces

\* A step that keeps the arguments and the disk's places, and at most goes on to a step that
\* has not authored yet, or returns, or exits.
LEMMA BeforeSaving ==
    ASSUME RunInv, pc \notin {"save", "return", "exited"}, layer' = EmptyLayer,
           arguments' = arguments, DOMAIN disk' = DOMAIN disk, Parsed', Sampled',
           \/ pc' \notin {"save", "return", "exited"} /\ exit' = exit
           \/ pc' \in {"return", "exited"}
    PROVE  RunInv'
<1>1. Running'
  BY DEF RunInv, Running
<1>2. Authored'
  BY DEF Authored
<1>3. Saved'
  BY DEF Saved, EmptyLayer
<1>4. DiskHasPlaces'
  BY DEF RunInv, DiskHasPlaces
<1> QED
  BY <1>1, <1>2, <1>3, <1>4 DEF RunInv

\* The parse of the command line, ended by an error, by --help or in options.
LEMMA ParseRuns == RunInv /\ Parse => RunInv'
<1> SUFFICES ASSUME RunInv, Parse PROVE RunInv'
  OBVIOUS
<1> DEFINE parsed == ParseOptions(arguments)
<1>1. /\ pc = "parse" /\ options' = parsed.options /\ arguments' = arguments
      /\ layer' = layer /\ disk' = disk
  BY DEF Parse, baked
<1>2. arguments \in CommandLines /\ layer = EmptyLayer
  BY <1>1 DEF RunInv, Parsed, Authored
<1>3. /\ parsed.options \in Sound(arguments)
      /\ parsed.outcome \in {"run", "information", "error"}
      /\ parsed.outcome = "run" => Complete(parsed.options)
  BY <1>2, ParsedOptions
<1>4. \/ parsed.outcome = "run" /\ pc' = "avatar" /\ exit' = exit
      \/ pc' = "exited"
  <2> HIDE DEF parsed
  <2>1. CASE parsed.outcome = "error"
    BY <2>1 DEF Parse, Exit, parsed
  <2>2. CASE parsed.outcome = "information"
    BY <2>2 DEF Parse, Exit, parsed
  <2>3. CASE parsed.outcome = "run"
    BY <2>3 DEF Parse, Continue, parsed
  <2> QED
    BY <1>3, <2>1, <2>2, <2>3
<1> HIDE DEF parsed
<1>5. Parsed'
  BY <1>1, <1>2, <1>3, <1>4 DEF Parsed, Sound
<1>6. Sampled'
  BY <1>4 DEF Sampled
<1> QED
  BY <1>1, <1>2, <1>4, <1>5, <1>6, BeforeSaving

\* A step between the parse and the save keeps what was parsed.
LEMMA KeepsParsed ==
    ASSUME RunInv, pc \notin {"parse", "exited"}, UNCHANGED <<arguments, options>>
    PROVE  Parsed'
  BY DEF RunInv, Parsed, Complete, Sound

\* Whatever a path opens as, a stage of it has its types.
LEMMA StagesAreInputs ==
    ASSUME NEW path \in DOMAIN Files, NEW file \in Stages(path)
    PROVE  IsInput(file)
<1>1. file \in {Files[path], Unreadable} \cup Rewritten
  BY DEF Stages
<1>2. CASE file = Unreadable
  BY <1>2 DEF Unreadable, IsInput, Opens
<1>3. CASE file \in Range(Files) \cup Rewritten
  BY <1>3, FilesAssumption
<1>4. Files[path] \in Range(Files)
  BY DEF Range
<1> QED
  BY <1>1, <1>2, <1>3, <1>4

\* The avatar read, or refused.
LEMMA AvatarRuns == RunInv /\ OpenAvatar => RunInv'
<1> SUFFICES ASSUME RunInv, OpenAvatar PROVE RunInv'
  OBVIOUS
<1>1. /\ pc = "avatar" /\ UNCHANGED <<arguments, options, layer, disk>>
      /\ \/ pc' = "clip" /\ exit' = exit
         \/ pc' = "return"
  BY DEF OpenAvatar, baked, RefuseOr, Return, Continue
<1>2. layer = EmptyLayer
  BY <1>1 DEF RunInv, Authored
<1>3. Parsed'
  BY <1>1, KeepsParsed
<1>4. Sampled'
  BY <1>1 DEF Sampled
<1> QED
  BY <1>1, <1>2, <1>3, <1>4, BeforeSaving

\* The clip read and resampled, or refused.
LEMMA ClipRuns == RunInv /\ OpenClip => RunInv'
<1> SUFFICES ASSUME RunInv, OpenClip PROVE RunInv'
  OBVIOUS
<1>1. /\ pc = "clip" /\ UNCHANGED <<arguments, options, layer, disk>>
      /\ \/ clip'.code = 0 /\ pc' = "retarget" /\ exit' = exit
         \/ pc' = "return"
  BY DEF OpenClip, baked, RefuseOr, Return, Continue
<1>2. layer = EmptyLayer
  BY <1>1 DEF RunInv, Authored
<1>3. Parsed'
  BY <1>1, KeepsParsed
<1>4. ASSUME clip'.code = 0 PROVE IsList(source')
  <2>1. options["--animation"] \in DOMAIN Files /\ options["--resample"] \in Nat
    BY <1>1, PathsReach DEF Paths
  <2>2. PICK file, named, c :
           IsInput(file) /\ c = ReadClip(file, named) /\ clip' = c
    <3>1. PICK file \in Stages(options["--animation"]) :
             clip' = ReadClip(file, options["--clip-skeleton"])
      BY DEF OpenClip
    <3>2. IsInput(file)
      BY <2>1, StagesAreInputs
    <3> QED
      BY <3>1, <3>2
  <2>3. clip' = c
    BY <2>2
  <2>4. Timed(c.samples)
    BY <1>4, <2>2, <2>3, ReadClipIsTimed
  <2>5. PICK step \in Nat : step = options["--resample"]
    BY <2>1
  <2>6. source' = IF step > 0 THEN Resample(c.samples, step) ELSE c.samples
    BY <1>4, <2>3, <2>5 DEF OpenClip
  <2>7. step > 0 => IsList(Resample(c.samples, step))
    BY <2>4, ResampleIsList
  <2>8. IsList(c.samples)
    BY <2>4 DEF Timed
  <2> QED
    BY <2>6, <2>7, <2>8
<1>5. Sampled'
  BY <1>1, <1>4 DEF Sampled, IsList
<1> QED
  BY <1>1, <1>2, <1>3, <1>5, BeforeSaving

\* The body retargeted, or a root joint refused.
LEMMA BodyRuns == RunInv /\ RetargetBody => RunInv'
<1> SUFFICES ASSUME RunInv, RetargetBody PROVE RunInv'
  OBVIOUS
<1>1. /\ pc = "retarget" /\ UNCHANGED <<arguments, options, source, layer, disk>>
      /\ \/ pc' = "gaze" /\ exit' = exit
         \/ pc' = "return"
  BY DEF RetargetBody, inputs, RefuseOr, Return, Continue
<1>2. layer = EmptyLayer /\ IsList(source)
  BY <1>1 DEF RunInv, Authored, Sampled
<1>3. Parsed'
  BY <1>1, KeepsParsed
<1>4. Sampled'
  BY <1>1, <1>2 DEF Sampled, IsList
<1> QED
  BY <1>1, <1>2, <1>3, <1>4, BeforeSaving

\* The gaze evaluated, or left out.
LEMMA GazeRuns == RunInv /\ EvaluateLookAt => RunInv'
<1> SUFFICES ASSUME RunInv, EvaluateLookAt PROVE RunInv'
  OBVIOUS
<1>1. /\ pc = "gaze" /\ UNCHANGED <<arguments, options, source, layer, disk>>
      /\ pc' = "face" /\ exit' = exit
  BY DEF EvaluateLookAt, inputs, Continue
<1>2. layer = EmptyLayer /\ IsList(source)
  BY <1>1 DEF RunInv, Authored, Sampled
<1>3. Parsed'
  BY <1>1, KeepsParsed
<1>4. Sampled'
  BY <1>1, <1>2 DEF Sampled, IsList
<1> QED
  BY <1>1, <1>2, <1>3, <1>4, BeforeSaving

\* The face resolved, or left out.
LEMMA FaceRuns == RunInv /\ ResolveExpressions => RunInv'
<1> SUFFICES ASSUME RunInv, ResolveExpressions PROVE RunInv'
  OBVIOUS
<1>1. /\ pc = "face" /\ UNCHANGED <<arguments, options, source, layer, disk>>
      /\ pc' = "open" /\ exit' = exit
  BY DEF ResolveExpressions, inputs, Continue
<1>2. layer = EmptyLayer /\ IsList(source)
  BY <1>1 DEF RunInv, Authored, Sampled
<1>3. Parsed'
  BY <1>1, KeepsParsed
<1>4. IsList(expressions')
  <2>1. CASE expressions' = << >>
    BY <2>1, NothingIsList
  <2>2. CASE expressions' # << >>
    <3>1. PICK t : t = expressions'
      OBVIOUS
    <3>2. DOMAIN t = DOMAIN source /\ t = [i \in DOMAIN t |-> t[i]]
      BY <2>2, <3>1 DEF ResolveExpressions
    <3>3. IsList(t)
      BY <1>2, <3>2, SamplesAreList
    <3> QED
      BY <3>1, <3>3
  <2> QED
    BY <2>1, <2>2
<1>5. Sampled'
  BY <1>1, <1>4 DEF Sampled, IsList
<1> QED
  BY <1>1, <1>2, <1>3, <1>5, BeforeSaving

\* The output opened and cleared, or refused.
LEMMA OpenRuns == RunInv /\ OpenOutput => RunInv'
<1> SUFFICES ASSUME RunInv, OpenOutput PROVE RunInv'
  OBVIOUS
<1>1. /\ pc = "open" /\ UNCHANGED <<arguments, options, expressions>>
      /\ \/ pc' = "author" /\ exit' = exit
         \/ pc' = "return"
      /\ DOMAIN disk' = DOMAIN disk
  BY DEF OpenOutput, ClearOutput, CreateOutput, inputs, Return, Continue
<1>2. layer = EmptyLayer /\ IsList(expressions)
  BY <1>1 DEF RunInv, Authored, Sampled
<1>3. layer' = EmptyLayer
  BY <1>2 DEF OpenOutput, ClearOutput, CreateOutput, Cleared
<1>4. Parsed'
  BY <1>1, KeepsParsed
<1>5. Sampled'
  BY <1>1, <1>2 DEF Sampled, IsList
<1> QED
  BY <1>1, <1>2, <1>3, <1>4, <1>5, BeforeSaving

\* What Author authors into an empty layer is this bake.
LEMMA AuthorBakes == RunInv /\ Author => ThisBake(layer')
<1> SUFFICES ASSUME RunInv, Author PROVE ThisBake(layer')
  OBVIOUS
<1>1. layer = EmptyLayer /\ IsList(expressions)
  BY DEF Author, RunInv, Authored, Sampled
<1>2. PICK name, l : name = options["--animation-name"] /\ l = layer'
  OBVIOUS
<1> DEFINE one == [n \in {name} |-> Animation]
<1>3. /\ l.animations = Over(one, layer.animations)
      /\ l.colors = Over(MaterialColors, layer.colors)
      /\ l.binding = <<avatar.skeleton.path, name>>
  BY <1>2 DEF Author
<1>4. DOMAIN layer.animations = {} /\ DOMAIN layer.colors = {}
  BY <1>1 DEF EmptyLayer
<1>5. DOMAIN l.animations = {name} /\ l.animations[name] = Animation
  <2>1. DOMAIN one = {name} /\ one[name] = Animation
    OBVIOUS
  <2> HIDE DEF one
  <2>2. PICK f : f = layer.animations
    OBVIOUS
  <2>3. /\ DOMAIN Over(one, f) = DOMAIN one \cup DOMAIN f
        /\ \A x \in DOMAIN one : Over(one, f)[x] = one[x]
    BY Overlay
  <2> QED
    BY <1>3, <1>4, <2>1, <2>2, <2>3
<1>6. DOMAIN l.colors = ColorTargets
  <2>1. PICK f, g : f = MaterialColors /\ g = layer.colors
    OBVIOUS
  <2>2. DOMAIN f = ColorTargets
    BY <2>1 DEF MaterialColors
  <2>3. DOMAIN Over(f, g) = DOMAIN f \cup DOMAIN g
    BY Overlay
  <2> QED
    BY <1>3, <1>4, <2>1, <2>2, <2>3
<1>7. l.animations[name].blendShapes = BlendShapeWeights
  BY <1>5 DEF Animation
<1>8. RowsHold(BlendShapeWeights)
  BY <1>1, RowsHoldTheLastWeight
<1>9. ThisBake(l)
  BY <1>1, <1>2, <1>3, <1>5, <1>6, <1>7, <1>8 DEF ThisBake
<1> QED
  BY <1>2, <1>9

\* The bake authored into the empty layer, or failed.
LEMMA AuthorRuns == RunInv /\ Author => RunInv'
<1> SUFFICES ASSUME RunInv, Author PROVE RunInv'
  OBVIOUS
<1>1. /\ pc = "author" /\ UNCHANGED <<arguments, options, avatar, expressions, disk>>
      /\ \/ pc' = "save" /\ exit' = exit
         \/ pc' = "return" /\ exit' = OutputAuthoringFailure
  BY DEF Author, inputs, Return, Continue
<1>2. OutputAuthoringFailure # 0 /\ None # 0
  BY WeightAssumption DEF OutputAuthoringFailure, Number
<1>3. Parsed'
  BY <1>1, KeepsParsed
<1>4. Running' /\ Sampled'
  BY <1>1 DEF RunInv, Running, Sampled
<1>5. DiskHasPlaces'
  BY <1>1 DEF RunInv, DiskHasPlaces
<1>6. exit' # 0
  BY <1>1, <1>2 DEF RunInv, Running
<1>7. Saved'
  BY <1>6 DEF Saved
<1>8. Authored'
  <2>1. PICK l : l = layer'
    OBVIOUS
  <2>2. ThisBake(l)
    BY <2>1, AuthorBakes
  <2>3. ThisBake(l)'
    BY <1>1, <2>2, BakeStays
  <2>4. ThisBake(layer)'
    BY <2>1, <2>3 DEF ThisBake, RowsHold
  <2> QED
    BY <1>1, <2>4 DEF Authored
<1> QED
  BY <1>3, <1>4, <1>5, <1>7, <1>8 DEF RunInv

\* The layer saved, or the disk left as it is.
LEMMA SaveRuns == RunInv /\ Save => RunInv'
<1> SUFFICES ASSUME RunInv, Save PROVE RunInv'
  OBVIOUS
<1>1. /\ pc = "save" /\ pc' = "return"
      /\ UNCHANGED <<arguments, options, avatar, expressions, layer>>
      /\ \/ disk' = [disk EXCEPT ![File(options["--output"])] = layer]
         \/ disk' = disk /\ exit' = OutputAuthoringFailure
  BY DEF Save, inputs, baked, Return
<1>2. Running' /\ Sampled' /\ Authored'
  BY <1>1 DEF Running, Sampled, Authored
<1>3. Parsed'
  BY <1>1, KeepsParsed
<1>4. DOMAIN disk' = DOMAIN disk
  BY <1>1
<1>5. DiskHasPlaces'
  BY <1>4 DEF RunInv, DiskHasPlaces
<1>6. Saved'
  <2>1. CASE disk' = disk /\ exit' = OutputAuthoringFailure
    BY <2>1 DEF Saved, OutputAuthoringFailure
  <2>2. CASE disk' = [disk EXCEPT ![File(options["--output"])] = layer]
    <3>1. PICK l : l = layer
      OBVIOUS
    <3>2. ThisBake(l)
      BY <1>1, <3>1 DEF RunInv, Authored
    <3>3. ThisBake(l)'
      BY <1>1, <3>2, BakeStays
    <3>4. ThisBake(layer)'
      BY <1>1, <3>1, <3>3 DEF ThisBake, RowsHold
    <3>5. File(options["--output"]) \in DOMAIN disk
      BY <1>1, PathsReach
    <3>6. disk'[File(options["--output"])] = layer
      BY <2>2, <3>5
    <3>7. (File(options["--output"]))' = File(options["--output"])
      BY <1>1 DEF File
    <3> QED
      BY <1>1, <3>4, <3>6, <3>7 DEF Saved
  <2> QED
    BY <1>1, <2>1, <2>2
<1> QED
  BY <1>2, <1>3, <1>5, <1>6 DEF RunInv

\* The process gone, with or without its report on disk.
LEMMA LeaveRuns == RunInv /\ Leave => RunInv'
<1> SUFFICES ASSUME RunInv, Leave PROVE RunInv'
  OBVIOUS
<1>1. /\ pc = "return" /\ pc' = "exited" /\ WriteLoadReport
      /\ UNCHANGED <<arguments, options, avatar, expressions, layer, exit>>
  BY DEF Leave, inputs, baked, Exit
<1>2. Running' /\ Sampled' /\ Authored'
  BY <1>1 DEF Running, Sampled, Authored
<1>3. Parsed'
  BY <1>1 DEF RunInv, Parsed
<1>4. DiskHasPlaces'
  BY <1>1 DEF RunInv, DiskHasPlaces, WriteLoadReport
<1>5. ASSUME exit = 0, layer # EmptyLayer
      PROVE  /\ ThisBake(layer)'
             /\ \/ disk'[File(options["--output"])] = layer
                \/ ReportsTo(File(options["--output"]))
  <2>1. PICK l : l = layer
    OBVIOUS
  <2>2. ThisBake(l) /\ disk[File(options["--output"])] = layer
    BY <1>1, <1>5, <2>1 DEF RunInv, Saved
  <2>3. ThisBake(l)'
    BY <1>1, <2>2, BakeStays
  <2>4. ThisBake(layer)'
    BY <1>1, <2>1, <2>3 DEF ThisBake, RowsHold
  <2>5. File(options["--output"]) \in DOMAIN disk
    BY <1>1, PathsReach
  <2> QED
    BY <1>1, <2>2, <2>4, <2>5 DEF WriteLoadReport, ReportsTo
<1>6. Saved'
  BY <1>1, <1>5 DEF Saved, EmptyLayer, ReportsTo, File
<1> QED
  BY <1>2, <1>3, <1>4, <1>6 DEF RunInv

\* The process killed.
LEMMA KillRuns == RunInv /\ Kill => RunInv'
<1> SUFFICES ASSUME RunInv, Kill PROVE RunInv'
  OBVIOUS
<1>1. /\ pc' = "exited" /\ exit' = Killed /\ arguments' = arguments
      /\ DOMAIN disk' = DOMAIN disk
  BY DEF Kill, inputs, Exit, WriteLoadReport
<1>2. Running' /\ Sampled' /\ Authored'
  BY <1>1 DEF Running, Sampled, Authored
<1>3. Parsed'
  BY <1>1 DEF RunInv, Parsed
<1>4. DiskHasPlaces'
  BY <1>1 DEF RunInv, DiskHasPlaces
<1>5. Saved'
  BY <1>1 DEF Saved, Killed
<1> QED
  BY <1>2, <1>3, <1>4, <1>5 DEF RunInv

\* A further run over the same disk.
LEMMA NextRunRuns == RunInv /\ NextRun => RunInv'
<1> SUFFICES ASSUME RunInv, NextRun PROVE RunInv'
  OBVIOUS
<1>1. /\ pc' = "parse" /\ arguments' \in CommandLines /\ exit' = None
      /\ layer' = EmptyLayer /\ disk' = disk
  BY DEF NextRun, Start
<1>2. None # 0
  BY WeightAssumption DEF Number
<1>3. Running' /\ Sampled' /\ Authored' /\ Saved' /\ Parsed'
  BY <1>1, <1>2 DEF Running, Sampled, Authored, Saved, Parsed, EmptyLayer
<1>4. DiskHasPlaces'
  BY <1>1 DEF RunInv, DiskHasPlaces
<1> QED
  BY <1>3, <1>4 DEF RunInv

\* A step that leaves everything alone.
LEMMA IdleRuns == RunInv /\ UNCHANGED vars => RunInv'
<1> SUFFICES ASSUME RunInv, UNCHANGED vars PROVE RunInv'
  OBVIOUS
<1>1. UNCHANGED <<pc, arguments, options, avatar, source, expressions, layer, disk, exit>>
  BY DEF vars, inputs, baked
<1>2. Running' /\ Parsed' /\ DiskHasPlaces' /\ Sampled'
  BY <1>1 DEF RunInv, Running, Parsed, Complete, Sound, DiskHasPlaces, Sampled, IsList
<1>3. ThisBake(layer) => ThisBake(layer)'
  <2>1. PICK l : l = layer
    OBVIOUS
  <2> SUFFICES ASSUME ThisBake(l) PROVE ThisBake(layer)'
    BY <2>1
  <2>2. ThisBake(l)'
    BY <1>1, BakeStays
  <2> QED
    BY <1>1, <2>1, <2>2 DEF ThisBake, RowsHold
<1>4. Authored'
  BY <1>1, <1>3 DEF RunInv, Authored, EmptyLayer
<1>5. Saved'
  BY <1>1, <1>3 DEF RunInv, Saved, EmptyLayer, ReportsTo, File
<1> QED
  BY <1>2, <1>4, <1>5 DEF RunInv

\* Every step of the runs keeps it.
LEMMA NextRuns == RunInv /\ [Next]_vars => RunInv'
  BY ParseRuns, AvatarRuns, ClipRuns, BodyRuns, GazeRuns, FaceRuns, OpenRuns, AuthorRuns,
     SaveRuns, LeaveRuns, KillRuns, NextRunRuns, IdleRuns DEF Next, Done

\* The bake a run saved is what OutputIsThisBake says of the disk.
LEMMA SavedIsTheBake == RunInv => OutputIsThisBake
<1> SUFFICES ASSUME RunInv, exit = 0, layer # EmptyLayer,
                    ~(pc = "exited" /\ ReportsTo(File(options["--output"])))
             PROVE  OutputIsThisBake
  BY DEF OutputIsThisBake
<1>1. PICK name, l, rows :
         /\ name = options["--animation-name"] /\ l = layer
         /\ rows = l.animations[name].blendShapes
  OBVIOUS
<1>2. /\ IsList(expressions) /\ DOMAIN l.animations = {name} /\ RowsHold(rows)
      /\ DOMAIN l.colors = ColorTargets /\ l.binding = <<avatar.skeleton.path, name>>
      /\ disk[File(options["--output"])] = l
  BY <1>1 DEF RunInv, Saved, ThisBake
<1>3. DOMAIN expressions = 1 .. Len(expressions) /\ Len(expressions) \in Nat
  BY <1>2, ListDomain
<1>4. ASSUME NEW i \in DOMAIN rows, NEW t \in Slots
      PROVE  rows[i][t] = LET k == Max({0} \cup {n \in 1 .. i : States(t, n)})
                          IN  IF k = 0 THEN 0 ELSE expressions[k].morphTargets[t]
  <2>1. i \in DOMAIN expressions /\ i \in Nat
    BY <1>2, <1>3 DEF RowsHold
  <2>2. PICK k : /\ IsLast(k, i, Stating(t))
                 /\ rows[i][t] = IF k = 0 THEN 0 ELSE expressions[k].morphTargets[t]
    BY <1>2, <2>1 DEF RowsHold
  <2> DEFINE T == {n \in 1 .. i : States(t, n)}
  <2>3. T = (1 .. i) \cap Stating(t)
    BY <1>3, <2>1 DEF Stating
  <2> HIDE DEF T
  <2>4. Max({0} \cup T) = k
    BY <2>1, <2>2, <2>3, LastAmong
  <2> QED
    BY <2>2, <2>4 DEF T
<1>5. Len(rows) = Len(expressions)
  BY <1>2 DEF RowsHold
<1>6. PICK saved : saved = disk[File(options["--output"])]
  OBVIOUS
<1>7. saved.animations[name].blendShapes = rows
  BY <1>1, <1>2, <1>6
<1>8. /\ DOMAIN saved.animations = {name}
      /\ saved.binding = <<avatar.skeleton.path, name>>
      /\ DOMAIN saved.colors = ColorTargets
  BY <1>2, <1>6
<1> QED
  BY <1>1, <1>4, <1>5, <1>6, <1>7, <1>8 DEF OutputIsThisBake, LastWith

\* Whatever lay at the output, whoever was killed before and however many runs it is: a run
\* that exits 0 leaves there its own animation alone, bound to its own skeleton, with every
\* blend shape at the last weight a sample stated (Clear, AuthorBlendShapeWeights, Save).
THEOREM EveryOutputIsItsBake == Spec => []OutputIsThisBake
  BY InitRuns, NextRuns, SavedIsTheBake, PTL DEF Spec

(* What holds of the eyes *)

\* The body's poses before the eyes are turned, and the eyes held once they are.
EyesInv ==
    /\ pc = "gaze" => retargeted = [i \in DOMAIN source |-> Retarget(source[i])]
    /\ (pc \in {"face", "open"} /\ gaze # << >> /\ ~GazeDrivesExpressions) =>
           EyesHeld(gaze, retargeted)

\* The body's poses, before any eye is turned.
LEMMA BodyTurns == RetargetBody => EyesInv'
<1> SUFFICES ASSUME RetargetBody PROVE EyesInv'
  OBVIOUS
<1>1. /\ UNCHANGED <<source, avatar>> /\ pc' \notin {"face", "open"}
      /\ pc' = "gaze" => retargeted' = [i \in DOMAIN source |-> Retarget(source[i])]
  BY DEF RetargetBody, inputs, RefuseOr, Return, Continue
<1>2. \A i : (Retarget(source[i]))' = Retarget(source[i])
  BY <1>1 DEF Retarget, Joints
<1>3. pc' = "gaze" => retargeted' = [i \in DOMAIN source' |-> (Retarget(source[i]))']
  BY <1>1, <1>2
<1> QED
  BY <1>1, <1>3 DEF EyesInv

\* The eyes turned by the whole gaze.
LEMMA GazeTurns == RunInv /\ EyesInv /\ EvaluateLookAt => EyesInv'
<1> SUFFICES ASSUME RunInv, EyesInv, EvaluateLookAt, gaze' # << >>, ~GazeDrivesExpressions'
             PROVE  EyesHeld(gaze, retargeted)'
  BY DEF EyesInv, EvaluateLookAt, Continue
<1>1. pc = "gaze" /\ UNCHANGED <<source, avatar>>
  BY DEF EvaluateLookAt, inputs
<1>2. ~GazeDrivesExpressions
  BY <1>1 DEF GazeDrivesExpressions
<1>3. PICK g, r : g = gaze' /\ r = retargeted'
  OBVIOUS
<1>4. g = EvaluateGaze /\ r = ApplyEyeRotations(g)
  BY <1>2, <1>3 DEF EvaluateLookAt
<1>5. DOMAIN g = DOMAIN source /\ g = [i \in DOMAIN g |-> g[i]]
  BY <1>3, <1>4 DEF EvaluateGaze
<1>6. IsList(source) /\ retargeted = [i \in DOMAIN source |-> Retarget(source[i])]
  BY <1>1 DEF RunInv, Sampled, EyesInv
<1>7. IsList(g)
  BY <1>5, <1>6, SamplesAreList
<1>8. EyesHeld(g, r)
  BY <1>4, <1>5, <1>6, <1>7, EyesAreHeld
<1>9. EyesHeld(g, r)'
  BY <1>1, <1>8, EyesStay
<1> QED
  BY <1>3, <1>9 DEF EyesHeld

\* The poses and the gaze they follow are left alone.
LEMMA EyesStayHeld ==
    ASSUME EyesHeld(gaze, retargeted), UNCHANGED <<source, avatar, gaze, retargeted>>
    PROVE  EyesHeld(gaze, retargeted)'
<1>1. PICK g, r : g = gaze /\ r = retargeted
  OBVIOUS
<1>2. EyesHeld(g, r)
  BY <1>1
<1>3. EyesHeld(g, r)'
  BY <1>2, EyesStay
<1> QED
  BY <1>1, <1>3 DEF EyesHeld

\* The face leaves the eyes alone.
LEMMA FaceTurns == EyesInv /\ ResolveExpressions => EyesInv'
<1> SUFFICES ASSUME EyesInv, ResolveExpressions PROVE EyesInv'
  OBVIOUS
<1>1. pc = "face" /\ pc' = "open" /\ UNCHANGED <<source, avatar, gaze, retargeted>>
  BY DEF ResolveExpressions, inputs, Continue
<1>2. GazeDrivesExpressions' = GazeDrivesExpressions
  BY <1>1 DEF GazeDrivesExpressions
<1> QED
  BY <1>1, <1>2, EyesStayHeld DEF EyesInv

\* A step that leaves everything alone.
LEMMA IdleTurns == EyesInv /\ UNCHANGED vars => EyesInv'
<1> SUFFICES ASSUME EyesInv, UNCHANGED vars PROVE EyesInv'
  OBVIOUS
<1>1. UNCHANGED <<pc, source, avatar, gaze, retargeted>>
  BY DEF vars, inputs, baked
<1>2. GazeDrivesExpressions' = GazeDrivesExpressions
  BY <1>1 DEF GazeDrivesExpressions
<1>3. \A i : (Retarget(source[i]))' = Retarget(source[i])
  BY <1>1 DEF Retarget, Joints
<1>4. pc' = "gaze" => retargeted' = [i \in DOMAIN source' |-> (Retarget(source[i]))']
  BY <1>1, <1>3 DEF EyesInv
<1> QED
  BY <1>1, <1>2, <1>4, EyesStayHeld DEF EyesInv

\* A step into none of the three does not concern the eyes.
LEMMA ElsewhereTurns == pc' \notin {"gaze", "face", "open"} => EyesInv'
  BY DEF EyesInv

\* Every step of the runs keeps the eyes.
LEMMA NextTurns == RunInv /\ EyesInv /\ [Next]_vars => EyesInv'
<1> SUFFICES ASSUME RunInv, EyesInv, [Next]_vars PROVE EyesInv'
  OBVIOUS
<1>1. CASE Parse \/ OpenAvatar \/ OpenClip \/ OpenOutput \/ Author \/ Save \/ Leave \/ Kill
           \/ NextRun
  BY <1>1, ElsewhereTurns DEF Parse, OpenAvatar, OpenClip, OpenOutput, ClearOutput, CreateOutput,
     Author, Save, Leave, Kill, NextRun, Start, RefuseOr, Exit, Return, Continue
<1>2. CASE RetargetBody
  BY <1>2, BodyTurns
<1>3. CASE EvaluateLookAt
  BY <1>3, GazeTurns
<1>4. CASE ResolveExpressions
  BY <1>4, FaceTurns
<1>5. CASE Done \/ UNCHANGED vars
  BY <1>5, IdleTurns DEF Done
<1> QED
  BY <1>1, <1>2, <1>3, <1>4, <1>5 DEF Next

\* Eyes held are what EyesHoldTheLastGaze says of the poses.
LEMMA HeldEyesFollow == EyesInv => EyesHoldTheLastGaze
<1> SUFFICES ASSUME EyesHeld(gaze, retargeted), NEW i \in DOMAIN retargeted, NEW j \in Joints
             PROVE  LET k == LastWith(i, LAMBDA n : Aims(j, n))
                    IN  retargeted[i].rotations[j] =
                            IF k = 0 THEN Retarget(source[i]).rotations[j]
                            ELSE EyeRotation(gaze[k].eyeRotations[Max(Told(gaze[k], j))])
  BY DEF EyesInv, EyesHoldTheLastGaze
<1>1. /\ IsList(gaze) /\ i \in DOMAIN gaze
      /\ DOMAIN gaze = 1 .. Len(gaze) /\ Len(gaze) \in Nat
  BY ListDomain DEF EyesHeld
<1>2. PICK k : /\ IsLast(k, i, Aiming(gaze, j))
               /\ retargeted[i].rotations[j] = IF k = 0 THEN Retarget(source[i]).rotations[j]
                                               ELSE Aimed(gaze[k], j)
  BY DEF EyesHeld
<1> DEFINE T == {n \in 1 .. i : Aims(j, n)}
<1>3. T = (1 .. i) \cap Aiming(gaze, j)
  BY <1>1 DEF Aiming, Aims
<1> HIDE DEF T
<1>4. Max({0} \cup T) = k
  <2>1. i \in Nat
    BY <1>1
  <2>2. PICK S : S = Aiming(gaze, j)
    OBVIOUS
  <2>3. IsLast(k, i, S) /\ T = (1 .. i) \cap S
    BY <1>2, <1>3, <2>2
  <2> QED
    BY <2>1, <2>3, LastAmong
<1>5. Aimed(gaze[k], j) = EyeRotation(gaze[k].eyeRotations[Max(Told(gaze[k], j))])
  BY DEF Aimed
<1> QED
  BY <1>2, <1>4, <1>5 DEF LastWith, T

\* For every clip and every avatar with bone-driven eyes: at each sample each eye is where the
\* last gaze that told it left it, and before the first where the body's retarget put it
\* (ApplyEyeRotations' held map over the samples that say nothing).
THEOREM BakedEyesHoldTheLastGaze == Spec => []EyesHoldTheLastGaze
<1>1. Init => EyesInv
  BY DEF Init, EyesInv
<1> QED
  BY <1>1, InitRuns, NextRuns, NextTurns, HeldEyesFollow, PTL DEF Spec

(* The collision check *)

\* Past the collision check, the run's options are ones that passed it.
CheckPassed == pc \in {"author", "save"} => OutputIsSound

\* No run starts past the check.
LEMMA InitChecked == Init => CheckPassed
  BY DEF Init, CheckPassed

\* A step that leaves the options alone and is not into the two steps after the check.
LEMMA NotPastTheCheck ==
  ASSUME pc' \notin {"author", "save"}
  PROVE  CheckPassed'
  BY DEF CheckPassed

\* Every step keeps the check passed.
LEMMA NextKeepsChecked == CheckPassed /\ [Next]_vars => CheckPassed'
<1> SUFFICES ASSUME CheckPassed, [Next]_vars PROVE CheckPassed'
  OBVIOUS
<1>1. CASE Parse
  BY <1>1, NotPastTheCheck DEF Parse, Exit, Continue
<1>2. CASE OpenAvatar
  BY <1>2, NotPastTheCheck DEF OpenAvatar, RefuseOr, Return, Continue
<1>3. CASE OpenClip
  BY <1>3, NotPastTheCheck DEF OpenClip, RefuseOr, Return, Continue
<1>4. CASE RetargetBody
  BY <1>4, NotPastTheCheck DEF RetargetBody, RefuseOr, Return, Continue
<1>5. CASE EvaluateLookAt
  BY <1>5, NotPastTheCheck DEF EvaluateLookAt, Continue
<1>6. CASE ResolveExpressions
  BY <1>6, NotPastTheCheck DEF ResolveExpressions, Continue
<1>7. CASE OpenOutput
  <2>1. options' = options
    BY <1>7 DEF OpenOutput, inputs
  <2>2. CASE OutputIsSound
    BY <2>1, <2>2 DEF CheckPassed, OutputIsSound, Id
  <2>3. CASE ~OutputIsSound
    BY <1>7, <2>3, NotPastTheCheck DEF OpenOutput, Return
  <2> QED
    BY <2>2, <2>3
<1>8. CASE Author
  <2>1. OutputIsSound /\ options' = options
    BY <1>8 DEF Author, CheckPassed, inputs
  <2> QED
    BY <2>1 DEF CheckPassed, OutputIsSound, Id
<1>9. CASE Save
  BY <1>9, NotPastTheCheck DEF Save, Return
<1>10. CASE Leave \/ Kill
  BY <1>10, NotPastTheCheck DEF Leave, Kill, Exit
<1>11. CASE NextRun
  BY <1>11, NotPastTheCheck DEF NextRun, Start
<1>12. CASE Done \/ UNCHANGED vars
  <2>1. pc' = pc /\ options' = options
    BY <1>12 DEF Done, vars, inputs
  <2> QED
    BY <2>1 DEF CheckPassed, OutputIsSound, Id
<1> QED
  BY <1>1, <1>2, <1>3, <1>4, <1>5, <1>6, <1>7, <1>8, <1>9, <1>10, <1>11, <1>12 DEF Next

\* One step of a checked run writes at most the two files its arguments name.
WritesNamedFiles ==
    \A f \in DOMAIN disk :
        disk'[f] # disk[f] =>
            \/ pc = "return" /\ ReportsTo(f) /\ disk'[f] = LoadReport
            \/ /\ f = File(options["--output"])
               /\ Id(options["--output"]) \notin {Id(options["--avatar"]), Id(options["--animation"])}
               /\ exit' = 0 \/ (~IsLayer(disk[f]) /\ disk'[f] = EmptyLayer)

\* The steps that write: the creation of the output, the save, and the report of a process that
\* is done, or killed while it is about to be.
LEMMA TheStepsThatWrite ==
    [Next]_vars =>
        \/ disk' = disk \/ OpenOutput \/ Save \/ (pc = "return" /\ WriteLoadReport)
  BY DEF Next, vars, Parse, OpenAvatar, OpenClip, RetargetBody, EvaluateLookAt,
         ResolveExpressions, Author, Leave, Kill, NextRun, Done

\* An output created is one that passed the check, where no layer was.
LEMMA ACreationIsNamed == OpenOutput => WritesNamedFiles
<1> SUFFICES ASSUME OpenOutput, NEW f \in DOMAIN disk, disk'[f] # disk[f]
             PROVE  /\ f = File(options["--output"])
                    /\ Id(options["--output"]) \notin
                           {Id(options["--avatar"]), Id(options["--animation"])}
                    /\ ~IsLayer(disk[f]) /\ disk'[f] = EmptyLayer
  BY DEF WritesNamedFiles
<1>1. OutputIsSound /\ CreateOutput
  BY DEF OpenOutput, ClearOutput
<1>2. /\ Files[options["--output"]].format
      /\ disk' = [disk EXCEPT ![File(options["--output"])] = EmptyLayer]
  BY <1>1 DEF CreateOutput
<1>3. f = File(options["--output"]) /\ disk'[f] = EmptyLayer
  BY <1>2
<1>4. ~IsLayer(disk[f])
  BY <1>1, <1>2, <1>3 DEF CreateOutput, Readable
<1> QED
  BY <1>1, <1>3, <1>4 DEF OutputIsSound

\* A save past the check writes the output alone.
LEMMA ASaveIsNamed == CheckPassed /\ Save => WritesNamedFiles
<1> SUFFICES ASSUME CheckPassed, Save, NEW f \in DOMAIN disk, disk'[f] # disk[f]
             PROVE  /\ f = File(options["--output"]) /\ exit' = 0
                    /\ Id(options["--output"]) \notin
                           {Id(options["--avatar"]), Id(options["--animation"])}
  BY DEF WritesNamedFiles
<1>1. disk' = [disk EXCEPT ![File(options["--output"])] = layer] /\ exit' = 0
  BY DEF Save, Return
<1>2. Id(options["--output"]) \notin {Id(options["--avatar"]), Id(options["--animation"])}
  BY DEF CheckPassed, Save, OutputIsSound
<1>3. f = File(options["--output"])
  BY <1>1
<1> QED
  BY <1>1, <1>2, <1>3

\* A report goes where the option says.
LEMMA AReportIsNamed == pc = "return" /\ WriteLoadReport => WritesNamedFiles
  BY DEF WritesNamedFiles, WriteLoadReport, ReportsTo

\* Whatever the paths are spelled like, and wherever a run is refused, fails or is killed: it
\* writes its load report, when it is over, and its output, which is never the root layer of an
\* input by the registry's identity -- where a layer was, by the save it returns 0 from alone,
\* and before that at most as an empty layer where none was (WriteRetargetedAnimation's
\* collision check and CreateNew, LoadReportAtExit).
THEOREM OnlyNamedFilesAreEverWritten == Spec => OnlyNamedFilesAreWritten
<1>1. CheckPassed /\ [Next]_vars => [WritesNamedFiles]_vars
  BY TheStepsThatWrite, ACreationIsNamed, ASaveIsNamed, AReportIsNamed DEF WritesNamedFiles
<1> QED
  BY <1>1, InitChecked, NextKeepsChecked, PTL
     DEF Spec, OnlyNamedFilesAreWritten, WritesNamedFiles

(* Folds *)

\* Steps G within V, one for each member of a set, and a member taken off each of its parts.
Foldable(S, V, base, G, ch) ==
    /\ base \in V
    /\ \A x \in S : \A v \in V : G[x][v] \in V
    /\ \A t \in SUBSET S : t # {} => ch[t] \in t

\* The values of such a fold over every part of the set.
IsFold(f, S, base, G, ch) ==
    \A t \in SUBSET S : f[t] = IF t = {} THEN base ELSE G[ch[t]][f[t \ {ch[t]}]]

\* A fold over the parts of a finite set, whichever member is taken off first, is defined.
LEMMA FoldOver ==
    ASSUME NEW S, IsFiniteSet(S), NEW V, NEW base, NEW G, NEW ch, Foldable(S, V, base, G, ch)
    PROVE  \E f \in [SUBSET S -> V] : IsFold(f, S, base, G, ch)
  <1> DEFINE n == Cardinality(S)
             P == SUBSET S
             Fits(f, k) == \A t \in P : Cardinality(t) <= k =>
                               f[t] = IF t = {} THEN base ELSE G[ch[t]][f[t \ {ch[t]}]]
             K == {k \in 0 .. n : \E f \in [P -> V] : Fits(f, k)}
  <1> USE DEF Foldable
  <1>1. n \in Nat
    BY FS_CardinalityType
  <1>2. \A t \in P : /\ Cardinality(t) \in Nat /\ Cardinality(t) <= n
                     /\ Cardinality(t) = 0 <=> t = {}
    <2>1. \A t \in P : IsFiniteSet(t) /\ Cardinality(t) <= n
      BY FS_Subset
    <2> QED
      BY <2>1, FS_CardinalityType, FS_EmptySet
  <1>3. \A t \in P : t # {} => t \ {ch[t]} \in P /\ Cardinality(t \ {ch[t]}) = Cardinality(t) - 1
    <2> SUFFICES ASSUME NEW t \in P, t # {}
                 PROVE  Cardinality(t \ {ch[t]}) = Cardinality(t) - 1
      OBVIOUS
    <2>1. IsFiniteSet(t) /\ ch[t] \in t
      BY FS_Subset
    <2> QED
      BY <2>1, FS_RemoveElement
  <1> HIDE DEF n
  <1>4. ASSUME NEW k \in 0 .. n, \A j \in 0 .. k - 1 : j \in K PROVE k \in K
    <2>1. CASE k = 0
      <3>1. [t \in P |-> base] \in [P -> V] /\ Fits([t \in P |-> base], 0)
        <4>1. \A t \in P : Cardinality(t) <= 0 => t = {}
          BY <1>2
        <4> QED
          BY <4>1
      <3> QED
        BY <1>1, <2>1, <3>1
    <2>2. CASE k # 0
      <3>1. k - 1 \in 0 .. k - 1 /\ k \in Nat
        BY <1>1, <2>2
      <3>2. PICK f \in [P -> V] : Fits(f, k - 1)
        BY <1>4, <3>1
      <3> DEFINE g == [t \in P |-> IF Cardinality(t) # k THEN f[t] ELSE G[ch[t]][f[t \ {ch[t]}]]]
      <3>3. \A t \in P : t # {} => ch[t] \in S /\ G[ch[t]][f[t \ {ch[t]}]] \in V
        <4>1. \A t \in P : t # {} => ch[t] \in S /\ f[t \ {ch[t]}] \in V
          BY <1>3
        <4> QED
          BY <4>1
      <3>4. \A t \in P : Cardinality(t) = k => t # {}
        BY <1>2, <2>2
      <3>5. g \in [P -> V]
        BY <3>3, <3>4
      <3>6. ASSUME NEW t \in P, Cardinality(t) <= k
            PROVE  g[t] = IF t = {} THEN base ELSE G[ch[t]][g[t \ {ch[t]}]]
        <4>1. CASE Cardinality(t) = k
          <5>1. t # {} /\ Cardinality(t \ {ch[t]}) # k /\ t \ {ch[t]} \in P
            BY <1>3, <3>1, <3>4, <4>1
          <5>2. g[t \ {ch[t]}] = f[t \ {ch[t]}]
            BY <5>1
          <5> QED
            BY <4>1, <5>1, <5>2
        <4>2. CASE Cardinality(t) # k
          <5>1. Cardinality(t) <= k - 1
            BY <1>2, <3>1, <3>6, <4>2
          <5>2. f[t] = IF t = {} THEN base ELSE G[ch[t]][f[t \ {ch[t]}]]
            BY <3>2, <5>1
          <5>3. t # {} => g[t \ {ch[t]}] = f[t \ {ch[t]}]
            <6>1. t # {} => t \ {ch[t]} \in P /\ Cardinality(t \ {ch[t]}) # k
              BY <1>2, <1>3, <3>1, <5>1
            <6> QED
              BY <6>1
          <5> QED
            BY <4>2, <5>2, <5>3
        <4> QED
          BY <4>1, <4>2
      <3> HIDE DEF g
      <3> QED
        BY <3>5, <3>6
    <2> QED
      BY <2>1, <2>2
  <1> HIDE DEF K
  <1>5. \A k \in 0 .. n : k \in K
    BY <1>1, <1>4, StrongInduction
  <1>6. PICK f \in [P -> V] : Fits(f, n)
    <2>1. n \in K
      BY <1>1, <1>5
    <2> HIDE DEF Fits, P
    <2> QED
      BY <2>1 DEF K
  <1> QED
    BY <1>2, <1>6 DEF IsFold

\* The first numbers, one more at a time.
LEMMA FirstNumbers ==
    ASSUME NEW n \in Nat
    PROVE  /\ IsFiniteSet(1 .. n) /\ 1 .. 0 = {}
           /\ \A k \in 1 .. n : /\ 1 .. k \in SUBSET (1 .. n) /\ 1 .. k # {}
                                /\ Max(1 .. k) = k /\ (1 .. k) \ {k} = 1 .. k - 1
           /\ \A t \in SUBSET (1 .. n) : t # {} => Max(t) \in t
  <1>1. ASSUME NEW k \in 1 .. n PROVE Max(1 .. k) = k
    <2>1. 1 .. k \in SUBSET (1 .. n) /\ k \in 1 .. k
      OBVIOUS
    <2>2. PICK t \in SUBSET (1 .. n) : t = 1 .. k
      BY <2>1
    <2>3. Max(t) \in t /\ \A j \in t : j <= Max(t)
      BY <2>1, <2>2, GreatestMember
    <2> QED
      BY <2>1, <2>2, <2>3
  <1>2. \A t \in SUBSET (1 .. n) : t # {} => Max(t) \in t
    BY GreatestMember
  <1>3. IsFiniteSet(1 .. n)
    BY FS_Interval
  <1>4. \A k \in 1 .. n : (1 .. k) \ {k} = 1 .. k - 1
    OBVIOUS
  <1> QED
    BY <1>1, <1>2, <1>3, <1>4

\* The same Max, as the two components read it.
LEMMA OneMax == /\ \A s : E!Max(s) = Max(s)
                /\ \A s : L!Max(s) = Max(s)
                /\ \A s : L!Min(s) = Min(s)
  BY DEF Max, E!Max, L!Max, Min, L!Min

\* What a function of the parts of a list's places does when it is the list's fold by G.
FoldsTo(w, n, V, base, G) ==
    /\ w[{}] = base
    /\ \A t \in SUBSET (1 .. n) :
          t # {} /\ w[t \ {Max(t)}] \in V => w[t] = G[Max(t)][w[t \ {Max(t)}]]

\* The steps of a fold over a list, from a value to a value.
StepsWithin(n, V, base, G) == base \in V /\ \A i \in 1 .. n : \A v \in V : G[i][v] \in V

\* Such a fold is the steps taken in turn.
LEMMA FoldRuns ==
    ASSUME NEW n \in Nat, NEW V, NEW base, NEW G, NEW w,
           StepsWithin(n, V, base, G), FoldsTo(w, n, V, base, G)
    PROVE  \E f \in [0 .. n -> V] : /\ f[0] = base /\ w[1 .. n] = f[n]
                                     /\ \A i \in 1 .. n : f[i] = G[i][f[i - 1]]
  <1> DEFINE S == {k \in 0 .. n : w[1 .. k] \in V}
             f == [k \in 0 .. n |-> w[1 .. k]]
  <1> USE DEF StepsWithin
  <1>1. w[1 .. 0] = base
    BY FirstNumbers DEF FoldsTo
  <1>2. ASSUME NEW k \in 1 .. n, w[1 .. k - 1] \in V PROVE w[1 .. k] = G[k][w[1 .. k - 1]]
    BY <1>2, FirstNumbers DEF FoldsTo
  <1>3. ASSUME NEW k \in 0 .. n, \A j \in 0 .. k - 1 : j \in S PROVE k \in S
    <2>1. CASE k = 0
      BY <1>1, <2>1
    <2>2. CASE k # 0
      <3>1. k \in 1 .. n /\ k - 1 \in S
        BY <1>3, <2>2
      <3>2. w[1 .. k] = G[k][w[1 .. k - 1]] /\ w[1 .. k - 1] \in V
        BY <1>2, <3>1
      <3> QED
        BY <3>1, <3>2
    <2> QED
      BY <2>1, <2>2
  <1> HIDE DEF S
  <1>4. \A k \in 0 .. n : k \in S
    BY <1>3, StrongInduction
  <1>5. \A k \in 0 .. n : w[1 .. k] \in V
    BY <1>4 DEF S
  <1>6. f \in [0 .. n -> V] /\ f[0] = base /\ w[1 .. n] = f[n]
    BY <1>1, <1>5
  <1>7. ASSUME NEW i \in 1 .. n PROVE f[i] = G[i][f[i - 1]]
    <2>1. i - 1 \in 0 .. n /\ i \in 0 .. n
      OBVIOUS
    <2> QED
      BY <1>2, <1>5, <2>1
  <1> HIDE DEF f
  <1> QED
    BY <1>6, <1>7

\* The values of a fold over the places of a list, the last of a part taken off first.
IsListFold(f, n, base, G) ==
    \A t \in SUBSET (1 .. n) : f[t] = IF t = {} THEN base ELSE G[Max(t)][f[t \ {Max(t)}]]

\* The places of a list can be folded.
LEMMA ListFold ==
    ASSUME NEW n \in Nat, NEW V, NEW base, NEW G, StepsWithin(n, V, base, G)
    PROVE  \E f \in [SUBSET (1 .. n) -> V] : IsListFold(f, n, base, G)
  <1>1. PICK ch : \A t \in SUBSET (1 .. n) : ch[t] = Max(t)
    <2>1. \A t \in SUBSET (1 .. n) : [u \in SUBSET (1 .. n) |-> Max(u)][t] = Max(t)
      OBVIOUS
    <2> QED
      BY <2>1
  <1>2. PICK S : S = 1 .. n
    OBVIOUS
  <1>3. Foldable(S, V, base, G, ch) /\ IsFiniteSet(S)
    <2>1. \A t \in SUBSET S : t # {} => ch[t] \in t
      BY <1>1, <1>2, GreatestMember
    <2>2. \A i \in S : \A v \in V : G[i][v] \in V
      BY <1>2 DEF StepsWithin
    <2>3. IsFiniteSet(S)
      BY <1>2, FS_Interval
    <2> QED
      BY <2>1, <2>2, <2>3 DEF Foldable, StepsWithin
  <1>4. PICK f \in [SUBSET S -> V] : IsFold(f, S, base, G, ch)
    BY <1>3, FoldOver
  <1>5. \A t \in SUBSET S : f[t] = IF t = {} THEN base ELSE G[ch[t]][f[t \ {ch[t]}]]
    BY <1>4 DEF IsFold
  <1>6. \A t \in SUBSET S : f[t] = IF t = {} THEN base ELSE G[Max(t)][f[t \ {Max(t)}]]
    BY <1>1, <1>2, <1>5
  <1> QED
    BY <1>2, <1>6 DEF IsListFold

(* Sums *)

\* The sum of two weights, a name of its own over the resolver's.
Added(a, b) == E!Plus(a, b)

\* The weights and the NaN under Plus: an order of summing them makes no difference.
LEMMA PlusAdds ==
    /\ \A a, b \in Number : Added(a, b) \in Number /\ Added(a, b) = Added(b, a)
    /\ \A a, b, c \in Number : Added(a, Added(b, c)) = Added(Added(a, b), c)
    /\ \A a \in Number : Added(a, 0) = a /\ Added(0, a) = a
    /\ 0 \in Number
  <1>1. \A a, b \in Int : Added(a, b) = a + b /\ Added(a, b) \in Int
    BY WeightAssumption DEF Added, E!Plus
  <1>2. \A a \in Number : Added(a, NaN) = NaN /\ Added(NaN, a) = NaN
    BY DEF Added, E!Plus
  <1>3. \A a \in Number : a \in Int \/ a = NaN
    BY DEF Number
  <1>4. \A a, b \in Number : Added(a, b) \in Number /\ Added(a, b) = Added(b, a)
    <2>1. \A a, b \in Int : a + b = b + a /\ a + b \in Int
      OBVIOUS
    <2>2. \A a, b \in Int : Added(a, b) = Added(b, a) /\ Added(a, b) \in Int
      BY <1>1, <2>1
    <2> QED
      BY <1>2, <1>3, <2>2 DEF Number
  <1>5. \A a, b, c \in Number : Added(a, Added(b, c)) = Added(Added(a, b), c)
    <2> SUFFICES ASSUME NEW a \in Number, NEW b \in Number, NEW c \in Number
                 PROVE  Added(a, Added(b, c)) = Added(Added(a, b), c)
      OBVIOUS
    <2>1. CASE a \in Int /\ b \in Int /\ c \in Int
      <3>1. Added(b, c) = b + c /\ Added(a, b) = a + b /\ b + c \in Int /\ a + b \in Int
        BY <1>1, <2>1
      <3>2. Added(a, Added(b, c)) = a + (b + c) /\ Added(Added(a, b), c) = (a + b) + c
        BY <1>1, <2>1, <3>1
      <3> QED
        BY <2>1, <3>2
    <2>2. CASE a = NaN
      BY <1>2, <1>4, <2>2
    <2>3. CASE b = NaN
      BY <1>2, <2>3
    <2>4. CASE c = NaN
      BY <1>2, <1>4, <2>4
    <2> QED
      BY <1>3, <2>1, <2>2, <2>3, <2>4
  <1>6. \A a \in Number : Added(a, 0) = a /\ Added(0, a) = a
    <2>1. 0 \in Number /\ 0 \in Int
      BY DEF Number
    <2>2. \A a \in Int : Added(a, 0) = a /\ Added(0, a) = a
      <3>1. \A a \in Int : a + 0 = a /\ 0 + a = a
        OBVIOUS
      <3> QED
        BY <1>1, <2>1, <3>1
    <2> QED
      BY <1>2, <1>3, <2>1, <2>2
  <1> QED
    BY <1>4, <1>5, <1>6 DEF Number

\* The sums of the shares of every part of a set, any of the part's taken off first.
SumsUp(sum, share, S) ==
    /\ sum \in [SUBSET S -> Number] /\ sum[{}] = 0
    /\ \A t \in SUBSET S : \A y \in t : sum[t] = Added(share[y], sum[t \ {y}])

\* A sum over a set is the same whichever share is taken off first.
LEMMA SumTakesAnyFirst ==
    ASSUME NEW S, IsFiniteSet(S), NEW share, share \in [S -> Number]
    PROVE  \E sum : SumOf(share, S) = sum[S] /\ SumsUp(sum, share, S)
  <1> DEFINE P == SUBSET S
             first(t) == CHOOSE n \in t : TRUE
             Fits(f) == f = [t \in P |-> IF t = {} THEN 0
                                         ELSE Added(share[first(t)], f[t \ {first(t)}])]
             w == CHOOSE f : Fits(f)
  <1>1. SumOf(share, S) = w[S]
    BY DEF SumOf, MapThenFoldSet, Added
  <1>2. \A t \in P : t # {} => first(t) \in t
    OBVIOUS
  <1> HIDE DEF first
  <1>3. PICK f \in [P -> Number] :
            \A t \in P : f[t] = IF t = {} THEN 0 ELSE Added(share[first(t)], f[t \ {first(t)}])
    <2>1. PICK G : \A x \in S : \A v \in Number : G[x][v] = Added(share[x], v)
      <3>1. \A x \in S : \A v \in Number :
                [y \in S |-> [u \in Number |-> Added(share[y], u)]][x][v] = Added(share[x], v)
        OBVIOUS
      <3> QED
        BY <3>1
    <2>2. PICK ch : \A t \in SUBSET S : ch[t] = first(t)
      <3>1. \A t \in SUBSET S : [u \in SUBSET S |-> first(u)][t] = first(t)
        OBVIOUS
      <3> QED
        BY <3>1
    <2>3. PICK V, base : V = Number /\ base = 0
      OBVIOUS
    <2>4. base \in V /\ \A x \in S : \A v \in V : G[x][v] \in V
      <3>1. \A x \in S : share[x] \in Number
        OBVIOUS
      <3> QED
        <4>1. ASSUME NEW x \in S, NEW v \in Number PROVE G[x][v] \in Number
          <5>1. PICK a \in Number : a = share[x]
            BY <3>1
          <5>2. Added(a, v) \in Number
            BY PlusAdds
          <5> QED
            BY <2>1, <5>1, <5>2
        <4>2. 0 \in Number
          BY PlusAdds
        <4> QED
          BY <2>3, <4>1, <4>2
    <2>5. \A t \in SUBSET S : t # {} => ch[t] \in t
      BY <1>2, <2>2
    <2>6. PICK f \in [SUBSET S -> V] : IsFold(f, S, base, G, ch)
      <3>1. Foldable(S, V, base, G, ch)
        BY <2>4, <2>5 DEF Foldable
      <3> QED
        BY <3>1, FoldOver
    <2>7. ASSUME NEW t \in P, t # {}
          PROVE  first(t) \in S /\ t \ {first(t)} \in P /\ f[t \ {first(t)}] \in Number
      BY <1>2, <2>3, <2>7
    <2>8. \A t \in P : t # {} =>
              G[ch[t]][f[t \ {ch[t]}]] = Added(share[first(t)], f[t \ {first(t)}])
      BY <2>1, <2>2, <2>7
    <2> QED
      BY <2>3, <2>6, <2>8 DEF IsFold
  <1>4. Fits(w)
    <2>1. f = [t \in P |-> f[t]]
      OBVIOUS
    <2>2. Fits(f)
      BY <1>3, <2>1
    <2> HIDE DEF Fits
    <2> QED
      BY <2>2
  <1>5. /\ \A t \in P : w[t] = IF t = {} THEN 0 ELSE Added(share[first(t)], w[t \ {first(t)}])
        /\ w = [t \in P |-> w[t]]
    <2>1. w = [t \in P |-> IF t = {} THEN 0 ELSE Added(share[first(t)], w[t \ {first(t)}])]
      BY <1>4
    <2> HIDE DEF w
    <2> QED
      BY <2>1
  <1> HIDE DEF w
  <1> DEFINE n == Cardinality(S)
             AnyOff(t) == w[t] \in Number /\ \A y \in t : w[t] = Added(share[y], w[t \ {y}])
             K == {k \in 0 .. n : \A t \in P : Cardinality(t) = k => AnyOff(t)}
  <1>6. n \in Nat
    BY FS_CardinalityType
  <1>7. \A t \in P : Cardinality(t) \in 0 .. n
    <2>1. \A t \in P : IsFiniteSet(t) /\ Cardinality(t) <= n
      BY FS_Subset
    <2> QED
      BY <1>6, <2>1, FS_CardinalityType
  <1>8. ASSUME NEW t \in P, NEW y \in t
        PROVE  t \ {y} \in P /\ Cardinality(t \ {y}) = Cardinality(t) - 1
    <2>1. IsFiniteSet(t)
      BY FS_Subset
    <2> QED
      BY <2>1, FS_RemoveElement
  <1> HIDE DEF n
  <1>9. ASSUME NEW k \in 0 .. n, \A j \in 0 .. k - 1 : j \in K PROVE k \in K
    <2> SUFFICES ASSUME NEW t \in P, Cardinality(t) = k PROVE AnyOff(t)
      OBVIOUS
    <2>1. ASSUME NEW u \in P, Cardinality(u) = k - 1, k # 0 PROVE AnyOff(u)
      <3>1. k - 1 \in K
        BY <1>6, <1>9, <2>1
      <3> HIDE DEF AnyOff
      <3> QED
        BY <2>1, <3>1
    <2>2. CASE t = {}
      BY <1>5, <2>2, PlusAdds
    <2>3. CASE t # {}
      <3>1. k # 0
        <4>1. IsFiniteSet(t)
          BY FS_Subset
        <4> QED
          BY <2>3, <4>1, FS_EmptySet
      <3>2. PICK x \in t : x = first(t)
        BY <1>2, <2>3
      <3>3. w[t] = Added(share[x], w[t \ {x}])
        BY <1>5, <2>3, <3>2
      <3>4. \A y \in t : t \ {y} \in P /\ AnyOff(t \ {y})
        <4> HIDE DEF AnyOff
        <4> QED
          BY <1>8, <2>1, <3>1
      <3>5. w[t] \in Number
        <4>1. w[t \ {x}] \in Number /\ share[x] \in Number
          BY <3>4
        <4> QED
          BY <3>3, <4>1, PlusAdds
      <3>6. ASSUME NEW y \in t PROVE w[t] = Added(share[y], w[t \ {y}])
        <4>1. CASE y = x
          BY <3>3, <4>1
        <4>2. CASE y # x
          <5> DEFINE u == (t \ {x}) \ {y}
          <5>1. u = (t \ {y}) \ {x} /\ y \in t \ {x} /\ x \in t \ {y}
            BY <4>2
          <5>2. w[t \ {x}] = Added(share[y], w[u])
            BY <3>4, <5>1
          <5>3. w[t \ {y}] = Added(share[x], w[u])
            BY <3>4, <5>1
          <5>4. w[u] \in Number
            <6>1. t \ {x} \in P /\ Cardinality(t \ {x}) = k - 1
              BY <1>8
            <6>2. u \in P /\ Cardinality(u) = k - 1 - 1
              BY <1>8, <5>1, <6>1
            <6>3. k - 2 \in K
              <7>1. Cardinality(u) \in Nat
                BY <1>7, <6>2
              <7> QED
                BY <1>6, <1>9, <6>2, <7>1
            <6>4. AnyOff(u)
              <7> HIDE DEF AnyOff, u
              <7> QED
                BY <1>6, <6>2, <6>3
            <6> QED
              BY <6>4
          <5>5. share[x] \in Number /\ share[y] \in Number
            OBVIOUS
          <5> HIDE DEF u
          <5>6. PICK a \in Number, b \in Number, c \in Number :
                    a = share[x] /\ b = share[y] /\ c = w[u]
            BY <5>4, <5>5
          <5>7. Added(a, Added(b, c)) = Added(b, Added(a, c))
            BY PlusAdds
          <5>8. Added(share[x], Added(share[y], w[u])) = Added(share[y], Added(share[x], w[u]))
            BY <5>6, <5>7
          <5> QED
            BY <3>3, <5>2, <5>3, <5>8
        <4> QED
          BY <4>1, <4>2
      <3> QED
        BY <3>5, <3>6
    <2> QED
      BY <2>2, <2>3
  <1> HIDE DEF K
  <1>10. \A k \in 0 .. n : k \in K
    BY <1>6, <1>9, StrongInduction
  <1>11. \A t \in P : AnyOff(t)
    <2> HIDE DEF AnyOff
    <2> QED
      BY <1>7, <1>10 DEF K
  <1>12. w \in [P -> Number]
    BY <1>5, <1>11
  <1> QED
    BY <1>1, <1>5, <1>11, <1>12 DEF SumsUp

(* Binds *)

\* The product of two weights.
Scaled(a, b) == E!Times(a, b)

\* A scaled weight is a weight.
LEMMA ScaledIsNumber == \A a, b \in Number : Scaled(a, b) \in Number
  <1>1. \A a, b \in Int : (a * b) \div Unit \in Int
    <2>1. \A c \in Int : c \div Unit \in Int
      BY WeightAssumption
    <2>2. \A a, b \in Int : a * b \in Int
      OBVIOUS
    <2> QED
      BY <2>1, <2>2
  <1> QED
    BY <1>1 DEF Scaled, E!Times, Number

\* A bind of a blend shape.
Bind == [target : STRING, weight : Number]

\* The totals of some shapes.
Totals == UNION {[A -> Number] : A \in SUBSET STRING}

\* What totals hold of a shape, no entry being nothing.
HeldFor(all, target) == IF target \in DOMAIN all THEN all[target] ELSE 0

\* The totals with one bind added.
Touched(all, b, weight) ==
    IF b.target = "" THEN all
    ELSE E!Put(all, b.target, Added(HeldFor(all, b.target), Scaled(weight, b.weight)))

\* A bind adds its part to its own shape, and nothing to another's.
LEMMA TouchedAdds ==
    ASSUME NEW all \in Totals, NEW b \in Bind, NEW weight \in Number
    PROVE  /\ Touched(all, b, weight) \in Totals
           /\ DOMAIN Touched(all, b, weight) = DOMAIN all \cup ({b.target} \ {""})
           /\ \A t \in STRING : t # "" =>
                 HeldFor(Touched(all, b, weight), t)
                     = IF b.target # t THEN HeldFor(all, t)
                       ELSE Added(HeldFor(all, t), Scaled(weight, b.weight))
  <1> USE DEF Bind
  <1> DEFINE r == Touched(all, b, weight)
             v == Added(HeldFor(all, b.target), Scaled(weight, b.weight))
  <1>1. HeldFor(all, b.target) \in Number
    <2>1. PICK A \in SUBSET STRING : all \in [A -> Number]
      BY DEF Totals
    <2> QED
      BY <2>1, PlusAdds DEF HeldFor
  <1>2. Scaled(weight, b.weight) \in Number
    BY ScaledIsNumber
  <1>3. v \in Number
    <2>1. PICK x \in Number, y \in Number :
              x = HeldFor(all, b.target) /\ y = Scaled(weight, b.weight)
      BY <1>1, <1>2
    <2> QED
      BY <2>1, PlusAdds
  <1>4. CASE b.target = ""
    BY <1>4 DEF Touched
  <1>5. CASE b.target # ""
    <2>1. r = E!Put(all, b.target, v)
      BY <1>5 DEF Touched
    <2> HIDE DEF r, v
    <2>2. /\ DOMAIN r = DOMAIN all \cup {b.target} /\ r = [t \in DOMAIN r |-> r[t]]
          /\ r[b.target] = v /\ \A t \in DOMAIN all : t # b.target => r[t] = all[t]
      BY <2>1 DEF E!Put
    <2>3. DOMAIN all \in SUBSET STRING /\ \A t \in DOMAIN all : all[t] \in Number
      BY DEF Totals
    <2>4. r \in [DOMAIN r -> Number] /\ DOMAIN r \in SUBSET STRING
      BY <1>3, <2>2, <2>3
    <2>5. r \in Totals
      BY <2>4 DEF Totals
    <2>6. ASSUME NEW t \in STRING, t # ""
          PROVE  HeldFor(r, t) = IF b.target # t THEN HeldFor(all, t) ELSE v
      BY <2>2 DEF HeldFor
    <2>7. \A t \in STRING : t # "" =>
              HeldFor(r, t) = IF b.target # t THEN HeldFor(all, t)
                            ELSE Added(HeldFor(all, t), Scaled(weight, b.weight))
      BY <2>6 DEF v
    <2> QED
      BY <1>5, <2>2, <2>5, <2>7 DEF r
  <1> QED
    BY <1>4, <1>5

\* The binds of an expression, added one after the other.
LEMMA AddMorphsRuns ==
    ASSUME NEW totals \in Totals, NEW binds \in Seq(Bind), NEW weight \in Number
    PROVE  \E f \in [0 .. Len(binds) -> Totals] :
               /\ f[0] = totals /\ E!AddMorphs(totals, binds, weight) = f[Len(binds)]
               /\ \A i \in 1 .. Len(binds) : f[i] = Touched(f[i - 1], binds[i], weight)
  <1> DEFINE n == Len(binds)
             Fits(g) == g = [t \in SUBSET DOMAIN binds |->
                                IF t = {} THEN totals
                                ELSE Touched(g[t \ {Max(t)}], binds[Max(t)], weight)]
             w == CHOOSE g : Fits(g)
  <1>1. n \in Nat /\ DOMAIN binds = 1 .. n
    OBVIOUS
  <1>2. E!AddMorphs(totals, binds, weight) = w[1 .. n]
    <2>1. E!AddMorphs(totals, binds, weight) = w[DOMAIN binds]
      BY OneMax DEF E!AddMorphs, E!FoldLeft, E!MapThenFoldSet, Touched, HeldFor, Added, Scaled
    <2> QED
      BY <1>1, <2>1
  <1>3. PICK G : \A i \in 1 .. n : \A v \in Totals : G[i][v] = Touched(v, binds[i], weight)
    <2>1. \A i \in 1 .. n : \A v \in Totals :
              [j \in 1 .. n |-> [u \in Totals |-> Touched(u, binds[j], weight)]][i][v]
                  = Touched(v, binds[i], weight)
      OBVIOUS
    <2> QED
      BY <2>1
  <1>4. StepsWithin(n, Totals, totals, G)
    <2>1. \A i \in 1 .. n : binds[i] \in Bind
      BY <1>1
    <2>2. \A i \in 1 .. n : \A v \in Totals : Touched(v, binds[i], weight) \in Totals
      BY <2>1, TouchedAdds
    <2> QED
      BY <1>3, <2>2 DEF StepsWithin
  <1>5. PICK f \in [SUBSET (1 .. n) -> Totals] : IsListFold(f, n, totals, G)
    BY <1>1, <1>4, ListFold
  <1>6. Fits(f)
    <2>1. ASSUME NEW t \in SUBSET (1 .. n), t # {}
          PROVE  G[Max(t)][f[t \ {Max(t)}]] = Touched(f[t \ {Max(t)}], binds[Max(t)], weight)
      <3>1. Max(t) \in 1 .. n /\ f[t \ {Max(t)}] \in Totals
        BY <1>1, <2>1, FirstNumbers
      <3> QED
        BY <1>3, <3>1
    <2>2. f = [t \in SUBSET (1 .. n) |-> f[t]]
      OBVIOUS
    <2> QED
      BY <1>1, <1>5, <2>1, <2>2 DEF IsListFold
  <1>7. \A t \in SUBSET (1 .. n) :
            w[t] = IF t = {} THEN totals ELSE Touched(w[t \ {Max(t)}], binds[Max(t)], weight)
    <2>1. Fits(w)
      <3> HIDE DEF Fits
      <3> QED
        BY <1>6
    <2> HIDE DEF w
    <2> QED
      BY <1>1, <2>1
  <1> HIDE DEF w
  <1>8. FoldsTo(w, n, Totals, totals, G)
    <2>1. \A t \in SUBSET (1 .. n) : t # {} => Max(t) \in 1 .. n
      BY <1>1, FirstNumbers
    <2> QED
      BY <1>3, <1>7, <2>1 DEF FoldsTo
  <1>9. PICK a \in [0 .. n -> Totals] : /\ a[0] = totals /\ w[1 .. n] = a[n]
                                        /\ \A i \in 1 .. n : a[i] = G[i][a[i - 1]]
    BY <1>1, <1>4, <1>8, FoldRuns
  <1>10. \A i \in 1 .. n : a[i] = Touched(a[i - 1], binds[i], weight)
    <2>1. \A i \in 1 .. n : i - 1 \in 0 .. n
      BY <1>1
    <2> QED
      BY <1>3, <1>9, <2>1
  <1> QED
    BY <1>2, <1>9, <1>10

\* The share of one bind.
BindShare(total, b, weight, target) ==
    IF b.target # target THEN total ELSE Added(total, Scaled(weight, b.weight))

\* What a list of binds gives one shape, bind after bind.
LEMMA BoundRuns ==
    ASSUME NEW binds \in Seq(Bind), NEW weight \in Number, NEW target
    PROVE  \E f \in [0 .. Len(binds) -> Number] :
               /\ f[0] = 0 /\ Bound(binds, weight, target) = f[Len(binds)]
               /\ \A i \in 1 .. Len(binds) : f[i] = BindShare(f[i - 1], binds[i], weight, target)
  <1> DEFINE n == Len(binds)
             Fits(g) == g = [t \in SUBSET DOMAIN binds |->
                                IF t = {} THEN 0
                                ELSE BindShare(g[t \ {Max(t)}], binds[Max(t)], weight, target)]
             w == CHOOSE g : Fits(g)
  <1>1. n \in Nat /\ DOMAIN binds = 1 .. n
    OBVIOUS
  <1>2. Bound(binds, weight, target) = w[1 .. n]
    <2>1. Bound(binds, weight, target) = w[DOMAIN binds]
      BY DEF Bound, FoldLeft, MapThenFoldSet, BindShare, Added, Scaled
    <2> QED
      BY <1>1, <2>1
  <1>3. PICK G : \A i \in 1 .. n : \A v \in Number :
                     G[i][v] = BindShare(v, binds[i], weight, target)
    <2>1. \A i \in 1 .. n : \A v \in Number :
              [j \in 1 .. n |-> [u \in Number |-> BindShare(u, binds[j], weight, target)]][i][v]
                  = BindShare(v, binds[i], weight, target)
      OBVIOUS
    <2> QED
      BY <2>1
  <1>4. StepsWithin(n, Number, 0, G)
    <2>1. ASSUME NEW i \in 1 .. n, NEW v \in Number
          PROVE  BindShare(v, binds[i], weight, target) \in Number
      <3>1. binds[i].weight \in Number
        <4>1. binds[i] \in Bind
          BY <1>1
        <4> QED
          BY <4>1 DEF Bind
      <3>2. PICK x \in Number : x = Scaled(weight, binds[i].weight)
        BY <3>1, ScaledIsNumber
      <3> QED
        BY <3>2, PlusAdds DEF BindShare
    <2>2. 0 \in Number
      BY PlusAdds
    <2> QED
      BY <1>3, <2>1, <2>2 DEF StepsWithin
  <1>5. PICK f \in [SUBSET (1 .. n) -> Number] : IsListFold(f, n, 0, G)
    BY <1>1, <1>4, ListFold
  <1>6. Fits(f)
    <2>1. ASSUME NEW t \in SUBSET (1 .. n), t # {}
          PROVE  G[Max(t)][f[t \ {Max(t)}]]
                     = BindShare(f[t \ {Max(t)}], binds[Max(t)], weight, target)
      <3>1. Max(t) \in 1 .. n /\ f[t \ {Max(t)}] \in Number
        BY <1>1, <2>1, FirstNumbers
      <3> QED
        BY <1>3, <3>1
    <2>2. f = [t \in SUBSET (1 .. n) |-> f[t]]
      OBVIOUS
    <2> QED
      BY <1>1, <1>5, <2>1, <2>2 DEF IsListFold
  <1>7. \A t \in SUBSET (1 .. n) :
            w[t] = IF t = {} THEN 0 ELSE BindShare(w[t \ {Max(t)}], binds[Max(t)], weight, target)
    <2>1. Fits(w)
      <3> HIDE DEF Fits
      <3> QED
        BY <1>6
    <2> HIDE DEF w
    <2> QED
      BY <1>1, <2>1
  <1> HIDE DEF w
  <1>8. FoldsTo(w, n, Number, 0, G)
    <2>1. \A t \in SUBSET (1 .. n) : t # {} => Max(t) \in 1 .. n
      BY <1>1, FirstNumbers
    <2> QED
      BY <1>3, <1>7, <2>1 DEF FoldsTo
  <1>9. PICK a \in [0 .. n -> Number] : /\ a[0] = 0 /\ w[1 .. n] = a[n]
                                        /\ \A i \in 1 .. n : a[i] = G[i][a[i - 1]]
    BY <1>1, <1>4, <1>8, FoldRuns
  <1>10. \A i \in 1 .. n : a[i] = BindShare(a[i - 1], binds[i], weight, target)
    <2>1. \A i \in 1 .. n : i - 1 \in 0 .. n
      BY <1>1
    <2> QED
      BY <1>3, <1>9, <2>1
  <1> QED
    BY <1>2, <1>9, <1>10

\* The binds of an expression add to each shape what they give it, and to no other.
LEMMA AddMorphsAdds ==
    ASSUME NEW totals \in Totals, NEW binds \in Seq(Bind), NEW weight \in Number
    PROVE  LET r == E!AddMorphs(totals, binds, weight)
           IN  /\ r \in Totals
               /\ DOMAIN r = DOMAIN totals \cup ({binds[i].target : i \in DOMAIN binds} \ {""})
               /\ \A t \in STRING : t # "" =>
                     /\ Bound(binds, weight, t) \in Number
                     /\ HeldFor(r, t) = Added(HeldFor(totals, t), Bound(binds, weight, t))
  <1> DEFINE n == Len(binds)
  <1>1. n \in Nat /\ DOMAIN binds = 1 .. n /\ \A i \in 1 .. n : binds[i] \in Bind
    OBVIOUS
  <1>2. PICK f \in [0 .. n -> Totals] :
            /\ f[0] = totals /\ E!AddMorphs(totals, binds, weight) = f[n]
            /\ \A i \in 1 .. n : f[i] = Touched(f[i - 1], binds[i], weight)
    BY AddMorphsRuns
  <1> HIDE DEF n
  <1>3. \A i \in 1 .. n : i - 1 \in 0 .. n /\ f[i - 1] \in Totals
    BY <1>1, <1>2
  <1> DEFINE D(k) == {binds[i].target : i \in 1 .. k} \ {""}
  <1>6. D(0) = {} /\ \A k \in 1 .. n : D(k) = D(k - 1) \cup ({binds[k].target} \ {""})
    <2>1. \A k \in 1 .. n : {binds[i].target : i \in 1 .. k}
                  = {binds[i].target : i \in 1 .. k - 1} \cup {binds[k].target}
      <3> SUFFICES ASSUME NEW k \in 1 .. n
                   PROVE  {binds[i].target : i \in 1 .. k}
                              = {binds[i].target : i \in 1 .. k - 1} \cup {binds[k].target}
        OBVIOUS
      <3>1. 1 .. k = (1 .. k - 1) \cup {k}
        BY <1>1
      <3> QED
        BY <3>1
    <2>2. 1 .. 0 = {}
      OBVIOUS
    <2> QED
      BY <2>1, <2>2
  <1>7. ASSUME NEW k \in 1 .. n
        PROVE  /\ DOMAIN f[k] = DOMAIN f[k - 1] \cup ({binds[k].target} \ {""})
               /\ \A t \in STRING : t # "" =>
                     HeldFor(f[k], t) = BindShare(HeldFor(f[k - 1], t), binds[k], weight, t)
    <2>1. PICK b \in Bind, all \in Totals : b = binds[k] /\ all = f[k - 1]
      BY <1>1, <1>3
    <2>2. f[k] = Touched(all, b, weight)
      BY <1>2, <2>1
    <2>3. DOMAIN Touched(all, b, weight) = DOMAIN all \cup ({b.target} \ {""})
      BY TouchedAdds
    <2>4. \A t \in STRING : t # "" =>
              HeldFor(Touched(all, b, weight), t) = BindShare(HeldFor(all, t), b, weight, t)
      BY TouchedAdds DEF BindShare
    <2> QED
      BY <2>1, <2>2, <2>3, <2>4
  <1>4. DOMAIN f[n] = DOMAIN totals \cup D(n)
    <2> DEFINE S == {k \in 0 .. n : DOMAIN f[k] = DOMAIN totals \cup D(k)}
    <2> HIDE DEF D
    <2>1. ASSUME NEW k \in 0 .. n, \A j \in 0 .. k - 1 : j \in S PROVE k \in S
      <3>1. CASE k = 0
        BY <1>2, <1>6, <3>1
      <3>2. CASE k # 0
        <4>1. k \in 1 .. n /\ k - 1 \in S
          BY <1>1, <2>1, <3>2
        <4> QED
          BY <1>6, <1>7, <4>1
      <3> QED
        BY <3>1, <3>2
    <2> HIDE DEF S
    <2>2. \A k \in 0 .. n : k \in S
      BY <1>1, <2>1, StrongInduction
    <2>3. n \in S
      BY <1>1, <2>2
    <2> QED
      BY <2>3 DEF S
  <1>5. ASSUME NEW t \in STRING, t # ""
        PROVE  /\ Bound(binds, weight, t) \in Number
               /\ HeldFor(f[n], t) = Added(HeldFor(totals, t), Bound(binds, weight, t))
    <2>1. PICK g \in [0 .. n -> Number] :
              /\ g[0] = 0 /\ Bound(binds, weight, t) = g[n]
              /\ \A i \in 1 .. n : g[i] = BindShare(g[i - 1], binds[i], weight, t)
      BY BoundRuns DEF n
    <2>2. PICK old \in Number : old = HeldFor(totals, t)
      <3>1. PICK A \in SUBSET STRING : totals \in [A -> Number]
        BY DEF Totals
      <3> QED
        BY <3>1, PlusAdds DEF HeldFor
    <2> DEFINE S == {k \in 0 .. n : HeldFor(f[k], t) = Added(old, g[k])}
    <2>3. ASSUME NEW k \in 0 .. n, \A j \in 0 .. k - 1 : j \in S PROVE k \in S
      <3>1. CASE k = 0
        BY <1>2, <2>1, <2>2, <3>1, PlusAdds
      <3>2. CASE k # 0
        <4>1. k \in 1 .. n /\ k - 1 \in S /\ g[k - 1] \in Number
          BY <1>1, <2>3, <3>2
        <4>2. PICK x \in Number : x = Scaled(weight, binds[k].weight)
          <5>1. binds[k].weight \in Number
            BY <1>1, <4>1 DEF Bind
          <5> QED
            BY <5>1, ScaledIsNumber
        <4>3. HeldFor(f[k], t) = IF binds[k].target # t THEN HeldFor(f[k - 1], t)
                               ELSE Added(HeldFor(f[k - 1], t), x)
          BY <1>5, <1>7, <4>1, <4>2 DEF BindShare
        <4>4. g[k] = IF binds[k].target # t THEN g[k - 1] ELSE Added(g[k - 1], x)
          BY <2>1, <4>1, <4>2 DEF BindShare
        <4>5. PICK b \in Number : b = g[k - 1]
          BY <4>1
        <4>6. Added(Added(old, b), x) = Added(old, Added(b, x))
          BY PlusAdds
        <4>7. HeldFor(f[k - 1], t) = Added(old, b)
          BY <4>1, <4>5
        <4> QED
          BY <4>3, <4>4, <4>5, <4>6, <4>7
      <3> QED
        BY <3>1, <3>2
    <2> HIDE DEF S
    <2>4. \A k \in 0 .. n : k \in S
      BY <1>1, <2>3, StrongInduction
    <2>5. n \in S
      BY <1>1, <2>4
    <2>6. g[n] \in Number
      BY <1>1, <2>1
    <2> QED
      BY <2>1, <2>2, <2>5, <2>6 DEF S
  <1>8. f[n] \in Totals
    BY <1>1, <1>2
  <1> QED
    BY <1>1, <1>2, <1>4, <1>5, <1>8

(* Overrides *)

\* The names of expressions: what the stages hold, what is not named, and what a gaze drives.
Names == STRING \cup {"", "lookLeft", "lookRight", "lookUp", "lookDown"}

\* An expression as the rig declares it, whatever colours it binds.
IsDefinition(d) ==
    /\ d.isBinary \in BOOLEAN /\ d.morphTargets \in Seq(Bind)
    /\ \A c \in E!Categories : d.override[c] \in E!Modes

\* What an expression weighs by itself is within its range.
LEMMA OwnWeightInRange ==
    ASSUME NEW d, IsDefinition(d), NEW v \in Number
    PROVE  E!OwnWeight(d, v, ResolveOptions) \in 0 .. Unit
  <1>1. E!ClampUnit(v) \in 0 .. Unit
    BY WeightAssumption DEF E!ClampUnit, Number
  <1>2. E!OwnWeight(d, v, ResolveOptions) = E!Rounded(d, E!ClampUnit(v), ResolveOptions)
    BY DEF E!OwnWeight, ResolveOptions
  <1>3. \A w \in 0 .. Unit : E!Rounded(d, w, ResolveOptions) \in 0 .. Unit
    BY WeightAssumption DEF E!Rounded
  <1> QED
    BY <1>1, <1>2, <1>3

\* And so is what it suppresses others by.
LEMMA RateInRange ==
    ASSUME NEW mode \in E!Modes, NEW w \in 0 .. Unit
    PROVE  E!OverrideRate(mode, w) \in 0 .. Unit
  BY WeightAssumption DEF E!OverrideRate, E!ClampUnit, E!Modes

\* A list of contributions, each of a declared expression.
Contributed(C, m) ==
    /\ DOMAIN C = 1 .. m
    /\ \A i \in 1 .. m : /\ C[i].name \in Names /\ IsDefinition(C[i].definition)
                         /\ C[i].weight \in 0 .. Unit

\* The rate a contribution asks of a category.
RateOf(c, category) == E!OverrideRate(c.definition.override[category], c.weight)

\* The overrides of the categories, each with the expression that asked for it.
Winners == [E!Categories -> [rate : 0 .. Unit, source : Names]]

\* The overrides after one more contribution.
Challenged(winners, c) == E!Challenge(winners, c)

\* A contribution takes a category it asks for more of.
LEMMA ChallengedRate ==
    ASSUME NEW winners \in Winners, NEW c, c.name \in Names,
           \A category \in E!Categories : RateOf(c, category) \in 0 .. Unit
    PROVE  /\ Challenged(winners, c) \in Winners
           /\ \A category \in E!Categories :
                 Challenged(winners, c)[category].rate =
                     IF RateOf(c, category) > winners[category].rate THEN RateOf(c, category)
                     ELSE winners[category].rate
  BY DEF Challenged, E!Challenge, RateOf, Winners

\* Nothing is overridden before a contribution.
LEMMA UnclaimedRate ==
    E!Unclaimed \in Winners /\ \A category \in E!Categories : E!Unclaimed[category].rate = 0
  <1>1. [rate |-> 0, source |-> ""] \in [rate : 0 .. Unit, source : Names]
    <2>1. 0 \in 0 .. Unit
      BY WeightAssumption
    <2>2. "" \in Names
      BY DEF Names
    <2> QED
      BY <2>1, <2>2
  <1> QED
    BY <1>1 DEF E!Unclaimed, Winners

\* The overrides of a sample, one contribution after the other.
LEMMA OverridesRun ==
    ASSUME NEW m \in Nat, NEW C, Contributed(C, m)
    PROVE  \E f \in [0 .. m -> Winners] :
               /\ f[0] = E!Unclaimed /\ E!Overrides(C) = f[m]
               /\ \A i \in 1 .. m : f[i] = Challenged(f[i - 1], C[i])
  <1> DEFINE n == m
             Fits(g) == g = [t \in SUBSET DOMAIN C |->
                                IF t = {} THEN E!Unclaimed
                                ELSE Challenged(g[t \ {Max(t)}], C[Max(t)])]
             w == CHOOSE g : Fits(g)
  <1>1. n \in Nat /\ DOMAIN C = 1 .. n
    BY DEF Contributed
  <1>2. E!Overrides(C) = w[1 .. n]
    <2>1. E!Overrides(C) = w[DOMAIN C]
      BY OneMax DEF E!Overrides, E!FoldLeft, E!MapThenFoldSet, Challenged
    <2> QED
      BY <1>1, <2>1
  <1>3. PICK G : \A i \in 1 .. n : \A v \in Winners : G[i][v] = Challenged(v, C[i])
    <2>1. \A i \in 1 .. n : \A v \in Winners :
              [j \in 1 .. n |-> [u \in Winners |-> Challenged(u, C[j])]][i][v]
                  = Challenged(v, C[i])
      OBVIOUS
    <2> QED
      BY <2>1
  <1>4. StepsWithin(n, Winners, E!Unclaimed, G)
    <2>1. ASSUME NEW i \in 1 .. n, NEW v \in Winners
          PROVE  Challenged(v, C[i]) \in Winners
      <3>1. \A c \in E!Categories : RateOf(C[i], c) \in 0 .. Unit
        <4>1. \A c \in E!Categories : C[i].definition.override[c] \in E!Modes
          BY <2>1 DEF Contributed, IsDefinition
        <4> QED
          BY <2>1, <4>1, RateInRange DEF Contributed, RateOf
      <3>2. C[i].name \in Names
        BY <2>1 DEF Contributed
      <3> QED
        BY <2>1, <3>1, <3>2, ChallengedRate
    <2>2. E!Unclaimed \in Winners
      BY UnclaimedRate
    <2> QED
      BY <1>3, <2>1, <2>2 DEF StepsWithin
  <1>5. PICK f \in [SUBSET (1 .. n) -> Winners] : IsListFold(f, n, E!Unclaimed, G)
    BY <1>1, <1>4, ListFold
  <1>6. Fits(f)
    <2>1. ASSUME NEW t \in SUBSET (1 .. n), t # {}
          PROVE  G[Max(t)][f[t \ {Max(t)}]] = Challenged(f[t \ {Max(t)}], C[Max(t)])
      <3>1. Max(t) \in 1 .. n /\ f[t \ {Max(t)}] \in Winners
        BY <1>1, <2>1, FirstNumbers
      <3> QED
        BY <1>3, <3>1
    <2>2. f = [t \in SUBSET (1 .. n) |-> f[t]]
      OBVIOUS
    <2> QED
      BY <1>1, <1>5, <2>1, <2>2 DEF IsListFold
  <1>7. \A t \in SUBSET (1 .. n) :
            w[t] = IF t = {} THEN E!Unclaimed ELSE Challenged(w[t \ {Max(t)}], C[Max(t)])
    <2>1. Fits(w)
      <3> HIDE DEF Fits
      <3> QED
        BY <1>6
    <2> HIDE DEF w
    <2> QED
      BY <1>1, <2>1
  <1> HIDE DEF w
  <1>8. FoldsTo(w, n, Winners, E!Unclaimed, G)
    <2>1. \A t \in SUBSET (1 .. n) : t # {} => Max(t) \in 1 .. n
      BY <1>1, FirstNumbers
    <2> QED
      BY <1>3, <1>7, <2>1 DEF FoldsTo
  <1>9. PICK a \in [0 .. n -> Winners] : /\ a[0] = E!Unclaimed /\ w[1 .. n] = a[n]
                                        /\ \A i \in 1 .. n : a[i] = G[i][a[i - 1]]
    <2>1. PICK none : none = E!Unclaimed
      OBVIOUS
    <2>2. StepsWithin(n, Winners, none, G) /\ FoldsTo(w, n, Winners, none, G)
      BY <1>4, <1>8, <2>1
    <2>3. \E a \in [0 .. n -> Winners] : /\ a[0] = none /\ w[1 .. n] = a[n]
                                          /\ \A i \in 1 .. n : a[i] = G[i][a[i - 1]]
      BY <1>1, <2>2, FoldRuns
    <2> QED
      BY <2>1, <2>3
  <1>10. \A i \in 1 .. n : a[i] = Challenged(a[i - 1], C[i])
    <2>1. \A i \in 1 .. n : i - 1 \in 0 .. n
      BY <1>1
    <2> QED
      BY <1>3, <1>9, <2>1
  <1> QED
    BY <1>2, <1>9, <1>10

\* A category is overridden by the most that any contribution asks for, and by no more.
LEMMA OverridesAreTheMost ==
    ASSUME NEW m \in Nat, NEW C, Contributed(C, m), NEW category \in E!Categories
    PROVE  E!Overrides(C)[category].rate = Max({0} \cup {RateOf(C[i], category) : i \in 1 .. m})
  <1>1. PICK f \in [0 .. m -> Winners] :
            /\ f[0] = E!Unclaimed /\ E!Overrides(C) = f[m]
            /\ \A i \in 1 .. m : f[i] = Challenged(f[i - 1], C[i])
    BY OverridesRun
  <1>2. \A i \in 0 .. m : f[i] \in Winners /\ f[i][category].rate \in 0 .. Unit
    BY <1>1 DEF Winners
  <1>3. \A i \in 1 .. m : \A c \in E!Categories : RateOf(C[i], c) \in 0 .. Unit
    <2>1. \A i \in 1 .. m : \A c \in E!Categories : C[i].definition.override[c] \in E!Modes
      BY DEF Contributed, IsDefinition
    <2> QED
      BY <2>1, RateInRange DEF Contributed, RateOf
  <1>4. \A i \in 1 .. m : RateOf(C[i], category) \in 0 .. Unit
    BY <1>3
  <1> DEFINE rate(k) == f[k][category].rate
             Most(k) == /\ \A i \in 1 .. k : RateOf(C[i], category) <= rate(k)
                        /\ rate(k) = 0 \/ \E i \in 1 .. k : rate(k) = RateOf(C[i], category)
             S == {k \in 0 .. m : Most(k)}
  <1>5. rate(0) = 0
    BY <1>1, UnclaimedRate
  <1>6. \A k \in 0 .. m : rate(k) \in 0 .. Unit
    BY <1>2
  <1>7. \A i \in 1 .. m : rate(i) = IF RateOf(C[i], category) > rate(i - 1)
                                    THEN RateOf(C[i], category) ELSE rate(i - 1)
    <2> SUFFICES ASSUME NEW i \in 1 .. m
                 PROVE  rate(i) = IF RateOf(C[i], category) > rate(i - 1)
                                  THEN RateOf(C[i], category) ELSE rate(i - 1)
      OBVIOUS
    <2>1. PICK winners \in Winners : winners = f[i - 1]
      BY <1>2
    <2>2. f[i] = Challenged(winners, C[i])
      BY <1>1, <2>1
    <2>3. Challenged(winners, C[i])[category].rate
              = IF RateOf(C[i], category) > winners[category].rate THEN RateOf(C[i], category)
                ELSE winners[category].rate
      BY <1>3, ChallengedRate DEF Contributed
    <2> QED
      BY <2>1, <2>2, <2>3
  <1> HIDE DEF rate
  <1>8. ASSUME NEW k \in 0 .. m, \A j \in 0 .. k - 1 : j \in S PROVE k \in S
    <2>1. CASE k = 0
      BY <1>5, <2>1
    <2>2. CASE k # 0
      <3>1. k \in 1 .. m /\ k - 1 \in 0 .. m /\ Most(k - 1)
        BY <1>8, <2>2
      <3>2. \A i \in 1 .. k : i = k \/ i \in 1 .. k - 1
        BY <3>1
      <3>3. rate(k) = IF RateOf(C[k], category) > rate(k - 1)
                      THEN RateOf(C[k], category) ELSE rate(k - 1)
        BY <1>7, <3>1
      <3>4. rate(k - 1) \in 0 .. Unit /\ RateOf(C[k], category) \in 0 .. Unit
        BY <1>4, <1>6, <3>1
      <3>5. \A i \in 1 .. k - 1 : RateOf(C[i], category) \in 0 .. Unit
        BY <1>4, <3>1
      <3> QED
        BY <3>1, <3>2, <3>3, <3>4, <3>5, WeightAssumption
    <2> QED
      BY <2>1, <2>2
  <1> HIDE DEF S
  <1>9. m \in S
    <2>1. \A k \in 0 .. m : k \in S
      BY <1>8, StrongInduction
    <2> QED
      BY <2>1
  <1>10. Most(m)
    BY <1>9 DEF S
  <1> DEFINE T == {0} \cup {RateOf(C[i], category) : i \in 1 .. m}
  <1>11. rate(m) \in T /\ \A x \in T : rate(m) >= x
    BY <1>4, <1>6, <1>10, WeightAssumption
  <1>12. \A x \in T : x \in Int
    BY <1>4, WeightAssumption
  <1> HIDE DEF T
  <1>13. Max(T) = rate(m)
    <2>1. Max(T) \in T /\ \A x \in T : Max(T) >= x
      BY <1>11 DEF Max
    <2> QED
      BY <1>11, <1>12, <2>1
  <1> QED
    BY <1>1, <1>13 DEF T, rate

(* Contributions *)

\* A rig of definitions.
IsRig(rig) == \A n \in DOMAIN rig : IsDefinition(rig[n])

\* What a sample reports: no name twice.
IsSample(s) ==
    /\ s \in Seq([name : Names, value : Number])
    /\ \A i, k \in DOMAIN s : s[i].name = s[k].name => i = k

\* The resolver's places are the clip's.
LEMMA OneEntries == \A s, S : E!Entries(s, S) = Entries(s, S)
  <1>1. \A S : E!Cardinality(S) = Cardinality(S)
    BY DEF E!Cardinality, Cardinality
  <1>2. \A S, x : E!Rank(S, x) = Rank(S, x)
    BY <1>1 DEF E!Rank, Rank
  <1>3. \A S : E!InOrder(S) = InOrder(S)
    BY <1>1, <1>2 DEF E!InOrder, InOrder
  <1> QED
    BY <1>1, <1>3 DEF E!Entries, Entries

\* The places of a sample that the rig declares.
Declared(rig, s) == {i \in DOMAIN s : s[i].name \in DOMAIN rig}

\* The contributions a sample resolves.
Resolving(rig, s) == E!Contributions(rig, s, ResolveOptions)

\* The names of the first k contributions.
NamesOf(C, k) == {C[i].name : i \in 1 .. k}

\* No name contributes twice.
NamedOnce(C, m) == \A i, k \in 1 .. m : C[i].name = C[k].name => i = k

\* Each name that is reported and declared contributes once, by what its own entry weighs.
LEMMA ContributionsAre ==
    ASSUME NEW rig, IsRig(rig), NEW s, IsSample(s)
    PROVE  \E m \in Nat :
               /\ Contributed(Resolving(rig, s), m) /\ NamedOnce(Resolving(rig, s), m)
               /\ NamesOf(Resolving(rig, s), m) = {c.name : c \in Range(s)} \cap DOMAIN rig
               /\ \A i \in 1 .. m :
                     LET c == Resolving(rig, s)[i]
                     IN  /\ c.definition = rig[c.name]
                         /\ \E k \in DOMAIN s :
                               /\ s[k].name = c.name
                               /\ c.weight = E!OwnWeight(rig[c.name], s[k].value, ResolveOptions)
  <1> DEFINE P == Declared(rig, s)
             m == Cardinality(P)
             at(i) == InOrder(P)[i]
             own(k) == E!OwnWeight(rig[s[k].name], s[k].value, ResolveOptions)
             C == Resolving(rig, s)
  <1>1. /\ Len(s) \in Nat /\ DOMAIN s = 1 .. Len(s)
        /\ \A k \in DOMAIN s : s[k] \in [name : Names, value : Number]
    <2>1. PICK T : T = [name : Names, value : Number]
      OBVIOUS
    <2>2. s \in Seq(T)
      BY <2>1 DEF IsSample
    <2>3. Len(s) \in Nat /\ DOMAIN s = 1 .. Len(s) /\ \A k \in DOMAIN s : s[k] \in T
      BY <2>2
    <2> QED
      BY <2>1, <2>3
  <1>2. P \in SUBSET (1 .. Len(s))
    BY <1>1 DEF Declared
  <1> HIDE DEF P
  <1>3. /\ m \in Nat /\ Entries(s, P) = [i \in 1 .. m |-> s[at(i)]]
        /\ \A i \in 1 .. m : at(i) \in P
        /\ \A p \in P : \E i \in 1 .. m : at(i) = p
        /\ \A i, k \in 1 .. m : i < k => at(i) < at(k)
    <2>1. PICK n \in Nat : n = Len(s)
      BY <1>1
    <2>2. P \in SUBSET (1 .. n)
      BY <1>2, <2>1
    <2>3. Entries(s, P) = [i \in 1 .. Cardinality(P) |-> s[InOrder(P)[i]]]
      BY DEF Entries
    <2>4. /\ Cardinality(P) \in Nat
          /\ \A i \in 1 .. Cardinality(P) : InOrder(P)[i] \in P
          /\ \A p \in P : \E i \in 1 .. Cardinality(P) : InOrder(P)[i] = p
          /\ \A i, k \in 1 .. Cardinality(P) : i < k => InOrder(P)[i] < InOrder(P)[k]
      BY <2>2, EntriesAre
    <2> QED
      BY <2>3, <2>4
  <1> HIDE DEF m, at
  <1>4. C = [i \in 1 .. m |-> [name |-> s[at(i)].name, definition |-> rig[s[at(i)].name],
                               weight |-> own(at(i))]]
    <2>1. C = [i \in DOMAIN Entries(s, P) |->
                  [name |-> Entries(s, P)[i].name, definition |-> rig[Entries(s, P)[i].name],
                   weight |-> E!OwnWeight(rig[Entries(s, P)[i].name], Entries(s, P)[i].value,
                                          ResolveOptions)]]
      BY OneEntries DEF Resolving, E!Contributions, P, Declared
    <2> QED
      BY <1>3, <2>1
  <1> HIDE DEF C
  <1>5. ASSUME NEW i \in 1 .. m
        PROVE  /\ at(i) \in DOMAIN s /\ s[at(i)].name \in DOMAIN rig
               /\ C[i].name = s[at(i)].name /\ C[i].definition = rig[C[i].name]
               /\ C[i].weight = E!OwnWeight(rig[C[i].name], s[at(i)].value, ResolveOptions)
    BY <1>3, <1>4 DEF P, Declared
  <1>6. Contributed(C, m)
    <2>1. ASSUME NEW i \in 1 .. m
          PROVE  /\ C[i].name \in Names /\ IsDefinition(C[i].definition)
                 /\ C[i].weight \in 0 .. Unit
      <3>1. C[i].name \in Names /\ s[at(i)].value \in Number
        BY <1>1, <1>5
      <3>2. IsDefinition(rig[C[i].name])
        BY <1>5 DEF IsRig
      <3>3. E!OwnWeight(rig[C[i].name], s[at(i)].value, ResolveOptions) \in 0 .. Unit
        BY <3>1, <3>2, OwnWeightInRange
      <3> QED
        BY <1>5, <3>1, <3>2, <3>3
    <2>2. DOMAIN C = 1 .. m
      BY <1>4
    <2> QED
      BY <2>1, <2>2 DEF Contributed
  <1>7. NamedOnce(C, m)
    <2> SUFFICES ASSUME NEW i \in 1 .. m, NEW k \in 1 .. m, C[i].name = C[k].name PROVE i = k
      BY DEF NamedOnce
    <2>1. at(i) = at(k)
      BY <1>5 DEF IsSample
    <2>2. at(i) \in Int /\ at(k) \in Int
      BY <1>1, <1>5
    <2> QED
      BY <1>3, <2>1, <2>2
  <1>8. NamesOf(C, m) = {c.name : c \in Range(s)} \cap DOMAIN rig
    <2>1. ASSUME NEW k \in DOMAIN s, s[k].name \in DOMAIN rig PROVE s[k].name \in NamesOf(C, m)
      <3>1. PICK i \in 1 .. m : at(i) = k
        BY <1>3, <2>1 DEF P, Declared
      <3> QED
        BY <1>5, <3>1 DEF NamesOf
    <2>2. ASSUME NEW i \in 1 .. m PROVE C[i].name \in {c.name : c \in Range(s)} \cap DOMAIN rig
      BY <1>5 DEF Range
    <2> QED
      BY <2>1, <2>2 DEF NamesOf, Range
  <1>9. \A i \in 1 .. m :
            /\ C[i].definition = rig[C[i].name]
            /\ \E k \in DOMAIN s :
                  /\ s[k].name = C[i].name
                  /\ C[i].weight = E!OwnWeight(rig[C[i].name], s[k].value, ResolveOptions)
    BY <1>5
  <1> QED
    BY <1>3, <1>6, <1>7, <1>8, <1>9 DEF C

\* What is left of a contribution is a weight.
LEMMA ArbitratedIsNumber ==
    ASSUME NEW m \in Nat, NEW C, Contributed(C, m), NEW i \in 1 .. m
    PROVE  E!Arbitrated(C[i], E!Overrides(C), ResolveOptions) \in Number
  <1> DEFINE d == C[i].definition
  <1>1. IsDefinition(d) /\ C[i].weight \in 0 .. Unit
    BY DEF Contributed
  <1>2. 0 .. Unit \in SUBSET Number /\ Unit \in Number /\ 0 \in Number
    BY WeightAssumption DEF Number
  <1>3. \A w \in Number : E!Rounded(d, w, ResolveOptions) \in Number
    BY <1>2 DEF E!Rounded
  <1>4. E!Suppresses(E!Overrides(C), C[i].name)
            => E!Overrides(C)[E!CategoryOf(C[i].name)].rate \in 0 .. Unit
    <2> SUFFICES ASSUME E!CategoryOf(C[i].name) \in E!Categories
                 PROVE  E!Overrides(C)[E!CategoryOf(C[i].name)].rate \in 0 .. Unit
      BY DEF E!Suppresses
    <2>1. PICK f \in [0 .. m -> Winners] : E!Overrides(C) = f[m]
      BY OverridesRun
    <2>2. E!Overrides(C) \in Winners
      BY <2>1
    <2> QED
      BY <2>2 DEF Winners
  <1>5. CASE E!Suppresses(E!Overrides(C), C[i].name)
    <2>1. PICK rate \in 0 .. Unit : rate = E!Overrides(C)[E!CategoryOf(C[i].name)].rate
      BY <1>4, <1>5
    <2>2. Unit - rate \in Number /\ C[i].weight \in Number
      BY <1>1, <1>2, WeightAssumption DEF Number
    <2>3. Scaled(C[i].weight, Unit - rate) \in Number
      BY <2>2, ScaledIsNumber
    <2>4. E!Arbitrated(C[i], E!Overrides(C), ResolveOptions)
              = E!Rounded(d, Scaled(C[i].weight, Unit - rate), ResolveOptions)
      BY <1>5, <2>1 DEF E!Arbitrated, Scaled
    <2> HIDE DEF d
    <2> QED
      BY <1>3, <2>3, <2>4
  <1>6. CASE ~E!Suppresses(E!Overrides(C), C[i].name)
    BY <1>1, <1>2, <1>6 DEF E!Arbitrated
  <1> QED
    BY <1>5, <1>6

(* The blend shapes of a sample *)

\* What a contribution leaves each shape, and how it is added to the others'.
Rest(C, i) == E!Arbitrated(C[i], E!Overrides(C), ResolveOptions)

\* The totals with one more contribution's binds.
Merged(C, all, i) == E!AddMorphs(all, C[i].definition.morphTargets, Rest(C, i))

\* The blend shapes a sample resolves to.
Morphs(rig, s) == E!Resolve(rig, s, ResolveOptions).resolved.morphTargets

\* No entry is where the totals start.
LEMMA NothingIsTotals == E!NoEntries \in Totals /\ DOMAIN E!NoEntries = {}
  <1>1. E!NoEntries \in [{} -> Number]
    BY DEF E!NoEntries
  <1> QED
    BY <1>1 DEF Totals

\* The shapes a definition binds.
TargetsOf(d) == {d.morphTargets[j].target : j \in DOMAIN d.morphTargets} \ {""}

\* A bind's key that is not empty.
IsShape(t) == t \in STRING /\ t # ""

\* A contribution adds its binds, at what is left of its weight.
LEMMA MergedIs ==
    ASSUME NEW m \in Nat, NEW C, Contributed(C, m), NEW i \in 1 .. m, NEW all
    PROVE  \E weight \in Number, binds \in Seq(Bind) :
               /\ weight = Rest(C, i) /\ binds = C[i].definition.morphTargets
               /\ Merged(C, all, i) = E!AddMorphs(all, binds, weight)
  <1>1. PICK weight \in Number : weight = Rest(C, i)
    BY ArbitratedIsNumber DEF Rest
  <1>2. PICK binds \in Seq(Bind) : binds = C[i].definition.morphTargets
    BY DEF Contributed, IsDefinition
  <1>3. Merged(C, all, i) = E!AddMorphs(all, binds, weight)
    BY <1>1, <1>2 DEF Merged
  <1> QED
    BY <1>1, <1>2, <1>3

\* It adds to the shapes it binds, and to no other.
LEMMA MergedAdds ==
    ASSUME NEW m \in Nat, NEW C, Contributed(C, m), NEW i \in 1 .. m, NEW all \in Totals
    PROVE  /\ Merged(C, all, i) \in Totals
           /\ DOMAIN Merged(C, all, i) = DOMAIN all \cup TargetsOf(C[i].definition)
  <1>1. PICK weight \in Number, binds \in Seq(Bind) :
            /\ weight = Rest(C, i) /\ binds = C[i].definition.morphTargets
            /\ Merged(C, all, i) = E!AddMorphs(all, binds, weight)
    BY MergedIs
  <1>2. PICK r : r = E!AddMorphs(all, binds, weight)
    OBVIOUS
  <1>3. r \in Totals /\ DOMAIN r = DOMAIN all \cup ({binds[j].target : j \in DOMAIN binds} \ {""})
    BY <1>2, AddMorphsAdds
  <1> QED
    BY <1>1, <1>2, <1>3 DEF TargetsOf

\* A shape holds what it held and the part a contribution gives it.
LEMMA MergedHolds ==
    ASSUME NEW m \in Nat, NEW C, Contributed(C, m), NEW i \in 1 .. m, NEW all \in Totals,
           NEW t, IsShape(t)
    PROVE  /\ Bound(C[i].definition.morphTargets, Rest(C, i), t) \in Number
           /\ HeldFor(Merged(C, all, i), t)
                  = Added(HeldFor(all, t), Bound(C[i].definition.morphTargets, Rest(C, i), t))
  <1>1. PICK weight \in Number, binds \in Seq(Bind) :
            /\ weight = Rest(C, i) /\ binds = C[i].definition.morphTargets
            /\ Merged(C, all, i) = E!AddMorphs(all, binds, weight)
    BY MergedIs
  <1>2. PICK r : r = E!AddMorphs(all, binds, weight)
    OBVIOUS
  <1>3. /\ Bound(binds, weight, t) \in Number
        /\ HeldFor(r, t) = Added(HeldFor(all, t), Bound(binds, weight, t))
    BY <1>2, AddMorphsAdds DEF IsShape
  <1> QED
    BY <1>1, <1>2, <1>3

\* The contributions of a sample, added one after the other.
LEMMA MorphsRun ==
    ASSUME NEW rig, NEW s, NEW m \in Nat, Contributed(Resolving(rig, s), m)
    PROVE  \E f \in [0 .. m -> Totals] :
               /\ f[0] = E!NoEntries /\ Morphs(rig, s) = f[m]
               /\ \A i \in 1 .. m : f[i] = Merged(Resolving(rig, s), f[i - 1], i)
  <1> DEFINE n == m
             Fits(g) == g = [t \in SUBSET DOMAIN Resolving(rig, s) |->
                                IF t = {} THEN E!NoEntries
                                ELSE Merged(Resolving(rig, s), g[t \ {Max(t)}], Max(t))]
             w == CHOOSE g : Fits(g)
  <1>1. n \in Nat /\ DOMAIN Resolving(rig, s) = 1 .. n
    BY DEF Contributed
  <1>2. Morphs(rig, s) = w[1 .. n]
    <2>1. Morphs(rig, s) = w[DOMAIN Resolving(rig, s)]
      BY OneMax DEF Morphs, E!Resolve, E!FoldLeft, E!MapThenFoldSet, Merged, Rest, Resolving
    <2> QED
      BY <1>1, <2>1
  <1>3. PICK G : \A i \in 1 .. n : \A v \in Totals : G[i][v] = Merged(Resolving(rig, s), v, i)
    <2>1. \A i \in 1 .. n : \A v \in Totals :
              [j \in 1 .. n |-> [u \in Totals |-> Merged(Resolving(rig, s), u, j)]][i][v]
                  = Merged(Resolving(rig, s), v, i)
      OBVIOUS
    <2> QED
      BY <2>1
  <1>4. StepsWithin(n, Totals, E!NoEntries, G)
    <2>1. \A i \in 1 .. n : \A v \in Totals : Merged(Resolving(rig, s), v, i) \in Totals
      BY MergedAdds DEF n
    <2>2. E!NoEntries \in Totals
      BY NothingIsTotals
    <2> QED
      BY <1>3, <2>1, <2>2 DEF StepsWithin
  <1>5. PICK f \in [SUBSET (1 .. n) -> Totals] : IsListFold(f, n, E!NoEntries, G)
    BY <1>1, <1>4, ListFold
  <1>6. Fits(f)
    <2>1. ASSUME NEW t \in SUBSET (1 .. n), t # {}
          PROVE  G[Max(t)][f[t \ {Max(t)}]] = Merged(Resolving(rig, s), f[t \ {Max(t)}], Max(t))
      <3>1. Max(t) \in 1 .. n /\ f[t \ {Max(t)}] \in Totals
        BY <1>1, <2>1, FirstNumbers
      <3> QED
        BY <1>3, <3>1
    <2>2. f = [t \in SUBSET (1 .. n) |-> f[t]]
      OBVIOUS
    <2> QED
      BY <1>1, <1>5, <2>1, <2>2 DEF IsListFold
  <1>7. \A t \in SUBSET (1 .. n) :
            w[t] = IF t = {} THEN E!NoEntries
                   ELSE Merged(Resolving(rig, s), w[t \ {Max(t)}], Max(t))
    <2>1. Fits(w)
      <3> HIDE DEF Fits
      <3> QED
        BY <1>6
    <2> HIDE DEF w
    <2> QED
      BY <1>1, <2>1
  <1> HIDE DEF w
  <1>8. FoldsTo(w, n, Totals, E!NoEntries, G)
    <2>1. \A t \in SUBSET (1 .. n) : t # {} => Max(t) \in 1 .. n
      BY <1>1, FirstNumbers
    <2> QED
      BY <1>3, <1>7, <2>1 DEF FoldsTo
  <1>9. PICK a \in [0 .. n -> Totals] : /\ a[0] = E!NoEntries /\ w[1 .. n] = a[n]
                                        /\ \A i \in 1 .. n : a[i] = G[i][a[i - 1]]
    BY <1>1, <1>4, <1>8, FoldRuns
  <1>10. \A i \in 1 .. n : a[i] = Merged(Resolving(rig, s), a[i - 1], i)
    <2>1. \A i \in 1 .. n : i - 1 \in 0 .. n
      BY <1>1
    <2> QED
      BY <1>3, <1>9, <2>1
  <1> QED
    BY <1>2, <1>9, <1>10

\* One more contribution: the names so far and the new one, which is none of them.
LEMMA NamesGrow ==
    ASSUME NEW m \in Nat, NEW C, NamedOnce(C, m), NEW k \in 1 .. m
    PROVE  /\ NamesOf(C, k) \in SUBSET NamesOf(C, m) /\ C[k].name \in NamesOf(C, k)
           /\ NamesOf(C, k) \ {C[k].name} = NamesOf(C, k - 1)
  <1>1. \A i \in 1 .. k : i \in 1 .. m /\ (i = k \/ i \in 1 .. k - 1)
    OBVIOUS
  <1>2. \A i \in 1 .. k - 1 : i \in 1 .. k /\ i \in 1 .. m /\ i # k
    OBVIOUS
  <1>3. \A i \in 1 .. k - 1 : C[i].name # C[k].name
    BY <1>2 DEF NamedOnce
  <1>4. k \in 1 .. k
    OBVIOUS
  <1> QED
    BY <1>1, <1>2, <1>3, <1>4 DEF NamesOf

\* Contributions added in turn, from nothing.
Accumulates(f, C, m) ==
    /\ f \in [0 .. m -> Totals] /\ f[0] = E!NoEntries
    /\ \A i \in 1 .. m : f[i] = Merged(C, f[i - 1], i)

\* The shapes that get an entry are the ones a contribution binds.
LEMMA MergedDomain ==
    ASSUME NEW m \in Nat, NEW C, Contributed(C, m), NEW f, Accumulates(f, C, m)
    PROVE  DOMAIN f[m] = UNION {TargetsOf(C[i].definition) : i \in 1 .. m}
  <1> DEFINE D(k) == UNION {TargetsOf(C[i].definition) : i \in 1 .. k}
             S == {k \in 0 .. m : DOMAIN f[k] = D(k)}
  <1>1. D(0) = {} /\ \A k \in 1 .. m : D(k) = D(k - 1) \cup TargetsOf(C[k].definition)
    <2>1. \A k \in 1 .. m : 1 .. k = (1 .. k - 1) \cup {k}
      OBVIOUS
    <2>2. 1 .. 0 = {}
      OBVIOUS
    <2>3. ASSUME NEW k \in 1 .. m PROVE D(k) = D(k - 1) \cup TargetsOf(C[k].definition)
      <3>1. \A i : i \in 1 .. k <=> (i \in 1 .. k - 1 \/ i = k)
        BY <2>1
      <3> QED
        BY <3>1
    <2> QED
      BY <2>2, <2>3
  <1> HIDE DEF D
  <1>2. \A k \in 1 .. m : DOMAIN f[k] = DOMAIN f[k - 1] \cup TargetsOf(C[k].definition)
    <2> SUFFICES ASSUME NEW k \in 1 .. m
                 PROVE  DOMAIN f[k] = DOMAIN f[k - 1] \cup TargetsOf(C[k].definition)
      OBVIOUS
    <2>1. k - 1 \in 0 .. m /\ f[k] = Merged(C, f[k - 1], k)
      BY DEF Accumulates
    <2>2. PICK all \in Totals : all = f[k - 1]
      BY <2>1 DEF Accumulates
    <2>3. DOMAIN Merged(C, all, k) = DOMAIN all \cup TargetsOf(C[k].definition)
      BY MergedAdds
    <2> QED
      BY <2>1, <2>2, <2>3
  <1>3. ASSUME NEW k \in 0 .. m, \A j \in 0 .. k - 1 : j \in S PROVE k \in S
    <2>1. CASE k = 0
      BY <1>1, <2>1, NothingIsTotals DEF Accumulates
    <2>2. CASE k # 0
      <3>1. k \in 1 .. m /\ k - 1 \in S
        BY <1>3, <2>2
      <3> QED
        BY <1>1, <1>2, <3>1
    <2> QED
      BY <2>1, <2>2
  <1> HIDE DEF S
  <1>4. \A k \in 0 .. m : k \in S
    BY <1>3, StrongInduction
  <1>5. m \in S
    BY <1>4
  <1> QED
    BY <1>5 DEF S, D

\* What a shape is given by a list of named contributions.
Gives(share, C, m, t) ==
    /\ share \in [NamesOf(C, m) -> Number]
    /\ \A i \in 1 .. m : share[C[i].name] = Bound(C[i].definition.morphTargets, Rest(C, i), t)

\* A shape holds what it held and the part the next contribution gives it.
LEMMA HeldGrows ==
    ASSUME NEW m \in Nat, NEW C, Contributed(C, m), NEW f, Accumulates(f, C, m),
           NEW t, IsShape(t), NEW k \in 1 .. m
    PROVE  HeldFor(f[k], t) = Added(HeldFor(f[k - 1], t),
                                    Bound(C[k].definition.morphTargets, Rest(C, k), t))
  <1>1. k - 1 \in 0 .. m /\ f[k] = Merged(C, f[k - 1], k)
    BY DEF Accumulates
  <1>2. PICK all \in Totals : all = f[k - 1]
    BY <1>1 DEF Accumulates
  <1>3. HeldFor(Merged(C, all, k), t)
            = Added(HeldFor(all, t), Bound(C[k].definition.morphTargets, Rest(C, k), t))
    BY MergedHolds
  <1> QED
    BY <1>1, <1>2, <1>3

\* What each shape holds is the sum of what the names give it, in whatever order they came.
LEMMA MergedSums ==
    ASSUME NEW m \in Nat, NEW C, Contributed(C, m), NamedOnce(C, m),
           NEW f, Accumulates(f, C, m), NEW t, IsShape(t), NEW share, Gives(share, C, m, t)
    PROVE  HeldFor(f[m], t) = SumOf(share, NamesOf(C, m))
  <1>1. PICK N : N = NamesOf(C, m)
    OBVIOUS
  <1>2. IsFiniteSet(N)
    <2> DEFINE g == [i \in 1 .. m |-> C[i].name]
    <2>1. g \in Surjection(1 .. m, N)
      BY <1>1 DEF Surjection, NamesOf
    <2>2. IsFiniteSet(1 .. m)
      BY FirstNumbers
    <2> HIDE DEF g
    <2>3. PICK I : I = 1 .. m
      OBVIOUS
    <2>4. g \in Surjection(I, N) /\ IsFiniteSet(I)
      BY <2>1, <2>2, <2>3
    <2> QED
      BY <2>4, FS_Surjection
  <1>3. share \in [N -> Number]
    BY <1>1 DEF Gives
  <1>4. PICK sum : SumOf(share, N) = sum[N] /\ SumsUp(sum, share, N)
    BY <1>2, <1>3, SumTakesAnyFirst
  <1> DEFINE S == {k \in 0 .. m : HeldFor(f[k], t) = sum[NamesOf(C, k)]}
  <1>5. NamesOf(C, 0) = {} /\ \A k \in 0 .. m : NamesOf(C, k) \in SUBSET N
    <2>1. \A k \in 0 .. m : \A i \in 1 .. k : i \in 1 .. m
      OBVIOUS
    <2>2. 1 .. 0 = {}
      OBVIOUS
    <2> QED
      BY <1>1, <2>1, <2>2 DEF NamesOf
  <1>6. ASSUME NEW k \in 1 .. m
        PROVE  /\ sum[NamesOf(C, k)] = Added(share[C[k].name], sum[NamesOf(C, k - 1)])
               /\ HeldFor(f[k], t) = Added(HeldFor(f[k - 1], t), share[C[k].name])
               /\ share[C[k].name] \in Number
    <2>1. /\ C[k].name \in NamesOf(C, k) /\ NamesOf(C, k) \ {C[k].name} = NamesOf(C, k - 1)
      BY NamesGrow
    <2>2. sum[NamesOf(C, k)] = Added(share[C[k].name], sum[NamesOf(C, k - 1)])
      <3>1. PICK u \in SUBSET N : u = NamesOf(C, k)
        <4>1. k \in 0 .. m
          OBVIOUS
        <4> QED
          BY <1>5, <4>1
      <3>2. sum[u] = Added(share[C[k].name], sum[u \ {C[k].name}])
        BY <1>4, <2>1, <3>1 DEF SumsUp
      <3> QED
        BY <2>1, <3>1, <3>2
    <2>3. HeldFor(f[k], t) = Added(HeldFor(f[k - 1], t),
                                  Bound(C[k].definition.morphTargets, Rest(C, k), t))
      BY HeldGrows
    <2>4. share[C[k].name] = Bound(C[k].definition.morphTargets, Rest(C, k), t)
      BY DEF Gives
    <2>5. share[C[k].name] \in Number
      <3>1. C[k].name \in N
        BY <1>1, <2>1, NamesGrow
      <3> QED
        BY <1>3, <3>1
    <2> QED
      BY <2>2, <2>3, <2>4, <2>5
  <1>7. ASSUME NEW k \in 0 .. m, \A j \in 0 .. k - 1 : j \in S PROVE k \in S
    <2>1. CASE k = 0
      <3>1. HeldFor(E!NoEntries, t) = 0
        BY NothingIsTotals DEF HeldFor
      <3> QED
        BY <1>4, <1>5, <2>1, <3>1 DEF SumsUp, Accumulates
    <2>2. CASE k # 0
      <3>1. k \in 1 .. m /\ k - 1 \in S /\ k - 1 \in 0 .. m
        BY <1>7, <2>2
      <3>2. PICK a \in Number, b \in Number : a = share[C[k].name] /\ b = sum[NamesOf(C, k - 1)]
        BY <1>4, <1>5, <1>6, <3>1 DEF SumsUp
      <3>3. Added(a, b) = Added(b, a)
        BY PlusAdds
      <3>4. HeldFor(f[k - 1], t) = b
        BY <3>1, <3>2
      <3>5. HeldFor(f[k], t) = sum[NamesOf(C, k)]
        BY <1>6, <3>1, <3>2, <3>3, <3>4
      <3> QED
        BY <3>5
    <2> QED
      BY <2>1, <2>2
  <1> HIDE DEF S
  <1>8. \A k \in 0 .. m : k \in S
    BY <1>7, StrongInduction
  <1>9. m \in S
    BY <1>8
  <1> QED
    BY <1>1, <1>4, <1>9 DEF S

(* What is left of a weight *)

\* What a list of contributions is to the sample it is of.
IsOf(C, m, rig, s) ==
    /\ Contributed(C, m) /\ NamedOnce(C, m)
    /\ NamesOf(C, m) = {c.name : c \in Range(s)} \cap DOMAIN rig
    /\ \A i \in 1 .. m :
          /\ C[i].definition = rig[C[i].name]
          /\ \E k \in DOMAIN s :
                /\ s[k].name = C[i].name
                /\ C[i].weight = E!OwnWeight(rig[C[i].name], s[k].value, ResolveOptions)

\* A contribution weighs what its own expression resolves the reported weight to.
LEMMA ContributionsAreOwn ==
    ASSUME NEW i, NEW rig, rig = avatar.expressionRig, NEW s, s = Weights(i), IsSample(s),
           NEW m \in Nat, NEW C, IsOf(C, m, rig, s), NEW k \in 1 .. m
    PROVE  C[k].weight = Own(i, C[k].name) /\ C[k].definition = rig[C[k].name]
  <1>1. PICK j \in DOMAIN s :
            /\ s[j].name = C[k].name
            /\ C[k].weight = E!OwnWeight(rig[C[k].name], s[j].value, ResolveOptions)
    BY DEF IsOf
  <1> DEFINE c == CHOOSE w \in ToSet(s) : w.name = C[k].name
  <1>2. \E w \in ToSet(s) : w.name = C[k].name
    BY <1>1 DEF ToSet
  <1>3. c \in ToSet(s) /\ c.name = C[k].name
    BY <1>2
  <1>4. Own(i, C[k].name) = E!OwnWeight(rig[C[k].name], c.value, ResolveOptions)
    BY DEF Own
  <1> HIDE DEF c
  <1>5. c = s[j]
    BY <1>1, <1>3 DEF ToSet, IsSample
  <1>6. C[k].definition = rig[C[k].name]
    BY DEF IsOf
  <1> QED
    BY <1>1, <1>4, <1>5, <1>6

\* The names that contribute are the ones reported and declared.
LEMMA ContributionsAreReported ==
    ASSUME NEW i, NEW rig, rig = avatar.expressionRig, NEW s, s = Weights(i),
           NEW m \in Nat, NEW C, IsOf(C, m, rig, s)
    PROVE  NamesOf(C, m) = Reported(i)
  BY DEF IsOf, Reported, ToSet, Range

\* A category is overridden by the rate that the reported names give it.
LEMMA OverridesAreRates ==
    ASSUME NEW i, NEW rig, rig = avatar.expressionRig, NEW s, s = Weights(i), IsSample(s),
           NEW m \in Nat, NEW C, IsOf(C, m, rig, s), NEW category \in E!Categories
    PROVE  E!Overrides(C)[category].rate = Rate(i, category)
  <1>1. E!Overrides(C)[category].rate = Max({0} \cup {RateOf(C[k], category) : k \in 1 .. m})
    BY OverridesAreTheMost DEF IsOf
  <1> DEFINE rate(n) == E!OverrideRate(rig[n].override[category], Own(i, n))
  <1>2. \A k \in 1 .. m : RateOf(C[k], category) = rate(C[k].name)
    BY ContributionsAreOwn DEF RateOf
  <1>3. NamesOf(C, m) = Reported(i)
    BY ContributionsAreReported
  <1>4. Rate(i, category) = Max({0} \cup {rate(n) : n \in Reported(i)})
    BY DEF Rate
  <1> HIDE DEF rate
  <1>5. {RateOf(C[k], category) : k \in 1 .. m} = {rate(n) : n \in Reported(i)}
    BY <1>2, <1>3 DEF NamesOf
  <1> QED
    BY <1>1, <1>4, <1>5

\* What is left of a contribution is what is left of its name.
LEMMA RestIsLeft ==
    ASSUME NEW i, NEW rig, rig = avatar.expressionRig, NEW s, s = Weights(i), IsSample(s),
           NEW m \in Nat, NEW C, IsOf(C, m, rig, s), NEW k \in 1 .. m
    PROVE  Rest(C, k) = Left(i, C[k].name)
  <1> DEFINE n == C[k].name
             category == E!CategoryOf(n)
  <1>1. C[k].weight = Own(i, n) /\ C[k].definition = rig[n]
    BY ContributionsAreOwn
  <1>2. category \in E!Categories \/ category = "none"
    BY DEF E!CategoryOf, E!Categories
  <1>3. "none" \notin E!Categories
    BY DEF E!Categories
  <1>4. category \in E!Categories => E!Overrides(C)[category].rate = Rate(i, category)
    BY OverridesAreRates
  <1>5. category \in E!Categories => Rate(i, category) \in 0 .. Unit
    <2> SUFFICES ASSUME category \in E!Categories PROVE Rate(i, category) \in 0 .. Unit
      OBVIOUS
    <2>1. PICK f \in [0 .. m -> Winners] : E!Overrides(C) = f[m]
      BY OverridesRun DEF IsOf
    <2>2. E!Overrides(C) \in Winners
      BY <2>1
    <2>3. E!Overrides(C)[category].rate \in 0 .. Unit
      BY <2>2 DEF Winners
    <2> QED
      BY <1>4, <2>3
  <1> HIDE DEF category
  <1>6. Left(i, n) = LET rate == IF category = "none" THEN 0 ELSE Rate(i, category)
                     IN  IF rate = 0 THEN Own(i, n)
                         ELSE E!Rounded(rig[n], E!Times(Own(i, n), Unit - rate), ResolveOptions)
    BY DEF Left, category
  <1>7. Rest(C, k) = LET rate == E!Overrides(C)[category].rate
                     IN  IF category \in E!Categories /\ rate > 0
                         THEN E!Rounded(rig[n], E!Times(Own(i, n), Unit - rate), ResolveOptions)
                         ELSE Own(i, n)
    BY <1>1 DEF Rest, E!Arbitrated, E!Suppresses, category
  <1> QED
    BY <1>2, <1>3, <1>4, <1>5, <1>6, <1>7, WeightAssumption

\* What FaceIsArbitratedOnce says of one sample.
FaceOf(i, shapes) ==
    /\ DOMAIN shapes =
           UNION {{b.target : b \in ToSet(avatar.expressionRig[n].morphTargets)} \ {""} :
                     n \in Reported(i)}
    /\ \A target \in DOMAIN shapes :
           shapes[target] = SumOf([n \in Reported(i) |-> Share(i, n, target)], Reported(i))

\* A sample resolves to the sums of its names' shares.
LEMMA SampleResolves ==
    ASSUME NEW i, NEW rig, rig = avatar.expressionRig, IsRig(rig),
           NEW s, s = Weights(i), IsSample(s)
    PROVE  FaceOf(i, Morphs(rig, s))
  <1>1. PICK C : C = Resolving(rig, s)
    OBVIOUS
  <1>2. PICK m \in Nat : IsOf(C, m, rig, s)
    BY <1>1, ContributionsAre DEF IsOf
  <1>3. Contributed(C, m) /\ NamedOnce(C, m)
    BY <1>2 DEF IsOf
  <1>4. PICK f : Accumulates(f, C, m) /\ Morphs(rig, s) = f[m]
    BY <1>1, <1>3, MorphsRun DEF Accumulates
  <1>5. NamesOf(C, m) = Reported(i)
    BY <1>2, ContributionsAreReported
  <1>6. \A k \in 1 .. m : C[k].definition = rig[C[k].name] /\ Rest(C, k) = Left(i, C[k].name)
    BY <1>2, RestIsLeft DEF IsOf
  <1> DEFINE D == UNION {{b.target : b \in ToSet(rig[n].morphTargets)} \ {""} : n \in Reported(i)}
  <1>7. DOMAIN f[m] = D
    <2>1. DOMAIN f[m] = UNION {TargetsOf(C[k].definition) : k \in 1 .. m}
      BY <1>3, <1>4, MergedDomain
    <2>2. ASSUME NEW n
          PROVE  {b.target : b \in ToSet(rig[n].morphTargets)} \ {""} = TargetsOf(rig[n])
      <3>1. PICK binds : binds = rig[n].morphTargets
        OBVIOUS
      <3>2. {b.target : b \in ToSet(binds)} = {binds[j].target : j \in DOMAIN binds}
        BY DEF ToSet
      <3> QED
        BY <3>1, <3>2 DEF TargetsOf
    <2>3. D = UNION {TargetsOf(rig[n]) : n \in Reported(i)}
      BY <2>2
    <2>4. {TargetsOf(C[k].definition) : k \in 1 .. m} = {TargetsOf(rig[n]) : n \in NamesOf(C, m)}
      BY <1>6 DEF NamesOf
    <2> QED
      BY <1>5, <2>1, <2>3, <2>4
  <1> HIDE DEF D
  <1>8. f[m] \in Totals
    BY <1>4 DEF Accumulates
  <1>9. ASSUME NEW t \in DOMAIN f[m]
        PROVE  f[m][t] = SumOf([n \in Reported(i) |-> Share(i, n, t)], Reported(i))
    <2>1. IsShape(t)
      <3>1. t \in STRING
        BY <1>8 DEF Totals
      <3>2. t # ""
        BY <1>7 DEF D
      <3> QED
        BY <3>1, <3>2 DEF IsShape
    <2> DEFINE share == [n \in Reported(i) |-> Share(i, n, t)]
    <2>2. Gives(share, C, m, t)
      <3>1. ASSUME NEW k \in 1 .. m
            PROVE  /\ C[k].name \in Reported(i)
                   /\ share[C[k].name] = Bound(C[k].definition.morphTargets, Rest(C, k), t)
                   /\ share[C[k].name] \in Number
        <4>1. C[k].name \in Reported(i)
          BY <1>5 DEF NamesOf
        <4>2. share[C[k].name] = Bound(rig[C[k].name].morphTargets, Left(i, C[k].name), t)
          BY <4>1 DEF Share
        <4>3. Bound(C[k].definition.morphTargets, Rest(C, k), t) \in Number
          BY <1>3, <1>8, <2>1, MergedHolds
        <4> QED
          BY <1>6, <4>1, <4>2, <4>3
      <3>2. share \in [NamesOf(C, m) -> Number]
        <4>1. \A n \in Reported(i) : share[n] \in Number
          BY <1>5, <3>1 DEF NamesOf
        <4> QED
          BY <1>5, <4>1
      <3> HIDE DEF share
      <3> QED
        BY <3>1, <3>2 DEF Gives
    <2> HIDE DEF share
    <2>3. HeldFor(f[m], t) = SumOf(share, NamesOf(C, m))
      BY <1>3, <1>4, <2>1, <2>2, MergedSums
    <2> QED
      BY <1>5, <2>3 DEF HeldFor, share
  <1> QED
    BY <1>4, <1>7, <1>9 DEF FaceOf, D

(* What the stages hold *)

\* What an expression's prim declares is a definition.
LEMMA DefinitionIsRead ==
    ASSUME NEW p, IsExpression(p)
    PROVE  IsDefinition(ReadExpressionDefinition(p))
  <1>1. MorphBinds(p) \in Seq(Bind)
    <2>1. /\ Len(p.targets) \in Nat /\ DOMAIN p.targets = 1 .. Len(p.targets)
          /\ \A i \in 1 .. Len(p.targets) : p.targets[i] \in STRING
      BY DEF IsExpression
    <2>2. /\ Len(p.weights) \in Nat /\ \A i \in 1 .. Len(p.weights) : p.weights[i] \in Number
      BY DEF IsExpression
    <2>3. Unit \in Number
      BY WeightAssumption DEF Number
    <2>4. ASSUME NEW i \in 1 .. Len(p.targets)
          PROVE  (IF i <= Len(p.weights) THEN p.weights[i] ELSE Unit) \in Number
      BY <2>1, <2>2, <2>3
    <2>5. \A i \in 1 .. Len(p.targets) : MorphBinds(p)[i] \in Bind
      BY <2>1, <2>4 DEF MorphBinds, Bind
    <2>6. MorphBinds(p) = [i \in 1 .. Len(p.targets) |-> MorphBinds(p)[i]]
      BY <2>1 DEF MorphBinds
    <2> QED
      BY <2>1, <2>5, <2>6
  <1>2. \A token : E!ParseOverride(token).mode \in E!Modes
    BY DEF E!ParseOverride, E!Modes
  <1>3. p.isBinary \in BOOLEAN
    BY DEF IsExpression
  <1>4. \A c \in E!Categories : ReadExpressionDefinition(p).override[c] \in E!Modes
    BY <1>2 DEF ReadExpressionDefinition
  <1>5. /\ ReadExpressionDefinition(p).isBinary = p.isBinary
        /\ ReadExpressionDefinition(p).morphTargets = MorphBinds(p)
    BY DEF ReadExpressionDefinition
  <1> QED
    BY <1>1, <1>3, <1>4, <1>5 DEF IsDefinition

\* The rigs that declare some of a list of prims.
Rigs(prims) ==
    UNION {[A -> {ReadExpressionDefinition(p) : p \in Range(prims)}] :
              A \in SUBSET {p.name : p \in Range(prims)}}

\* A rig with one more prim declared, unless its name was.
Declaring(rig, p) == E!Add(rig, p.name, ReadExpressionDefinition(p))

\* One more prim declares no more than its own.
LEMMA DeclaringStays ==
    ASSUME NEW prims, NEW rig \in Rigs(prims), NEW p \in Range(prims)
    PROVE  Declaring(rig, p) \in Rigs(prims)
  <1> DEFINE D == {ReadExpressionDefinition(q) : q \in Range(prims)}
             N == {q.name : q \in Range(prims)}
  <1>1. PICK A \in SUBSET N : rig \in [A -> D]
    BY DEF Rigs
  <1>2. ReadExpressionDefinition(p) \in D /\ p.name \in N
    OBVIOUS
  <1>3. PICK d : d = ReadExpressionDefinition(p)
    OBVIOUS
  <1> HIDE DEF D, N
  <1>4. E!Put(rig, p.name, d) \in [A \cup {p.name} -> D]
    BY <1>1, <1>2, <1>3 DEF E!Put
  <1>5. A \cup {p.name} \in SUBSET N
    BY <1>2
  <1>6. Declaring(rig, p) \in [A -> D] \/ Declaring(rig, p) \in [A \cup {p.name} -> D]
    BY <1>1, <1>3, <1>4 DEF Declaring, E!Add
  <1> QED
    BY <1>5, <1>6 DEF Rigs, D, N

\* The prims of a stage are declared one after the other.
LEMMA ExpressionsAreDeclared ==
    ASSUME NEW prims, IsSequence(prims)
    PROVE  ReadExpressions(prims) \in Rigs(prims)
  <1> DEFINE n == Len(prims)
             Fits(g) == g = [t \in SUBSET DOMAIN prims |->
                                IF t = {} THEN [m \in {} |-> 0]
                                ELSE Declaring(g[t \ {Max(t)}], prims[Max(t)])]
             w == CHOOSE g : Fits(g)
  <1>1. n \in Nat /\ DOMAIN prims = 1 .. n
    BY DEF IsSequence
  <1>2. ReadExpressions(prims) = w[1 .. n]
    <2>1. ReadExpressions(prims) = w[DOMAIN prims]
      BY DEF ReadExpressions, FoldLeft, MapThenFoldSet, Declaring
    <2> QED
      BY <1>1, <2>1
  <1>3. PICK G : \A i \in 1 .. n : \A v \in Rigs(prims) : G[i][v] = Declaring(v, prims[i])
    <2>1. \A i \in 1 .. n : \A v \in Rigs(prims) :
              [j \in 1 .. n |-> [u \in Rigs(prims) |-> Declaring(u, prims[j])]][i][v]
                  = Declaring(v, prims[i])
      OBVIOUS
    <2> QED
      BY <2>1
  <1>4. StepsWithin(n, Rigs(prims), [m \in {} |-> 0], G)
    <2>1. ASSUME NEW i \in 1 .. n, NEW v \in Rigs(prims)
          PROVE  Declaring(v, prims[i]) \in Rigs(prims)
      <3>1. prims[i] \in Range(prims)
        BY <1>1, <2>1 DEF Range
      <3> QED
        BY <2>1, <3>1, DeclaringStays
    <2>2. [m \in {} |-> 0] \in Rigs(prims)
      <3>1. [m \in {} |-> 0] \in [{} -> {ReadExpressionDefinition(p) : p \in Range(prims)}]
        OBVIOUS
      <3> QED
        BY <3>1 DEF Rigs
    <2> QED
      BY <1>3, <2>1, <2>2 DEF StepsWithin
  <1>5. PICK f \in [SUBSET (1 .. n) -> Rigs(prims)] : IsListFold(f, n, [m \in {} |-> 0], G)
    BY <1>1, <1>4, ListFold
  <1>6. Fits(f)
    <2>1. ASSUME NEW t \in SUBSET (1 .. n), t # {}
          PROVE  G[Max(t)][f[t \ {Max(t)}]] = Declaring(f[t \ {Max(t)}], prims[Max(t)])
      <3>1. Max(t) \in 1 .. n /\ f[t \ {Max(t)}] \in Rigs(prims)
        BY <1>1, <2>1, FirstNumbers
      <3> QED
        BY <1>3, <3>1
    <2>2. f = [t \in SUBSET (1 .. n) |-> f[t]]
      OBVIOUS
    <2> QED
      BY <1>1, <1>5, <2>1, <2>2 DEF IsListFold
  <1>7. \A t \in SUBSET (1 .. n) :
            w[t] = IF t = {} THEN [m \in {} |-> 0] ELSE Declaring(w[t \ {Max(t)}], prims[Max(t)])
    <2>1. Fits(w)
      <3> HIDE DEF Fits
      <3> QED
        BY <1>6
    <2> HIDE DEF w
    <2> QED
      BY <1>1, <2>1
  <1> HIDE DEF w
  <1>8. FoldsTo(w, n, Rigs(prims), [m \in {} |-> 0], G)
    <2>1. \A t \in SUBSET (1 .. n) : t # {} => Max(t) \in 1 .. n
      BY <1>1, FirstNumbers
    <2> QED
      BY <1>3, <1>7, <2>1 DEF FoldsTo
  <1>9. PICK a \in [0 .. n -> Rigs(prims)] : w[1 .. n] = a[n]
    BY <1>1, <1>4, <1>8, FoldRuns
  <1> QED
    BY <1>1, <1>2, <1>9

\* The prims of a stage declare a rig.
LEMMA RigIsRead ==
    ASSUME NEW prims, IsSequence(prims), \A p \in Range(prims) : IsExpression(p)
    PROVE  IsRig(ReadExpressions(prims))
  <1>1. \A n \in DOMAIN ReadExpressions(prims) :
            \E p \in Range(prims) : ReadExpressions(prims)[n] = ReadExpressionDefinition(p)
    BY ExpressionsAreDeclared DEF Rigs
  <1> QED
    BY <1>1, DefinitionIsRead DEF IsRig

(* The values of a track *)

\* A finite set of numbers that is not empty has a least and a greatest.
LEMMA Extremes ==
    ASSUME NEW S \in SUBSET Int, IsFiniteSet(S), S # {}
    PROVE  Max(S) \in S /\ Min(S) \in S
  <1> DEFINE n == Cardinality(S)
             s == InOrder(S)
  <1>1. /\ n \in Nat /\ s \in [1 .. n -> S]
        /\ \A i, k \in 1 .. n : i < k => s[i] < s[k]
        /\ \A x \in S : \E k \in 1 .. n : s[k] = x
    BY InOrderLists
  <1> HIDE DEF n, s
  <1>2. 1 \in 1 .. n /\ n \in 1 .. n
    <2>1. PICK k \in 1 .. n : TRUE
      BY <1>1
    <2> QED
      BY <1>1, <2>1
  <1>3. \A i, k \in 1 .. n : i <= k => s[i] <= s[k]
    <2>1. \A i \in 1 .. n : s[i] \in Int
      BY <1>1
    <2>2. \A i, k \in 1 .. n : i <= k => i < k \/ i = k
      BY <1>1
    <2> QED
      BY <1>1, <2>1, <2>2
  <1>4. \A x \in S : s[1] <= x /\ s[n] >= x
    <2> SUFFICES ASSUME NEW x \in S PROVE s[1] <= x /\ s[n] >= x
      OBVIOUS
    <2>1. PICK k \in 1 .. n : s[k] = x
      BY <1>1
    <2>2. s[1] <= s[k] /\ s[k] <= s[n]
      BY <1>2, <1>3, <2>1
    <2> QED
      BY <1>2, <2>1, <2>2
  <1>5. s[1] \in S /\ s[n] \in S
    BY <1>1, <1>2
  <1> QED
    BY <1>4, <1>5 DEF Max, Min

\* A track whose keys are whole ticks has a weight at every tick, or none.
LEMMA ValueIsNumber ==
    ASSUME NEW track, IsTrack(track), NEW K, K = Keys(track), K \in SUBSET Int, IsFiniteSet(K),
           NEW t \in Int
    PROVE  ValueAt(track, t, FALSE) \in Number \cup {None}
  <1> DEFINE before == {k \in K : k <= t}
             after == K \ before
             a == track.samples[Max(before)]
             b == track.samples[Min(after)]
             d == Min(after) - Max(before)
  <1>1. \A k \in K : track.samples[k] \in Number \cup {None}
    BY DEF IsTrack, Keys
  <1>2. before # {} => Max(before) \in before
    <2>1. before \in SUBSET Int /\ IsFiniteSet(before)
      BY FS_Subset
    <2> HIDE DEF before
    <2> QED
      BY <2>1, Extremes
  <1>3. after # {} => Min(after) \in after
    <2>1. after \in SUBSET Int /\ IsFiniteSet(after)
      BY FS_Subset
    <2> HIDE DEF after
    <2> QED
      BY <2>1, Extremes
  <1>4. before # {} /\ after # {} => d \in Int /\ d > 0
    BY <1>2, <1>3
  <1>5. before # {} => a \in Number \cup {None} /\ t - Max(before) \in Int
    BY <1>1, <1>2
  <1>6. after # {} => b \in Number \cup {None}
    BY <1>1, <1>3
  <1>7. ASSUME NEW x \in Number, NEW y \in Number, NEW n \in Int, NEW e \in Int, e > 0
        PROVE  Mix(x, y, n, e) \in Number
    <2>1. CASE NaN \in {x, y}
      BY <2>1 DEF Mix, Number
    <2>2. CASE NaN \notin {x, y}
      <3>1. x \in Int /\ y \in Int
        BY <2>2 DEF Number
      <3>2. \A p, q \in Int : p * q \in Int /\ p + q \in Int /\ p - q \in Int
        OBVIOUS
      <3>3. x * (e - n) \in Int /\ y * n \in Int
        BY <3>1, <3>2
      <3>4. x * (e - n) + y * n \in Int
        BY <3>2, <3>3
      <3>5. \A p \in Int : p \div e \in Int
        BY <1>7
      <3> QED
        BY <2>2, <3>4, <3>5 DEF Mix, Number
    <2> QED
      BY <2>1, <2>2
  <1>8. ValueAt(track, t, FALSE) =
            IF K = {} THEN track.default
            ELSE IF before = {} THEN b
            ELSE IF after = {} \/ a = None \/ b = None \/ Max(before) = t THEN a
            ELSE Mix(a, b, t - Max(before), d)
    BY DEF ValueAt
  <1>9. track.default \in Number \cup {None}
    BY DEF IsTrack
  <1>10. K # {} /\ before = {} => after # {}
    OBVIOUS
  <1> HIDE DEF before, after, a, b, d
  <1>11. CASE K # {} /\ before # {} /\ after # {} /\ a # None /\ b # None
    <2>1. Mix(a, b, t - Max(before), d) \in Number
      <3>1. PICK x \in Number, y \in Number, n \in Int, e \in Int :
                x = a /\ y = b /\ n = t - Max(before) /\ e = d /\ e > 0
        BY <1>4, <1>5, <1>6, <1>11
      <3> QED
        BY <1>7, <3>1
    <2> QED
      BY <1>5, <1>8, <1>11, <2>1
  <1> QED
    BY <1>5, <1>6, <1>8, <1>9, <1>10, <1>11

\* A channel set by its name: the names are still told once.
LEMMA SettingKeepsSample ==
    ASSUME NEW s, IsSample(s), NEW name \in Names, NEW value \in Number
    PROVE  IsSample(SetChannel(s, name, value))
  <1>1. PICK C : C = [name : Names, value : Number]
    OBVIOUS
  <1>2. s \in Seq(C)
    BY <1>1 DEF IsSample
  <1>3. Len(s) \in Nat /\ DOMAIN s = 1 .. Len(s) /\ \A i \in DOMAIN s : s[i] \in C
    BY <1>2
  <1> DEFINE r == SetChannel(s, name, value)
             changed(i) == IF s[i].name = name THEN [s[i] EXCEPT !.value = value] ELSE s[i]
  <1>4. CASE \E c \in ToSet(s) : c.name = name
    <2>1. r = [i \in DOMAIN s |-> changed(i)]
      BY <1>4 DEF SetChannel
    <2>2. \A i \in DOMAIN s : changed(i) \in C /\ changed(i).name = s[i].name
      BY <1>1, <1>3
    <2> HIDE DEF r, changed
    <2>3. r \in Seq(C) /\ DOMAIN r = DOMAIN s
      BY <1>3, <2>1, <2>2
    <2>4. \A i \in DOMAIN r : r[i].name = s[i].name
      BY <2>1, <2>2
    <2> QED
      BY <1>1, <2>3, <2>4 DEF IsSample, r
  <1>5. CASE ~(\E c \in ToSet(s) : c.name = name)
    <2>1. PICK e \in C : e = [name |-> name, value |-> value]
      BY <1>1
    <2>2. r = Append(s, e)
      BY <1>5, <2>1 DEF SetChannel
    <2> HIDE DEF r
    <2>3. /\ r \in Seq(C) /\ DOMAIN r = 1 .. Len(s) + 1 /\ r[Len(s) + 1] = e
          /\ \A i \in 1 .. Len(s) : r[i] = s[i]
      BY <1>2, <1>3, <2>2
    <2>4. \A i \in DOMAIN s : s[i].name # e.name
      BY <1>5, <2>1 DEF ToSet
    <2>5. \A i \in DOMAIN r : i \in DOMAIN s \/ i = Len(s) + 1
      BY <1>3, <2>3
    <2>6. \A i \in DOMAIN s : r[i] = s[i]
      BY <1>3, <2>3
    <2>7. \A i, k \in DOMAIN r : r[i].name = r[k].name => i = k
      BY <2>3, <2>4, <2>5, <2>6 DEF IsSample
    <2> QED
      BY <1>1, <2>3, <2>7 DEF IsSample, r
  <1> QED
    BY <1>4, <1>5

(* The samples of a clip *)

\* All the samples there may be.
Samples == {s \in Seq([name : Names, value : Number]) : IsSample(s)}

\* The channels with what one driven expression says at a tick.
Spoken(channels, p, tick) ==
    LET weight == ValueAt(p.weight, tick, FALSE)
    IN  IF weight = None THEN channels ELSE SetChannel(channels, p.name, weight)

\* The channels with what the driven expressions say at a tick.
SpokenOver(base, prims, tick) ==
    FoldLeft(LAMBDA channels, p : Spoken(channels, p, tick), base, prims)

\* The channels with one weight set.
Say(channels, w) == SetChannel(channels, w.name, w.value)

\* The channels with a gaze's weights set over them.
SetOver(base, weights) == FoldLeft(LAMBDA channels, w : Say(channels, w), base, weights)

\* What the driven expressions say over a sample is a sample.
LEMMA SpokenIsSample ==
    ASSUME NEW base \in Samples, NEW prims, IsList(prims), NEW tick,
           \A i \in DOMAIN prims : /\ prims[i].name \in Names
                                   /\ ValueAt(prims[i].weight, tick, FALSE) \in Number \cup {None}
    PROVE  SpokenOver(base, prims, tick) \in Samples
  <1> DEFINE n == Len(prims)
             Fits(g) == g = [t \in SUBSET DOMAIN prims |->
                                IF t = {} THEN base
                                ELSE Spoken(g[t \ {Max(t)}], prims[Max(t)], tick)]
             w == CHOOSE g : Fits(g)
  <1>1. n \in Nat /\ DOMAIN prims = 1 .. n
    BY ListDomain
  <1>2. SpokenOver(base, prims, tick) = w[1 .. n]
    <2>1. SpokenOver(base, prims, tick) = w[DOMAIN prims]
      BY DEF SpokenOver, FoldLeft, MapThenFoldSet, Spoken
    <2> QED
      BY <1>1, <2>1
  <1>3. PICK G : \A i \in 1 .. n : \A v \in Samples : G[i][v] = Spoken(v, prims[i], tick)
    <2>1. \A i \in 1 .. n : \A v \in Samples :
              [j \in 1 .. n |-> [u \in Samples |-> Spoken(u, prims[j], tick)]][i][v]
                  = Spoken(v, prims[i], tick)
      OBVIOUS
    <2> QED
      BY <2>1
  <1>4. StepsWithin(n, Samples, base, G)
    <2>1. ASSUME NEW i \in 1 .. n, NEW v \in Samples PROVE Spoken(v, prims[i], tick) \in Samples
      <3>1. prims[i].name \in Names /\ ValueAt(prims[i].weight, tick, FALSE) \in Number \cup {None}
        BY <1>1, <2>1
      <3>2. PICK x, y : x = prims[i].name /\ y = ValueAt(prims[i].weight, tick, FALSE)
        OBVIOUS
      <3>3. y # None => IsSample(SetChannel(v, x, y))
        BY <2>1, <3>1, <3>2, SettingKeepsSample DEF Samples
      <3>4. Spoken(v, prims[i], tick) = IF y = None THEN v ELSE SetChannel(v, x, y)
        BY <3>2 DEF Spoken
      <3> QED
        BY <2>1, <3>3, <3>4 DEF Samples, IsSample
    <2> QED
      BY <1>3, <2>1 DEF StepsWithin
  <1>5. PICK f \in [SUBSET (1 .. n) -> Samples] : IsListFold(f, n, base, G)
    BY <1>1, <1>4, ListFold
  <1>6. Fits(f)
    <2>1. ASSUME NEW t \in SUBSET (1 .. n), t # {}
          PROVE  G[Max(t)][f[t \ {Max(t)}]] = Spoken(f[t \ {Max(t)}], prims[Max(t)], tick)
      <3>1. Max(t) \in 1 .. n /\ f[t \ {Max(t)}] \in Samples
        BY <1>1, <2>1, FirstNumbers
      <3> QED
        BY <1>3, <3>1
    <2>2. f = [t \in SUBSET (1 .. n) |-> f[t]]
      OBVIOUS
    <2> QED
      BY <1>1, <1>5, <2>1, <2>2 DEF IsListFold
  <1>7. \A t \in SUBSET (1 .. n) :
            w[t] = IF t = {} THEN base ELSE Spoken(w[t \ {Max(t)}], prims[Max(t)], tick)
    <2>1. Fits(w)
      <3> HIDE DEF Fits
      <3> QED
        BY <1>6
    <2> HIDE DEF w
    <2> QED
      BY <1>1, <2>1
  <1> HIDE DEF w
  <1>8. FoldsTo(w, n, Samples, base, G)
    <2>1. \A t \in SUBSET (1 .. n) : t # {} => Max(t) \in 1 .. n
      BY <1>1, FirstNumbers
    <2> QED
      BY <1>3, <1>7, <2>1 DEF FoldsTo
  <1>9. PICK a \in [0 .. n -> Samples] : w[1 .. n] = a[n]
    BY <1>1, <1>4, <1>8, FoldRuns
  <1> QED
    BY <1>1, <1>2, <1>9

\* A gaze's weights over a sample are a sample.
LEMMA OverIsSample ==
    ASSUME NEW base \in Samples, NEW weights \in Seq([name : Names, value : Number])
    PROVE  SetOver(base, weights) \in Samples
  <1> DEFINE n == Len(weights)
             Fits(g) == g = [t \in SUBSET DOMAIN weights |->
                                IF t = {} THEN base
                                ELSE Say(g[t \ {Max(t)}], weights[Max(t)])]
             w == CHOOSE g : Fits(g)
  <1>1. /\ n \in Nat /\ DOMAIN weights = 1 .. n
        /\ \A i \in 1 .. n : weights[i] \in [name : Names, value : Number]
    <2>1. PICK T : T = [name : Names, value : Number]
      OBVIOUS
    <2>2. weights \in Seq(T)
      BY <2>1
    <2>3. n \in Nat /\ DOMAIN weights = 1 .. n /\ \A i \in 1 .. n : weights[i] \in T
      BY <2>2
    <2> QED
      BY <2>1, <2>3
  <1>2. SetOver(base, weights) = w[1 .. n]
    <2>1. SetOver(base, weights) = w[DOMAIN weights]
      BY DEF SetOver, FoldLeft, MapThenFoldSet
    <2> QED
      BY <1>1, <2>1
  <1>3. PICK G : \A i \in 1 .. n : \A v \in Samples : G[i][v] = Say(v, weights[i])
    <2>1. \A i \in 1 .. n : \A v \in Samples :
              [j \in 1 .. n |-> [u \in Samples |-> Say(u, weights[j])]][i][v] = Say(v, weights[i])
      OBVIOUS
    <2> QED
      BY <2>1
  <1>4. StepsWithin(n, Samples, base, G)
    <2>1. ASSUME NEW i \in 1 .. n, NEW v \in Samples
          PROVE  Say(v, weights[i]) \in Samples
      <3>1. PICK x \in Names, y \in Number : x = weights[i].name /\ y = weights[i].value
        BY <1>1, <2>1
      <3>2. IsSample(SetChannel(v, x, y))
        BY <2>1, SettingKeepsSample DEF Samples
      <3> QED
        BY <3>1, <3>2 DEF Samples, IsSample, Say
    <2> QED
      BY <1>3, <2>1 DEF StepsWithin
  <1>5. PICK f \in [SUBSET (1 .. n) -> Samples] : IsListFold(f, n, base, G)
    BY <1>1, <1>4, ListFold
  <1>6. Fits(f)
    <2>1. ASSUME NEW t \in SUBSET (1 .. n), t # {}
          PROVE  G[Max(t)][f[t \ {Max(t)}]] = Say(f[t \ {Max(t)}], weights[Max(t)])
      <3>1. Max(t) \in 1 .. n /\ f[t \ {Max(t)}] \in Samples
        BY <1>1, <2>1, FirstNumbers
      <3> QED
        BY <1>3, <3>1
    <2>2. f = [t \in SUBSET (1 .. n) |-> f[t]]
      OBVIOUS
    <2> QED
      BY <1>1, <1>5, <2>1, <2>2 DEF IsListFold
  <1>7. \A t \in SUBSET (1 .. n) :
            w[t] = IF t = {} THEN base ELSE Say(w[t \ {Max(t)}], weights[Max(t)])
    <2>1. Fits(w)
      <3> HIDE DEF Fits
      <3> QED
        BY <1>6
    <2> HIDE DEF w
    <2> QED
      BY <1>1, <2>1
  <1> HIDE DEF w
  <1>8. FoldsTo(w, n, Samples, base, G)
    <2>1. \A t \in SUBSET (1 .. n) : t # {} => Max(t) \in 1 .. n
      BY <1>1, FirstNumbers
    <2> QED
      BY <1>3, <1>7, <2>1 DEF FoldsTo
  <1>9. PICK a \in [0 .. n -> Samples] : w[1 .. n] = a[n]
    BY <1>1, <1>4, <1>8, FoldRuns
  <1> QED
    BY <1>1, <1>2, <1>9

\* The driven expressions are prims of the stage.
LEMMA DrivenAreRead ==
    ASSUME NEW prims, IsSequence(prims)
    PROVE  /\ IsList(ClipExpressions(prims))
           /\ \A i \in DOMAIN ClipExpressions(prims) : ClipExpressions(prims)[i] \in Range(prims)
  <1> DEFINE first == {i \in DOMAIN prims :
                          /\ prims[i].name # "" /\ HasValue(prims[i].weight)
                          /\ \A j \in 1 .. i - 1 :
                                prims[j].name # "" /\ HasValue(prims[j].weight)
                                    => prims[j].name # prims[i].name}
             n == Cardinality(first)
             ordered == InOrder(first)
             driven == ClipExpressions(prims)
  <1>1. driven = [k \in DOMAIN ordered |-> prims[ordered[k]]]
    BY DEF ClipExpressions
  <1>2. first \in SUBSET DOMAIN prims /\ DOMAIN prims = 1 .. Len(prims) /\ Len(prims) \in Nat
    <2>1. first \in SUBSET DOMAIN prims
      OBVIOUS
    <2> HIDE DEF first
    <2> QED
      BY <2>1 DEF IsSequence
  <1> HIDE DEF first, driven
  <1>3. n \in Nat /\ ordered \in [1 .. n -> first]
    <2>1. first \in SUBSET Int
      BY <1>2
    <2>2. IsFiniteSet(first)
      <3>1. PICK I : I = DOMAIN prims /\ IsFiniteSet(I)
        BY <1>2, FS_Interval
      <3> QED
        BY <1>2, <3>1, FS_Subset
    <2> QED
      BY <2>1, <2>2, InOrderLists
  <1> HIDE DEF n, ordered
  <1>4. driven = [k \in 1 .. n |-> driven[k]] /\ DOMAIN driven = 1 .. n
    BY <1>1, <1>3
  <1>5. \A k \in 1 .. n : driven[k] \in Range(prims)
    BY <1>1, <1>2, <1>3 DEF Range
  <1>6. IsList(driven)
    BY <1>3, <1>4, Listed
  <1> QED
    BY <1>4, <1>5, <1>6 DEF driven

\* A pose holds each channel's weight once.
LEMMA PoseIsSample ==
    ASSUME NEW file, IsInput(file), Opens(file), file.semantic, NEW tick \in PoseTimes(file)
    PROVE  IsSample(Pose(file, tick).channels)
  <1>2. IsStage(file) /\ PoseTimes(file) \in SUBSET Int /\ IsFiniteSet(PoseTimes(file))
    BY DEF IsInput
  <1> DEFINE prims == ClipExpressions(file.expressions)
             base == IF tick \in LibraryTimes(file) THEN file.channels ELSE << >>
  <1>3. Pose(file, tick).channels = SpokenOver(base, prims, tick)
    BY DEF Pose, SpokenOver, Spoken
  <1>4. IsSequence(file.expressions) /\ \A q \in Range(file.expressions) : IsExpression(q)
    BY <1>2 DEF IsStage
  <1>5. IsList(prims) /\ \A i \in DOMAIN prims : prims[i] \in Range(file.expressions)
    BY <1>4, DrivenAreRead
  <1>6. \A i \in DOMAIN prims : Keys(prims[i].weight) \subseteq PoseTimes(file)
    BY DEF PoseTimes, VrmTimes, ToSet
  <1> HIDE DEF prims, base
  <1>7. ASSUME NEW i \in DOMAIN prims
        PROVE  /\ prims[i].name \in Names
               /\ ValueAt(prims[i].weight, tick, FALSE) \in Number \cup {None}
    <2>1. IsExpression(prims[i])
      BY <1>4, <1>5
    <2>2. IsTrack(prims[i].weight) /\ prims[i].name \in Names
      BY <2>1 DEF IsExpression, Names
    <2>3. PICK K : K = Keys(prims[i].weight)
      OBVIOUS
    <2>4. K \in SUBSET Int /\ IsFiniteSet(K)
      <3>1. K \in SUBSET PoseTimes(file)
        BY <1>6, <2>3
      <3> QED
        BY <1>2, <3>1, FS_Subset
    <2>5. tick \in Int
      BY <1>2
    <2> QED
      BY <2>2, <2>3, <2>4, <2>5, ValueIsNumber
  <1>8. base \in Samples
    <2>1. IsSample(<< >>)
      BY DEF IsSample
    <2>2. IsSample(file.channels)
      <3>1. [name : STRING, value : Number] \in SUBSET [name : Names, value : Number]
        BY DEF Names
      <3>2. \A S, T : S \in SUBSET T => Seq(S) \in SUBSET Seq(T)
        OBVIOUS
      <3>3. file.channels \in Seq([name : STRING, value : Number])
        BY <1>2 DEF IsStage
      <3>4. file.channels \in Seq([name : Names, value : Number])
        <4>1. PICK S, T : S = [name : STRING, value : Number] /\ T = [name : Names, value : Number]
          OBVIOUS
        <4>2. file.channels \in Seq(S) /\ S \in SUBSET T
          BY <3>1, <3>3, <4>1
        <4>3. file.channels \in Seq(T)
          BY <3>2, <4>2
        <4> QED
          BY <4>1, <4>3
      <3> QED
        BY <1>2, <3>4 DEF IsStage, IsSample
    <2> QED
      BY <2>1, <2>2 DEF base, Samples, IsSample
  <1>9. SpokenOver(base, prims, tick) \in Samples
    BY <1>5, <1>7, <1>8, SpokenIsSample
  <1> QED
    BY <1>3, <1>9 DEF Samples

\* Poses whose channels are samples.
Sounding(samples) ==
    \A i \in DOMAIN samples : "channels" \in DOMAIN samples[i] /\ IsSample(samples[i].channels)

\* A clip that is not refused has a sample at each of its poses.
LEMMA ClipSounds ==
    ASSUME NEW file, IsInput(file), NEW named, ReadClip(file, named).code = 0
    PROVE  Sounding(ReadClip(file, named).samples)
  <1> DEFINE times == InOrder(PoseTimes(file))
             samples == [i \in DOMAIN times |-> Pose(file, times[i])]
  <1>1. ReadClip(file, named).samples = samples
    BY ClipIsRead
  <1>2. \A i \in DOMAIN times : times[i] \in PoseTimes(file)
    BY ClipIsRead, InOrderLists
  <1>3. \A t : "channels" \in DOMAIN Pose(file, t)
    BY DEF Pose
  <1>4. Opens(file) /\ file.semantic
    BY ClipIsRead
  <1> HIDE DEF times
  <1>5. \A i \in DOMAIN samples :
            "channels" \in DOMAIN samples[i] /\ IsSample(samples[i].channels)
    BY <1>2, <1>3, <1>4, PoseIsSample
  <1> QED
    BY <1>1, <1>5 DEF Sounding

\* And so has the clip resampled.
LEMMA ResampleSounds ==
    ASSUME NEW samples, Timed(samples), Sounding(samples), NEW step \in Int, step > 0
    PROVE  Sounding(Resample(samples, step))
  <1> DEFINE first == samples[1].timestamp
             n == (Last(samples).timestamp - first) \div step + 1
             at(i) == first + (i - 1) * step
             said(t) == {k \in DOMAIN samples : samples[k].timestamp <= t}
             r == Resample(samples, step)
  <1>1. Len(samples) \in Nat /\ Len(samples) # 0 /\ DOMAIN samples = 1 .. Len(samples)
    BY ListDomain DEF Timed
  <1>2. first \in Int
    BY <1>1 DEF Timed
  <1>3. r = [i \in 1 .. n |-> [samples[Max(said(at(i)))] EXCEPT !.timestamp = at(i)]]
    BY DEF Resample
  <1> HIDE DEF n, r
  <1>4. ASSUME NEW i \in 1 .. n PROVE Max(said(at(i))) \in DOMAIN samples
    <2>1. at(i) \in Int /\ at(i) >= first
      <3>1. i - 1 \in Nat
        OBVIOUS
      <3>2. \A a \in Nat, b \in Nat : a * b \in Nat
        OBVIOUS
      <3>3. (i - 1) * step \in Nat
        BY <3>1, <3>2
      <3> HIDE DEF first
      <3> QED
        BY <1>2, <3>3
    <2>2. 1 \in said(at(i)) /\ said(at(i)) \in SUBSET (1 .. Len(samples))
      <3> HIDE DEF at
      <3> QED
        BY <1>1, <2>1
    <2> HIDE DEF said, at
    <2>3. Max(said(at(i))) \in said(at(i))
      BY <1>1, <2>2, GreatestMember
    <2> QED
      BY <1>1, <2>2, <2>3
  <1>5. \A i \in 1 .. n :
            /\ DOMAIN r[i] = DOMAIN samples[Max(said(at(i)))]
            /\ "channels" \in DOMAIN r[i] => r[i].channels = samples[Max(said(at(i)))].channels
    BY <1>3
  <1>6. DOMAIN r = 1 .. n
    BY <1>3
  <1> HIDE DEF said, at
  <1>7. ASSUME NEW i \in DOMAIN r
        PROVE  "channels" \in DOMAIN r[i] /\ IsSample(r[i].channels)
    BY <1>4, <1>5, <1>6 DEF Sounding
  <1> QED
    BY <1>7 DEF Sounding, r

(* The gaze *)

\* A key of a range map's curve.
CurveKey == [time : Int, value : Int, inTangent : Int, outTangent : Int]

\* A range map of numbers.
IsRangeMap(m) == m.inputMaxValue \in Int /\ m.outputScale \in Int /\ m.curve \in Seq(CurveKey)

\* The larger and the smaller of two numbers.
LEMMA OfTwo == \A a, b \in Int : Max({a, b}) \in Int /\ Min({a, b}) \in Int
  <1> SUFFICES ASSUME NEW a \in Int, NEW b \in Int PROVE Max({a, b}) \in Int /\ Min({a, b}) \in Int
    OBVIOUS
  <1>1. a <= b \/ b <= a
    OBVIOUS
  <1>2. a <= a /\ b <= b /\ a >= a /\ b >= b /\ (a <= b => b >= a) /\ (b <= a => a >= b)
    OBVIOUS
  <1>3. \E x \in {a, b} : \A y \in {a, b} : x >= y
    BY <1>1, <1>2
  <1>4. \E x \in {a, b} : \A y \in {a, b} : x <= y
    BY <1>1, <1>2
  <1> QED
    BY <1>3, <1>4 DEF Max, Min

\* Arithmetic stays among the integers.
LEMMA IntegersClose ==
    /\ \A p, q \in Int : p * q \in Int /\ p + q \in Int /\ p - q \in Int
    /\ \A p, q \in Int : p > 0 /\ q > 0 => p * q > 0
    /\ \A p, q \in Int : q > 0 => p \div q \in Int
  OBVIOUS

\* A curve of whole keys has a value at every time.
LEMMA CurveIsNumber ==
    ASSUME NEW keys \in Seq(CurveKey), NEW t \in Int
    PROVE  L!EvaluateCurve(keys, t) \in Int
  <1>1. /\ Len(keys) \in Nat /\ \A i \in 1 .. Len(keys) : keys[i] \in CurveKey
        /\ keys # << >> => Len(keys) > 0
    OBVIOUS
  <1>2. \A i \in 1 .. Len(keys) : /\ keys[i].time \in Int /\ keys[i].value \in Int
                                  /\ keys[i].inTangent \in Int /\ keys[i].outTangent \in Int
    BY <1>1 DEF CurveKey
  <1>3. L!Last(keys) = keys[Len(keys)]
    BY DEF L!Last
  <1> DEFINE J == {j \in 1 .. Len(keys) - 1 : j = 1 \/ keys[j].time <= t}
             i == Max(J)
             a == keys[i]
             b == keys[i + 1]
             s == b.time - a.time
             n == t - a.time
             nn == n * n
             ss == s * s
             value == ((2 * n * nn - 3 * nn * s + s * ss) * a.value
                       + (n * nn - 2 * nn * s + n * ss) * s * a.outTangent
                       + (3 * nn * s - 2 * n * nn) * b.value
                       + (n * nn - nn * s) * s * b.inTangent) \div (s * ss)
  <1>4. L!EvaluateCurve(keys, t) =
            IF keys = << >> THEN t
            ELSE IF t <= keys[1].time \/ Len(keys) = 1 THEN keys[1].value
            ELSE IF t >= keys[Len(keys)].time THEN keys[Len(keys)].value
            ELSE IF s <= 0 THEN b.value ELSE value
    BY <1>3, OneMax DEF L!EvaluateCurve
  <1> HIDE DEF J
  <1>5. CASE keys = << >>
    BY <1>4, <1>5
  <1>6. CASE keys # << >> /\ Len(keys) = 1
    <2> HIDE DEF value, s, b
    <2> QED
      BY <1>1, <1>2, <1>4, <1>6
  <1>7. CASE keys # << >> /\ Len(keys) # 1
    <2>1. Len(keys) - 1 \in Nat /\ 1 \in J /\ J \in SUBSET (1 .. Len(keys) - 1)
      <3>1. Len(keys) - 1 \in Nat /\ 1 \in 1 .. Len(keys) - 1
        <4>1. PICK m \in Nat : m = Len(keys) /\ m > 0 /\ m # 1
          BY <1>1, <1>7
        <4>2. m - 1 \in Nat /\ 1 \in 1 .. m - 1
          BY <4>1
        <4> QED
          BY <4>1, <4>2
      <3>2. \A j \in 1 .. Len(keys) - 1 : j = 1 => j \in J
        BY DEF J
      <3>3. J \in SUBSET (1 .. Len(keys) - 1)
        BY DEF J
      <3> QED
        BY <3>1, <3>2, <3>3
    <2>2. i \in 1 .. Len(keys) - 1
      <3>1. PICK m \in Nat : m = Len(keys) - 1
        BY <2>1
      <3>2. J \in SUBSET (1 .. m) /\ J # {}
        BY <2>1, <3>1
      <3>3. Max(J) \in J
        BY <3>2, GreatestMember
      <3> QED
        BY <2>1, <3>3
    <2> HIDE DEF i
    <2>3. i \in 1 .. Len(keys) /\ i + 1 \in 1 .. Len(keys)
      BY <1>1, <2>2
    <2>4. /\ a.time \in Int /\ a.value \in Int /\ a.outTangent \in Int
          /\ b.time \in Int /\ b.value \in Int /\ b.inTangent \in Int
      BY <1>2, <2>3
    <2> HIDE DEF a, b
    <2>5. s \in Int /\ n \in Int
      BY <2>4
    <2> HIDE DEF s, n
    <2>6. nn \in Int /\ ss \in Int /\ (s > 0 => ss > 0)
      BY <2>5, IntegersClose
    <2> HIDE DEF nn, ss
    <2> DEFINE h1 == 2 * n * nn - 3 * nn * s + s * ss
               h2 == (n * nn - 2 * nn * s + n * ss) * s
               h3 == 3 * nn * s - 2 * n * nn
               h4 == (n * nn - nn * s) * s
    <2>7. h1 \in Int /\ h2 \in Int /\ h3 \in Int /\ h4 \in Int
      <3>1. n * nn \in Int /\ nn * s \in Int /\ s * ss \in Int /\ n * ss \in Int
        BY <2>5, <2>6, IntegersClose
      <3>2. 2 * n * nn \in Int /\ 3 * nn * s \in Int /\ 2 * nn * s \in Int
        BY <2>5, <2>6, IntegersClose
      <3>3. h1 \in Int /\ h3 \in Int /\ n * nn - 2 * nn * s + n * ss \in Int
            /\ n * nn - nn * s \in Int
        BY <3>1, <3>2, IntegersClose
      <3>4. h2 \in Int /\ h4 \in Int
        BY <2>5, <3>3, IntegersClose
      <3> QED
        BY <3>3, <3>4
    <2>8. value = (h1 * a.value + h2 * a.outTangent + h3 * b.value + h4 * b.inTangent)
                      \div (s * ss)
      OBVIOUS
    <2> HIDE DEF h1, h2, h3, h4, value
    <2>9. h1 * a.value \in Int /\ h2 * a.outTangent \in Int /\ h3 * b.value \in Int
          /\ h4 * b.inTangent \in Int
      BY <2>4, <2>7, IntegersClose
    <2>10. h1 * a.value + h2 * a.outTangent + h3 * b.value + h4 * b.inTangent \in Int
      BY <2>9, IntegersClose
    <2>11. s > 0 => s * ss \in Int /\ s * ss > 0
      BY <2>5, <2>6, IntegersClose
    <2>12. s > 0 => value \in Int
      BY <2>8, <2>10, <2>11, IntegersClose
    <2>13. 1 \in 1 .. Len(keys) /\ Len(keys) \in 1 .. Len(keys)
      BY <1>1, <1>7
    <2>14. keys[1].value \in Int /\ keys[Len(keys)].value \in Int
      BY <1>2, <2>13
    <2> QED
      BY <1>4, <1>7, <2>4, <2>5, <2>12, <2>14
  <1> QED
    BY <1>5, <1>6, <1>7

\* And so has a range map at every angle.
LEMMA MapIsNumber ==
    ASSUME NEW map, IsRangeMap(map), NEW degrees \in Int
    PROVE  L!Map(map, degrees) \in Int
  <1>1. PICK max \in Int, scale \in Int, curve \in Seq(CurveKey) :
            max = map.inputMaxValue /\ scale = map.outputScale /\ curve = map.curve
    BY DEF IsRangeMap
  <1> DEFINE input == Min({Max({degrees, 0}), max})
             time == (input * Unit) \div max
  <1>2. L!Map(map, degrees) =
            IF max <= 0 THEN 0 ELSE (L!EvaluateCurve(curve, time) * scale) \div Unit
    BY <1>1, OneMax DEF L!Map
  <1>3. input \in Int
    <2>1. PICK most \in Int : most = Max({degrees, 0})
      BY OfTwo
    <2> QED
      BY <2>1, OfTwo
  <1> HIDE DEF input
  <1>4. CASE max <= 0
    BY <1>2, <1>4
  <1>5. CASE ~(max <= 0)
    <2>1. max > 0 /\ Unit \in Int /\ Unit > 0
      BY <1>5, WeightAssumption
    <2>2. time \in Int
      <3>1. input * Unit \in Int
        BY <1>3, <2>1, IntegersClose
      <3> QED
        BY <2>1, <3>1, IntegersClose
    <2> HIDE DEF time
    <2>3. PICK v \in Int : v = L!EvaluateCurve(curve, time)
      BY <2>2, CurveIsNumber
    <2>4. v * scale \in Int
      BY IntegersClose
    <2>5. (v * scale) \div Unit \in Int
      BY <2>1, <2>4, IntegersClose
    <2> QED
      BY <1>2, <1>5, <2>3, <2>5
  <1> QED
    BY <1>4, <1>5

\* A rig whose range maps are of numbers.
IsGazeRig(rig) == \A m \in L!MapNames : IsRangeMap(rig.maps[m])

\* The rig that is there before any stage.
LEMMA DefaultIsGazeRig == IsGazeRig(L!DefaultRig)
  <1>1. << >> \in Seq(CurveKey)
    OBVIOUS
  <1>2. IsRangeMap(L!Linear)
    BY <1>1 DEF IsRangeMap, L!Linear
  <1> QED
    BY <1>2 DEF IsGazeRig, L!DefaultRig

\* A preserved block changes a range map to another.
LEMMA BlockIsRead ==
    ASSUME NEW block, IsBlock(block)
    PROVE  IsGazeRig(L!ParseLookAtRangeMaps(block, L!DefaultRig).rig)
  <1> DEFINE rig == L!DefaultRig
             read(m) == IF m \notin DOMAIN block.maps THEN rig.maps[m]
                        ELSE IF block.keys = "1.0" THEN L!ReadRangeMap1(rig.maps[m], block.maps[m])
                        ELSE L!ReadRangeMap0(rig.maps[m], block.maps[m])
             parsed == L!ParseLookAtRangeMaps(block, rig).rig
  <1>1. ASSUME NEW old, IsRangeMap(old), NEW stated, IsStatedMap(stated)
        PROVE  IsRangeMap(L!ReadRangeMap1(old, stated)) /\ IsRangeMap(L!ReadRangeMap0(old, stated))
    <2>1. << >> \in Seq(CurveKey) /\ stated.curve \in Seq(CurveKey)
      BY <1>1 DEF IsStatedMap, CurveKey
    <2>2. /\ stated.inputMaxValue # None => stated.inputMaxValue \in Int
          /\ stated.outputScale # None => stated.outputScale \in Int
      BY <1>1 DEF IsStatedMap
    <2>3. ASSUME NEW curve \in Seq(CurveKey) PROVE IsRangeMap(L!ReadRangeMap(old, stated, curve))
      BY <1>1, <2>2 DEF IsRangeMap, L!ReadRangeMap
    <2> QED
      BY <2>1, <2>3 DEF L!ReadRangeMap1, L!ReadRangeMap0
  <1>2. \A m \in L!MapNames : IsRangeMap(read(m))
    <2>1. \A m \in L!MapNames : IsRangeMap(rig.maps[m])
      BY DefaultIsGazeRig DEF IsGazeRig
    <2>2. \A m \in DOMAIN block.maps : IsStatedMap(block.maps[m])
      BY DEF IsBlock
    <2> HIDE DEF rig
    <2> QED
      BY <1>1, <2>1, <2>2
  <1>3. parsed = rig \/ parsed.maps = [m \in L!MapNames |-> read(m)]
    <2>1. CASE ~block.object
      BY <2>1 DEF L!ParseLookAtRangeMaps
    <2>2. CASE block.object
      <3>1. "maps" \in DOMAIN rig
        BY DEF L!DefaultRig
      <3> HIDE DEF rig
      <3>2. parsed.maps = [m \in L!MapNames |-> read(m)]
        BY <2>2, <3>1 DEF L!ParseLookAtRangeMaps
      <3> QED
        BY <3>2
    <2> QED
      BY <2>1, <2>2
  <1> HIDE DEF parsed, read
  <1> QED
    BY <1>2, <1>3, DefaultIsGazeRig DEF IsGazeRig, parsed

\* The look-at a stage states is a rig of range maps.
LEMMA LookAtIsRead ==
    ASSUME NEW prims, IsSequence(prims),
           \A p \in Range(prims) : p.block # None => IsBlock(p.block), NEW joints
    PROVE  IsGazeRig(ReadLookAt(prims, joints).rig)
  <1> DEFINE found == {i \in DOMAIN prims : IsLookAtPrim(prims[i])}
             p == prims[Min(found)]
             parsed == IF p.block = None THEN L!DefaultRig
                       ELSE L!ParseLookAtRangeMaps(p.block, L!DefaultRig).rig
             rig == ReadLookAt(prims, joints).rig
  <1>1. found = {} => rig = L!DefaultRig
    BY DEF ReadLookAt
  <1>2. found # {} =>
            rig = [parsed EXCEPT
                     !.type = IF p.type \in {"bone", "expression"} THEN p.type ELSE @,
                     !.leftEye = ReadEyeJoint(joints, p.eyes["left"]),
                     !.rightEye = ReadEyeJoint(joints, p.eyes["right"])]
    BY DEF ReadLookAt
  <1>3. found # {} => Min(found) \in DOMAIN prims
    <2>1. DOMAIN prims = 1 .. Len(prims) /\ Len(prims) \in Nat
      BY DEF IsSequence
    <2>2. found \in SUBSET DOMAIN prims
      OBVIOUS
    <2> HIDE DEF found
    <2>3. found \in SUBSET Int /\ IsFiniteSet(found)
      <3>1. PICK D : D = DOMAIN prims /\ IsFiniteSet(D)
        BY <2>1, FS_Interval
      <3>2. found \in SUBSET D
        BY <2>2, <3>1
      <3> QED
        BY <2>1, <3>1, <3>2, FS_Subset
    <2> QED
      BY <2>2, <2>3, Extremes
  <1>4. found # {} => IsGazeRig(parsed)
    <2> HIDE DEF found
    <2>1. found # {} /\ p.block # None => IsBlock(p.block)
      BY <1>3 DEF Range
    <2> HIDE DEF p
    <2> QED
      BY <2>1, BlockIsRead, DefaultIsGazeRig
  <1>5. "maps" \in DOMAIN parsed
    BY DEF L!DefaultRig, L!ParseLookAtRangeMaps
  <1> HIDE DEF found, parsed, rig
  <1>6. found # {} => rig.maps = parsed.maps
    BY <1>2, <1>5
  <1>7. IsGazeRig(rig)
    BY <1>1, <1>4, <1>6, DefaultIsGazeRig DEF IsGazeRig
  <1> QED
    BY <1>7 DEF rig

\* Every angle a gaze turns through is a number.
LEMMA AngleIsNumber == \A a, b : L!Atan2(a, b) \in Int
  BY DEF L!Atan2

\* The weights of a gaze, clamped, are a sample's.
LEMMA GazeSays ==
    ASSUME NEW rig, IsGazeRig(rig), NEW target, NEW head, NEW offset,
           NEW g, g = L!Evaluate(rig, target, head, offset).gaze, g.hasGaze
    PROVE  g.expressions \in Seq([name : Names, value : Number])
  <1> DEFINE aim == L!Aim(rig, target, head, offset)
             weights == L!GazeWeights(rig, aim.yaw, aim.pitch)
             said == [i \in DOMAIN weights |-> [weights[i] EXCEPT !.value = L!ClampWeight(@)]]
  <1>1. CASE ~aim.aimed
    BY <1>1 DEF L!Evaluate, L!NoGaze
  <1>2. CASE aim.aimed /\ rig.type = "bone"
    <2>1. g.expressions = << >>
      BY <1>2 DEF L!Evaluate, L!NoGaze
    <2> QED
      BY <2>1
  <1>3. CASE aim.aimed /\ rig.type # "bone"
    <2>1. g.expressions = said
      BY <1>3 DEF L!Evaluate, L!NoGaze
    <2>2. aim.yaw \in Int /\ aim.pitch \in Int
      BY <1>3, AngleIsNumber DEF L!Aim
    <2> HIDE DEF aim
    <2>3. PICK yaw \in Int, pitch \in Int : yaw = aim.yaw /\ pitch = aim.pitch
      BY <2>2
    <2>4. /\ IsRangeMap(rig.maps["horizontalOuter"])
          /\ IsRangeMap(rig.maps["verticalUp"]) /\ IsRangeMap(rig.maps["verticalDown"])
      BY DEF IsGazeRig, L!MapNames
    <2>5. L!Magnitude(yaw) \in Int /\ -pitch \in Int
      BY DEF L!Magnitude
    <2>6. PICK across \in Int : across = L!Map(rig.maps["horizontalOuter"], L!Magnitude(yaw))
      BY <2>4, <2>5, MapIsNumber
    <2>7. PICK up \in Int : up = L!Vertical(rig, pitch)
      <3>1. L!Map(rig.maps["verticalUp"], pitch) \in Int
        BY <2>4, MapIsNumber
      <3>2. L!Map(rig.maps["verticalDown"], -pitch) \in Int
        BY <2>4, <2>5, MapIsNumber
      <3>3. \A x \in Int : -x \in Int
        OBVIOUS
      <3>4. -L!Map(rig.maps["verticalDown"], -pitch) \in Int
        BY <3>2, <3>3
      <3> QED
        BY <3>1, <3>4 DEF L!Vertical
    <2>8. weights = << [name |-> "lookLeft", value |-> IF yaw >= 0 THEN across ELSE 0],
                       [name |-> "lookRight", value |-> IF yaw >= 0 THEN 0 ELSE across],
                       [name |-> "lookUp", value |-> IF pitch >= 0 THEN up ELSE 0],
                       [name |-> "lookDown", value |-> IF pitch >= 0 THEN 0 ELSE -up] >>
      BY <2>3, <2>6, <2>7 DEF L!GazeWeights
    <2> HIDE DEF weights
    <2>9. /\ DOMAIN weights = 1 .. 4
          /\ \A i \in 1 .. 4 : weights[i] \in [name : Names, value : Int]
      <3>1. /\ "lookLeft" \in Names /\ "lookRight" \in Names
            /\ "lookUp" \in Names /\ "lookDown" \in Names
        BY DEF Names
      <3>2. \A i \in 1 .. 4 : i = 1 \/ i = 2 \/ i = 3 \/ i = 4
        OBVIOUS
      <3>3. -up \in Int
        OBVIOUS
      <3> QED
        BY <2>8, <3>1, <3>2, <3>3
    <2>10. \A x \in Int : L!ClampWeight(x) \in Number
      <3> SUFFICES ASSUME NEW x \in Int PROVE L!ClampWeight(x) \in Int
        BY DEF Number
      <3>1. PICK most \in Int : most = Max({x, 0})
        BY OfTwo
      <3>2. Min({most, Unit}) \in Int
        BY OfTwo, WeightAssumption
      <3> QED
        BY <3>1, <3>2, OneMax DEF L!ClampWeight
    <2>11. \A i \in 1 .. 4 : said[i] \in [name : Names, value : Number]
      BY <2>9, <2>10
    <2>12. said = [i \in 1 .. 4 |-> said[i]]
      BY <2>9
    <2> HIDE DEF said
    <2>13. said \in Seq([name : Names, value : Number])
      <3>1. PICK T : T = [name : Names, value : Number]
        OBVIOUS
      <3>2. said \in Seq(T)
        BY <2>11, <2>12, <3>1
      <3> QED
        BY <3>1, <3>2
    <2> QED
      BY <2>1, <2>13
  <1> QED
    BY <1>1, <1>2, <1>3

\* What a run has of an avatar it did not refuse.
IsAvatar(a) == IsRig(a.expressionRig) /\ IsGazeRig(a.lookAtRig)

\* The avatar of a stage has a rig and a look-at.
LEMMA AvatarIsRead ==
    ASSUME NEW file, IsInput(file), NEW named, NEW extra,
           NEW a, a = ReadAvatar(file, named, extra), a.code = 0
    PROVE  IsAvatar(a)
  <1> DEFINE found == FindSkeleton(file.skeletons,
                                   IF named # "" THEN named ELSE file.humanoid.skeleton,
                                   RetargetContractViolation)
             map == HumanoidMap(file.humanoid.bones, extra, found.skeleton.joints)
             code == AvatarRefusal(file, named, found, map, extra)
  <1> HIDE DEF found, map
  <1>2. code = 0 /\ a.expressionRig = ReadExpressions(file.expressions)
        /\ a.lookAtRig = ReadLookAt(file.lookAts, found.skeleton.joints).rig
    <2> HIDE DEF code
    <2>1. code # 0 => a = [code |-> code]
      BY DEF ReadAvatar, code, found, map
    <2>2. code = 0
      BY <2>1
    <2> QED
      BY <2>2 DEF ReadAvatar, code, found, map
  <1>3. Opens(file)
    <2>1. FailToOpen(file) # 0
      BY DEF FailToOpen, StageFailure, InvalidUserInput
    <2>2. ~Opens(file) => code = FailToOpen(file)
      BY DEF code, AvatarRefusal
    <2> QED
      BY <1>2, <2>1, <2>2
  <1>4. IsStage(file)
    BY <1>3 DEF IsInput
  <1>5. IsRig(ReadExpressions(file.expressions))
    BY <1>4, RigIsRead DEF IsStage
  <1>6. \A joints : IsGazeRig(ReadLookAt(file.lookAts, joints).rig)
    BY <1>4, LookAtIsRead DEF IsStage
  <1> QED
    BY <1>2, <1>5, <1>6 DEF IsAvatar

(* What holds of the face *)

\* The weights an expression-driven gaze gives.
Weighing(w) == w \in Seq([name : Names, value : Number])

\* The gaze of a sample that has one says what an expression-driven face takes.
Speaks(i) == i > Len(gaze) \/ ~gaze[i].hasGaze \/ Weighing(gaze[i].expressions)

\* A sample of the face, from the weights it has then.
Resolved(i) == E!Resolve(avatar.expressionRig, Weights(i), ResolveOptions).resolved

\* The avatar, the clip and the gaze that the faces are resolved from, and the faces once they are.
FaceInv ==
    /\ pc \in {"clip", "retarget", "gaze", "face", "open"} => IsAvatar(avatar)
    /\ pc \in {"retarget", "gaze", "face", "open"} => Sounding(source)
    /\ pc \in {"face", "open"} => \A i \in DOMAIN source : Speaks(i)
    /\ pc = "open" => expressions \in {<< >>, [i \in DOMAIN source |-> Resolved(i)]}

\* The avatar read.
LEMMA AvatarFaces == RunInv /\ OpenAvatar => FaceInv'
<1> SUFFICES ASSUME RunInv, OpenAvatar PROVE FaceInv'
  OBVIOUS
<1> SUFFICES ASSUME pc' = "clip" PROVE IsAvatar(avatar')
  <2>1. pc' \in {"clip", "return"}
    BY DEF OpenAvatar, RefuseOr, Return, Continue
  <2> QED
    BY <2>1 DEF FaceInv, IsAvatar
<1>1. pc = "avatar" /\ avatar'.code = 0
  BY DEF OpenAvatar, RefuseOr, Return
<1>2. MapFile.parses
  BY <1>1 DEF OpenAvatar, InvalidUserInput
<1>3. options["--avatar"] \in DOMAIN Files
  BY <1>1, PathsReach DEF Paths
<1>4. PICK file, named, extra : IsInput(file) /\ avatar' = ReadAvatar(file, named, extra)
  <2>1. PICK file \in Stages(options["--avatar"]) :
           avatar' = ReadAvatar(file, options["--skeleton"], MapFile.entries)
    BY <1>2 DEF OpenAvatar
  <2>2. IsInput(file)
    BY <1>3, StagesAreInputs
  <2> QED
    BY <2>1, <2>2
<1>5. avatar' = ReadAvatar(file, named, extra)
  BY <1>4
<1>6. PICK a : a = ReadAvatar(file, named, extra)
  OBVIOUS
<1>7. IsAvatar(a)
  BY <1>1, <1>4, <1>5, <1>6, AvatarIsRead
<1> QED
  BY <1>5, <1>6, <1>7

\* The clip read and resampled.
LEMMA ClipFaces == RunInv /\ FaceInv /\ OpenClip => FaceInv'
<1> SUFFICES ASSUME RunInv, FaceInv, OpenClip PROVE FaceInv'
  OBVIOUS
<1> SUFFICES ASSUME pc' = "retarget" PROVE Sounding(source')
  <2>1. pc = "clip" /\ pc' \in {"retarget", "return"} /\ avatar' = avatar
    BY DEF OpenClip, RefuseOr, Return, Continue
  <2>2. pc' = "retarget" => IsAvatar(avatar)'
    BY <2>1 DEF FaceInv, IsAvatar
  <2> QED
    BY <2>1, <2>2 DEF FaceInv, Sounding
<1>1. pc = "clip" /\ clip'.code = 0
  BY DEF OpenClip, RefuseOr, Return
<1>2. options["--animation"] \in DOMAIN Files /\ options["--resample"] \in Nat
  BY <1>1, PathsReach DEF Paths
<1>3. PICK file, named, c : IsInput(file) /\ c = ReadClip(file, named) /\ clip' = c
  <2>1. PICK file \in Stages(options["--animation"]) :
           clip' = ReadClip(file, options["--clip-skeleton"])
    BY DEF OpenClip
  <2>2. IsInput(file)
    BY <1>2, StagesAreInputs
  <2> QED
    BY <2>1, <2>2
<1>4. clip' = c
  BY <1>3
<1>5. Timed(c.samples) /\ Sounding(c.samples)
  BY <1>1, <1>3, <1>4, ReadClipIsTimed, ClipSounds
<1>6. PICK step \in Nat : step = options["--resample"]
  BY <1>2
<1>7. source' = IF step > 0 THEN Resample(c.samples, step) ELSE c.samples
  BY <1>1, <1>4, <1>6 DEF OpenClip
<1>8. PICK samples : samples = c.samples
  OBVIOUS
<1>9. step > 0 => Sounding(Resample(samples, step))
  BY <1>5, <1>8, ResampleSounds
<1> QED
  BY <1>5, <1>7, <1>8, <1>9

\* The body leaves the avatar and the clip alone.
LEMMA BodyFaces == FaceInv /\ RetargetBody => FaceInv'
<1> SUFFICES ASSUME FaceInv, RetargetBody PROVE FaceInv'
  OBVIOUS
<1>1. pc = "retarget" /\ pc' \in {"gaze", "return"} /\ UNCHANGED <<avatar, source>>
  BY DEF RetargetBody, inputs, RefuseOr, Return, Continue
<1>2. IsAvatar(avatar) /\ Sounding(source)
  BY <1>1 DEF FaceInv
<1>3. IsAvatar(avatar)' /\ Sounding(source)'
  BY <1>1, <1>2 DEF IsAvatar, Sounding
<1> QED
  BY <1>1, <1>3 DEF FaceInv

\* The gaze said, or nothing.
LEMMA GazeFaces == RunInv /\ FaceInv /\ EvaluateLookAt => FaceInv'
<1> SUFFICES ASSUME RunInv, FaceInv, EvaluateLookAt PROVE FaceInv'
  OBVIOUS
<1>1. pc = "gaze" /\ pc' = "face" /\ UNCHANGED <<avatar, source>>
  BY DEF EvaluateLookAt, inputs, Continue
<1>2. IsAvatar(avatar) /\ Sounding(source) /\ IsList(source)
  BY <1>1 DEF FaceInv, RunInv, Sampled
<1>3. IsAvatar(avatar)' /\ Sounding(source)'
  BY <1>1, <1>2 DEF IsAvatar, Sounding
<1>4. ASSUME NEW i \in DOMAIN source PROVE Speaks(i)'
  <2>1. PICK g : g = gaze'
    OBVIOUS
  <2>2. g = << >> \/ g = EvaluateGaze
    BY <2>1 DEF EvaluateLookAt
  <2>3. i > Len(g) \/ ~g[i].hasGaze \/ Weighing(g[i].expressions)
    <3>1. CASE g = << >>
      <4>1. i \in 1 .. Len(source) /\ Len(source) \in Nat
        BY <1>2, ListDomain
      <4>2. Len(g) = 0
        BY <3>1
      <4> QED
        BY <4>1, <4>2
    <3>2. CASE g # << >>
      <4>1. PICK rig, target, head, offset :
               g[i] = L!Evaluate(rig, target, head, offset).gaze /\ rig = avatar.lookAtRig
        BY <2>2, <3>2 DEF EvaluateGaze
      <4>2. IsGazeRig(rig)
        BY <1>2, <4>1 DEF IsAvatar
      <4>3. PICK h : h = g[i]
        OBVIOUS
      <4>4. h.hasGaze => Weighing(h.expressions)
        BY <4>1, <4>2, <4>3, GazeSays DEF Weighing
      <4> QED
        BY <4>3, <4>4
    <3> QED
      BY <3>1, <3>2
  <2> QED
    BY <2>1, <2>3 DEF Speaks, Weighing
<1> QED
  BY <1>1, <1>3, <1>4 DEF FaceInv

\* A sample's weights, with the gaze's set over the clip's by an operator of their own.
WeightsAreSpelled ==
    \A i : Weights(i) = IF ~GazeDrivesExpressions \/ i > Len(gaze) \/ ~gaze[i].hasGaze
                        THEN source[i].channels
                        ELSE SetOver(source[i].channels, gaze[i].expressions)

\* Which is what Weights is.
LEMMA SpellingWeights == WeightsAreSpelled
  BY DEF WeightsAreSpelled, Weights, SetOver, Say

\* What a sample says and resolves to stays while its sources do.
LEMMA FacesStay ==
    ASSUME UNCHANGED <<avatar, source, gaze>>
    PROVE  /\ IsAvatar(avatar)' <=> IsAvatar(avatar)
           /\ Sounding(source)' <=> Sounding(source)
           /\ (\A i \in DOMAIN source : Speaks(i))' <=> (\A i \in DOMAIN source : Speaks(i))
           /\ \A i : Resolved(i)' = Resolved(i)
<1>1. \A i : Weights(i)' = Weights(i)
  <2>1. WeightsAreSpelled'
    BY SpellingWeights, PTL
  <2>2. GazeDrivesExpressions' <=> GazeDrivesExpressions
    BY DEF GazeDrivesExpressions
  <2>3. \A i : Weights(i)' = IF ~GazeDrivesExpressions' \/ i > Len(gaze') \/ ~gaze'[i].hasGaze
                             THEN source'[i].channels
                             ELSE SetOver(source'[i].channels, gaze'[i].expressions)
    BY <2>1 DEF WeightsAreSpelled
  <2> QED
    BY <2>2, <2>3, SpellingWeights DEF WeightsAreSpelled
<1>2. \A i : Resolved(i)' = Resolved(i)
  BY <1>1 DEF Resolved
<1>3. \A i : Speaks(i)' <=> Speaks(i)
  BY DEF Speaks
<1>4. /\ IsAvatar(avatar)' <=> IsAvatar(avatar)
      /\ Sounding(source)' <=> Sounding(source)
  BY DEF IsAvatar, Sounding
<1> QED
  BY <1>2, <1>3, <1>4

\* The faces resolved.
LEMMA FaceFaces == FaceInv /\ ResolveExpressions => FaceInv'
<1> SUFFICES ASSUME FaceInv, ResolveExpressions PROVE FaceInv'
  OBVIOUS
<1>1. pc = "face" /\ pc' = "open" /\ UNCHANGED <<avatar, source, gaze>>
  BY DEF ResolveExpressions, inputs, Continue
<1>2. expressions' \in {<< >>, [i \in DOMAIN source |-> Resolved(i)]}
  BY DEF ResolveExpressions, Resolved
<1>3. [i \in DOMAIN source |-> Resolved(i)]' = [i \in DOMAIN source |-> Resolved(i)]
  BY <1>1, FacesStay
<1> QED
  BY <1>1, <1>2, <1>3, FacesStay DEF FaceInv

\* A step that leaves everything alone.
LEMMA IdleFaces == FaceInv /\ UNCHANGED vars => FaceInv'
<1> SUFFICES ASSUME FaceInv, UNCHANGED vars PROVE FaceInv'
  OBVIOUS
<1>1. UNCHANGED <<pc, avatar, source, gaze, expressions>>
  BY DEF vars, inputs, baked
<1>2. [i \in DOMAIN source |-> Resolved(i)]' = [i \in DOMAIN source |-> Resolved(i)]
  BY <1>1, FacesStay
<1> QED
  BY <1>1, <1>2, FacesStay DEF FaceInv

\* A step elsewhere does not concern the face.
LEMMA ElsewhereFaces ==
    pc' \notin {"clip", "retarget", "gaze", "face", "open"} => FaceInv'
  BY DEF FaceInv

\* Every step of the runs keeps the face's sources.
LEMMA NextFaces == RunInv /\ FaceInv /\ [Next]_vars => FaceInv'
<1> SUFFICES ASSUME RunInv, FaceInv, [Next]_vars PROVE FaceInv'
  OBVIOUS
<1>1. CASE Parse \/ OpenOutput \/ Author \/ Save \/ Leave \/ Kill \/ NextRun
  <2>1. pc' \in {"avatar", "parse", "author", "save", "return", "exited"}
    BY <1>1 DEF Parse, OpenOutput, ClearOutput, CreateOutput, Author, Save, Leave, Kill, NextRun,
       Start, Exit, Return, Continue
  <2> QED
    BY <2>1, ElsewhereFaces
<1>2. CASE OpenAvatar
  BY <1>2, AvatarFaces
<1>3. CASE OpenClip
  BY <1>3, ClipFaces
<1>4. CASE RetargetBody
  BY <1>4, BodyFaces
<1>5. CASE EvaluateLookAt
  BY <1>5, GazeFaces
<1>6. CASE ResolveExpressions
  BY <1>6, FaceFaces
<1>7. CASE Done \/ UNCHANGED vars
  BY <1>7, IdleFaces DEF Done
<1> QED
  BY <1>1, <1>2, <1>3, <1>4, <1>5, <1>6, <1>7 DEF Next

\* A sample's weights, the gaze's over the clip's.
LEMMA WeightsAreSample ==
    ASSUME FaceInv, pc = "open", NEW i \in DOMAIN source
    PROVE  IsSample(Weights(i))
<1>1. PICK base : base = source[i].channels /\ IsSample(base)
  BY DEF FaceInv, Sounding
<1>2. base \in Samples
  BY <1>1 DEF Samples, IsSample
<1>3. CASE ~GazeDrivesExpressions \/ i > Len(gaze) \/ ~gaze[i].hasGaze
  BY <1>1, <1>3 DEF Weights
<1>4. CASE ~(~GazeDrivesExpressions \/ i > Len(gaze) \/ ~gaze[i].hasGaze)
  <2>1. Weighing(gaze[i].expressions)
    BY <1>4 DEF FaceInv, Speaks
  <2>2. PICK w : w = gaze[i].expressions
    OBVIOUS
  <2>3. Weights(i) = SetOver(base, w)
    BY <1>1, <1>4, <2>2 DEF Weights, SetOver, Say
  <2>4. w \in Seq([name : Names, value : Number])
    BY <2>1, <2>2 DEF Weighing
  <2>5. SetOver(base, w) \in Samples
    BY <1>2, <2>4, OverIsSample
  <2> QED
    BY <2>3, <2>5 DEF Samples
<1> QED
  BY <1>3, <1>4

\* Faces so resolved are what FaceIsArbitratedOnce says of them.
LEMMA ResolvedFacesAreArbitrated == FaceInv => FaceIsArbitratedOnce
<1> SUFFICES ASSUME FaceInv, pc = "open", expressions # << >>, NEW i \in DOMAIN source
             PROVE  FaceOf(i, expressions[i].morphTargets)
  BY DEF FaceIsArbitratedOnce, FaceOf
<1>1. expressions[i] = Resolved(i)
  BY DEF FaceInv
<1>2. PICK rig, s : rig = avatar.expressionRig /\ s = Weights(i)
  OBVIOUS
<1>3. IsRig(rig)
  BY <1>2 DEF FaceInv, IsAvatar
<1>4. IsSample(s)
  BY <1>2, WeightsAreSample
<1>5. FaceOf(i, Morphs(rig, s))
  BY <1>2, <1>3, <1>4, SampleResolves
<1>6. expressions[i].morphTargets = Morphs(rig, s)
  BY <1>1, <1>2 DEF Resolved, Morphs
<1> QED
  BY <1>5, <1>6

\* For every rig of expressions, every clip and every order a sample reports its weights in:
\* each blend shape has the sum of what the reported expressions give it, each suppressed once
\* by the largest override of its category and by no other, and a shape none of them binds has
\* no entry (ExpressionResolver::Resolve on the weights the gaze and the clip give).
THEOREM EveryFaceIsArbitratedOnce == Spec => []FaceIsArbitratedOnce
<1>1. Init => FaceInv
  BY DEF Init, FaceInv
<1> QED
  BY <1>1, InitRuns, NextRuns, NextFaces, ResolvedFacesAreArbitrated, PTL DEF Spec
=============================================================================
