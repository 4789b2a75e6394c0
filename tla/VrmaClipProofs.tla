--------------------------- MODULE VrmaClipProofs ---------------------------
(***************************************************************************)
(* UsdVrmaFileFormat::Read, proved for every set of files: a load keeps to *)
(* the bytes it read first, whatever becomes of the file meanwhile, and    *)
(* the layer it makes says of the face and the gaze what those bytes say.  *)
(***************************************************************************)
EXTENDS VrmaClip, Recursion, FiniteSetTheorems, TLAPS

\* What a load has made so far is made of its own bytes.
LoadInv ==
    /\ disk \in Files
    /\ pc \in {"idle", "read", "author", "import"}
    /\ pc # "idle" => bytes \in Files
    /\ pc \in {"author", "import"} => Refusal(bytes) = "" /\ document = Document(bytes)
    /\ pc = "import" => usda = WriteToString(document) /\ usda # None

LEMMA InitLoadInv == Init => LoadInv
  BY DEF Init, LoadInv

LEMMA NextKeepsLoad == LoadInv /\ [Next]_vars => LoadInv'
  <1> SUFFICES ASSUME LoadInv, [Next]_vars
               PROVE  LoadInv'
    OBVIOUS
  <1> USE DEF LoadInv
  <1>1. CASE Replace
    BY <1>1 DEF Replace
  <1>2. CASE ReadBytes
    BY <1>2 DEF ReadBytes, Finish
  <1>3. CASE ReadDocument
    BY <1>3 DEF ReadDocument, Finish
  <1>4. CASE AuthorDocument
    BY <1>4 DEF AuthorDocument, Finish
  <1>5. CASE Import
    BY <1>5 DEF Import, Finish
  <1>6. CASE UNCHANGED vars
    BY <1>6 DEF vars
  <1> QED
    BY <1>1, <1>2, <1>3, <1>4, <1>5, <1>6 DEF Next

(***************************************************************************)
(* At every step of a load the bytes are those of one version of the file, *)
(* and the document and the text are made of them: nothing is read again.  *)
(***************************************************************************)
THEOREM LoadIsOfOneVersion == Spec => []LoadInv
  BY InitLoadInv, NextKeepsLoad, PTL DEF Spec

(***************************************************************************)
(* The layer changes only by a load that succeeds, and to what one version *)
(* of the file says: every early return of Read leaves it alone.           *)
(***************************************************************************)
THEOREM LayerStaysOneVersion == Spec => LayerIsOneVersion
  <1> DEFINE Step == layer' # layer =>
                        /\ loaded' = "loaded" /\ bytes \in Files
                        /\ Refusal(bytes) = "" /\ layer' = WriteToString(Document(bytes))
  <1>1. LoadInv /\ [Next]_vars => [Step]_vars
    <2> SUFFICES ASSUME LoadInv, Next, layer' # layer
                 PROVE  /\ loaded' = "loaded" /\ bytes \in Files
                        /\ Refusal(bytes) = "" /\ layer' = WriteToString(Document(bytes))
      OBVIOUS
    <2>1. Import
      BY DEF Next, Replace, ReadBytes, ReadDocument, AuthorDocument
    <2>2. layer' = usda /\ Finish("loaded") /\ pc = "import"
      BY <2>1 DEF Import, LeftBy
    <2> QED
      BY <2>2 DEF Finish, LoadInv
  <1> QED
    BY <1>1, LoadIsOfOneVersion, PTL DEF Spec, LayerIsOneVersion

-----------------------------------------------------------------------------
(* The expressions taken *)

\* What an entry declares, in either group.
Declared(file) ==
    {[name |-> e.name, node |-> e.node, type |-> type] :
        e \in Range(file.preset) \cup Range(file.custom), type \in {"preset", "custom"}}

LEMMA DeclarationsAre ==
    ASSUME NEW file \in Files
    PROVE  /\ Declarations(file) \in Seq(Declared(file))
           /\ \A e \in Declared(file) : Identifier[e.name] \in Seq(Range(Identifier[e.name]))
  <1> DEFINE typed(entries, type) ==
                [i \in DOMAIN entries |->
                    [name |-> entries[i].name, node |-> entries[i].node, type |-> type]]
  <1>1. /\ file.preset \in Seq(Range(file.preset)) /\ file.custom \in Seq(Range(file.custom))
        /\ \A e \in Range(file.preset) \cup Range(file.custom) :
              Identifier[e.name] \in Seq(Range(Identifier[e.name]))
    BY FilesAssumption
  <1>2. ASSUME NEW entries, entries \in Seq(Range(entries)), NEW type \in {"preset", "custom"},
               Range(entries) \subseteq Range(file.preset) \cup Range(file.custom)
        PROVE  typed(entries, type) \in Seq(Declared(file))
    <2>1. Len(entries) \in Nat /\ DOMAIN entries = 1 .. Len(entries)
      BY <1>2
    <2>2. \A i \in DOMAIN entries : entries[i] \in Range(entries)
      BY DEF Range
    <2>3. \A i \in 1 .. Len(entries) : typed(entries, type)[i] \in Declared(file)
      BY <1>2, <2>1, <2>2 DEF Declared
    <2> QED
      BY <2>1, <2>3
  <1>3. typed(file.preset, "preset") \in Seq(Declared(file))
    BY <1>1, <1>2
  <1>4. typed(file.custom, "custom") \in Seq(Declared(file))
    BY <1>1, <1>2
  <1>5. Declarations(file) = typed(file.preset, "preset") \o typed(file.custom, "custom")
    BY DEF Declarations
  <1> HIDE DEF typed
  <1>6. Declarations(file) \in Seq(Declared(file))
    BY <1>3, <1>4, <1>5
  <1>7. \A e \in Declared(file) :
            \E d \in Range(file.preset) \cup Range(file.custom) : e.name = d.name
    BY DEF Declared
  <1> QED
    BY <1>1, <1>6, <1>7

\* What the claims of the first n declarations come to: entries that may be expressions, no
\* two of them rivals, and each such entry one of them or a rival of one before it.
Taken(file, n, s) ==
    LET all == Declarations(file)
    IN  /\ s \in Seq(Declared(file))
        /\ \A j \in DOMAIN s : Usual(file, s[j]) /\ \E i \in 1 .. n : s[j] = all[i]
        /\ \A j, k \in DOMAIN s : j # k => ~Rivals(s[j], s[k])
        /\ \A i \in 1 .. n :
              Usual(file, all[i]) =>
                  \E j \in DOMAIN s, k \in 1 .. i : s[j] = all[k] /\ Rivals(s[j], all[i])

After(file, s, e) == IF WarningFor(file, s, e) = "" THEN Append(s, e) ELSE s

\* An entry without a warning may be an expression and has no rival; one with has.
LEMMA Warned ==
    ASSUME NEW file, NEW s, NEW e
    PROVE  WarningFor(file, s, e) = "" <=>
               Usual(file, e) /\ \A j \in DOMAIN s : ~Rivals(s[j], e)
  <1>1. e.node \in NodesOf(s) <=> \E j \in DOMAIN s : s[j].node = e.node
    BY DEF NodesOf, ToSet
  <1>2. e.name \in NamesOf(s) <=> \E j \in DOMAIN s : s[j].name = e.name
    BY DEF NamesOf, ToSet
  <1> QED
    BY <1>1, <1>2 DEF WarningFor, Usual, Rivals

LEMMA AnotherTaken ==
    ASSUME NEW file \in Files, NEW n \in 1 .. Len(Declarations(file)), NEW s, Taken(file, n - 1, s)
    PROVE  Taken(file, n, After(file, s, Declarations(file)[n]))
  <1> DEFINE all == Declarations(file)
             e == all[n]
             t == After(file, s, e)
  <1>1. PICK a \in Seq(Declared(file)) : a = all
    BY DeclarationsAre
  <1>2. n \in DOMAIN a /\ n \in Nat /\ e \in Declared(file)
    BY <1>1
  <1>3. /\ s \in Seq(Declared(file))
        /\ \A j \in DOMAIN s : Usual(file, s[j]) /\ \E i \in 1 .. n - 1 : s[j] = all[i]
        /\ \A j, k \in DOMAIN s : j # k => ~Rivals(s[j], s[k])
        /\ \A i \in 1 .. n - 1 :
              Usual(file, all[i]) =>
                  \E j \in DOMAIN s, k \in 1 .. i : s[j] = all[k] /\ Rivals(s[j], all[i])
    BY DEF Taken
  <1> HIDE DEF all, e
  <1>4. CASE WarningFor(file, s, e) = ""
    <2>1. t = Append(s, e)
      BY <1>4 DEF After
    <2>2. Usual(file, e) /\ \A j \in DOMAIN s : ~Rivals(s[j], e)
      BY <1>4, Warned
    <2>3. PICK m \in Nat : m = Len(s) + 1 /\ DOMAIN s = 1 .. m - 1
      BY <1>3
    <2>4. /\ t \in Seq(Declared(file)) /\ DOMAIN t = 1 .. m /\ t[m] = e
          /\ \A j \in DOMAIN s : j \in DOMAIN t /\ t[j] = s[j]
      BY <1>2, <1>3, <2>1, <2>3
    <2> HIDE DEF t
    <2>5. \A j \in DOMAIN t : j = m \/ j \in DOMAIN s
      BY <2>3, <2>4
    <2>6. m \in DOMAIN t
      BY <2>3, <2>4
    <2>7. \A j \in DOMAIN t : Usual(file, t[j]) /\ \E i \in 1 .. n : t[j] = all[i]
      <3> SUFFICES ASSUME NEW j \in DOMAIN t
                   PROVE  Usual(file, t[j]) /\ \E i \in 1 .. n : t[j] = all[i]
        OBVIOUS
      <3>1. CASE j = m
        <4>1. t[j] = all[n] /\ n \in 1 .. n
          BY <1>2, <2>4, <3>1 DEF e
        <4> QED
          BY <2>2, <2>4, <3>1, <4>1
      <3>2. CASE j \in DOMAIN s
        <4>1. t[j] = s[j] /\ Usual(file, s[j])
          BY <1>3, <2>4, <3>2
        <4>2. PICK i \in 1 .. n - 1 : s[j] = all[i]
          BY <1>3, <3>2
        <4>3. i \in 1 .. n
          BY <1>2, <4>2
        <4> QED
          BY <4>1, <4>2, <4>3
      <3> QED
        BY <2>5, <3>1, <3>2
    <2>8. \A j, k \in DOMAIN t : j # k => ~Rivals(t[j], t[k])
      BY <1>3, <2>2, <2>4, <2>5 DEF Rivals
    <2>9. ASSUME NEW i \in 1 .. n, Usual(file, all[i])
          PROVE  \E j \in DOMAIN t, k \in 1 .. i : t[j] = all[k] /\ Rivals(t[j], all[i])
      <3>1. CASE i = n
        <4>1. t[m] = all[i] /\ i \in 1 .. i
          BY <1>2, <2>4, <3>1 DEF e
        <4>2. Rivals(t[m], all[i])
          BY <4>1 DEF Rivals
        <4> QED
          BY <2>6, <4>1, <4>2
      <3>2. CASE i # n
        <4>1. i \in 1 .. n - 1
          BY <1>2, <3>2
        <4>2. PICK j \in DOMAIN s, k \in 1 .. i : s[j] = all[k] /\ Rivals(s[j], all[i])
          BY <1>3, <2>9, <4>1
        <4> QED
          BY <2>4, <4>2
      <3> QED
        BY <3>1, <3>2
    <2> QED
      BY <2>4, <2>7, <2>8, <2>9 DEF Taken, t, e, all
  <1>5. CASE WarningFor(file, s, e) # ""
    <2>1. t = s
      BY <1>5 DEF After
    <2>2. Usual(file, e) => \E j \in DOMAIN s : Rivals(s[j], e)
      BY <1>5, Warned
    <2>3. \A i \in 1 .. n - 1 : i \in 1 .. n
      BY <1>2
    <2>4. \A j \in DOMAIN s : \E i \in 1 .. n : s[j] = all[i]
      BY <1>3, <2>3
    <2>5. ASSUME NEW i \in 1 .. n, Usual(file, all[i])
          PROVE  \E j \in DOMAIN s, k \in 1 .. i : s[j] = all[k] /\ Rivals(s[j], all[i])
      <3>1. CASE i = n
        BY <2>2, <2>4, <2>5, <3>1 DEF e
      <3>2. CASE i # n
        BY <1>2, <1>3, <2>5, <3>2
      <3> QED
        BY <3>1, <3>2
    <2> QED
      BY <1>3, <2>1, <2>4, <2>5 DEF Taken, t, e, all
  <1> QED
    BY <1>4, <1>5

\* The claims of all declarations, one after the other.
LEMMA ExpressionsTaken ==
    ASSUME NEW file \in Files
    PROVE  Taken(file, Len(Declarations(file)), Expressions(file))
  <1> DEFINE all == Declarations(file)
             n == Len(all)
             V == Seq(Declared(file))
             Fits(g) == g = [i \in 0 .. Len(all) |->
                                IF i = 0 THEN << >>
                                ELSE LET sofar == g[i - 1]
                                     IN  IF WarningFor(file, sofar, all[i]) = ""
                                         THEN Append(sofar, all[i]) ELSE sofar]
             w == CHOOSE g : Fits(g)
  <1>1. n \in Nat /\ all \in V /\ \A i \in 1 .. n : all[i] \in Declared(file)
    <2>1. PICK a \in Seq(Declared(file)) : a = all
      BY DeclarationsAre
    <2> QED
      BY <2>1
  <1>2. Expressions(file) = w[n]
    <2> HIDE DEF V
    <2> QED
      BY DEF Expressions
  <1>3. ASSUME NEW s \in V, NEW i \in 1 .. n PROVE After(file, s, all[i]) \in V
    <2>1. PICK e \in Declared(file) : e = all[i]
      BY <1>1
    <2>2. Append(s, e) \in V
      OBVIOUS
    <2> QED
      BY <2>1, <2>2 DEF After
  <1> HIDE DEF all, n
  <1>4. Fits(w)
    <2> DEFINE G == [i \in 1 .. n |-> [s \in V |-> After(file, s, all[i])]]
    <2>1. Steps(n, V, G)
      <3>1. \A i \in 1 .. n : [s \in V |-> After(file, s, all[i])] \in [V -> V]
        BY <1>3
      <3> QED
        BY <3>1 DEF Steps
    <2>2. << >> \in V /\ n \in Nat
      BY <1>1
    <2>3. \A i \in 1 .. n : \A s \in V : G[i][s] = After(file, s, all[i])
      OBVIOUS
    <2> HIDE DEF G, V
    <2>4. PICK f \in [0 .. n -> V] : Iterates(n, << >>, G, f)
      BY <2>1, <2>2, Iteration
    <2>5. ASSUME NEW i \in 1 .. n PROVE f[i] = After(file, f[i - 1], all[i])
      <3>1. i - 1 \in 0 .. n
        BY <1>1
      <3> QED
        BY <2>3, <2>4, <3>1 DEF Iterates
    <2>6. f = [i \in 0 .. n |-> IF i = 0 THEN << >> ELSE After(file, f[i - 1], all[i])]
      <3>1. f = [i \in 0 .. n |-> f[i]]
        OBVIOUS
      <3>2. \A i \in 0 .. n : f[i] = IF i = 0 THEN << >> ELSE After(file, f[i - 1], all[i])
        BY <1>1, <2>4, <2>5 DEF Iterates
      <3> QED
        BY <3>1, <3>2
    <2>7. Fits(f)
      BY <2>6 DEF n, After
    <2> HIDE DEF Fits
    <2> QED
      BY <2>7
  <1>5. w[0] = << >> /\ \A i \in 1 .. n : w[i] = After(file, w[i - 1], all[i])
    <2>1. w = [i \in 0 .. n |-> IF i = 0 THEN << >> ELSE After(file, w[i - 1], all[i])]
      BY <1>4 DEF n, After
    <2> HIDE DEF w
    <2> QED
      BY <1>1, <2>1
  <1> HIDE DEF w, V
  <1> DEFINE S == {i \in 0 .. n : Taken(file, i, w[i])}
  <1>6. ASSUME NEW i \in 0 .. n, \A j \in 0 .. i - 1 : j \in S PROVE i \in S
    <2>1. CASE i = 0
      <3>1. Taken(file, 0, << >>)
        BY DEF Taken
      <3> QED
        BY <1>5, <2>1, <3>1
    <2>2. CASE i # 0
      <3>1. i \in 1 .. n /\ i - 1 \in 0 .. i - 1
        BY <1>1, <2>2
      <3>2. Taken(file, i - 1, w[i - 1])
        BY <1>6, <3>1
      <3>3. Taken(file, i, After(file, w[i - 1], all[i]))
        BY <3>1, <3>2, AnotherTaken DEF all, n
      <3> QED
        BY <1>5, <3>1, <3>3
    <2> QED
      BY <2>1, <2>2
  <1> HIDE DEF S
  <1>7. \A i \in 0 .. n : i \in S
    BY <1>1, <1>6, StrongInduction
  <1>8. Taken(file, n, w[n])
    BY <1>1, <1>7 DEF S
  <1> QED
    BY <1>2, <1>8 DEF n, all

\* Each expression at the first place it is declared: no rivals, and before all others.
LEMMA ExpressionsPlaced ==
    ASSUME NEW file \in Files
    PROVE  LET all == Declarations(file)
               taken == Expressions(file)
           IN  \E place \in [DOMAIN taken -> DOMAIN all] :
                  /\ \A j \in DOMAIN taken : taken[j] = all[place[j]]
                  /\ \A i \in DOMAIN all :
                        Usual(file, all[i]) =>
                            \E j \in DOMAIN taken : place[j] <= i /\ Rivals(all[place[j]], all[i])
  <1> DEFINE all == Declarations(file)
             taken == Expressions(file)
             of(j) == {i \in DOMAIN all : all[i] = taken[j]}
             place == [j \in DOMAIN taken |-> CHOOSE i \in of(j) : \A k \in of(j) : i <= k]
  <1>1. DOMAIN all = 1 .. Len(all) /\ Len(all) \in Nat
    <2>1. PICK a \in Seq(Declared(file)) : a = all
      BY DeclarationsAre
    <2> QED
      BY <2>1
  <1>2. /\ \A j \in DOMAIN taken : \E i \in DOMAIN all : taken[j] = all[i]
        /\ \A i \in DOMAIN all :
              Usual(file, all[i]) =>
                  \E j \in DOMAIN taken, k \in 1 .. i :
                      taken[j] = all[k] /\ Rivals(taken[j], all[i])
    <2>1. Taken(file, Len(all), taken)
      BY ExpressionsTaken
    <2> HIDE DEF taken
    <2>2. /\ \A j \in DOMAIN taken : \E i \in 1 .. Len(all) : taken[j] = all[i]
          /\ \A i \in 1 .. Len(all) :
                Usual(file, all[i]) =>
                    \E j \in DOMAIN taken, k \in 1 .. i :
                        taken[j] = all[k] /\ Rivals(taken[j], all[i])
      BY <2>1 DEF Taken
    <2> QED
      BY <1>1, <2>2
  <1> HIDE DEF all, taken
  <1>3. ASSUME NEW j \in DOMAIN taken
        PROVE  place[j] \in of(j) /\ \A k \in of(j) : place[j] <= k
    <2>1. of(j) \in SUBSET Nat /\ of(j) # {}
      BY <1>1, <1>2
    <2>2. place[j] = CHOOSE i \in of(j) : \A k \in of(j) : i <= k
      OBVIOUS
    <2> HIDE DEF of, place
    <2>3. \E i \in of(j) : \A k \in of(j) : i <= k
      BY <2>1, LeastMember
    <2> QED
      BY <2>2, <2>3
  <1>4. place \in [DOMAIN taken -> DOMAIN all]
    BY <1>3
  <1>5. \A j \in DOMAIN taken : taken[j] = all[place[j]]
    BY <1>3
  <1>6. ASSUME NEW i \in DOMAIN all, Usual(file, all[i])
        PROVE  \E j \in DOMAIN taken : place[j] <= i /\ Rivals(all[place[j]], all[i])
    <2>1. PICK j \in DOMAIN taken, k \in 1 .. i : taken[j] = all[k] /\ Rivals(taken[j], all[i])
      BY <1>2, <1>6
    <2>2. k \in of(j)
      BY <1>1, <2>1
    <2>3. place[j] <= k /\ place[j] \in Nat
      BY <1>1, <1>3, <1>4, <2>2
    <2>4. place[j] <= i
      BY <1>1, <2>3
    <2> QED
      BY <1>5, <2>1, <2>4
  <1> HIDE DEF place
  <1> QED
    BY <1>4, <1>5, <1>6 DEF all, taken

-----------------------------------------------------------------------------
(* The tracks *)

\* The middle of a key's three values is one of them.
LEMMA MiddleOfThree ==
    ASSUME NEW n \in Nat, NEW k \in 1 .. n
    PROVE  3 * k - 1 \in 1 .. 3 * n
  OBVIOUS

\* A value is read for each key.
LEMMA KeyIsRead ==
    ASSUME NEW s, Keyed(s), NEW k \in DOMAIN s.input
    PROVE  ReadKey(s, k) \in Int
  <1>1. PICK keys \in Seq(Int), values \in Seq(Int) : keys = s.input /\ values = s.output
    BY DEF Keyed
  <1>2. Len(values) = IF s.interpolation = "cubic" THEN 3 * Len(keys) ELSE Len(keys)
    BY <1>1 DEF Keyed
  <1>3. k \in 1 .. Len(keys) /\ Len(keys) \in Nat
    BY <1>1
  <1>4. CASE s.interpolation = "cubic"
    <2>1. PICK n \in Nat : n = Len(keys)
      BY <1>3
    <2>2. Len(values) = 3 * n /\ k \in 1 .. n
      BY <1>2, <1>3, <1>4, <2>1
    <2>3. 3 * k - 1 \in 1 .. 3 * n
      BY <2>1, <2>2, MiddleOfThree
    <2>4. 3 * k - 1 \in 1 .. Len(values)
      BY <2>2, <2>3
    <2> QED
      BY <1>1, <1>4, <2>4 DEF ReadKey
  <1>5. CASE s.interpolation # "cubic"
    <2>1. k \in 1 .. Len(values)
      BY <1>2, <1>3, <1>5
    <2> QED
      BY <1>1, <1>5, <2>1 DEF ReadKey
  <1> QED
    BY <1>4, <1>5

\* A time is at a key, or at neither side of the keys but beyond the first or the last.
Nearest(s, t, k) ==
    \/ t = s.input[k]
    \/ k = 1 /\ t < s.input[k]
    \/ k = Len(s.input) /\ t > s.input[k]

\* A track holds a key's value at the key, and the end keys' beyond them.
LEMMA NearestKeyIsRead ==
    ASSUME NEW s, Keyed(s), NEW k \in DOMAIN s.input, NEW t \in Int, Nearest(s, t, k)
    PROVE  Sample(s, t) = ReadKey(s, k)
  <1>1. PICK keys \in Seq(Int) : keys = s.input
    BY DEF Keyed
  <1>2. /\ Len(keys) \in Nat /\ DOMAIN keys = 1 .. Len(keys) /\ keys # << >>
        /\ Last(keys) = keys[Len(keys)]
        /\ \A i \in DOMAIN keys : keys[i] \in Int
    BY <1>1 DEF Last
  <1>3. \A i, j \in DOMAIN keys : i < j => keys[i] < keys[j]
    BY <1>1 DEF Keyed
  <1>4. k \in DOMAIN keys /\ 1 \in DOMAIN keys /\ Len(keys) \in DOMAIN keys
    BY <1>1, <1>2
  <1>5. t = keys[k] \/ (k = 1 /\ t < keys[k]) \/ (k = Len(keys) /\ t > keys[k])
    BY <1>1 DEF Nearest
  <1> DEFINE low == Max({j \in DOMAIN keys : keys[j] <= t})
             mix == ReadKey(s, low) + ((ReadKey(s, low + 1) - ReadKey(s, low)) * (t - keys[low]))
                                          \div (keys[low + 1] - keys[low])
  <1>6. Sample(s, t) =
            IF t <= keys[1] THEN ReadKey(s, 1)
            ELSE IF t >= keys[Len(keys)] THEN ReadKey(s, Len(keys))
            ELSE IF s.interpolation = "step" THEN ReadKey(s, low) ELSE mix
    BY <1>1, <1>2 DEF Sample
  <1> HIDE DEF mix, low
  <1>7. CASE t <= keys[1]
    <2>1. k = 1
      BY <1>2, <1>3, <1>4, <1>5, <1>7
    <2> QED
      BY <1>6, <1>7, <2>1
  <1>8. CASE ~(t <= keys[1]) /\ t >= keys[Len(keys)]
    <2>1. k = Len(keys)
      BY <1>2, <1>3, <1>4, <1>5, <1>8
    <2> QED
      BY <1>6, <1>8, <2>1
  <1>9. CASE ~(t <= keys[1]) /\ ~(t >= keys[Len(keys)])
    <2>1. t = keys[k] /\ k # Len(keys)
      BY <1>2, <1>3, <1>4, <1>5, <1>9
    <2>2. low = k
      <3> DEFINE S == {j \in DOMAIN keys : keys[j] <= t}
      <3>1. S \in SUBSET (1 .. Len(keys)) /\ k \in S
        BY <1>2, <1>4, <2>1
      <3>2. low = Max(S)
        BY DEF low
      <3> HIDE DEF S
      <3>3. low \in S /\ \A j \in S : j <= low
        BY <1>2, <3>1, <3>2, GreatestMember
      <3>4. low \in DOMAIN keys /\ keys[low] <= t /\ k <= low
        BY <3>1, <3>3 DEF S
      <3> QED
        BY <1>2, <1>3, <1>4, <2>1, <3>4
    <2>3. k + 1 \in DOMAIN keys /\ k + 1 \in DOMAIN s.input
      BY <1>1, <1>2, <1>4, <2>1
    <2>4. PICK a \in Int, b \in Int : a = ReadKey(s, k) /\ b = ReadKey(s, k + 1)
      BY <2>3, KeyIsRead
    <2>5. PICK d \in Int : d = keys[k + 1] - keys[k] /\ d > 0
      BY <1>2, <1>3, <1>4, <2>3
    <2>6. t - keys[k] = 0
      BY <2>1
    <2>7. a + ((b - a) * 0) \div d = a
      BY <2>4, <2>5
    <2>8. mix = a
      BY <2>2, <2>4, <2>5, <2>6, <2>7 DEF mix
    <2> QED
      BY <1>6, <1>9, <2>2, <2>4, <2>8
  <1> QED
    BY <1>7, <1>8, <1>9

\* A node an expression is taken on is one of the file's, no bone, and not the one watched.
LEMMA ExpressionNodes ==
    ASSUME NEW file \in Files, NEW n \in NodesOf(Expressions(file))
    PROVE  n \in Nat /\ n # None /\ n \in DOMAIN file.nodes /\ n # LookAtNode(file)
  <1>1. PICK j \in DOMAIN Expressions(file) : n = Expressions(file)[j].node
    BY DEF NodesOf, ToSet
  <1>2. Usual(file, Expressions(file)[j])
    BY <1>1, ExpressionsTaken DEF Taken
  <1>3. n \in DOMAIN file.nodes /\ n \in Nat
    BY <1>1, <1>2, FilesAssumption DEF Usual, Usable
  <1>4. n # None
    BY <1>3, NoneAssumption
  <1>5. n # LookAtNode(file)
    BY <1>4 DEF LookAtNode, IsDriven
  <1> QED
    BY <1>3, <1>4, <1>5

\* The node watched is one of the file's, and nothing else drives it.
LEMMA WatchedNode ==
    ASSUME NEW file \in Files, LookAtNode(file) # None
    PROVE  /\ LookAtNode(file) \in DOMAIN file.nodes
           /\ file.lookAt # None
  BY DEF LookAtNode, Usable

\* The things driven are told apart by what they are of.
LEMMA ThingsDiffer ==
    ASSUME NEW n, NEW b
    PROVE  /\ <<"weight", n>> # Nothing /\ <<"lookAt">> # Nothing
           /\ <<"rotation", b>> # Nothing /\ <<"root">> # Nothing
           /\ <<"weight", n>> = <<"weight", b>> => n = b
           /\ <<"weight", n>> # <<"lookAt">> /\ <<"weight", n>> # <<"root">>
           /\ <<"weight", n>> # <<"rotation", b>> /\ <<"lookAt">> # <<"rotation", b>>
           /\ <<"lookAt">> # <<"root">>
  <1> QED
    BY DEF Nothing

\* An expression is driven by the channels that give its node a position.
LEMMA WeightChannels ==
    ASSUME NEW file \in Files, NEW n \in NodesOf(Expressions(file))
    PROVE  Driving(file, Scanned(file), <<"weight", n>>) = Moving(file, n)
  <1> DEFINE scan == Scanned(file)
  <1>1. n # None /\ n # scan.lookAtNode /\ n \in NodesOf(scan.expressions)
    BY ExpressionNodes DEF Scanned
  <1> HIDE DEF scan
  <1>2. ASSUME NEW c
        PROVE  Drives(scan, c) = <<"weight", n>> <=> c.whole /\ c.node = n /\ c.path = "translation"
    <2>1. ASSUME c.whole, c.node = n, c.path = "translation" PROVE Drives(scan, c) = <<"weight", n>>
      BY <1>1, <2>1 DEF Drives
    <2>2. ASSUME Drives(scan, c) = <<"weight", n>>
          PROVE  c.whole /\ c.node = n /\ c.path = "translation"
      <3>1. c.node # None /\ c.whole
        BY <2>2, ThingsDiffer DEF Drives
      <3>2. c.node # scan.lookAtNode
        BY <2>2, <3>1, ThingsDiffer DEF Drives
      <3>3. c.node \in NodesOf(scan.expressions)
        BY <2>2, <3>1, <3>2, ThingsDiffer DEF Drives
      <3>4. c.path = "translation"
        BY <2>2, <3>1, <3>2, <3>3, ThingsDiffer DEF Drives
      <3>5. <<"weight", c.node>> = <<"weight", n>>
        BY <2>2, <3>1, <3>2, <3>3, <3>4 DEF Drives
      <3> QED
        BY <3>1, <3>4, <3>5, ThingsDiffer
    <2> QED
      BY <2>1, <2>2
  <1> QED
    BY <1>2 DEF Driving, Moving, scan

\* The gaze is driven by the channels that give the node watched a position.
LEMMA GazeChannels ==
    ASSUME NEW file \in Files, NEW n, n = LookAtNode(file), n # None
    PROVE  Driving(file, Scanned(file), <<"lookAt">>) = Moving(file, n)
  <1> DEFINE scan == Scanned(file)
  <1>1. n = scan.lookAtNode
    BY DEF Scanned
  <1> HIDE DEF scan
  <1>2. ASSUME NEW c
        PROVE  Drives(scan, c) = <<"lookAt">> <=> c.whole /\ c.node = n /\ c.path = "translation"
    <2>1. ASSUME c.whole, c.node = n, c.path = "translation" PROVE Drives(scan, c) = <<"lookAt">>
      BY <1>1, <2>1 DEF Drives
    <2>2. ASSUME Drives(scan, c) = <<"lookAt">>
          PROVE  c.whole /\ c.node = n /\ c.path = "translation"
      <3>1. c.node # None /\ c.whole
        BY <2>2, ThingsDiffer DEF Drives
      <3>2. c.node = n
        BY <1>1, <2>2, <3>1, ThingsDiffer DEF Drives
      <3>3. c.path = "translation"
        BY <1>1, <2>2, <3>1, <3>2, ThingsDiffer DEF Drives
      <3> QED
        BY <3>1, <3>2, <3>3
    <2> QED
      BY <2>1, <2>2
  <1> QED
    BY <1>2 DEF Driving, Moving, scan

\* A file nothing is watched in has no channel for the gaze.
LEMMA NoGaze ==
    ASSUME NEW file, LookAtNode(file) = None
    PROVE  Driving(file, Scanned(file), <<"lookAt">>) = {}
  <1> DEFINE scan == Scanned(file)
  <1>1. scan.lookAtNode = None
    BY DEF Scanned
  <1> HIDE DEF scan
  <1>2. ASSUME NEW c PROVE Drives(scan, c) # <<"lookAt">>
    BY <1>1, ThingsDiffer DEF Drives
  <1> QED
    BY <1>2 DEF Driving, scan

\* What is driven has a track, of the last of its channels; what is not has none.
LEMMA TrackOfIt ==
    ASSUME NEW file \in Files, file.channels # None, NEW scan, NEW thing, thing # Nothing
    PROVE  /\ thing \in DOMAIN Tracks(file, scan) <=> Driving(file, scan, thing) # {}
           /\ Driving(file, scan, thing) # {} =>
                 LET last == Max(Driving(file, scan, thing))
                 IN  /\ last \in Driving(file, scan, thing) /\ last \in Accepted(file, scan)
                     /\ Tracks(file, scan)[thing] = file.channels[last].sampler
  <1> DEFINE D == Driving(file, scan, thing)
  <1>1. DOMAIN file.channels = 1 .. Len(file.channels) /\ Len(file.channels) \in Nat
    BY FilesAssumption
  <1>2. D = {i \in DOMAIN file.channels : Drives(scan, file.channels[i]) = thing}
    BY DEF Driving
  <1> HIDE DEF D
  <1>3. \A i \in D : i \in Accepted(file, scan)
    BY <1>2 DEF Accepted, Driving
  <1>4. DOMAIN Tracks(file, scan) = {Drives(scan, file.channels[i]) : i \in Accepted(file, scan)}
    BY DEF Tracks
  <1>5. thing \in DOMAIN Tracks(file, scan) <=> D # {}
    <2>1. \A i \in Accepted(file, scan) : i \in DOMAIN file.channels
      BY DEF Accepted
    <2> QED
      BY <1>2, <1>3, <1>4, <2>1
  <1>6. ASSUME D # {}
        PROVE  /\ Max(D) \in D /\ Max(D) \in Accepted(file, scan)
               /\ Tracks(file, scan)[thing] = file.channels[Max(D)].sampler
    <2>1. D \in SUBSET (1 .. Len(file.channels))
      BY <1>1, <1>2
    <2>2. Max(D) \in D
      BY <1>1, <1>6, <2>1, GreatestMember
    <2>3. Tracks(file, scan)[thing] = file.channels[Max(Driving(file, scan, thing))].sampler
      BY <1>4, <1>5, <1>6 DEF Tracks
    <2> QED
      BY <1>3, <2>2, <2>3 DEF D
  <1> QED
    BY <1>5, <1>6 DEF D

\* An accepted channel is whole: its keys ascend and have their values.
LEMMA AcceptedAreKeyed ==
    ASSUME NEW file \in Files, file.channels # None, NEW scan, NEW i \in Accepted(file, scan)
    PROVE  i \in DOMAIN file.channels /\ Keyed(file.channels[i].sampler)
  <1>1. i \in DOMAIN file.channels /\ Drives(scan, file.channels[i]) # Nothing
    BY DEF Accepted, Driving
  <1>2. file.channels[i].whole
    BY <1>1 DEF Drives
  <1>3. file.channels[i] \in Range(file.channels)
    BY <1>1 DEF Range
  <1> QED
    BY <1>1, <1>2, <1>3, FilesAssumption

\* The keys of all accepted channels are finitely many times.
LEMMA TimeSetIs ==
    ASSUME NEW file \in Files, file.channels # None
    PROVE  TimeSet(file) \in SUBSET Int /\ IsFiniteSet(TimeSet(file))
  <1> DEFINE A == Accepted(file, Scanned(file))
             keys(i) == ToSet(file.channels[i].sampler.input)
             all == {keys(i) : i \in A}
  <1>1. \A i \in A : keys(i) \in SUBSET Int /\ IsFiniteSet(keys(i))
    <2> SUFFICES ASSUME NEW i \in A PROVE keys(i) \in SUBSET Int /\ IsFiniteSet(keys(i))
      OBVIOUS
    <2>1. PICK s \in Seq(Int) : s = file.channels[i].sampler.input
      BY AcceptedAreKeyed DEF Keyed
    <2>2. ToSet(s) = Range(s) /\ Range(s) \in SUBSET Int
      BY DEF ToSet, Range
    <2>3. IsFiniteSet(Range(s))
      BY FinitelyMany
    <2> QED
      BY <2>1, <2>2, <2>3
  <1>2. IsFiniteSet(A)
    <2>1. PICK s \in Seq(Range(file.channels)) : s = file.channels
      BY FilesAssumption
    <2>2. DOMAIN s = 1 .. Len(s) /\ Len(s) \in Nat
      OBVIOUS
    <2>3. IsFiniteSet(DOMAIN s)
      BY <2>2, FS_Interval
    <2>4. A \subseteq DOMAIN s
      BY <2>1 DEF Accepted
    <2> QED
      BY <2>3, <2>4, FS_Subset
  <1> HIDE DEF keys, A
  <1>3. IsFiniteSet(all)
    <2> DEFINE f == [i \in A |-> keys(i)]
    <2>1. f \in Surjection(A, all)
      BY DEF Surjection
    <2> HIDE DEF f
    <2> QED
      BY <1>2, <2>1, FS_Surjection
  <1>4. IsFiniteSet(UNION all)
    <2>1. \A k \in all : IsFiniteSet(k)
      BY <1>1
    <2> HIDE DEF all
    <2> QED
      BY <1>3, <2>1, FS_UNION
  <1>5. UNION all \in SUBSET Int
    BY <1>1
  <1> QED
    BY <1>4, <1>5 DEF TimeSet, keys, A

\* The poses are at the keys of all accepted channels, one at each.
LEMMA PosesAre ==
    ASSUME NEW file \in Files, file.channels # None
    PROVE  LET samples == Document(file).samples
               scan == Scanned(file)
           IN  /\ Times(samples) = TimeSet(file)
               /\ \A t \in TimeSet(file) :
                     SampleAt(samples, t) = Pose(scan, Tracks(file, scan), t)
  <1> DEFINE samples == Document(file).samples
             scan == Scanned(file)
             S == TimeSet(file)
             times == InOrder(S)
             N == 1 .. Cardinality(S)
             pose(t) == Pose(scan, Tracks(file, scan), t)
  <1>1. samples = [i \in DOMAIN times |-> pose(times[i])]
    BY DEF Document
  <1>2. \A t : pose(t).timestamp = t
    BY DEF Pose
  <1>3. S \in SUBSET Int /\ IsFiniteSet(S)
    BY TimeSetIs
  <1> HIDE DEF samples, scan, S, pose
  <1>4. /\ DOMAIN times = N /\ \A i \in N : times[i] \in S
        /\ \A x \in S : \E k \in N : times[k] = x
    BY <1>3, InOrderLists
  <1> HIDE DEF times, N
  <1>5. ToSet(samples) = {pose(t) : t \in S}
    <2>1. ToSet(samples) = {samples[i] : i \in N}
      BY <1>1, <1>4 DEF ToSet
    <2>2. \A i \in N : samples[i] = pose(times[i])
      BY <1>1, <1>4
    <2> QED
      BY <1>4, <2>1, <2>2
  <1>6. Times(samples) = S
    BY <1>2, <1>5 DEF Times
  <1>7. ASSUME NEW t \in S PROVE SampleAt(samples, t) = pose(t)
    <2>1. \A s \in ToSet(samples) : s.timestamp = t => s = pose(t)
      BY <1>2, <1>5
    <2>2. pose(t) \in ToSet(samples) /\ pose(t).timestamp = t
      BY <1>2, <1>5
    <2> QED
      BY <2>1, <2>2 DEF SampleAt
  <1> QED
    BY <1>6, <1>7 DEF samples, scan, S, pose

\* A track made of a node's channels, or of its place, says what the node says.
LEMMA TrackSays ==
    ASSUME NEW file \in Files, file.channels # None,
           NEW n \in DOMAIN file.nodes, NEW placed \in BOOLEAN, NEW transform,
           NEW thing, thing # Nothing, Driving(file, Scanned(file), thing) = Moving(file, n),
           NEW isAnimated, isAnimated = (thing \in DOMAIN Tracks(file, Scanned(file))),
           NEW constant,
           constant = (IF isAnimated \/ ~placed THEN None
                       ELSE At(transform, NodeLocal(file.nodes[n]).move)),
           NEW keyed, DOMAIN keyed = TimeSet(file),
           \A t \in TimeSet(file) :
              LET at == Sample(Tracks(file, Scanned(file))[thing], t)
              IN  isAnimated /\ at \in Int => keyed[t] = At(transform, at)
    PROVE  SaysWhat(Track(constant, isAnimated, keyed), file, n, placed, transform)
  <1> DEFINE scan == Scanned(file)
             D == Moving(file, n)
             s == file.channels[Max(D)].sampler
  <1>1. isAnimated <=> D # {}
    BY TrackOfIt
  <1>2. CASE D = {}
    <2>1. ~isAnimated
      BY <1>1, <1>2
    <2>2. Track(constant, isAnimated, keyed) = [default |-> constant, samples |-> NoMap]
      BY <2>1 DEF Track
    <2>3. constant = IF placed THEN At(transform, NodeLocal(file.nodes[n]).move) ELSE None
      BY <2>1
    <2> QED
      BY <1>2, <2>2, <2>3 DEF SaysWhat
  <1>3. CASE D # {}
    <2>1. isAnimated /\ constant = None
      BY <1>1, <1>3
    <2>2. Track(constant, isAnimated, keyed) = [default |-> None, samples |-> keyed]
      BY <2>1 DEF Track
    <2>3. Max(D) \in Accepted(file, scan) /\ Tracks(file, scan)[thing] = s
      BY <1>3, TrackOfIt
    <2>4. Keyed(s)
      BY <2>3, AcceptedAreKeyed
    <2>5. Range(s.input) \subseteq TimeSet(file)
      BY <2>3 DEF TimeSet, ToSet, Range
    <2>6. TimeSet(file) \subseteq Int
      BY TimeSetIs
    <2> HIDE DEF s, D
    <2>7. ASSUME NEW t \in TimeSet(file), NEW k \in DOMAIN s.input, Nearest(s, t, k)
          PROVE  keyed[t] = At(transform, ReadKey(s, k))
      <3>1. Sample(s, t) = ReadKey(s, k) /\ Sample(s, t) \in Int
        BY <2>4, <2>6, <2>7, NearestKeyIsRead, KeyIsRead
      <3> QED
        BY <2>1, <2>3, <3>1 DEF scan
    <2>8. ASSUME NEW t \in TimeSet(file), NEW k \in DOMAIN s.input,
                 \/ t = s.input[k]
                 \/ k = 1 /\ t < s.input[k]
                 \/ k = Len(s.input) /\ t > s.input[k]
          PROVE  keyed[t] =
                     At(transform, s.output[IF s.interpolation = "cubic" THEN 3 * k - 1 ELSE k])
      <3>1. Nearest(s, t, k)
        BY <2>8 DEF Nearest
      <3>2. ReadKey(s, k) = s.output[IF s.interpolation = "cubic" THEN 3 * k - 1 ELSE k]
        BY DEF ReadKey
      <3> QED
        BY <2>7, <3>1, <3>2
    <2> QED
      BY <1>3, <2>2, <2>5, <2>8 DEF SaysWhat, D, s
  <1> QED
    BY <1>2, <1>3

\* A node is placed at a number.
LEMMA PlacedAtANumber ==
    ASSUME NEW file \in Files, NEW n \in DOMAIN file.nodes
    PROVE  NodeLocal(file.nodes[n]).move \in Int
  <1>1. CASE file.nodes[n].matrix = None
    <2>1. NodeLocal(file.nodes[n]).move = Or(file.nodes[n].translation, 0)
      BY <1>1 DEF NodeLocal, Or
    <2>2. file.nodes[n].translation = None \/ file.nodes[n].translation \in Int
      BY FilesAssumption
    <2> QED
      BY <2>1, <2>2 DEF Or
  <1>2. CASE file.nodes[n].matrix # None
    <2>1. NodeLocal(file.nodes[n]) = file.nodes[n].matrix
      BY <1>2 DEF NodeLocal, Or
    <2> QED
      BY <1>2, <2>1, FilesAssumption
  <1> QED
    BY <1>1, <1>2

LEMMA IdentityKeeps ==
    ASSUME NEW x \in Int
    PROVE  At(Identity, x) = x
  BY DEF At, Identity

\* An expression's weight is what its node says.
LEMMA WeightSays ==
    ASSUME NEW file \in Files, file.channels # None, NEW j \in DOMAIN Expressions(file)
    PROVE  LET d == Document(file)
               e == Expressions(file)[j]
           IN  SaysWhat(ExpressionPrim(d.expressions[j], d.samples).weight, file, e.node,
                        States(file.nodes[e.node]), Identity)
  <1> DEFINE d == Document(file)
             e == Expressions(file)[j]
             scan == Scanned(file)
             tracks == Tracks(file, scan)
             thing == <<"weight", e.node>>
             isAnimated == thing \in DOMAIN tracks
             constant == ConstantWeight(scan, tracks, e)
             keyed == [t \in Times(d.samples) |-> SampleAt(d.samples, t).channels[e.name]]
  <1>1. d.expressions[j] =
            [name |-> e.name, type |-> e.type, constantWeight |-> constant,
             isAnimated |-> isAnimated]
    BY DEF Document, Scanned
  <1>2. ExpressionPrim(d.expressions[j], d.samples).weight = Track(constant, isAnimated, keyed)
    BY <1>1 DEF ExpressionPrim
  <1>3. e.node \in NodesOf(Expressions(file)) /\ e.name \in NamesOf(Expressions(file))
    BY DEF NodesOf, NamesOf, ToSet
  <1>4. e.node \in DOMAIN file.nodes /\ Driving(file, scan, thing) = Moving(file, e.node)
    BY <1>3, ExpressionNodes, WeightChannels
  <1>5. Times(d.samples) = TimeSet(file)
        /\ \A t \in TimeSet(file) : SampleAt(d.samples, t) = Pose(scan, tracks, t)
    BY PosesAre
  <1>6. (CHOOSE x \in ToSet(Expressions(file)) : x.name = e.name) = e
    <2>1. \A i \in DOMAIN Expressions(file) : Expressions(file)[i].name = e.name => i = j
      BY ExpressionsTaken DEF Taken, Rivals
    <2>2. e \in ToSet(Expressions(file))
      BY DEF ToSet
    <2>3. \A x \in ToSet(Expressions(file)) : x.name = e.name => x = e
      BY <2>1 DEF ToSet
    <2> QED
      BY <2>2, <2>3
  <1>7. ASSUME NEW t
        PROVE  Pose(scan, tracks, t).channels[e.name] =
                   IF isAnimated THEN Sample(tracks[thing], t) ELSE constant
    <2>1. scan.expressions = Expressions(file)
      BY DEF Scanned
    <2> HIDE DEF scan, tracks
    <2>2. Pose(scan, tracks, t).channels =
              [name \in NamesOf(Expressions(file)) |->
                  LET x == CHOOSE x \in ToSet(Expressions(file)) : x.name = name
                  IN  IF <<"weight", x.node>> \in DOMAIN tracks
                      THEN Sample(tracks[<<"weight", x.node>>], t)
                      ELSE ConstantWeight(scan, tracks, x)]
      BY <2>1 DEF Pose
    <2> HIDE DEF e
    <2> QED
      BY <1>3, <1>6, <2>2
  <1>8. constant = IF isAnimated \/ ~States(file.nodes[e.node]) THEN None
                   ELSE At(Identity, NodeLocal(file.nodes[e.node]).move)
    <2>1. At(Identity, NodeLocal(file.nodes[e.node]).move) = NodeLocal(file.nodes[e.node]).move
      BY <1>4, PlacedAtANumber, IdentityKeeps
    <2>2. scan.nodes = file.nodes
      BY DEF Scanned
    <2> HIDE DEF scan, tracks, e
    <2> QED
      BY <2>1, <2>2 DEF ConstantWeight
  <1>9. DOMAIN keyed = TimeSet(file)
    BY <1>5
  <1>10. ASSUME NEW t \in TimeSet(file), isAnimated, Sample(tracks[thing], t) \in Int
         PROVE  keyed[t] = At(Identity, Sample(tracks[thing], t))
    <2>1. keyed[t] = Pose(scan, tracks, t).channels[e.name]
      BY <1>5
    <2> QED
      BY <1>7, <1>10, <2>1, IdentityKeeps
  <1>11. States(file.nodes[e.node]) \in BOOLEAN /\ thing # Nothing
    BY ThingsDiffer DEF States
  <1> HIDE DEF keyed, constant, isAnimated, thing, e
  <1>12. SaysWhat(Track(constant, isAnimated, keyed), file, e.node,
                  States(file.nodes[e.node]), Identity)
    <2>1. PICK n \in DOMAIN file.nodes : n = e.node
      BY <1>4
    <2>2. isAnimated = (thing \in DOMAIN Tracks(file, Scanned(file)))
      BY DEF isAnimated
    <2> QED
      BY <1>4, <1>8, <1>9, <1>10, <1>11, <2>1, <2>2, TrackSays
  <1> QED
    BY <1>2, <1>12 DEF e

\* The node watched is where the layer's target says.
LEMMA GazeSays ==
    ASSUME NEW file \in Files, file.channels # None, LookAtNode(file) # None
    PROVE  LET n == LookAtNode(file)
           IN  SaysWhat(LookAtPrim(Document(file)).target, file, n,
                        StatesPlacement(file.nodes, n), AncestorTransform(file.nodes, n))
  <1> DEFINE d == Document(file)
             n == LookAtNode(file)
             scan == Scanned(file)
             tracks == Tracks(file, scan)
             thing == <<"lookAt">>
             isAnimated == thing \in DOMAIN tracks
             constant == ConstantTarget(scan, tracks)
             transform == AncestorTransform(file.nodes, n)
             keyed == [t \in Times(d.samples) |-> SampleAt(d.samples, t).lookAtTarget]
  <1>1. /\ d.lookAt.present /\ d.lookAt.constantTarget = constant
        /\ d.lookAt.isAnimated = isAnimated
    BY WatchedNode DEF Document
  <1>2. LookAtPrim(d).target = Track(constant, isAnimated, keyed)
    <2> HIDE DEF d, constant, isAnimated
    <2> QED
      BY <1>1 DEF LookAtPrim
  <1>3. n \in DOMAIN file.nodes /\ Driving(file, scan, thing) = Moving(file, n)
    BY WatchedNode, GazeChannels
  <1>4. Times(d.samples) = TimeSet(file)
        /\ \A t \in TimeSet(file) : SampleAt(d.samples, t) = Pose(scan, tracks, t)
    BY PosesAre
  <1>5. scan.nodes = file.nodes /\ scan.lookAtNode = n
    BY DEF Scanned
  <1>6. constant = IF isAnimated \/ ~StatesPlacement(file.nodes, n) THEN None
                   ELSE At(transform, NodeLocal(file.nodes[n]).move)
    <2> HIDE DEF scan, tracks, n
    <2> QED
      BY <1>5 DEF ConstantTarget, n
  <1>7. ASSUME NEW t, isAnimated
        PROVE  Pose(scan, tracks, t).lookAtTarget = At(transform, Sample(tracks[thing], t))
    <2> HIDE DEF scan, tracks, n
    <2> QED
      BY <1>5, <1>7 DEF Pose
  <1>8. DOMAIN keyed = TimeSet(file)
    BY <1>4
  <1>9. ASSUME NEW t \in TimeSet(file), isAnimated
        PROVE  keyed[t] = At(transform, Sample(tracks[thing], t))
    <2>1. keyed[t] = Pose(scan, tracks, t).lookAtTarget
      BY <1>4
    <2> QED
      BY <1>7, <1>9, <2>1
  <1>10. StatesPlacement(file.nodes, n) \in BOOLEAN /\ thing # Nothing
    BY ThingsDiffer DEF StatesPlacement
  <1> HIDE DEF keyed, constant, isAnimated, thing, transform, n
  <1>11. SaysWhat(Track(constant, isAnimated, keyed), file, n,
                  StatesPlacement(file.nodes, n), transform)
    <2>1. isAnimated = (thing \in DOMAIN Tracks(file, Scanned(file)))
      BY DEF isAnimated
    <2> QED
      BY <1>3, <1>6, <1>8, <1>9, <1>10, <2>1, TrackSays
  <1> QED
    BY <1>2, <1>11 DEF n, transform

\* A gaze the file does not place is authored nowhere.
LEMMA NoGazeNoTarget ==
    ASSUME NEW file \in Files, file.channels # None, file.lookAt # None, LookAtNode(file) = None
    PROVE  LookAtPrim(Document(file)).target = [default |-> None, samples |-> NoMap]
  <1> DEFINE scan == Scanned(file)
             tracks == Tracks(file, scan)
             isAnimated == <<"lookAt">> \in DOMAIN tracks
  <1>1. ~isAnimated
    BY NoGaze, TrackOfIt, ThingsDiffer
  <1>2. ConstantTarget(scan, tracks) = None
    BY DEF ConstantTarget, Scanned
  <1>3. /\ Document(file).lookAt.present /\ Document(file).lookAt.constantTarget = None
        /\ Document(file).lookAt.isAnimated = isAnimated
    BY <1>2 DEF Document
  <1> HIDE DEF isAnimated
  <1> QED
    BY <1>1, <1>3 DEF LookAtPrim, Track

\* Every expression's prim has a name of its own.
LEMMA PrimNamesDiffer ==
    ASSUME NEW file \in Files
    PROVE  LET names == PrimNames(Document(file).expressions)
           IN  /\ DOMAIN names = DOMAIN Expressions(file) /\ NoneTwice(names)
               /\ DOMAIN names = 1 .. Len(Expressions(file)) /\ Len(Expressions(file)) \in Nat
  <1> DEFINE P == (UNION {Range(Identifier[e.name]) : e \in Declared(file)})
                      \cup {Numeral(k) : k \in Nat}
             exprs == Document(file).expressions
             bases == [i \in DOMAIN exprs |-> Identifier[exprs[i].name]]
  <1>1. PICK taken \in Seq(Declared(file)) : taken = Expressions(file)
    BY ExpressionsTaken DEF Taken
  <1>2. DOMAIN exprs = DOMAIN taken /\ \A i \in DOMAIN taken : exprs[i].name = taken[i].name
    BY <1>1 DEF Document, Scanned
  <1> HIDE DEF exprs
  <1>3. DOMAIN taken = 1 .. Len(taken) /\ Len(taken) \in Nat
        /\ \A i \in 1 .. Len(taken) : taken[i] \in Declared(file)
    OBVIOUS
  <1>4. HasNumerals(P)
    BY DEF HasNumerals
  <1>5. ASSUME NEW e \in Declared(file) PROVE Identifier[e.name] \in Seq(P)
    <2>1. Identifier[e.name] \in Seq(Range(Identifier[e.name]))
      BY DeclarationsAre
    <2>2. Range(Identifier[e.name]) \subseteq P
      OBVIOUS
    <2> HIDE DEF P
    <2> QED
      BY <2>1, <2>2
  <1>6. bases \in Seq(Seq(P)) /\ DOMAIN bases = DOMAIN taken
    <2>1. \A i \in 1 .. Len(taken) : bases[i] \in Seq(P)
      BY <1>2, <1>3, <1>5
    <2>2. DOMAIN bases = 1 .. Len(taken)
      BY <1>2, <1>3
    <2> HIDE DEF P
    <2>3. bases = [i \in 1 .. Len(taken) |-> bases[i]]
      BY <2>2
    <2> HIDE DEF bases
    <2> QED
      BY <1>3, <2>1, <2>2, <2>3
  <1>7. PrimNames(exprs) = AllDifferent(bases)
    BY DEF PrimNames
  <1> HIDE DEF bases, P
  <1>8. PICK b \in Seq(Seq(P)) : b = bases
    BY <1>6
  <1>9. DOMAIN AllDifferent(b) = DOMAIN b /\ NoneTwice(AllDifferent(b))
    BY <1>4, DifferentNames
  <1> QED
    BY <1>1, <1>3, <1>6, <1>7, <1>8, <1>9 DEF exprs

\* So each expression's prim is its own.
LEMMA PrimsAre ==
    ASSUME NEW file \in Files
    PROVE  LET d == Document(file)
               names == PrimNames(d.expressions)
           IN  /\ DOMAIN ExpressionPrims(d) = Range(names)
               /\ \A j \in DOMAIN names :
                     ExpressionPrims(d)[names[j]] = ExpressionPrim(d.expressions[j], d.samples)
  <1> DEFINE d == Document(file)
             names == PrimNames(d.expressions)
             n == Len(Expressions(file))
  <1>1. DOMAIN names = 1 .. n /\ n \in Nat /\ NoneTwice(names)
    BY PrimNamesDiffer
  <1>2. ExpressionPrims(d) =
            [name \in Range(names) |->
                ExpressionPrim(d.expressions[Max({i \in DOMAIN names : names[i] = name})],
                               d.samples)]
    BY DEF ExpressionPrims
  <1> HIDE DEF d, names, n
  <1>3. ASSUME NEW j \in DOMAIN names
        PROVE  ExpressionPrims(d)[names[j]] = ExpressionPrim(d.expressions[j], d.samples)
    <2> DEFINE S == {i \in DOMAIN names : names[i] = names[j]}
    <2>1. S = {j} /\ S \in SUBSET (1 .. n)
      BY <1>1 DEF NoneTwice
    <2> HIDE DEF S
    <2>2. Max(S) = j
      BY <1>1, <2>1, GreatestMember
    <2>3. names[j] \in Range(names)
      BY DEF Range
    <2>4. ExpressionPrims(d)[names[j]] = ExpressionPrim(d.expressions[Max(S)], d.samples)
      BY <1>2, <2>3 DEF S
    <2> QED
      BY <2>2, <2>4
  <1> QED
    BY <1>2, <1>3 DEF d, names

\* The layer of a file that is not refused says what the file says.
LEMMA LayerSays ==
    ASSUME LoadInv, pc = "import"
    PROVE  ClipSaysWhatTheFileSays
  <1> DEFINE d == Document(bytes)
             prims == usda.expressions
             all == Declarations(bytes)
             taken == Expressions(bytes)
             names == PrimNames(d.expressions)
             watched == LookAtNode(bytes)
  <1>1. /\ bytes \in Files /\ Refusal(bytes) = ""
        /\ usda = WriteToString(d) /\ usda # None
    BY DEF LoadInv
  <1>2. bytes.channels # None
    BY <1>1 DEF Refusal
  <1>3. /\ usda.expressions = ExpressionPrims(d) /\ usda.lookAt = LookAtPrim(d)
        /\ usda.joints = d.joints /\ usda.body = Body(d)
    <2> HIDE DEF d
    <2> QED
      BY <1>1 DEF WriteToString
  <1>4. /\ DOMAIN names = DOMAIN taken /\ NoneTwice(names) /\ DOMAIN prims = Range(names)
        /\ \A j \in DOMAIN taken : prims[names[j]] = ExpressionPrim(d.expressions[j], d.samples)
    BY <1>1, <1>3, PrimNamesDiffer, PrimsAre
  <1>5. \A j \in DOMAIN taken :
            /\ prims[names[j]].name = taken[j].name /\ prims[names[j]].type = taken[j].type
            /\ Usual(bytes, taken[j])
            /\ SaysWhat(prims[names[j]].weight, bytes, taken[j].node,
                        States(bytes.nodes[taken[j].node]), Identity)
    <2> SUFFICES ASSUME NEW j \in DOMAIN taken
                 PROVE  /\ prims[names[j]].name = taken[j].name
                        /\ prims[names[j]].type = taken[j].type
                        /\ Usual(bytes, taken[j])
                        /\ SaysWhat(prims[names[j]].weight, bytes, taken[j].node,
                                    States(bytes.nodes[taken[j].node]), Identity)
      OBVIOUS
    <2>1. d.expressions[j].name = taken[j].name /\ d.expressions[j].type = taken[j].type
      BY DEF Document, Scanned
    <2>2. Usual(bytes, taken[j])
      BY <1>1, ExpressionsTaken DEF Taken
    <2>3. SaysWhat(ExpressionPrim(d.expressions[j], d.samples).weight, bytes, taken[j].node,
                   States(bytes.nodes[taken[j].node]), Identity)
      BY <1>1, <1>2, WeightSays
    <2> HIDE DEF prims, names, d, taken
    <2>4. prims[names[j]] = ExpressionPrim(d.expressions[j], d.samples)
      BY <1>4
    <2> QED
      BY <2>1, <2>2, <2>3, <2>4 DEF ExpressionPrim
  <1>6. PICK placed \in [DOMAIN taken -> DOMAIN all] :
            /\ \A j \in DOMAIN taken : taken[j] = all[placed[j]]
            /\ \A i \in DOMAIN all :
                  Usual(bytes, all[i]) =>
                      \E j \in DOMAIN taken : placed[j] <= i /\ Rivals(all[placed[j]], all[i])
    BY <1>1, ExpressionsPlaced
  <1>7. \A j, k \in DOMAIN taken : j # k => ~Rivals(taken[j], taken[k])
    BY <1>1, ExpressionsTaken DEF Taken
  <1> HIDE DEF prims, all, taken, names, watched
  <1>8. \E place \in [DOMAIN prims -> DOMAIN all] :
            /\ \A p \in DOMAIN prims :
                  LET e == all[place[p]]
                  IN  /\ prims[p].name = e.name /\ prims[p].type = e.type /\ Usual(bytes, e)
                      /\ SaysWhat(prims[p].weight, bytes, e.node,
                                  States(bytes.nodes[e.node]), Identity)
            /\ \A p, q \in DOMAIN prims : p # q => ~Rivals(all[place[p]], all[place[q]])
            /\ \A i \in DOMAIN all :
                  Usual(bytes, all[i]) =>
                      \E p \in DOMAIN prims : place[p] <= i /\ Rivals(all[place[p]], all[i])
    <2> DEFINE of(p) == CHOOSE j \in DOMAIN taken : names[j] = p
               place == [p \in DOMAIN prims |-> placed[of(p)]]
    <2>1. \A p \in DOMAIN prims : of(p) \in DOMAIN taken /\ names[of(p)] = p
      BY <1>4 DEF Range
    <2>2. \A j \in DOMAIN taken : names[j] \in DOMAIN prims /\ of(names[j]) = j
      <3> SUFFICES ASSUME NEW j \in DOMAIN taken PROVE names[j] \in DOMAIN prims /\ of(names[j]) = j
        OBVIOUS
      <3>1. names[j] \in DOMAIN prims
        BY <1>4 DEF Range
      <3>2. of(names[j]) \in DOMAIN taken /\ names[of(names[j])] = names[j]
        BY <2>1, <3>1
      <3> HIDE DEF of
      <3> QED
        BY <1>4, <3>1, <3>2 DEF NoneTwice
    <2> HIDE DEF of
    <2>3. place \in [DOMAIN prims -> DOMAIN all] /\ \A p \in DOMAIN prims : place[p] = placed[of(p)]
      BY <1>6, <2>1
    <2> HIDE DEF place
    <2>4. \A p \in DOMAIN prims : all[place[p]] = taken[of(p)]
      BY <1>6, <2>1, <2>3
    <2>5. ASSUME NEW p \in DOMAIN prims
          PROVE  LET e == all[place[p]]
                 IN  /\ prims[p].name = e.name /\ prims[p].type = e.type /\ Usual(bytes, e)
                     /\ SaysWhat(prims[p].weight, bytes, e.node,
                                 States(bytes.nodes[e.node]), Identity)
      <3>1. PICK j \in DOMAIN taken : j = of(p) /\ names[j] = p /\ all[place[p]] = taken[j]
        BY <2>1, <2>4
      <3> QED
        BY <1>5, <3>1
    <2>6. ASSUME NEW p \in DOMAIN prims, NEW q \in DOMAIN prims, p # q
          PROVE  ~Rivals(all[place[p]], all[place[q]])
      <3>1. of(p) # of(q)
        BY <2>1, <2>6
      <3> QED
        BY <1>7, <2>1, <2>4, <3>1
    <2>7. ASSUME NEW i \in DOMAIN all, Usual(bytes, all[i])
          PROVE  \E p \in DOMAIN prims : place[p] <= i /\ Rivals(all[place[p]], all[i])
      <3>1. PICK j \in DOMAIN taken : placed[j] <= i /\ Rivals(all[placed[j]], all[i])
        BY <1>6, <2>7
      <3>2. names[j] \in DOMAIN prims /\ place[names[j]] = placed[j]
        BY <2>2, <2>3
      <3> QED
        BY <3>1, <3>2
    <2> QED
      BY <2>3, <2>5, <2>6, <2>7
  <1>9. ASSUME watched # None
        PROVE  SaysWhat(usda.lookAt.target, bytes, watched,
                        \E k \in {watched} \cup ToSet(Ancestors(bytes.nodes, watched)) :
                            States(bytes.nodes[k]),
                        AncestorTransform(bytes.nodes, watched))
    BY <1>1, <1>2, <1>3, <1>9, GazeSays DEF watched, StatesPlacement
  <1>10. bytes.lookAt # None /\ watched = None =>
             usda.lookAt.target = [default |-> None, samples |-> NoMap]
    BY <1>1, <1>2, <1>3, NoGazeNoTarget DEF watched
  <1>11. \A i \in DOMAIN usda.body, k \in DOMAIN usda.joints :
             usda.joints[k].bone # "hips" =>
                 usda.body[i].translations[k] = usda.joints[k].rest.move
    <2> HIDE DEF d
    <2> SUFFICES ASSUME NEW i \in DOMAIN usda.body, NEW k \in DOMAIN usda.joints,
                        usda.joints[k].bone # "hips"
                 PROVE  usda.body[i].translations[k] = usda.joints[k].rest.move
      OBVIOUS
    <2>1. i \in DOMAIN d.samples /\ k \in DOMAIN d.joints /\ d.joints[k].bone # "hips"
      BY <1>3 DEF Body
    <2>2. Body(d)[i].translations =
              [j \in DOMAIN d.joints |->
                  IF d.joints[j].bone = "hips" /\ d.samples[i].root # None THEN d.samples[i].root
                  ELSE d.joints[j].rest.move]
      BY <2>1 DEF Body
    <2>3. Body(d)[i].translations[k] = d.joints[k].rest.move
      BY <2>1, <2>2
    <2> QED
      BY <1>3, <2>3
  <1> QED
    BY <1>8, <1>9, <1>10, <1>11 DEF ClipSaysWhatTheFileSays, prims, all, watched

(***************************************************************************)
(* The layer's face and gaze are the file's, at every import: no           *)
(* expression is lost to another's name or node but to one declared before *)
(* it, none is written over another's prim, and every track, though        *)
(* sampled at the keys of all, holds its own node's values at its own keys *)
(* and nothing where the file says nothing.                                *)
(***************************************************************************)
THEOREM ClipAlwaysSaysWhatTheFileSays == Spec => []ClipSaysWhatTheFileSays
  <1>1. LoadInv => ClipSaysWhatTheFileSays
    BY LayerSays DEF ClipSaysWhatTheFileSays
  <1> QED
    BY <1>1, LoadIsOfOneVersion, PTL
=============================================================================
