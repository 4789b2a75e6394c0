------------------------- MODULE ExpressionResolver -------------------------
(***************************************************************************)
(* vrmRig's ExpressionResolver: the weights a sample reports for an        *)
(* avatar's expressions, arbitrated by the avatar's overrides and expanded *)
(* onto its morph targets and material colours.  A weight is an integer of *)
(* Unit parts, or NaN, which is no integer; a sample is the sequence of    *)
(* [name, value] in the order the producer reported them.                  *)
(***************************************************************************)
EXTENDS Places, SequencesExt

CONSTANTS Unit, NaN

Categories == {"blink", "lookAt", "mouth"}

Modes == {"none", "block", "blend"}

CategoryOf(name) ==
    CASE name \in {"blink", "blinkLeft", "blinkRight"} -> "blink"
      [] name \in {"lookUp", "lookDown", "lookLeft", "lookRight"} -> "lookAt"
      [] name \in {"aa", "ih", "ou", "ee", "oh"} -> "mouth"
      [] OTHER -> "none"

ParseOverride(token) == [mode |-> IF token \in Modes THEN token ELSE "none",
                         recognized |-> token \in Modes \cup {""}]

IsOutsideUnitRange(weight) == weight = NaN \/ ~(0 <= weight /\ weight <= Unit)

ClampUnit(weight) ==
    IF weight = NaN \/ weight < 0 THEN 0 ELSE IF weight > Unit THEN Unit ELSE weight

\* Arithmetic on weights: a NaN stays one.
Times(a, b) == IF NaN \in {a, b} THEN NaN ELSE (a * b) \div Unit

Plus(a, b) == IF NaN \in {a, b} THEN NaN ELSE a + b

\* How far a mode at a weight suppresses its category: always within [0, Unit].
OverrideRate(mode, weight) ==
    IF mode = "none" \/ weight = NaN \/ weight <= 0 THEN 0
    ELSE IF mode = "block" THEN Unit ELSE ClampUnit(weight)

\* An entry written, the others as they were.
Put(map, key, value) == [k \in DOMAIN map \cup {key} |-> IF k = key THEN value ELSE map[k]]

Add(rig, name, definition) ==
    IF name = "" \/ name \in DOMAIN rig THEN rig ELSE Put(rig, name, definition)

Rounded(definition, weight, options) ==
    IF ~definition.isBinary THEN weight
    ELSE IF weight # NaN /\ weight >= options.binaryThreshold THEN Unit ELSE 0

OwnWeight(definition, reported, options) ==
    Rounded(definition, IF options.clampWeights THEN ClampUnit(reported) ELSE reported, options)

\* What each reported name the rig declares resolved to on its own.
Contributions(rig, sample, options) ==
    LET known == Entries(sample, {i \in DOMAIN sample : sample[i].name \in DOMAIN rig})
    IN  [i \in DOMAIN known |->
            [name |-> known[i].name, definition |-> rig[known[i].name],
             weight |-> OwnWeight(rig[known[i].name], known[i].value, options)]]

\* The categories before any contribution.
Unclaimed == [category \in Categories |-> [rate |-> 0, source |-> ""]]

\* A mutant: an expression suppressed by one before it overrides by what is left of it.
CascadingOverrides(contributions) ==
    FoldLeft(LAMBDA winners, c :
                 LET own == CategoryOf(c.name)
                     left == IF own = "none" THEN c.weight
                             ELSE Times(c.weight, Unit - winners[own].rate)
                 IN  [category \in Categories |->
                         LET rate == OverrideRate(c.definition.override[category], left)
                         IN  IF rate > winners[category].rate
                             THEN [rate |-> rate, source |-> c.name] ELSE winners[category]],
             Unclaimed, contributions)

\* A contribution wins the categories it asks for more of than any before it.
Challenge(winners, c) ==
    [category \in Categories |->
        LET rate == OverrideRate(c.definition.override[category], c.weight)
        IN  IF rate > winners[category].rate THEN [rate |-> rate, source |-> c.name]
            ELSE winners[category]]

\* The category overrides: the largest rate asked for, by the first that asked for it.
Overrides(contributions) == FoldLeft(Challenge, Unclaimed, contributions)

Suppresses(overrides, name) ==
    CategoryOf(name) \in Categories /\ overrides[CategoryOf(name)].rate > 0

Arbitrated(c, overrides, options) ==
    IF Suppresses(overrides, c.name)
    THEN Rounded(c.definition,
                 Times(c.weight, Unit - overrides[CategoryOf(c.name)].rate), options)
    ELSE c.weight

\* A bind without a key is skipped; every other touches its entry, at weight 0 too.
AddMorphs(totals, binds, weight) ==
    FoldLeft(LAMBDA all, b :
                 IF b.target = "" THEN all
                 ELSE Put(all, b.target, Plus(IF b.target \in DOMAIN all THEN all[b.target] ELSE 0,
                                              Times(weight, b.weight))),
             totals, binds)

AddColors(totals, binds, weight) ==
    FoldLeft(LAMBDA all, b :
                 LET key == <<b.material, b.colorType>>
                     old == IF key \in DOMAIN all THEN all[key]
                            ELSE [totalWeight |-> 0, weightedTarget |-> 0]
                 IN  IF "" \in {b.material, b.colorType} THEN all
                     ELSE Put(all, key,
                              [totalWeight |-> Plus(old.totalWeight, weight),
                               weightedTarget |-> Plus(old.weightedTarget,
                                                       Times(b.targetValue, weight))]),
             totals, binds)

Apply(color, base) == Plus(Times(base, Unit - color.totalWeight), color.weightedTarget)

NoEntries == [key \in {} |-> 0]

\* The names and warnings one sample adds to the diagnostics of a whole clip.
ResolveDiagnostics(rig, sample, contributions, overrides, result, options) ==
    [unresolved |-> {c.name : c \in ToSet(sample)} \ DOMAIN rig,
     clamped |-> IF ~options.clampWeights THEN {}
                 ELSE {c.name : c \in {d \in ToSet(sample) :
                                           d.name \in DOMAIN rig /\ IsOutsideUnitRange(d.value)}},
     suppressed |-> {<<c.name, overrides[CategoryOf(c.name)].source>> :
                        c \in {d \in ToSet(contributions) :
                                  d.weight # Arbitrated(d, overrides, options)}},
     warnings |->
         {<<"suppresses itself", c.name>> :
             c \in {d \in ToSet(contributions) :
                       /\ Suppresses(overrides, d.name)
                       /\ d.definition.override[CategoryOf(d.name)] # "none"
                       /\ d.weight # NaN /\ d.weight > 0}} \cup
         {<<"not finite", c.name>> :
             c \in {d \in ToSet(sample) :
                       ~options.clampWeights /\ d.name \in DOMAIN rig /\ d.value = NaN}} \cup
         {<<"outside", t>> : t \in {u \in DOMAIN result.morphTargets :
                                       IsOutsideUnitRange(result.morphTargets[u])}} \cup
         {<<"outside", k>> : k \in {l \in DOMAIN result.materialColors :
                                       IsOutsideUnitRange(result.materialColors[l].totalWeight)}} \cup
         {<<"unkeyed bind", c.name>> :
             c \in {d \in ToSet(contributions) :
                       \/ \E b \in ToSet(d.definition.morphTargets) : b.target = ""
                       \/ \E b \in ToSet(d.definition.materialColors) :
                              "" \in {b.material, b.colorType}}}]

\* One sample: the contributions, the categories, then the binds, in that order.
Resolve(rig, sample, options) ==
    LET contributions == Contributions(rig, sample, options)
        overrides == Overrides(contributions)
        result ==
            [morphTargets |->
                 FoldLeft(LAMBDA all, c : AddMorphs(all, c.definition.morphTargets,
                                                    Arbitrated(c, overrides, options)),
                          NoEntries, contributions),
             materialColors |->
                 FoldLeft(LAMBDA all, c : AddColors(all, c.definition.materialColors,
                                                    Arbitrated(c, overrides, options)),
                          NoEntries, contributions)]
    IN  [resolved |-> result,
         diagnostics |->
             ResolveDiagnostics(rig, sample, contributions, overrides, result, options)]
=============================================================================
