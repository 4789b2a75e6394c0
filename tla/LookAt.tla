------------------------------- MODULE LookAt -------------------------------
(***************************************************************************)
(* vrmRig's LookAtEvaluator: where the eyes of an avatar point for the     *)
(* target a clip names.  A point is [x, y, z] of integers, a head          *)
(* [position, turned] with turned 1 or -1 for a half turn about +Y; angles *)
(* are degrees in steps of 45 (atan2 to the nearest octant), and a curve's *)
(* times and values are integers of Unit parts.                            *)
(***************************************************************************)
EXTENDS Integers, SequencesExt

CONSTANTS Unit

\* What no value is written as: no target, no offset, no gaze.
CONSTANT None

Axes == {"x", "y", "z"}

Point(x, y, z) == [axis \in Axes |-> CASE axis = "x" -> x [] axis = "y" -> y [] OTHER -> z]

Magnitude(n) == IF n < 0 THEN -n ELSE n

\* The angle of a point against its forward axis, by the octant it falls into.
Atan2(a, b) ==
    LET sign == IF a < 0 THEN -1 ELSE 1
    IN  IF a = 0 THEN IF b < 0 THEN 180 ELSE 0
        ELSE IF b = 0 THEN 90 * sign
        ELSE IF 2 * Magnitude(a) < Magnitude(b) THEN IF b < 0 THEN 180 * sign ELSE 0
        ELSE IF Magnitude(a) > 2 * Magnitude(b) THEN 90 * sign
        ELSE (IF b < 0 THEN 135 ELSE 45) * sign

\* The cubic Hermite through the keys at t; an empty curve is the linear map.
EvaluateCurve(keys, t) ==
    IF keys = << >> THEN t
    ELSE IF t <= keys[1].time \/ Len(keys) = 1 THEN keys[1].value
    ELSE IF t >= Last(keys).time THEN Last(keys).value
    ELSE LET i == Max({j \in 1 .. Len(keys) - 1 : j = 1 \/ keys[j].time <= t})
             a == keys[i]
             b == keys[i + 1]
             s == b.time - a.time
             n == t - a.time
             nn == n * n
             ss == s * s
         IN  IF s <= 0 THEN b.value
             ELSE ((2 * n * nn - 3 * nn * s + s * ss) * a.value
                   + (n * nn - 2 * nn * s + n * ss) * s * a.outTangent
                   + (3 * nn * s - 2 * n * nn) * b.value
                   + (n * nn - nn * s) * s * b.inTangent) \div (s * ss)

\* A range map: the angle, clamped to the input range, through the curve.
Map(map, degrees) ==
    IF map.inputMaxValue <= 0 THEN 0
    ELSE LET input == Min({Max({degrees, 0}), map.inputMaxValue})
         IN  (EvaluateCurve(map.curve, (input * Unit) \div map.inputMaxValue) * map.outputScale)
                 \div Unit

Linear == [inputMaxValue |-> 90, outputScale |-> 10, curve |-> << >>]

MapNames == {"horizontalInner", "horizontalOuter", "verticalDown", "verticalUp"}

DefaultRig == [maps |-> [m \in MapNames |-> Linear], offset |-> None, type |-> "bone",
               leftEye |-> "", rightEye |-> ""]

\* One stated map over the rig's own: an absent number keeps the value that was there,
\* and a curve that is not whole four-number keys is read as the linear one.
ReadRangeMap(old, stated, curve) ==
    [inputMaxValue |-> IF stated.inputMaxValue = None THEN old.inputMaxValue
                       ELSE stated.inputMaxValue,
     outputScale |-> IF stated.outputScale = None THEN old.outputScale ELSE stated.outputScale,
     curve |-> curve]

ReadRangeMap1(old, stated) == ReadRangeMap(old, stated, << >>)

ReadRangeMap0(old, stated) ==
    ReadRangeMap(old, stated, IF stated.whole THEN stated.curve ELSE << >>)

RangeMapWarnings(maps, stated) ==
    {<<"not positive", m>> : m \in {n \in DOMAIN stated : maps[n].inputMaxValue <= 0}} \cup
    {<<"broken curve", m>> : m \in {n \in DOMAIN stated : ~stated[n].whole}}

\* A preserved look-at block: [object, keys |-> "1.0" or "0.x" by the keys it uses, maps,
\* offset, type].
ParseLookAtRangeMaps(block, rig) ==
    IF ~block.object THEN [rig |-> rig, warnings |-> {<<"not an object">>}]
    ELSE LET vrm1 == block.keys = "1.0"
             maps == [m \in MapNames |->
                         IF m \notin DOMAIN block.maps THEN rig.maps[m]
                         ELSE IF vrm1 THEN ReadRangeMap1(rig.maps[m], block.maps[m])
                         ELSE ReadRangeMap0(rig.maps[m], block.maps[m])]
             types == IF vrm1 THEN [expression |-> "expression", bone |-> "bone"]
                      ELSE [BlendShape |-> "expression", Bone |-> "bone"]
         IN  [rig |-> [rig EXCEPT
                         !.maps = maps,
                         !.offset = IF vrm1 /\ block.offset # None THEN block.offset ELSE @,
                         !.type = IF block.type \in DOMAIN types THEN types[block.type] ELSE @],
              warnings |-> RangeMapWarnings(maps, block.maps)]

\* Where the gaze starts, and which of the three statements decided it.
Origin(rig, clipOffset) ==
    IF rig.offset # None THEN [offset |-> rig.offset, warnings |-> {}]
    ELSE IF clipOffset # None THEN [offset |-> clipOffset, warnings |-> {<<"clip's offset">>}]
    ELSE [offset |-> Point(0, 0, 0), warnings |-> {<<"no offset">>}]

\* A vector in the head's own space, and back: a half turn is its own inverse.
Turned(head, v) == [axis \in Axes |-> IF axis = "y" THEN v[axis] ELSE head.turned * v[axis]]

\* The yaw and pitch toward a target, or no gaze at all.
Aim(rig, target, head, clipOffset) ==
    LET start == Origin(rig, clipOffset)
        offset == Turned(head, start.offset)
        local == Turned(head, [axis \in Axes |->
                                  target[axis] - (head.position[axis] + offset[axis])])
        flat == Max({Magnitude(local["x"]), Magnitude(local["z"])})
    IN  IF target = None THEN [aimed |-> FALSE, warnings |-> {}]
        ELSE IF local = Point(0, 0, 0)
        THEN [aimed |-> FALSE, warnings |-> start.warnings \cup {<<"on the eye origin">>}]
        ELSE [aimed |-> TRUE, warnings |-> start.warnings, yaw |-> Atan2(local["x"], local["z"]),
              pitch |-> Atan2(local["y"], flat)]

NoGaze == [hasGaze |-> FALSE, eyeRotations |-> << >>, expressions |-> << >>]

Vertical(rig, pitch) ==
    IF pitch >= 0 THEN Map(rig.maps["verticalUp"], pitch) ELSE -Map(rig.maps["verticalDown"], -pitch)

\* A bone-driven gaze: the eye on the side the gaze goes to turns outward.
EyeRotations(rig, yaw, pitch) ==
    LET inner == Map(rig.maps["horizontalInner"], Magnitude(yaw))
        outer == Map(rig.maps["horizontalOuter"], Magnitude(yaw))
        up == Vertical(rig, pitch)
        left == [joint |-> rig.leftEye, yaw |-> IF yaw >= 0 THEN outer ELSE -inner, pitch |-> up]
        right == [joint |-> rig.rightEye, yaw |-> IF yaw >= 0 THEN inner ELSE -outer, pitch |-> up]
    IN  SelectSeq(<<left, right>>, LAMBDA e : e.joint # "")

EyeWarnings(rig) ==
    IF rig.leftEye = "" /\ rig.rightEye = "" THEN {<<"no eye joint">>}
    ELSE IF "" \in {rig.leftEye, rig.rightEye} THEN {<<"one eye joint">>} ELSE {}

ClampWeight(weight) == Min({Max({weight, 0}), Unit})

\* An expression-driven gaze: all four names in every sample, the idle ones at zero.
GazeWeights(rig, yaw, pitch) ==
    LET horizontal == Map(rig.maps["horizontalOuter"], Magnitude(yaw))
        up == Vertical(rig, pitch)
    IN  << [name |-> "lookLeft", value |-> IF yaw >= 0 THEN horizontal ELSE 0],
           [name |-> "lookRight", value |-> IF yaw >= 0 THEN 0 ELSE horizontal],
           [name |-> "lookUp", value |-> IF pitch >= 0 THEN up ELSE 0],
           [name |-> "lookDown", value |-> IF pitch >= 0 THEN 0 ELSE -up] >>

GazeWarnings(rig, weights) ==
    (IF rig.maps["horizontalInner"] # rig.maps["horizontalOuter"] THEN {<<"inner map unread">>}
     ELSE {}) \cup
    {<<"clamped", w.name>> : w \in {v \in ToSet(weights) : ClampWeight(v.value) # v.value}}

\* One sample's gaze, with its warnings.
Evaluate(rig, target, head, clipOffset) ==
    LET aim == Aim(rig, target, head, clipOffset)
        weights == GazeWeights(rig, aim.yaw, aim.pitch)
    IN  IF ~aim.aimed THEN [gaze |-> NoGaze, warnings |-> aim.warnings]
        ELSE IF rig.type = "bone"
        THEN [gaze |-> [NoGaze EXCEPT !.hasGaze = TRUE,
                                      !.eyeRotations = EyeRotations(rig, aim.yaw, aim.pitch)],
              warnings |-> aim.warnings \cup EyeWarnings(rig)]
        ELSE [gaze |-> [NoGaze EXCEPT !.hasGaze = TRUE,
                                      !.expressions = [i \in DOMAIN weights |->
                                          [weights[i] EXCEPT !.value = ClampWeight(@)]]],
              warnings |-> aim.warnings \cup GazeWarnings(rig, weights)]
=============================================================================
