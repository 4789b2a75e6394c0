------------------------------ MODULE KeyTracks ------------------------------
(***************************************************************************)
(* An animation sampler's value at any time, as both importers read it.    *)
(***************************************************************************)
EXTENDS Integers, SequencesExt

\* A cubic spline keeps three values to a key, the middle one its own.
ReadKey(sampler, k) ==
    IF sampler.interpolation = "cubic" THEN sampler.output[3 * k - 1] ELSE sampler.output[k]

\* A mutant: the last key ends a track, which then says what its first key says.
SampleWrapped(sampler, t) ==
    LET keys == sampler.input
        low == Max({1} \cup {k \in DOMAIN keys : keys[k] <= t})
    IN  ReadKey(sampler, IF low = Len(keys) THEN 1 ELSE low)

\* A track at any time: its first or last key beyond them, else a step or a mix of two keys.
Sample(sampler, t) ==
    LET keys == sampler.input
        low == Max({k \in DOMAIN keys : keys[k] <= t})
        a == ReadKey(sampler, low)
        b == ReadKey(sampler, low + 1)
    IN  IF keys = << >> THEN 0
        ELSE IF t <= keys[1] THEN ReadKey(sampler, 1)
        ELSE IF t >= Last(keys) THEN ReadKey(sampler, Len(keys))
        ELSE IF sampler.interpolation = "step" THEN a
        ELSE a + ((b - a) * (t - keys[low])) \div (keys[low + 1] - keys[low])
=============================================================================
