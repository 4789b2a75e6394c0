------------------------------ MODULE PathNames ------------------------------
(***************************************************************************)
(* The names of prims and joints (PathUtil).  A name is the list of parts  *)
(* its underscores join; a part is a word, a number, or a word that ends   *)
(* in a number.  A raw name, as the file spells it, may have another       *)
(* character where the identifier made of it has an underscore.            *)
(***************************************************************************)
EXTENDS Integers, FiniteSetsExt, SequencesExt

Word(w) == <<w>>

Numbered(w, k) == <<w, k>>

Numeral(k) == Numbered("", k)

Raw(name, foreign) == [name |-> name, foreign |-> foreign]

NoName == Raw(<< >>, FALSE)

\* A name of no ASCII letters is a prefix and a hash.
VrmSanitizeIdentifier(raw, prefix) ==
    IF raw.name = << >> THEN <<Word(prefix), Word("hash")>> ELSE raw.name

\* A name not claimed yet: the base, or the first numbered one free.
FreeName(claimed, base) ==
    LET free == {k \in 2 .. Cardinality(claimed) + 2 : Append(base, Numeral(k)) \notin claimed}
    IN  IF base \notin claimed THEN base ELSE Append(base, Numeral(Min(free)))

\* Variant: a name is numbered by the times its base was seen.
CountedNames(raws, prefix) ==
    LET base(i) == VrmSanitizeIdentifier(raws[i], prefix)
        times(i) == Cardinality({k \in 1 .. i : base(k) = base(i)})
    IN  [i \in DOMAIN raws |->
            IF times(i) = 1 THEN base(i) ELSE Append(base(i), Numeral(times(i)))]

\* Each name differs from those before it.
AllDifferent(bases) ==
    LET names[n \in 0 .. Len(bases)] ==
            IF n = 0 THEN << >>
            ELSE LET earlier == names[n - 1]
                 IN  Append(earlier, FreeName(Range(earlier), bases[n]))
    IN  names[Len(bases)]

VrmMakeUniqueNames(raws, prefix) ==
    AllDifferent([i \in DOMAIN raws |-> VrmSanitizeIdentifier(raws[i], prefix)])

\* The spelling of a raw name, which no identifier has if it is foreign.
Spelling(raw) == IF raw.foreign THEN Append(raw.name, Word("?")) ELSE raw.name
=============================================================================
