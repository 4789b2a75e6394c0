--------------------------- MODULE MCGlbContainer ---------------------------
(* Every file of up to five words behind the header, the files that go on      *)
(* after a JSON chunk with up to four more, and every way a header is wrong.   *)
EXTENDS GlbContainer

\* 56 is -8 in the size_t of the model: the length that would stop the cursor.
MCSizeMod == 64

Words == {0, 1, 2, 4, 8, 56}

UpTo(n) == UNION {[1..k -> Words] : k \in 0..n}

GlbFile(words, tail) ==
    [out |-> TRUE, valid |-> TRUE, size |-> 12 + 4 * Len(words) + tail, magic |-> TRUE,
     version |-> TRUE, declared |-> 12 + 4 * Len(words) + tail, words |-> words]

Json == <<4, 1, 0>>

Good == GlbFile(Json, 0)

Headers ==
    {[out |-> o, valid |-> d, size |-> 24, magic |-> m, version |-> v, declared |-> n,
      words |-> Json] : o, d, m, v \in BOOLEAN, n \in {20, 24, 28}}
    \cup {[Good EXCEPT !.size = n, !.declared = n, !.words = << >>] : n \in {0, 11, 12, 15}}

MCFiles ==
    Headers \cup {GlbFile(words, tail) : words \in UpTo(4), tail \in {0, 2}}
            \cup {GlbFile(words, 0) : words \in [1..5 -> Words]}
            \cup {GlbFile(Json \o words, 0) : words \in UpTo(4)}
=============================================================================
