---------------------------- MODULE GlbContainer ----------------------------
(***************************************************************************)
(* vrmContainer::ParseGlb: one pass over the chunks of a GLB file, with    *)
(* the checks in the order the code makes them, in size_t arithmetic.      *)
(***************************************************************************)
EXTENDS Integers, Sequences

CONSTANTS Files,      \* the inputs: the header's fields and the 32-bit words after it
          SizeMod     \* 2^w for the width w of size_t

HeaderSize == 12
ChunkHeaderSize == 8

\* Words: 1 and 2 stand for the JSON and BIN chunk types, no length being odd or 2.
GlbJsonChunk == 1
GlbBinChunk == 2

File == [out : BOOLEAN, valid : BOOLEAN, size : 0..(SizeMod - 1), magic : BOOLEAN,
         version : BOOLEAN, declared : Nat, words : Seq(0..(SizeMod - 1))]

ASSUME FilesAssumption ==
    /\ SizeMod \in Nat
    /\ Files \subseteq File
    /\ \A f \in Files : f.size >= HeaderSize =>
          4 * Len(f.words) <= f.size - HeaderSize /\ f.size - HeaderSize < 4 * Len(f.words) + 4

VARIABLES file,       \* the input
          phase,      \* "header", "chunks" or "done"
          cursor,     \* the offset of the next chunk
          first,      \* firstChunk
          sawJson, sawBin,
          parsed,     \* the chunks found so far
          out,        \* the caller's GlbView
          error       \* the caller's Error

glbVars == <<file, phase, cursor, first, sawJson, sawBin, parsed, out, error>>

NoView == [offset |-> 0, length |-> 0]

EmptyGlb == [json |-> NoView, binary |-> NoView]

NoError == [code |-> "None", offset |-> 0]

ReadU32(f, offset) == f.words[(offset - HeaderSize) \div 4 + 1]

\* size_t addition.
Plus(a, b) == IF a + b < SizeMod THEN a + b ELSE a + b - SizeMod

\* Variant: the check that overflows.
EndInside(size, offset, length) == Plus(offset, length) <= size

(* MakeBufferView: whether length bytes at offset lie in a buffer. *)
MakeBufferView(size, offset, length) == ~(offset > size \/ length > size - offset)

GlbInit ==
    /\ file \in Files
    /\ phase = "header"
    /\ cursor = HeaderSize
    /\ first = TRUE /\ sawJson = FALSE /\ sawBin = FALSE
    /\ parsed = EmptyGlb /\ out = EmptyGlb /\ error = NoError

Fail(code, offset) ==
    /\ phase' = "done"
    /\ error' = [code |-> code, offset |-> offset]
    /\ UNCHANGED <<file, cursor, first, sawJson, sawBin, parsed, out>>

\* The first of the header's checks that fails, or none.
HeaderError(f) ==
    IF ~f.out THEN [code |-> "InvalidArgument", offset |-> 0]
    ELSE IF ~f.valid THEN [code |-> "NullData", offset |-> 0]
    ELSE IF f.size < HeaderSize THEN [code |-> "HeaderTooShort", offset |-> f.size]
    ELSE IF ~f.magic THEN [code |-> "InvalidMagic", offset |-> 0]
    ELSE IF ~f.version THEN [code |-> "UnsupportedVersion", offset |-> 4]
    ELSE IF f.declared # f.size THEN [code |-> "LengthMismatch", offset |-> 8]
    ELSE NoError

CheckHeader ==
    /\ phase = "header"
    /\ IF HeaderError(file) # NoError
       THEN Fail(HeaderError(file).code, HeaderError(file).offset)
       ELSE /\ phase' = "chunks"
            /\ UNCHANGED <<file, cursor, first, sawJson, sawBin, parsed, out, error>>

\* Variant: a later JSON chunk replaces the first.
LastJsonChunkError(length, type, payload) ==
    IF length % 4 # 0 THEN "ChunkLengthUnaligned"
    ELSE IF ~MakeBufferView(file.size, payload, length) THEN "ChunkOutOfRange"
    ELSE IF first /\ type # GlbJsonChunk THEN "JsonChunkNotFirst"
    ELSE IF type = GlbBinChunk /\ sawBin THEN "DuplicateBinChunk"
    ELSE "None"

\* Variant: the end of a payload checked where it may wrap.
WrappingChunkError(length, type, payload) ==
    IF length % 4 # 0 THEN "ChunkLengthUnaligned"
    ELSE IF ~(Plus(payload, length) <= file.size) THEN "ChunkOutOfRange"
    ELSE IF first # (type = GlbJsonChunk) THEN "JsonChunkNotFirst"
    ELSE IF type = GlbBinChunk /\ sawBin THEN "DuplicateBinChunk"
    ELSE "None"

\* What is wrong with a chunk whose header is read, in the order of the code.
ChunkError(length, type, payload) ==
    IF length % 4 # 0 THEN "ChunkLengthUnaligned"
    ELSE IF ~MakeBufferView(file.size, payload, length) THEN "ChunkOutOfRange"
    ELSE IF first # (type = GlbJsonChunk) THEN "JsonChunkNotFirst"
    ELSE IF type = GlbBinChunk /\ sawBin THEN "DuplicateBinChunk"
    ELSE "None"

AcceptChunk(length, type, payload) ==
    LET view == [offset |-> payload, length |-> length]
    IN  /\ parsed' = [json   |-> IF type = GlbJsonChunk THEN view ELSE parsed.json,
                      binary |-> IF type = GlbBinChunk THEN view ELSE parsed.binary]
        /\ sawJson' = (sawJson \/ type = GlbJsonChunk)
        /\ sawBin' = (sawBin \/ type = GlbBinChunk)
        /\ first' = FALSE
        /\ cursor' = Plus(payload, length)
        /\ UNCHANGED <<file, phase, out, error>>

ParseChunk(length, type, payload) ==
    CASE ChunkError(length, type, payload) = "None" -> AcceptChunk(length, type, payload)
      [] ChunkError(length, type, payload) \in {"ChunkLengthUnaligned", "ChunkOutOfRange"}
                -> Fail(ChunkError(length, type, payload), cursor)
      [] OTHER  -> Fail(ChunkError(length, type, payload), cursor + 4)

NextChunk ==
    /\ phase = "chunks"
    /\ cursor < file.size
    /\ IF file.size - cursor < ChunkHeaderSize
       THEN Fail("ChunkHeaderTruncated", cursor)
       ELSE ParseChunk(ReadU32(file, cursor), ReadU32(file, cursor + 4),
                       Plus(cursor, ChunkHeaderSize))

Finish ==
    /\ phase = "chunks"
    /\ cursor >= file.size
    /\ IF ~sawJson \/ parsed.json.length = 0
       THEN Fail("JsonChunkMissing", HeaderSize)
       ELSE /\ phase' = "done"
            /\ out' = parsed
            /\ UNCHANGED <<file, cursor, first, sawJson, sawBin, parsed, error>>

GlbNext == CheckHeader \/ NextChunk \/ Finish

(* The caller waits for ParseGlb, which runs to its end. *)
GlbSpec == GlbInit /\ [][GlbNext]_glbVars /\ WF_glbVars(GlbNext)

-----------------------------------------------------------------------------
(* The format, stated without a parser *)

Starts(f) == {HeaderSize + 4 * (k - 1) : k \in {j \in DOMAIN f.words : j + 1 \in DOMAIN f.words}}

Length(f, p) == ReadU32(f, p)
Type(f, p) == ReadU32(f, p + 4)
After(f, p) == p + ChunkHeaderSize + Length(f, p)

\* The chunks: the least set of offsets with the first and what follows each.
Chunks(f) ==
    {p \in Starts(f) :
        \A S \in SUBSET Starts(f) :
            /\ HeaderSize \in S
            /\ \A q \in S : After(f, q) \in Starts(f) => After(f, q) \in S
            => p \in S}

WellFormed(f) ==
    /\ f.out /\ f.valid /\ f.size >= HeaderSize
    /\ f.magic /\ f.version /\ f.declared = f.size
    /\ HeaderSize \in Starts(f)
    /\ Type(f, HeaderSize) = GlbJsonChunk /\ Length(f, HeaderSize) > 0
    /\ \A p \in Chunks(f) : /\ Length(f, p) % 4 = 0
                            /\ After(f, p) \in Chunks(f) \cup {f.size}
                            /\ p # HeaderSize => Type(f, p) # GlbJsonChunk
    /\ \A p, q \in Chunks(f) :
          Type(f, p) = GlbBinChunk /\ Type(f, q) = GlbBinChunk => p = q

Payload(f, p) == [offset |-> p + ChunkHeaderSize, length |-> Length(f, p)]

Binary(f) ==
    IF \E p \in Chunks(f) : Type(f, p) = GlbBinChunk
    THEN Payload(f, CHOOSE p \in Chunks(f) : Type(f, p) = GlbBinChunk) ELSE NoView

(* ParseGlb accepts exactly the files whose chunks tile the container, JSON
   first and once, BIN at most once; it then returns those two payloads, and
   an empty view in every other case. *)
AcceptsExactly ==
    phase = "done" =>
        IF error = NoError
        THEN WellFormed(file) /\ out = [json |-> Payload(file, HeaderSize),
                                        binary |-> Binary(file)]
        ELSE ~WellFormed(file) /\ out = EmptyGlb

Inside(view) == view = NoView \/ (view.offset >= HeaderSize + ChunkHeaderSize
                                  /\ view.offset + view.length <= file.size)

(* Every view ever handed out or about to be lies in the file behind a chunk
   header, and the binary payload begins after the JSON payload's end. *)
ViewsInside ==
    /\ \A view \in {parsed.json, parsed.binary, out.json, out.binary} : Inside(view)
    /\ parsed.binary # NoView =>
          parsed.json.offset + parsed.json.length + ChunkHeaderSize <= parsed.binary.offset

(* ParseGlb returns: no length makes the cursor stand still or go back. *)
Terminates == <>(phase = "done")
=============================================================================
