-------------------------- MODULE ContainerProofs --------------------------
(***************************************************************************)
(* A VRM container, read for every input and every interleaving: ParseGlb  *)
(* accepts exactly the well-formed files and no view it hands out leaves   *)
(* the file; the package resolver serves what a name says, for any number  *)
(* of threads, scopes, packages and rewrites.                              *)
(***************************************************************************)
EXTENDS GlbContainer, PackageResolver, FiniteSetTheorems, TLAPS

-----------------------------------------------------------------------------
(* GlbContainer *)

View == [offset : Nat, length : Nat]

End(view) == view.offset + view.length

InFile ==
    /\ file \in Files
    /\ phase \in {"header", "chunks", "done"}
    /\ phase # "done" => out = EmptyGlb
    /\ phase = "chunks" => file.size >= HeaderSize

\* The cursor is aligned and never past the end: what ReadU32's index rests on.
CursorInFile ==
    /\ cursor \in Nat
    /\ cursor % 4 = 0
    /\ HeaderSize <= cursor
    /\ first \in BOOLEAN
    /\ phase = "header" => cursor = HeaderSize /\ first
    /\ phase = "chunks" => cursor <= file.size

\* What is parsed lies before the cursor.
ParsedBeforeCursor ==
    /\ parsed \in [json : View, binary : View]
    /\ first => parsed = EmptyGlb
    /\ End(parsed.json) <= cursor
    /\ \A view \in {parsed.json, parsed.binary} : Inside(view)
    /\ parsed.binary # NoView =>
          parsed.json.offset + parsed.json.length + ChunkHeaderSize <= parsed.binary.offset
    /\ out \in {EmptyGlb, parsed}

GlbInv == InFile /\ CursorInFile /\ ParsedBeforeCursor

-----------------------------------------------------------------------------
LEMMA FileShape ==
    ASSUME NEW f \in Files
    PROVE  /\ SizeMod \in Nat
           /\ f.size \in Nat /\ f.size < SizeMod
           /\ f.words \in Seq(0..(SizeMod - 1))
           /\ f.size >= HeaderSize => f.size - HeaderSize < 4 * Len(f.words) + 4
  <1>1. f \in File
    BY FilesAssumption
  <1>2. f.size \in 0..(SizeMod - 1) /\ f.words \in Seq(0..(SizeMod - 1))
    BY <1>1 DEF File
  <1> QED
    BY <1>2, FilesAssumption

(* A word that lies in the file is one of its words. *)
LEMMA ReadU32InRange ==
    ASSUME NEW f \in Files, NEW offset \in Nat,
           offset % 4 = 0, HeaderSize <= offset, offset + 4 <= f.size
    PROVE  ReadU32(f, offset) \in 0..(SizeMod - 1)
  <1> DEFINE i == (offset - HeaderSize) \div 4 + 1
  <1>1. f.size - HeaderSize < 4 * Len(f.words) + 4 /\ f.words \in Seq(0..(SizeMod - 1))
        /\ f.size \in Nat
    BY FileShape DEF HeaderSize
  <1>2. Len(f.words) \in Nat
    BY <1>1
  <1>3. PICK k \in Nat : offset = 4 * k
    <2>1. offset = 4 * (offset \div 4) + (offset % 4) /\ offset \div 4 \in Nat
      OBVIOUS
    <2> QED
      BY <2>1
  <1>4. i = k - 2
    <2>1. offset - HeaderSize = 4 * (k - 3)
      BY <1>3 DEF HeaderSize
    <2>2. (4 * (k - 3)) \div 4 = k - 3
      OBVIOUS
    <2> QED
      BY <2>1, <2>2
  <1>5. i \in 1..Len(f.words)
    BY <1>1, <1>2, <1>3, <1>4 DEF HeaderSize
  <1>6. f.words[i] \in 0..(SizeMod - 1)
    <2> HIDE DEF i
    <2> DEFINE S == 0..(SizeMod - 1)
    <2>1. f.words \in Seq(S)
      BY <1>1
    <2> HIDE DEF S
    <2>2. f.words[i] \in S
      BY <2>1, <1>5
    <2> QED
      BY <2>2 DEF S
  <1> QED
    BY <1>6 DEF ReadU32

(* Below the file's size size_t addition does not wrap. *)
LEMMA PlusInFile ==
    ASSUME NEW f \in Files, NEW a \in Nat, NEW b \in Nat, a + b <= f.size
    PROVE  Plus(a, b) = a + b
  <1>1. f.size < SizeMod /\ f.size \in Nat /\ SizeMod \in Nat
    BY FileShape
  <1> QED
    BY <1>1 DEF Plus

(* What a chunk that passes ParseChunk's checks looks like. *)
LEMMA ChunkInFile ==
    ASSUME NEW length \in Nat, NEW type, NEW payload \in Nat,
           file.size \in Nat, first \in BOOLEAN,
           ChunkError(length, type, payload) = "None"
    PROVE  /\ length % 4 = 0
           /\ payload + length <= file.size
           /\ first = (type = GlbJsonChunk)
  BY DEF ChunkError, MakeBufferView

-----------------------------------------------------------------------------
LEMMA InitGlbInv == GlbInit => GlbInv
  <1> SUFFICES ASSUME GlbInit PROVE GlbInv
    OBVIOUS
  <1>1. InFile
    BY DEF GlbInit, InFile
  <1>2. CursorInFile
    BY DEF GlbInit, CursorInFile, HeaderSize
  <1>3. ParsedBeforeCursor
    BY DEF GlbInit, ParsedBeforeCursor, EmptyGlb, NoView, View, End, Inside, HeaderSize
  <1> QED
    BY <1>1, <1>2, <1>3 DEF GlbInv

LEMMA FailGlbInv ==
    ASSUME GlbInv, NEW code, NEW offset, Fail(code, offset), phase # "done"
    PROVE  GlbInv'
  <1> USE DEF GlbInv, Fail
  <1>1. InFile'
    BY DEF InFile
  <1>2. CursorInFile'
    BY DEF CursorInFile, InFile
  <1>3. ParsedBeforeCursor'
    BY DEF ParsedBeforeCursor, Inside
  <1> QED
    BY <1>1, <1>2, <1>3

LEMMA CheckHeaderGlbInv ==
    ASSUME GlbInv, CheckHeader
    PROVE  GlbInv'
  <1>1. CASE HeaderError(file) # NoError
    BY <1>1, FailGlbInv DEF CheckHeader
  <1>2. CASE HeaderError(file) = NoError
    <2>1. file.size \in Nat
      BY FileShape DEF GlbInv, InFile
    <2>2. phase = "header" /\ phase' = "chunks"
          /\ UNCHANGED <<file, cursor, first, sawJson, sawBin, parsed, out, error>>
      BY <1>2 DEF CheckHeader
    <2>3. file.size >= HeaderSize
      <3>1. HeaderError(file).code = "None"
        BY <1>2 DEF NoError
      <3> QED
        BY <2>1, <3>1 DEF HeaderError, HeaderSize
    <2>4. InFile'
      BY <2>2, <2>3 DEF GlbInv, InFile
    <2>5. CursorInFile'
      BY <2>2, <2>3 DEF GlbInv, CursorInFile
    <2>6. ParsedBeforeCursor'
      BY <2>2 DEF GlbInv, ParsedBeforeCursor, Inside
    <2> QED
      BY <2>4, <2>5, <2>6 DEF GlbInv
  <1> QED
    BY <1>1, <1>2

(* Reading a chunk header in range. *)
LEMMA ChunkHeaderInFile ==
    ASSUME GlbInv, phase = "chunks", cursor < file.size,
           ~(file.size - cursor < ChunkHeaderSize)
    PROVE  /\ file.size \in Nat
           /\ cursor \in Nat
           /\ ReadU32(file, cursor) \in Nat
           /\ Plus(cursor, ChunkHeaderSize) = cursor + ChunkHeaderSize
           /\ first \in BOOLEAN
  <1>1. file \in Files /\ cursor \in Nat /\ cursor % 4 = 0 /\ HeaderSize <= cursor
        /\ first \in BOOLEAN
    BY DEF GlbInv, InFile, CursorInFile
  <1>2. SizeMod \in Nat /\ file.size \in Nat
    BY <1>1, FileShape
  <1>3. cursor + ChunkHeaderSize <= file.size /\ cursor + 4 <= file.size
    BY <1>1, <1>2 DEF ChunkHeaderSize
  <1>4. ReadU32(file, cursor) \in 0..(SizeMod - 1)
    BY <1>1, <1>3, ReadU32InRange
  <1>5. Plus(cursor, ChunkHeaderSize) = cursor + ChunkHeaderSize
    BY <1>1, <1>3, PlusInFile DEF ChunkHeaderSize
  <1> QED
    BY <1>1, <1>2, <1>4, <1>5

LEMMA AcceptChunkGlbInv ==
    ASSUME GlbInv, phase = "chunks",
           NEW length \in Nat, NEW type, NEW payload \in Nat,
           payload = cursor + ChunkHeaderSize,
           ChunkError(length, type, payload) = "None",
           first \in BOOLEAN,
           AcceptChunk(length, type, payload)
    PROVE  GlbInv' /\ cursor' > cursor
  <1> DEFINE view == [offset |-> payload, length |-> length]
  <1>1. file \in Files /\ cursor \in Nat /\ cursor % 4 = 0 /\ HeaderSize <= cursor
    BY DEF GlbInv, InFile, CursorInFile
  <1>2. SizeMod \in Nat /\ file.size \in Nat
    BY <1>1, FileShape
  <1>3. length % 4 = 0 /\ payload + length <= file.size /\ first = (type = GlbJsonChunk)
    BY <1>2, ChunkInFile
  <1>4. cursor' = payload + length
    BY <1>1, <1>3, PlusInFile DEF AcceptChunk
  <1>5. cursor' > cursor
    BY <1>1, <1>4 DEF ChunkHeaderSize
  <1>6. InFile'
    BY DEF GlbInv, InFile, AcceptChunk
  <1>7. CursorInFile'
    <2>1. cursor' % 4 = 0
      BY <1>1, <1>3, <1>4 DEF ChunkHeaderSize
    <2>2. phase' = "chunks" /\ file' = file /\ first' = FALSE
      BY DEF AcceptChunk
    <2>3. cursor' \in Nat /\ HeaderSize <= cursor' /\ cursor' <= file.size
      BY <1>1, <1>2, <1>3, <1>4, <1>5 DEF HeaderSize
    <2> QED
      BY <2>1, <2>2, <2>3 DEF CursorInFile
  <1>8. ParsedBeforeCursor'
    <2>0. /\ parsed \in [json : View, binary : View]
          /\ first => parsed = EmptyGlb
          /\ End(parsed.json) <= cursor
          /\ Inside(parsed.json) /\ Inside(parsed.binary)
          /\ parsed.binary # NoView =>
                parsed.json.offset + parsed.json.length + ChunkHeaderSize <= parsed.binary.offset
          /\ out \in {EmptyGlb, parsed}
      BY DEF GlbInv, ParsedBeforeCursor
    <2>1. view \in View /\ Inside(view) /\ End(view) = cursor'
      BY <1>1, <1>2, <1>3, <1>4 DEF View, Inside, End, HeaderSize, ChunkHeaderSize
    <2>2. file' = file /\ first' = FALSE /\ out' = EmptyGlb /\ phase' = "chunks"
      BY DEF AcceptChunk, GlbInv, InFile
    <2>3. CASE type = GlbJsonChunk
      <3>1. parsed = EmptyGlb
        BY <2>0, <2>3, <1>3
      <3>2. parsed' = [json |-> view, binary |-> NoView]
        BY <2>3, <3>1 DEF AcceptChunk, EmptyGlb, GlbJsonChunk, GlbBinChunk
      <3>3. NoView \in View
        BY DEF NoView, View
      <3>4. parsed'.json = view /\ parsed'.binary = NoView
            /\ parsed' \in [json : View, binary : View]
        BY <2>1, <3>2, <3>3
      <3>5. Inside(NoView)
        BY DEF Inside
      <3>6. cursor' \in Nat
        BY <1>1, <1>4
      <3> QED
        BY <2>1, <2>2, <3>4, <3>5, <3>6 DEF ParsedBeforeCursor, Inside, End
    <2>4. CASE type = GlbBinChunk
      <3>1. parsed' = [json |-> parsed.json, binary |-> view]
        BY <2>4 DEF AcceptChunk, GlbJsonChunk, GlbBinChunk
      <3>2. End(parsed.json) <= cursor' /\ End(parsed.json) + ChunkHeaderSize <= payload
        BY <2>0, <1>1, <1>5, <1>4 DEF End, View, ChunkHeaderSize
      <3>3. Inside(view)' /\ Inside(parsed.json)'
        <4>1. Inside(parsed.json)'
          BY <2>0, <2>2, <3>1 DEF Inside
        <4>2. Inside(view)'
          BY <2>1, <2>2 DEF Inside
        <4> QED
          BY <4>1, <4>2
      <3>4. parsed'.json = parsed.json /\ parsed'.binary = view
            /\ parsed' \in [json : View, binary : View]
        BY <2>0, <2>1, <3>1
      <3>5. view.offset = payload /\ first' = FALSE
        BY <2>2
      <3>6. Inside(parsed.json) /\ Inside(view)
        BY <2>0, <2>1
      <3> QED
        BY <2>2, <3>2, <3>4, <3>5, <3>6 DEF ParsedBeforeCursor, Inside, End
    <2>5. CASE type # GlbJsonChunk /\ type # GlbBinChunk
      <3>1. parsed' = parsed
        BY <2>5, <2>0 DEF AcceptChunk
      <3>2. End(parsed.json) <= cursor'
        BY <2>0, <1>1, <1>4, <1>5 DEF End, View
      <3> QED
        BY <2>0, <2>2, <3>1, <3>2 DEF ParsedBeforeCursor, Inside, End
    <2> QED
      BY <2>3, <2>4, <2>5
  <1> QED
    BY <1>5, <1>6, <1>7, <1>8 DEF GlbInv

LEMMA NextChunkGlbInv ==
    ASSUME GlbInv, NextChunk
    PROVE  GlbInv' /\ (phase' = "chunks" => cursor' > cursor)
  <1> DEFINE length == ReadU32(file, cursor)
             type == ReadU32(file, cursor + 4)
             payload == Plus(cursor, ChunkHeaderSize)
  <1>1. phase = "chunks" /\ cursor < file.size
    BY DEF NextChunk
  <1>2. CASE file.size - cursor < ChunkHeaderSize
    <2>1. Fail("ChunkHeaderTruncated", cursor)
      BY <1>2 DEF NextChunk
    <2> QED
      BY <1>1, <2>1, FailGlbInv DEF Fail
  <1>3. CASE ~(file.size - cursor < ChunkHeaderSize)
    <2>1. ParseChunk(length, type, payload)
      BY <1>3 DEF NextChunk
    <2>2. length \in Nat /\ payload = cursor + ChunkHeaderSize /\ payload \in Nat
          /\ first \in BOOLEAN
      BY <1>1, <1>3, ChunkHeaderInFile DEF ChunkHeaderSize
    <2> HIDE DEF length, type, payload
    <2>3. CASE ChunkError(length, type, payload) = "None"
      <3>1. AcceptChunk(length, type, payload)
        BY <2>1, <2>3 DEF ParseChunk
      <3> QED
        BY <1>1, <2>2, <2>3, <3>1, AcceptChunkGlbInv
    <2>4. CASE ChunkError(length, type, payload) # "None"
      <3>1. \E offset \in {cursor, cursor + 4} :
               Fail(ChunkError(length, type, payload), offset)
        BY <2>1, <2>4 DEF ParseChunk
      <3> QED
        BY <1>1, <3>1, FailGlbInv DEF Fail
    <2> QED
      BY <2>3, <2>4
  <1> QED
    BY <1>2, <1>3

LEMMA FinishGlbInv ==
    ASSUME GlbInv, Finish
    PROVE  GlbInv'
  <1>1. CASE ~sawJson \/ parsed.json.length = 0
    BY <1>1, FailGlbInv DEF Finish
  <1>2. CASE ~(~sawJson \/ parsed.json.length = 0)
    <2>1. phase = "chunks" /\ phase' = "done" /\ out' = parsed
          /\ UNCHANGED <<file, cursor, first, sawJson, sawBin, parsed, error>>
      BY <1>2 DEF Finish
    <2>2. InFile'
      BY <2>1 DEF GlbInv, InFile
    <2>3. CursorInFile'
      BY <2>1 DEF GlbInv, CursorInFile
    <2>4. ParsedBeforeCursor'
      BY <2>1 DEF GlbInv, ParsedBeforeCursor, Inside
    <2> QED
      BY <2>2, <2>3, <2>4 DEF GlbInv
  <1> QED
    BY <1>1, <1>2

LEMMA NextGlbInv == GlbInv /\ [GlbNext]_glbVars => GlbInv'
  <1> SUFFICES ASSUME GlbInv, [GlbNext]_glbVars PROVE GlbInv'
    OBVIOUS
  <1>1. CASE CheckHeader
    BY <1>1, CheckHeaderGlbInv
  <1>2. CASE NextChunk
    BY <1>2, NextChunkGlbInv
  <1>3. CASE Finish
    BY <1>3, FinishGlbInv
  <1>4. CASE UNCHANGED glbVars
    BY <1>4 DEF glbVars, GlbInv, InFile, CursorInFile, ParsedBeforeCursor, Inside, End
  <1> QED
    BY <1>1, <1>2, <1>3, <1>4 DEF GlbNext

(* Throughout ParseGlb the cursor is aligned and inside the file, and what is
   parsed lies before it. *)
THEOREM GlbInvariant == GlbSpec => []GlbInv
  BY InitGlbInv, NextGlbInv, PTL DEF GlbSpec

(* Whatever the file, no view handed out by ParseGlb leaves it, and BIN lies
   behind JSON. *)
THEOREM ViewsStayInside == GlbSpec => []ViewsInside
  <1>1. GlbInv => ViewsInside
    <2> SUFFICES ASSUME GlbInv PROVE ViewsInside
      OBVIOUS
    <2>1. /\ \A view \in {parsed.json, parsed.binary} : Inside(view)
          /\ out \in {EmptyGlb, parsed}
      BY DEF GlbInv, ParsedBeforeCursor
    <2>2. EmptyGlb.json = NoView /\ EmptyGlb.binary = NoView
      BY DEF EmptyGlb
    <2>3. Inside(NoView)
      BY DEF Inside
    <2> QED
      BY <2>1, <2>2, <2>3 DEF ViewsInside, GlbInv, ParsedBeforeCursor
  <1> QED
    BY <1>1, GlbInvariant, PTL

(* ParseGlb's loop reads on: the cursor grows with every chunk that does not
   end the parse, so that a file of finite size has a last one. *)
CursorAdvances == phase = "chunks" /\ phase' = "chunks" => cursor' > cursor

THEOREM ChunksAdvance == GlbSpec => [][CursorAdvances]_glbVars
  <1>1. GlbInv /\ [GlbNext]_glbVars => [CursorAdvances]_glbVars
    <2> SUFFICES ASSUME GlbInv, GlbNext PROVE CursorAdvances
      BY DEF glbVars
    <2>1. CASE CheckHeader
      BY <2>1 DEF CheckHeader, CursorAdvances, Fail
    <2>2. CASE NextChunk
      BY <2>2, NextChunkGlbInv DEF CursorAdvances
    <2>3. CASE Finish
      BY <2>3 DEF Finish, Fail, CursorAdvances
    <2> QED
      BY <2>1, <2>2, <2>3 DEF GlbNext
  <1> QED
    BY <1>1, GlbInvariant, PTL DEF GlbSpec

-----------------------------------------------------------------------------
(* The prefix that is parsed, against the format *)

Prefix(f, c) == {p \in Chunks(f) : p < c}

IsBin(f, p) == Type(f, p) = GlbBinChunk

\* Up to offset c the file is well formed, and c is where its next chunk would be.
WellFormedTo(f, c) ==
    /\ \A p \in Prefix(f, c) : /\ Length(f, p) % 4 = 0
                               /\ p # HeaderSize => Type(f, p) # GlbJsonChunk
                               /\ After(f, p) \in Prefix(f, c) \cup {c}
    /\ \A p, q \in Prefix(f, c) : IsBin(f, p) /\ IsBin(f, q) => p = q
    /\ c # HeaderSize => /\ HeaderSize \in Prefix(f, c)
                         /\ Type(f, HeaderSize) = GlbJsonChunk
                         /\ \E p \in Prefix(f, c) : After(f, p) = c
    /\ c \in Starts(f) => c \in Chunks(f)

\* What the parser remembers of the prefix.
PrefixInv ==
    /\ phase # "done" => error = NoError
    /\ phase = "header" => ~sawJson /\ ~sawBin
    /\ sawJson \in BOOLEAN /\ sawBin \in BOOLEAN
    /\ phase = "chunks" =>
           /\ HeaderError(file) = NoError
           /\ WellFormedTo(file, cursor)
           /\ first <=> cursor = HeaderSize
           /\ sawJson <=> ~first
           /\ sawJson => parsed.json = Payload(file, HeaderSize)
           /\ sawBin <=> \E p \in Prefix(file, cursor) : IsBin(file, p)
           /\ \A p \in Prefix(file, cursor) : IsBin(file, p) => parsed.binary = Payload(file, p)
           /\ ~sawBin => parsed.binary = NoView
    /\ AcceptsExactly

(* Where a chunk's header fits. *)
LEMMA StartsAre ==
    ASSUME NEW f \in Files, f.size >= HeaderSize
    PROVE  /\ \A p \in Starts(f) : /\ p \in Nat /\ p % 4 = 0 /\ HeaderSize <= p
                                   /\ p + ChunkHeaderSize <= f.size
           /\ \A p \in Nat : p % 4 = 0 /\ HeaderSize <= p /\ p + ChunkHeaderSize <= f.size
                             => p \in Starts(f)
  <1>1. f.size \in Nat /\ f.words \in Seq(0..(SizeMod - 1))
    BY FileShape
  <1>2. 4 * Len(f.words) <= f.size - HeaderSize /\ f.size - HeaderSize < 4 * Len(f.words) + 4
    BY FilesAssumption
  <1> DEFINE n == Len(f.words)
  <1>3. n \in Nat /\ DOMAIN f.words = 1..n
    BY <1>1
  <1> HIDE DEF n
  <1>4. \A p : p \in Starts(f) <=> \E k \in 1..n : k + 1 \in 1..n /\ p = HeaderSize + 4 * (k - 1)
    BY <1>3 DEF Starts
  <1>5. 4 * n <= f.size - 12 /\ f.size - 12 < 4 * n + 4
    BY <1>2 DEF n, HeaderSize
  <1>6. ASSUME NEW p \in Starts(f)
        PROVE  p \in Nat /\ p % 4 = 0 /\ HeaderSize <= p /\ p + ChunkHeaderSize <= f.size
    <2>1. PICK k \in 1..n : k + 1 \in 1..n /\ p = 12 + 4 * (k - 1)
      BY <1>4 DEF HeaderSize
    <2>2. p = 4 * (k + 2) /\ (4 * (k + 2)) % 4 = 0
      BY <1>3, <2>1
    <2> QED
      BY <1>1, <1>3, <1>5, <2>1, <2>2 DEF HeaderSize, ChunkHeaderSize
  <1>7. ASSUME NEW p \in Nat, p % 4 = 0, HeaderSize <= p, p + ChunkHeaderSize <= f.size
        PROVE  p \in Starts(f)
    <2>1. PICK m \in Nat : p = 4 * m
      <3>1. p = 4 * (p \div 4) + (p % 4) /\ p \div 4 \in Nat
        OBVIOUS
      <3> QED
        BY <1>7, <3>1
    <2>2. m - 2 \in 1..n /\ m - 1 \in 1..n /\ p = 12 + 4 * ((m - 2) - 1)
      BY <1>1, <1>3, <1>5, <1>7, <2>1 DEF HeaderSize, ChunkHeaderSize
    <2>3. (m - 2) + 1 \in 1..n
      BY <2>2
    <2> QED
      BY <1>4, <2>2, <2>3 DEF HeaderSize
  <1> QED
    BY <1>6, <1>7

(* A chunk's length is a number, and the next chunk lies behind it. *)
LEMMA AfterIsBehind ==
    ASSUME NEW f \in Files, f.size >= HeaderSize, NEW p \in Starts(f)
    PROVE  /\ p \in Nat /\ Length(f, p) \in Nat
           /\ After(f, p) \in Nat /\ p + ChunkHeaderSize <= After(f, p)
           /\ After(f, p) = p + ChunkHeaderSize + Length(f, p)
  <1>1. p \in Nat /\ p % 4 = 0 /\ HeaderSize <= p /\ p + ChunkHeaderSize <= f.size
    BY StartsAre
  <1>2. f.size \in Nat /\ SizeMod \in Nat
    BY FileShape
  <1>3. p + 4 <= f.size
    BY <1>1, <1>2 DEF ChunkHeaderSize
  <1>4. Length(f, p) \in 0..(SizeMod - 1)
    BY <1>1, <1>3, ReadU32InRange DEF Length
  <1> QED
    BY <1>1, <1>2, <1>4 DEF After, ChunkHeaderSize

\* A set of offsets that holds the first and what follows each.
Closed(f, S) ==
    /\ HeaderSize \in S
    /\ \A q \in S : After(f, q) \in Starts(f) => After(f, q) \in S

(* The chunks are closed under what follows, and are least among such. *)
LEMMA ChunksAreLeast ==
    ASSUME NEW f
    PROVE  /\ Chunks(f) \subseteq Starts(f)
           /\ HeaderSize \in Starts(f) => HeaderSize \in Chunks(f)
           /\ \A p \in Chunks(f) : After(f, p) \in Starts(f) => After(f, p) \in Chunks(f)
           /\ \A S \in SUBSET Starts(f) : Closed(f, S) => Chunks(f) \subseteq S
  <1>1. \A p : p \in Chunks(f) <=>
                   p \in Starts(f) /\ \A S \in SUBSET Starts(f) : Closed(f, S) => p \in S
    BY DEF Chunks, Closed
  <1>2. ASSUME NEW p \in Chunks(f), After(f, p) \in Starts(f)
        PROVE  After(f, p) \in Chunks(f)
    <2>1. ASSUME NEW S \in SUBSET Starts(f), Closed(f, S) PROVE After(f, p) \in S
      BY <1>1, <1>2, <2>1 DEF Closed
    <2> QED
      BY <1>1, <1>2, <2>1
  <1>3. HeaderSize \in Starts(f) => HeaderSize \in Chunks(f)
    BY <1>1 DEF Closed
  <1> QED
    BY <1>1, <1>2, <1>3

(* A chunk that passes the checks makes the prefix one chunk longer. *)
LEMMA PrefixGrows ==
    ASSUME NEW f \in Files, f.size >= HeaderSize, NEW c \in Starts(f), WellFormedTo(f, c),
           Length(f, c) % 4 = 0,
           c = HeaderSize <=> Type(f, c) = GlbJsonChunk,
           IsBin(f, c) => \A p \in Prefix(f, c) : ~IsBin(f, p)
    PROVE  /\ Prefix(f, After(f, c)) = Prefix(f, c) \cup {c}
           /\ WellFormedTo(f, After(f, c))
  <1> DEFINE n == After(f, c)
             S == {p \in Starts(f) : p \in Prefix(f, c) \/ p = c \/ p >= n}
  <1>1. \A p \in Starts(f) : /\ p \in Nat /\ HeaderSize <= p
                             /\ After(f, p) \in Nat /\ p + ChunkHeaderSize <= After(f, p)
    BY AfterIsBehind, StartsAre
  <1>2. c \in Chunks(f) /\ n \in Nat /\ c < n /\ c \in Nat
    BY <1>1 DEF WellFormedTo, ChunkHeaderSize
  <1>3. Chunks(f) \subseteq Starts(f)
    BY ChunksAreLeast
  <1>4. HeaderSize \in S
    <2>1. CASE c = HeaderSize
      BY <2>1
    <2>2. CASE c # HeaderSize
      BY <1>3, <2>2 DEF WellFormedTo, Prefix
    <2> QED
      BY <2>1, <2>2
  <1>5. ASSUME NEW q \in S, After(f, q) \in Starts(f) PROVE After(f, q) \in S
    <2>1. CASE q \in Prefix(f, c)
      BY <1>5, <2>1 DEF WellFormedTo
    <2>2. CASE q = c
      BY <1>2, <1>5, <2>2
    <2>3. CASE q >= n
      <3>1. After(f, q) \in Nat /\ q + ChunkHeaderSize <= After(f, q) /\ q \in Nat
        BY <1>1, <1>5
      <3>2. After(f, q) >= n
        BY <1>2, <2>3, <3>1 DEF ChunkHeaderSize
      <3> QED
        BY <1>5, <3>2
    <2> QED
      BY <2>1, <2>2, <2>3
  <1>6. Chunks(f) \subseteq S
    <2>1. S \in SUBSET Starts(f) /\ Closed(f, S)
      BY <1>4, <1>5 DEF Closed
    <2> HIDE DEF S
    <2> QED
      BY <2>1, ChunksAreLeast
  <1>7. Prefix(f, n) = Prefix(f, c) \cup {c}
    <2>1. ASSUME NEW p \in Prefix(f, n) PROVE p \in Prefix(f, c) \cup {c}
      <3>1. p \in Chunks(f) /\ p < n /\ p \in S
        BY <1>6 DEF Prefix
      <3>2. ~(p >= n)
        BY <1>1, <1>2, <1>3, <3>1
      <3> QED
        BY <3>1, <3>2
    <2>2. ASSUME NEW p \in Prefix(f, c) PROVE p \in Prefix(f, n)
      <3>1. p \in Chunks(f) /\ p < c /\ p \in Nat
        BY <1>1, <1>3 DEF Prefix
      <3>2. p < n
        BY <1>2, <3>1
      <3> QED
        BY <3>1, <3>2 DEF Prefix
    <2>3. c \in Prefix(f, n)
      BY <1>2 DEF Prefix
    <2> QED
      BY <2>1, <2>2, <2>3
  <1>8. n \in Starts(f) => n \in Chunks(f)
    BY <1>2, ChunksAreLeast
  <1>9. /\ HeaderSize \in Prefix(f, n) /\ Type(f, HeaderSize) = GlbJsonChunk
        /\ \E p \in Prefix(f, n) : After(f, p) = n
    <2>1. CASE c = HeaderSize
      BY <1>7, <2>1
    <2>2. CASE c # HeaderSize
      BY <1>7, <2>2 DEF WellFormedTo
    <2> QED
      BY <2>1, <2>2
  <1>10. \A p \in Prefix(f, n) : /\ Length(f, p) % 4 = 0
                                 /\ p # HeaderSize => Type(f, p) # GlbJsonChunk
                                 /\ After(f, p) \in Prefix(f, n) \cup {n}
    BY <1>7 DEF WellFormedTo
  <1>11. \A p, q \in Prefix(f, n) : IsBin(f, p) /\ IsBin(f, q) => p = q
    BY <1>7 DEF WellFormedTo
  <1> HIDE DEF n
  <1>12. WellFormedTo(f, n)
    BY <1>8, <1>9, <1>10, <1>11 DEF WellFormedTo
  <1> QED
    BY <1>7, <1>12 DEF n

(* In a well-formed file the next chunk is there and passes the checks. *)
LEMMA WellFormedGoesOn ==
    ASSUME NEW f \in Files, NEW c \in Nat, WellFormed(f), WellFormedTo(f, c), c < f.size
    PROVE  /\ c \in Chunks(f) /\ c \in Starts(f)
           /\ Length(f, c) % 4 = 0 /\ After(f, c) <= f.size
           /\ c = HeaderSize <=> Type(f, c) = GlbJsonChunk
           /\ IsBin(f, c) => \A p \in Prefix(f, c) : ~IsBin(f, p)
  <1>1. Chunks(f) \subseteq Starts(f) /\ f.size >= HeaderSize /\ f.size \in Nat
    BY ChunksAreLeast, FileShape DEF WellFormed
  <1>2. c \in Starts(f)
    <2>1. CASE c = HeaderSize
      BY <2>1 DEF WellFormed
    <2>2. CASE c # HeaderSize
      <3>1. PICK p \in Prefix(f, c) : After(f, p) = c
        BY <2>2 DEF WellFormedTo
      <3>2. c \in Chunks(f) \cup {f.size}
        BY <3>1 DEF WellFormed, Prefix
      <3> QED
        BY <1>1, <3>2
    <2> QED
      BY <2>1, <2>2
  <1>3. c \in Chunks(f)
    BY <1>2 DEF WellFormedTo
  <1>4. After(f, c) <= f.size
    <2>1. After(f, c) \in Starts(f) \cup {f.size}
      BY <1>1, <1>3 DEF WellFormed
    <2>2. \A p \in Starts(f) : p \in Nat /\ p + ChunkHeaderSize <= f.size
      BY <1>1, StartsAre
    <2> QED
      BY <1>1, <2>1, <2>2 DEF ChunkHeaderSize
  <1>5. IsBin(f, c) => \A p \in Prefix(f, c) : ~IsBin(f, p)
    <2>1. \A p \in Prefix(f, c) : p \in Chunks(f) /\ p < c /\ p \in Nat
      BY <1>1, StartsAre DEF Prefix
    <2>2. \A p \in Prefix(f, c) : p # c
      BY <2>1
    <2> QED
      BY <1>3, <2>1, <2>2 DEF WellFormed, IsBin
  <1> QED
    BY <1>2, <1>3, <1>4, <1>5 DEF WellFormed

(* A prefix that ends with the file is the whole of it. *)
LEMMA WholeIsWellFormed ==
    ASSUME NEW f \in Files, HeaderError(f) = NoError, WellFormedTo(f, f.size),
           f.size # HeaderSize, Length(f, HeaderSize) > 0
    PROVE  WellFormed(f) /\ Chunks(f) = Prefix(f, f.size)
  <1>1. /\ f.out /\ f.valid /\ f.size >= HeaderSize
        /\ f.magic /\ f.version /\ f.declared = f.size
    <2>1. HeaderError(f).code = "None" /\ f.size \in Nat
      BY FileShape DEF NoError
    <2> QED
      BY <2>1 DEF HeaderError, HeaderSize
  <1>2. Chunks(f) = Prefix(f, f.size)
    <2>1. \A p \in Chunks(f) : p \in Nat /\ p + ChunkHeaderSize <= f.size
      BY <1>1, StartsAre, ChunksAreLeast
    <2>2. \A p \in Chunks(f) : p < f.size
      BY <2>1, FileShape DEF ChunkHeaderSize
    <2> QED
      BY <2>2 DEF Prefix
  <1>3. HeaderSize \in Starts(f)
    BY <1>2, ChunksAreLeast DEF WellFormedTo
  <1> QED
    BY <1>1, <1>2, <1>3 DEF WellFormed, WellFormedTo, IsBin

-----------------------------------------------------------------------------
(* The parser against the prefix *)

LEMMA HeaderIsWellFormed ==
    ASSUME NEW f \in Files, WellFormed(f)
    PROVE  HeaderError(f) = NoError
  <1>1. f.size \in Nat /\ HeaderSize \in Nat
    BY FileShape DEF HeaderSize
  <1>2. f.out /\ f.valid /\ ~(f.size < HeaderSize) /\ f.magic /\ f.version /\ f.declared = f.size
    BY <1>1 DEF WellFormed
  <1> QED
    BY <1>2 DEF HeaderError

(* A failure reports a file that is not well formed, with an empty view. *)
LEMMA FailPrefixInv ==
    ASSUME GlbInv, PrefixInv, NEW code, NEW offset, Fail(code, offset), phase # "done",
           code # "None", ~WellFormed(file)
    PROVE  PrefixInv'
  <1>1. phase' = "done" /\ file' = file /\ out' = EmptyGlb /\ error' # NoError
    BY DEF Fail, GlbInv, InFile, NoError
  <1>2. ~WellFormed(file')
    BY <1>1
  <1>3. AcceptsExactly'
    BY <1>1, <1>2 DEF AcceptsExactly
  <1>4. sawJson' \in BOOLEAN /\ sawBin' \in BOOLEAN
    BY DEF Fail, PrefixInv
  <1> QED
    BY <1>1, <1>3, <1>4 DEF PrefixInv

LEMMA CheckHeaderPrefixInv ==
    ASSUME GlbInv, PrefixInv, CheckHeader
    PROVE  PrefixInv'
  <1>1. phase = "header"
    BY DEF CheckHeader
  <1>2. CASE HeaderError(file) # NoError
    <2>1. HeaderError(file).code # "None"
      BY <1>2 DEF HeaderError, NoError
    <2>2. ~WellFormed(file)
      BY <1>2, HeaderIsWellFormed DEF GlbInv, InFile
    <2> QED
      BY <1>1, <1>2, <2>1, <2>2, FailPrefixInv DEF CheckHeader
  <1>3. CASE HeaderError(file) = NoError
    <2>1. phase' = "chunks"
          /\ UNCHANGED <<file, cursor, first, sawJson, sawBin, parsed, out, error>>
      BY <1>3 DEF CheckHeader
    <2>2. cursor = HeaderSize /\ first /\ parsed = EmptyGlb /\ file \in Files
      BY <1>1 DEF GlbInv, CursorInFile, ParsedBeforeCursor, InFile
    <2>3. file.size >= HeaderSize
      <3>1. HeaderError(file).code = "None" /\ file.size \in Nat
        BY <1>3, <2>2, FileShape DEF NoError
      <3> QED
        BY <3>1 DEF HeaderError, HeaderSize
    <2>4. Prefix(file, HeaderSize) = {}
      <3>1. \A p \in Chunks(file) : p \in Nat /\ HeaderSize <= p
        BY <2>2, <2>3, StartsAre, ChunksAreLeast
      <3> QED
        BY <3>1 DEF Prefix, HeaderSize
    <2>5. WellFormedTo(file, HeaderSize)
      BY <2>4, ChunksAreLeast DEF WellFormedTo
    <2>6. ~sawJson /\ ~sawBin /\ error = NoError /\ parsed.binary = NoView
      BY <1>1, <2>2 DEF PrefixInv, EmptyGlb
    <2>7. WellFormedTo(file, cursor)' /\ Prefix(file, cursor)' = {}
      BY <2>1, <2>2, <2>4, <2>5
    <2>8. AcceptsExactly'
      BY <2>1 DEF AcceptsExactly
    <2> QED
      BY <1>3, <2>1, <2>2, <2>6, <2>7, <2>8 DEF PrefixInv
  <1> QED
    BY <1>2, <1>3

(* The parser's tests against the chunk at the cursor. *)
LEMMA ChunkAtCursor ==
    ASSUME GlbInv, PrefixInv, phase = "chunks", cursor < file.size,
           ~(file.size - cursor < ChunkHeaderSize)
    PROVE  /\ file \in Files /\ file.size >= HeaderSize /\ file.size \in Nat
           /\ cursor \in Starts(file) /\ cursor \in Nat
           /\ Plus(cursor, ChunkHeaderSize) = cursor + ChunkHeaderSize
           /\ Length(file, cursor) \in Nat
           /\ first <=> cursor = HeaderSize
  <1>1. file \in Files /\ file.size >= HeaderSize /\ cursor \in Nat /\ cursor % 4 = 0
        /\ HeaderSize <= cursor
    BY DEF GlbInv, InFile, CursorInFile
  <1>2. file.size \in Nat /\ Plus(cursor, ChunkHeaderSize) = cursor + ChunkHeaderSize
        /\ Length(file, cursor) \in Nat
    BY ChunkHeaderInFile DEF Length
  <1>3. cursor + ChunkHeaderSize <= file.size
    BY <1>1, <1>2 DEF ChunkHeaderSize
  <1>4. cursor \in Starts(file)
    BY <1>1, <1>3, StartsAre
  <1> QED
    BY <1>1, <1>2, <1>4 DEF PrefixInv

(* In a well-formed file no test of a chunk fails. *)
LEMMA NoChunkError ==
    ASSUME GlbInv, PrefixInv, phase = "chunks", cursor < file.size, WellFormed(file)
    PROVE  /\ ~(file.size - cursor < ChunkHeaderSize)
           /\ ChunkError(Length(file, cursor), Type(file, cursor), cursor + ChunkHeaderSize)
                 = "None"
  <1> DEFINE length == Length(file, cursor)
             type == Type(file, cursor)
             payload == cursor + ChunkHeaderSize
  <1>1. file \in Files /\ cursor \in Nat /\ WellFormedTo(file, cursor)
        /\ file.size >= HeaderSize /\ file.size \in Nat /\ first \in BOOLEAN
    BY FileShape DEF GlbInv, InFile, CursorInFile, PrefixInv
  <1>2. /\ cursor \in Starts(file)
        /\ length % 4 = 0 /\ After(file, cursor) <= file.size
        /\ cursor = HeaderSize <=> type = GlbJsonChunk
        /\ type = GlbBinChunk => \A p \in Prefix(file, cursor) : ~IsBin(file, p)
    BY <1>1, WellFormedGoesOn DEF IsBin
  <1>3. cursor + ChunkHeaderSize <= file.size
    BY <1>1, <1>2, StartsAre
  <1>4. ~(file.size - cursor < ChunkHeaderSize)
    BY <1>1, <1>3 DEF ChunkHeaderSize
  <1>5. length \in Nat /\ After(file, cursor) = payload + length
    BY <1>1, <1>2, AfterIsBehind
  <1>6. first = (type = GlbJsonChunk)
    BY <1>1, <1>2 DEF PrefixInv
  <1>7. ~(type = GlbBinChunk /\ sawBin)
    BY <1>2 DEF PrefixInv
  <1> HIDE DEF length, type
  <1>8. MakeBufferView(file.size, payload, length)
    BY <1>1, <1>2, <1>3, <1>5 DEF MakeBufferView, ChunkHeaderSize
  <1>9. ChunkError(length, type, payload) = "None"
    <2> HIDE DEF payload
    <2> QED
      BY <1>2, <1>6, <1>7, <1>8 DEF ChunkError
  <1> QED
    BY <1>4, <1>9 DEF length, type

LEMMA AcceptChunkPrefixInv ==
    ASSUME GlbInv, PrefixInv, phase = "chunks", cursor < file.size,
           ~(file.size - cursor < ChunkHeaderSize),
           NEW length, NEW type, NEW payload,
           length = Length(file, cursor), type = Type(file, cursor),
           payload = cursor + ChunkHeaderSize,
           ChunkError(length, type, payload) = "None",
           AcceptChunk(length, type, payload)
    PROVE  PrefixInv'
  <1> DEFINE n == After(file, cursor)
  <1>1. /\ file \in Files /\ file.size >= HeaderSize /\ file.size \in Nat
        /\ cursor \in Starts(file) /\ cursor \in Nat
        /\ length \in Nat /\ payload \in Nat
        /\ first <=> cursor = HeaderSize
    BY ChunkAtCursor DEF ChunkHeaderSize
  <1>2. first \in BOOLEAN /\ HeaderSize <= cursor
    BY DEF GlbInv, CursorInFile
  <1>3. length % 4 = 0 /\ payload + length <= file.size /\ first = (type = GlbJsonChunk)
    BY <1>1, <1>2, ChunkInFile
  <1>4. cursor' = n /\ n > cursor /\ n \in Nat
    <2>1. cursor' = payload + length
      BY <1>1, <1>3, PlusInFile DEF AcceptChunk
    <2>2. n = payload + length
      BY <1>1, AfterIsBehind
    <2> QED
      BY <1>1, <2>1, <2>2 DEF ChunkHeaderSize
  <1>5. ~(type = GlbBinChunk /\ sawBin)
    BY DEF ChunkError
  <1>6. /\ HeaderError(file) = NoError /\ error = NoError
        /\ WellFormedTo(file, cursor)
        /\ sawJson <=> ~first
        /\ sawJson => parsed.json = Payload(file, HeaderSize)
        /\ sawBin <=> \E p \in Prefix(file, cursor) : IsBin(file, p)
        /\ \A p \in Prefix(file, cursor) : IsBin(file, p) => parsed.binary = Payload(file, p)
        /\ ~sawBin => parsed.binary = NoView
        /\ sawJson \in BOOLEAN /\ sawBin \in BOOLEAN
    BY DEF PrefixInv
  <1>7. Prefix(file, n) = Prefix(file, cursor) \cup {cursor} /\ WellFormedTo(file, n)
    <2>1. cursor = HeaderSize <=> Type(file, cursor) = GlbJsonChunk
      BY <1>1, <1>3
    <2>2. IsBin(file, cursor) => \A p \in Prefix(file, cursor) : ~IsBin(file, p)
      BY <1>5, <1>6 DEF IsBin
    <2> QED
      BY <1>1, <1>3, <1>6, <2>1, <2>2, PrefixGrows
  <1> HIDE DEF n
  <1>8. [offset |-> payload, length |-> length] = Payload(file, cursor)
    BY DEF Payload
  <1>9. /\ parsed'.json = IF type = GlbJsonChunk THEN Payload(file, cursor) ELSE parsed.json
        /\ parsed'.binary = IF type = GlbBinChunk THEN Payload(file, cursor) ELSE parsed.binary
        /\ sawJson' = (sawJson \/ type = GlbJsonChunk)
        /\ sawBin' = (sawBin \/ type = GlbBinChunk)
        /\ first' = FALSE /\ file' = file /\ phase' = "chunks" /\ error' = error
    BY <1>8 DEF AcceptChunk
  <1>10. /\ sawJson' /\ cursor' # HeaderSize
         /\ parsed'.json = Payload(file, HeaderSize)
    BY <1>1, <1>2, <1>3, <1>4, <1>6, <1>9
  <1>11. type = GlbBinChunk <=> IsBin(file, cursor)
    BY DEF IsBin
  <1>12. /\ sawBin' <=> \E p \in Prefix(file, n) : IsBin(file, p)
         /\ \A p \in Prefix(file, n) : IsBin(file, p) => parsed'.binary = Payload(file, p)
         /\ ~sawBin' => parsed'.binary = NoView
    <2>1. CASE type = GlbBinChunk
      BY <1>5, <1>6, <1>7, <1>9, <1>11, <2>1
    <2>2. CASE type # GlbBinChunk
      BY <1>6, <1>7, <1>9, <1>11, <2>2
    <2> QED
      BY <2>1, <2>2
  <1>13. AcceptsExactly'
    BY <1>9 DEF AcceptsExactly
  <1>14. Prefix(file, cursor)' = Prefix(file, n) /\ WellFormedTo(file, cursor)'
    BY <1>4, <1>7, <1>9
  <1>15. HeaderError(file)' = NoError
    BY <1>6, <1>9
  <1>16. /\ (\E p \in Prefix(file, cursor) : IsBin(file, p))' <=> sawBin'
         /\ (\A p \in Prefix(file, cursor) : IsBin(file, p) => parsed.binary = Payload(file, p))'
    BY <1>9, <1>12, <1>14
  <1> QED
    BY <1>6, <1>9, <1>10, <1>12, <1>13, <1>14, <1>15, <1>16 DEF PrefixInv

LEMMA NextChunkPrefixInv ==
    ASSUME GlbInv, PrefixInv, NextChunk
    PROVE  PrefixInv'
  <1> DEFINE length == Length(file, cursor)
             type == Type(file, cursor)
             payload == cursor + ChunkHeaderSize
  <1>1. phase = "chunks" /\ cursor < file.size
    BY DEF NextChunk
  <1>2. CASE file.size - cursor < ChunkHeaderSize
    <2>1. Fail("ChunkHeaderTruncated", cursor)
      BY <1>2 DEF NextChunk
    <2> QED
      BY <1>1, <1>2, <2>1, NoChunkError, FailPrefixInv
  <1>3. CASE ~(file.size - cursor < ChunkHeaderSize)
    <2>1. ParseChunk(length, type, payload)
      BY <1>1, <1>3, ChunkAtCursor DEF NextChunk, Length, Type
    <2>2. CASE ChunkError(length, type, payload) = "None"
      <3>1. AcceptChunk(length, type, payload)
        BY <2>1, <2>2 DEF ParseChunk
      <3> QED
        BY <1>1, <1>3, <2>2, <3>1, AcceptChunkPrefixInv
    <2>3. CASE ChunkError(length, type, payload) # "None"
      <3>1. \E offset \in {cursor, cursor + 4} :
               Fail(ChunkError(length, type, payload), offset)
        <4> HIDE DEF length, type, payload
        <4> QED
          BY <2>1, <2>3 DEF ParseChunk
      <3>2. ~WellFormed(file)
        BY <1>1, <2>3, NoChunkError
      <3> HIDE DEF length, type, payload
      <3> QED
        BY <1>1, <2>3, <3>1, <3>2, FailPrefixInv
    <2> QED
      BY <2>2, <2>3
  <1> QED
    BY <1>2, <1>3

LEMMA FinishPrefixInv ==
    ASSUME GlbInv, PrefixInv, Finish
    PROVE  PrefixInv'
  <1>1. phase = "chunks" /\ cursor = file.size /\ file \in Files /\ file.size >= HeaderSize
        /\ file.size \in Nat
    <2>1. phase = "chunks" /\ cursor >= file.size
      BY DEF Finish
    <2>2. cursor \in Nat /\ cursor <= file.size /\ file \in Files /\ file.size >= HeaderSize
      BY <2>1 DEF GlbInv, InFile, CursorInFile
    <2> QED
      BY <2>1, <2>2, FileShape
  <1>2. /\ HeaderError(file) = NoError /\ error = NoError
        /\ WellFormedTo(file, file.size)
        /\ first <=> file.size = HeaderSize
        /\ sawJson <=> ~first
        /\ sawJson => parsed.json = Payload(file, HeaderSize)
        /\ sawBin <=> \E p \in Prefix(file, file.size) : IsBin(file, p)
        /\ \A p \in Prefix(file, file.size) : IsBin(file, p) => parsed.binary = Payload(file, p)
        /\ ~sawBin => parsed.binary = NoView
        /\ sawJson \in BOOLEAN /\ sawBin \in BOOLEAN
    BY <1>1 DEF PrefixInv
  <1>3. CASE ~sawJson \/ parsed.json.length = 0
    <2>1. Fail("JsonChunkMissing", HeaderSize)
      BY <1>3 DEF Finish
    <2>2. ASSUME WellFormed(file) PROVE FALSE
      <3>1. HeaderSize \in Starts(file) /\ Length(file, HeaderSize) > 0
        BY <2>2 DEF WellFormed
      <3>2. file.size # HeaderSize
        BY <1>1, <3>1, StartsAre DEF HeaderSize, ChunkHeaderSize
      <3>3. parsed.json.length = Length(file, HeaderSize)
        BY <1>2, <3>2 DEF Payload
      <3>4. Length(file, HeaderSize) \in Nat
        BY <1>1, <3>1, AfterIsBehind
      <3> QED
        BY <1>2, <1>3, <3>1, <3>2, <3>3, <3>4
    <2> QED
      BY <1>1, <2>1, <2>2, FailPrefixInv
  <1>4. CASE ~(~sawJson \/ parsed.json.length = 0)
    <2>1. phase' = "done" /\ out' = parsed
          /\ UNCHANGED <<file, cursor, first, sawJson, sawBin, parsed, error>>
      BY <1>4 DEF Finish
    <2>2. parsed.json = Payload(file, HeaderSize) /\ file.size # HeaderSize
          /\ Length(file, HeaderSize) # 0
      BY <1>2, <1>4 DEF Payload
    <2>3. HeaderSize \in Starts(file)
      BY <1>2, <2>2, ChunksAreLeast DEF WellFormedTo, Prefix
    <2>4. Length(file, HeaderSize) > 0
      BY <1>1, <2>2, <2>3, AfterIsBehind
    <2>5. WellFormed(file) /\ Chunks(file) = Prefix(file, file.size)
      BY <1>1, <1>2, <2>2, <2>4, WholeIsWellFormed
    <2>6. parsed.binary = Binary(file)
      <3>1. CASE \E p \in Chunks(file) : Type(file, p) = GlbBinChunk
        <4> DEFINE b == CHOOSE p \in Chunks(file) : Type(file, p) = GlbBinChunk
        <4>1. b \in Chunks(file) /\ Type(file, b) = GlbBinChunk
          BY <3>1
        <4>2. Binary(file) = Payload(file, b)
          BY <3>1 DEF Binary
        <4> HIDE DEF b
        <4> QED
          BY <1>2, <2>5, <4>1, <4>2 DEF IsBin
      <3>2. CASE ~\E p \in Chunks(file) : Type(file, p) = GlbBinChunk
        BY <1>2, <2>5, <3>2 DEF Binary, IsBin
      <3> QED
        BY <3>1, <3>2
    <2>7. parsed = [json |-> Payload(file, HeaderSize), binary |-> Binary(file)]
      <3>1. parsed \in [json : View, binary : View]
        BY DEF GlbInv, ParsedBeforeCursor
      <3> QED
        BY <2>2, <2>6, <3>1
    <2>8. AcceptsExactly'
      <3>1. file' = file /\ error' = NoError
        BY <1>2, <2>1
      <3>2. WellFormed(file') /\ out' = [json |-> Payload(file', HeaderSize),
                                         binary |-> Binary(file')]
        BY <2>1, <2>5, <2>7, <3>1
      <3> QED
        BY <3>1, <3>2 DEF AcceptsExactly
    <2> QED
      BY <1>2, <2>1, <2>8 DEF PrefixInv
  <1> QED
    BY <1>3, <1>4

(* ParseGlb accepts the files whose chunks tile the container, JSON first and
   once, BIN at most once, and no other, for every file and every width of
   size_t: what it has read is, at every chunk, a well-formed beginning. *)
THEOREM ParsesExactly == GlbSpec => []AcceptsExactly
  <1>1. GlbInit => PrefixInv
    BY DEF GlbInit, PrefixInv, AcceptsExactly
  <1>2. GlbInv /\ PrefixInv /\ [GlbNext]_glbVars => PrefixInv'
    <2> SUFFICES ASSUME GlbInv, PrefixInv, [GlbNext]_glbVars PROVE PrefixInv'
      OBVIOUS
    <2>1. CASE CheckHeader
      BY <2>1, CheckHeaderPrefixInv
    <2>2. CASE NextChunk
      BY <2>2, NextChunkPrefixInv
    <2>3. CASE Finish
      BY <2>3, FinishPrefixInv
    <2>4. CASE UNCHANGED glbVars
      BY <2>4 DEF glbVars, PrefixInv, AcceptsExactly
    <2> QED
      BY <2>1, <2>2, <2>3, <2>4 DEF GlbNext
  <1>3. PrefixInv => AcceptsExactly
    BY DEF PrefixInv
  <1> QED
    BY <1>1, <1>2, <1>3, GlbInvariant, PTL DEF GlbSpec

-----------------------------------------------------------------------------
(* PackageResolver *)

(* A non-empty set of naturals with an upper bound has a largest member: the
   sets of members above each member are well-founded under inclusion, and
   what lies above a minimal one is empty. *)
LEMMA LargestExists ==
    ASSUME NEW n \in Nat, NEW S \in SUBSET (0..n), S # {}
    PROVE  \E x \in S : \A y \in S : y <= x
<1> DEFINE Above(x) == {y \in S : y > x}
           Family == {Above(x) : x \in S}
           Smaller == StrictSubsetOrdering(0..n)
<1>1. IsWellFoundedOn(Smaller, FiniteSubsetsOf(0..n))
  BY FS_StrictSubsetOrderingWellFounded
<1>2. Family \subseteq FiniteSubsetsOf(0..n)
  <2>1. IsFiniteSet(0..n)
    BY FS_Interval
  <2>2. \A x \in S : IsFiniteSet(Above(x)) /\ Above(x) \subseteq 0..n
    BY <2>1, FS_Subset
  <2> QED
    BY <2>2 DEF FiniteSubsetsOf
<1>3. PICK m \in Family : \A a \in Family : ~(<<a, m>> \in Smaller)
  <2>1. Family # {}
    OBVIOUS
  <2> HIDE DEF Family, Smaller
  <2> QED
    BY <1>1, <1>2, <2>1, WFMin
<1>4. PICK x \in S : m = Above(x)
  BY <1>3
<1>5. Above(x) = {}
  <2> SUFFICES ASSUME NEW y \in Above(x) PROVE FALSE
    OBVIOUS
  <2>1. y \in S /\ Above(y) \in Family
    OBVIOUS
  <2>2. Above(y) \subseteq Above(x) /\ Above(y) # Above(x)
    <3>1. x \in Nat /\ y \in Nat /\ y > x /\ S \subseteq Nat
      OBVIOUS
    <3>2. \A z \in Above(y) : z > x
      BY <3>1
    <3>3. y \notin Above(y)
      BY <3>1
    <3> QED
      BY <3>2, <3>3
  <2>3. <<Above(y), Above(x)>> \in Smaller
    BY <2>2 DEF StrictSubsetOrdering
  <2> QED
    BY <1>3, <1>4, <2>1, <2>3
<1> QED
  BY <1>5

(* Under every name of an index is an image whose content has that name. *)
LEMMA IndexServes ==
    ASSUME NEW container \in Container
    PROVE  /\ \A name \in DOMAIN PackageIndex(container) :
                 Serves(name, PackageIndex(container)[name])
           /\ Authored(container) \subseteq DOMAIN PackageIndex(container)
<1>1. DOMAIN container.images = 1..Len(container.images) /\ Len(container.images) \in Nat
  BY DEF Container
<1>2. \A i \in DOMAIN container.images : container.images[i] \in Image
  BY DEF Container
<1>3. ASSUME NEW name \in DOMAIN PackageIndex(container)
      PROVE  Serves(name, PackageIndex(container)[name])
  <2> DEFINE Named == {i \in Indexed(container) : Key(container, i) = name}
             last == LastNamed(container, name)
  <2>1. Named # {}
    BY <1>3 DEF PackageIndex
  <2>2. Named \subseteq 0..Len(container.images)
    BY <1>1 DEF Indexed
  <2>3. PICK i \in Named : \A j \in Named : j <= i
    BY <1>1, <2>1, <2>2, LargestExists
  <2>4. last \in Indexed(container) /\ Key(container, last) = name
    BY <2>3 DEF LastNamed
  <2>5. PackageIndex(container)[name] = container.images[last].bytes
    BY <1>3 DEF PackageIndex
  <2> HIDE DEF last
  <2>6. container.images[last] \in Image
    BY <1>2, <2>4 DEF Indexed
  <2>7. name = [hash |-> Hash[container.images[last].bytes],
                ext |-> SniffImageExt(container.images[last])]
    BY <2>4 DEF Key, MakeEmbeddedResourcePath
  <2>8. Sniffed[container.images[last].bytes] \in {name.ext, "none"}
    BY <2>7 DEF SniffImageExt
  <2> QED
    BY <2>5, <2>7, <2>8 DEF Serves
<1>4. Authored(container) \subseteq DOMAIN PackageIndex(container)
  BY DEF Authored, PackageIndex, Key, Indexed, SniffImageExt, ImporterExt, ImageExt,
         MakeEmbeddedResourcePath
<1> QED
  BY <1>3, <1>4

(* What a call may rely on in the index it answers from. *)
LEMMA SnapshotFacts ==
    ASSUME NEW s \in Snapshots
    PROVE  /\ s.version \in 0..MaxVersion
           /\ s # Null
           /\ \A name \in DOMAIN s.images : Serves(name, s.images[name])
           /\ \A name \in s.authored : Found(s, name)
<1>1. PICK saved \in Versioned : s = Snapshot(saved)
  BY DEF Snapshots
<1>2. saved.version \in 0..MaxVersion /\ saved.container \in Container
  BY ResolverAssumption DEF Versioned
<1>3. /\ s.images = PackageIndex(saved.container)
      /\ s.version = saved.version
      /\ s.authored = Authored(saved.container)
  BY <1>1 DEF Snapshot
<1>4. s # Null
  BY NullAssumption
<1> QED
  BY <1>2, <1>3, <1>4, IndexServes DEF Found

(* A thread with a current cache holds it. *)
LEMMA CurrentCacheHeld ==
    ASSUME TypeOK, NEW t \in Threads
    PROVE  /\ GetCurrentCache(t) \in Caches \cup {Null}
           /\ GetCurrentCache(t) = Null <=> stacks[t] = << >>
           /\ stacks[t] # << >> => Holds(t, GetCurrentCache(t))
<1>1. stacks[t] \in Seq(Caches)
  BY DEF TypeOK
<1>2. stacks[t] # << >> => Len(stacks[t]) \in DOMAIN stacks[t]
  BY <1>1
<1> QED
  BY <1>1, <1>2, ResolverAssumption DEF GetCurrentCache, Holds

LEMMA EnterTyped ==
    ASSUME TypeOK, NEW t \in Threads, NEW op \in {"resolve", "open"},
           NEW p \in Packages, NEW name \in Requests
    PROVE  Enter(t, op, p, name, GetCurrentCache(t)) \in InCall({"build"}, {Null})
<1>1. files[p].version \in 0..MaxVersion
  BY DEF TypeOK, Versioned
<1>2. \A c \in Caches : caches[c].born[p] \in 0..MaxVersion
  BY DEF TypeOK, CacheType
<1>3. stacks[t] # << >> => GetCurrentCache(t) \in Caches
  BY CurrentCacheHeld
<1> QED
  BY <1>1, <1>2, <1>3, CurrentCacheHeld DEF Enter, InCall

LEMMA GrantedTyped ==
    ASSUME NEW call, call.package \in Packages, call.name \in Requests, NEW s
    PROVE  Granted(call, s) \subseteq Packages \X Requests
BY DEF Granted

(* A call that is not idle is one of the two kinds. *)
LEMMA CallKinds ==
    ASSUME TypeOK, NEW t \in Threads
    PROVE  /\ calls[t].at \in {"idle", "build", "insert"}
           /\ calls[t].at = "idle" <=> calls[t] = Idle
           /\ calls[t] # Idle => /\ calls[t].cache \in Caches \cup {Null}
                                 /\ calls[t].package \in Packages
                                 /\ calls[t].name \in Requests
                                 /\ calls[t].op \in {"resolve", "open"}
                                 /\ calls[t].since \in 0..MaxVersion
           /\ calls[t].at = "insert" => calls[t].snapshot \in Snapshots
<1>1. \/ calls[t] = Idle
      \/ calls[t] \in InCall({"build"}, {Null})
      \/ calls[t] \in InCall({"insert"}, Snapshots)
  BY DEF TypeOK
<1>2. Idle.at = "idle"
  BY DEF Idle
<1>3. CASE calls[t] = Idle
  BY <1>2, <1>3
<1>4. CASE calls[t] \in InCall({"build"}, {Null})
  BY <1>2, <1>4 DEF InCall
<1>5. CASE calls[t] \in InCall({"insert"}, Snapshots)
  BY <1>2, <1>5 DEF InCall
<1> QED
  BY <1>1, <1>3, <1>4, <1>5

LEMMA TypeKept == TypeOK /\ [Next]_vars => TypeOK'
<1> SUFFICES ASSUME TypeOK, [Next]_vars PROVE TypeOK'
  OBVIOUS
<1>1. ASSUME NEW p \in Packages, Rewrite(p) PROVE TypeOK'
  <2>1. files[p].version + 1 \in 0..MaxVersion
    BY <1>1, ResolverAssumption DEF Rewrite, TypeOK, Versioned
  <2>2. PICK container \in Containers :
           files' = [files EXCEPT ![p] = [version |-> files[p].version + 1,
                                          container |-> container]]
    BY <1>1 DEF Rewrite
  <2>3. files' \in [Packages -> Versioned]
    BY <2>1, <2>2 DEF TypeOK, Versioned
  <2> QED
    BY <1>1, <2>3 DEF Rewrite, TypeOK
<1>2. ASSUME NEW t \in Threads, BeginCacheScope(t) PROVE TypeOK'
  <2>1. stacks' \in [Threads -> Seq(Caches)]
    <3>1. CASE stacks[t] = << >>
      <4>1. PICK c \in Caches : stacks' = [stacks EXCEPT ![t] = <<c>>]
        BY <1>2, <3>1 DEF BeginCacheScope
      <4>2. <<c>> \in Seq(Caches)
        OBVIOUS
      <4> QED
        BY <4>1, <4>2 DEF TypeOK
    <3>2. CASE stacks[t] # << >>
      <4>1. GetCurrentCache(t) \in Caches
        BY <3>2, CurrentCacheHeld
      <4>2. Append(stacks[t], GetCurrentCache(t)) \in Seq(Caches)
        BY <4>1 DEF TypeOK
      <4>3. stacks' = [stacks EXCEPT ![t] = Append(stacks[t], GetCurrentCache(t))]
        BY <1>2, <3>2 DEF BeginCacheScope
      <4> QED
        BY <4>2, <4>3 DEF TypeOK
    <3> QED
      BY <3>1, <3>2
  <2>2. \A c \in Caches : Cache([p \in Packages |-> files[p].version]) \in CacheType
    BY DEF TypeOK, Versioned, Cache, CacheType
  <2>3. caches' \in [Caches -> CacheType]
    BY <1>2, <2>2 DEF BeginCacheScope, TypeOK
  <2> QED
    BY <1>2, <2>1, <2>3 DEF BeginCacheScope, TypeOK
<1>3. ASSUME NEW t \in Threads, NEW u \in Threads, BeginSharedScope(t, u) PROVE TypeOK'
  <2>1. GetCurrentCache(u) \in Caches
    BY <1>3, CurrentCacheHeld DEF BeginSharedScope
  <2>2. stacks' \in [Threads -> Seq(Caches)]
    BY <1>3, <2>1 DEF BeginSharedScope, TypeOK
  <2>3. [caches[GetCurrentCache(u)] EXCEPT !.shared = TRUE] \in CacheType
    BY <2>1 DEF TypeOK, CacheType
  <2>4. caches' = [caches EXCEPT ![GetCurrentCache(u)] =
                      [caches[GetCurrentCache(u)] EXCEPT !.shared = TRUE]]
    BY <1>3 DEF BeginSharedScope
  <2>5. caches' \in [Caches -> CacheType]
    BY <2>1, <2>3, <2>4 DEF TypeOK
  <2> QED
    BY <1>3, <2>2, <2>5 DEF BeginSharedScope, TypeOK
<1>4. ASSUME NEW t \in Threads, EndCacheScope(t) PROVE TypeOK'
  <2>1. stacks[t] \in Seq(Caches) /\ stacks[t] # << >>
    BY <1>4 DEF EndCacheScope, TypeOK
  <2>2. SubSeq(stacks[t], 1, Len(stacks[t]) - 1) \in Seq(Caches)
    BY <2>1
  <2>3. stacks' \in [Threads -> Seq(Caches)]
    BY <1>4, <2>2 DEF EndCacheScope, TypeOK
  <2>4. Released \in CacheType
    BY ResolverAssumption DEF Released, Cache, CacheType
  <2>5. caches' \in [Caches -> CacheType]
    BY <1>4, <2>4 DEF EndCacheScope, TypeOK
  <2> QED
    BY <1>4, <2>3, <2>5 DEF EndCacheScope, TypeOK
<1>5. ASSUME NEW t \in Threads, NEW op \in {"resolve", "open"}, NEW p \in Packages,
             NEW name \in Requests, FindCached(t, op, p, name)
      PROVE  TypeOK'
  <2> DEFINE c == GetCurrentCache(t)
             grants == Granted(Enter(t, op, p, name, c), caches[c].packages[p])
  <2>1. c \in Caches
    BY <1>5, CurrentCacheHeld DEF FindCached, Cached
  <2>2. grants \subseteq Packages \X Requests
    <3>1. Enter(t, op, p, name, c) \in InCall({"build"}, {Null})
      BY EnterTyped
    <3>2. Enter(t, op, p, name, c).package \in Packages /\ Enter(t, op, p, name, c).name \in Requests
      BY <3>1 DEF InCall
    <3> QED
      BY <3>2, GrantedTyped
  <2>3. caches' = [caches EXCEPT ![c].granted = @ \cup grants]
    BY <1>5 DEF FindCached
  <2> HIDE DEF c, grants
  <2>4. [caches[c] EXCEPT !.granted = @ \cup grants] \in CacheType
    BY <2>1, <2>2 DEF TypeOK, CacheType
  <2>5. caches' \in [Caches -> CacheType]
    BY <2>1, <2>3, <2>4 DEF TypeOK
  <2> QED
    BY <1>5, <2>5 DEF FindCached, TypeOK
<1>6. ASSUME NEW t \in Threads, NEW op \in {"resolve", "open"}, NEW p \in Packages,
             NEW name \in Requests, FindMissing(t, op, p, name)
      PROVE  TypeOK'
  BY <1>6, EnterTyped DEF FindMissing, TypeOK
<1>7. ASSUME NEW t \in Threads, BuildPackageIndex(t) PROVE TypeOK'
  <2>1. calls[t] \in InCall({"build"}, {Null})
    BY <1>7 DEF BuildPackageIndex, TypeOK, Idle, InCall
  <2>2. Snapshot(files[calls[t].package]) \in Snapshots
    BY <2>1 DEF InCall, Snapshots, TypeOK
  <2>3. [calls[t] EXCEPT !.at = "insert", !.snapshot = Snapshot(files[calls[t].package])]
          \in InCall({"insert"}, Snapshots)
    BY <2>1, <2>2 DEF InCall
  <2>4. calls' = [calls EXCEPT ![t] = [calls[t] EXCEPT !.at = "insert",
                                         !.snapshot = Snapshot(files[calls[t].package])]]
    BY <1>7 DEF BuildPackageIndex
  <2>5. calls' \in [Threads -> {Idle} \cup InCall({"build"}, {Null})
                                      \cup InCall({"insert"}, Snapshots)]
    BY <2>3, <2>4 DEF TypeOK
  <2> QED
    BY <1>7, <2>5 DEF BuildPackageIndex, TypeOK
<1>8. ASSUME NEW t \in Threads, InsertPackageIndex(t) PROVE TypeOK'
  <2>1. calls' \in [Threads -> {Idle} \cup InCall({"build"}, {Null})
                                      \cup InCall({"insert"}, Snapshots)]
    BY <1>8 DEF InsertPackageIndex, TypeOK
  <2>2. caches' \in [Caches -> CacheType]
    <3> DEFINE c == calls[t].cache
               p == calls[t].package
               grants == Granted(calls[t], calls[t].snapshot)
    <3>1. calls[t].at = "insert"
      BY <1>8 DEF InsertPackageIndex
    <3>2. c \in Caches \cup {Null} /\ p \in Packages /\ calls[t].snapshot \in Snapshots
      BY <3>1, CallKinds
    <3>3. grants \subseteq Packages \X Requests
      BY <3>1, CallKinds, GrantedTyped
    <3>4. CASE c = Null
      BY <1>8, <3>4 DEF InsertPackageIndex, TypeOK
    <3>5. CASE c # Null
      <4>1. PICK kept \in Kept(t) :
               caches' = [caches EXCEPT ![c].packages[p] = kept, ![c].granted = @ \cup grants]
        BY <1>8, <3>5 DEF InsertPackageIndex
      <4>2. kept \in Snapshots \cup {Null}
        BY <3>2, <3>5 DEF Kept, TypeOK, CacheType
      <4> HIDE DEF c, p, grants
      <4>3. [caches[c] EXCEPT !.packages[p] = kept, !.granted = @ \cup grants] \in CacheType
        BY <3>2, <3>3, <3>5, <4>2 DEF TypeOK, CacheType
      <4> QED
        BY <3>2, <3>5, <4>1, <4>3 DEF TypeOK
    <3> QED
      BY <3>4, <3>5
  <2> QED
    BY <1>8, <2>1, <2>2 DEF InsertPackageIndex, TypeOK
<1>9. CASE UNCHANGED vars
  BY <1>9 DEF vars, TypeOK
<1> QED
  BY <1>1, <1>2, <1>3, <1>4, <1>5, <1>6, <1>7, <1>8, <1>9 DEF Next

(* Spec => []TypeOK: whatever threads do and however packages change, an index in a cache
   is the index of some version of a package, and a call returns only with one. *)
THEOREM ResolverTypeCorrect == Spec => []TypeOK
<1>1. Init => TypeOK
  <2> SUFFICES ASSUME Init PROVE TypeOK
    OBVIOUS
  <2>1. files \in [Packages -> Versioned]
    BY ResolverAssumption DEF Init, Versioned
  <2>2. Released \in CacheType
    BY ResolverAssumption DEF Released, Cache, CacheType
  <2> QED
    BY <2>1, <2>2 DEF Init, TypeOK
<1> QED
  BY <1>1, TypeKept, PTL DEF Spec

-----------------------------------------------------------------------------
(* What a step does to scopes and caches *)

(* A thread holds the cache its call works on. *)
LEMMA CallHoldsCache ==
    ASSUME TypeOK, CallsInScope, NEW t \in Threads, calls[t] # Idle,
           calls[t].cache # Null
    PROVE  calls[t].cache \in Caches /\ Holds(t, calls[t].cache)
BY CurrentCacheHeld, CallKinds DEF CallsInScope

(* A scope that opens on a held cache changes nobody's holdings. *)
LEMMA AppendHolds ==
    ASSUME TypeOK, NEW t \in Threads, NEW c \in Caches,
           stacks' = [stacks EXCEPT ![t] = Append(stacks[t], c)]
    PROVE  \A x \in Threads, d \in Caches : Holds(x, d)' <=> Holds(x, d) \/ (x = t /\ d = c)
<1> SUFFICES ASSUME NEW x \in Threads, NEW d \in Caches
             PROVE  Holds(x, d)' <=> Holds(x, d) \/ (x = t /\ d = c)
  OBVIOUS
<1>1. CASE x # t
  BY <1>1 DEF Holds, TypeOK
<1>2. CASE x = t
  <2>1. /\ stacks'[t] = Append(stacks[t], c)
        /\ stacks[t] \in Seq(Caches)
        /\ Len(stacks[t]) \in Nat
    BY DEF TypeOK
  <2>2. /\ DOMAIN stacks[t] = 1..Len(stacks[t])
        /\ DOMAIN stacks'[t] = 1..(Len(stacks[t]) + 1)
        /\ \A k \in 1..Len(stacks[t]) : stacks'[t][k] = stacks[t][k]
        /\ stacks'[t][Len(stacks[t]) + 1] = c
    BY <2>1
  <2>3. \A k \in 1..(Len(stacks[t]) + 1) : k = Len(stacks[t]) + 1 \/ k \in 1..Len(stacks[t])
    BY <2>1
  <2>4. Len(stacks[t]) + 1 \in 1..(Len(stacks[t]) + 1)
        /\ 1..Len(stacks[t]) \subseteq 1..(Len(stacks[t]) + 1)
    BY <2>1
  <2> QED
    BY <1>2, <2>2, <2>3, <2>4 DEF Holds
<1> QED
  BY <1>1, <1>2

(* Ending a scope gives up holdings at most. *)
LEMMA EndHolds ==
    ASSUME TypeOK, NEW t \in Threads, EndCacheScope(t)
    PROVE  \A x \in Threads, d \in Caches : Holds(x, d)' => Holds(x, d)
<1> SUFFICES ASSUME NEW x \in Threads, NEW d \in Caches, Holds(x, d)'
             PROVE  Holds(x, d)
  OBVIOUS
<1>1. stacks' = [stacks EXCEPT ![t] = SubSeq(stacks[t], 1, Len(stacks[t]) - 1)]
  BY DEF EndCacheScope
<1>2. CASE x # t
  BY <1>1, <1>2 DEF Holds, TypeOK
<1>3. CASE x = t
  <2>1. stacks[t] \in Seq(Caches) /\ Len(stacks[t]) \in Nat /\ Len(stacks[t]) # 0
    BY DEF EndCacheScope, TypeOK
  <2>2. /\ DOMAIN stacks'[t] = 1..(Len(stacks[t]) - 1)
        /\ \A k \in 1..(Len(stacks[t]) - 1) : stacks'[t][k] = stacks[t][k]
        /\ DOMAIN stacks[t] = 1..Len(stacks[t])
    BY <1>1, <2>1 DEF TypeOK
  <2>3. 1..(Len(stacks[t]) - 1) \subseteq 1..Len(stacks[t])
    BY <2>1
  <2> QED
    BY <1>3, <2>2, <2>3 DEF Holds
<1> QED
  BY <1>2, <1>3

(* A cache that some thread still holds survives the end of another's scope. *)
LEMMA EndCaches ==
    ASSUME TypeOK, NEW t \in Threads, EndCacheScope(t), NEW c \in Caches
    PROVE  /\ caches'[c] = caches[c] \/ caches'[c] = Released
           /\ c \in InUse(stacks') => caches'[c] = caches[c]
           /\ (\E x \in Threads : Holds(x, c)') => caches'[c] = caches[c]
<1>1. caches' = [d \in Caches |-> IF d \in InUse(stacks') THEN caches[d] ELSE Released]
  BY DEF EndCacheScope
<1> QED
  BY <1>1 DEF InUse, Holds

(* What an insert does to each cache. *)
LEMMA InsertCaches ==
    ASSUME TypeOK, NEW t \in Threads, InsertPackageIndex(t), NEW c \in Caches
    PROVE  \/ c # calls[t].cache /\ caches'[c] = caches[c]
           \/ /\ c = calls[t].cache
              /\ \E kept \in Kept(t) :
                    /\ kept \in Snapshots \cup {Null}
                    /\ caches'[c] = [packages |-> [caches[c].packages EXCEPT
                                                      ![calls[t].package] = kept],
                                     born |-> caches[c].born, shared |-> caches[c].shared,
                                     granted |-> caches[c].granted \cup
                                                    Granted(calls[t], calls[t].snapshot)]
<1>1. calls[t].at = "insert"
  BY DEF InsertPackageIndex
<1>2. /\ calls[t].cache \in Caches \cup {Null}
      /\ calls[t].package \in Packages
      /\ calls[t].snapshot \in Snapshots
  BY <1>1, CallKinds
<1>3. CASE calls[t].cache = Null
  BY <1>3, ResolverAssumption DEF InsertPackageIndex
<1>4. CASE calls[t].cache # Null
  <2>1. PICK kept \in Kept(t) :
           caches' = [caches EXCEPT ![calls[t].cache].packages[calls[t].package] = kept,
                                    ![calls[t].cache].granted =
                                        @ \cup Granted(calls[t], calls[t].snapshot)]
    BY <1>4 DEF InsertPackageIndex
  <2>2. kept \in Snapshots \cup {Null}
    BY <1>2, <1>4 DEF Kept, TypeOK, CacheType
  <2>3. CASE c # calls[t].cache
    BY <1>2, <1>4, <2>1, <2>3 DEF TypeOK
  <2>4. CASE c = calls[t].cache
    <3>1. caches[c] \in CacheType
      BY DEF TypeOK
    <3>2. caches[c] = [packages |-> caches[c].packages, born |-> caches[c].born,
                       shared |-> caches[c].shared, granted |-> caches[c].granted]
      BY <3>1 DEF CacheType
    <3> DEFINE grants == Granted(calls[t], calls[t].snapshot)
               p == calls[t].package
    <3> HIDE DEF grants, p
    <3>3. caches' = [caches EXCEPT ![c].packages[p] = kept, ![c].granted = @ \cup grants]
      BY <2>1, <2>4 DEF grants, p
    <3>4. caches'[c] = [[caches[c] EXCEPT !.packages[p] = kept] EXCEPT !.granted = @ \cup grants]
      BY <3>3 DEF TypeOK
    <3>5. caches'[c] = [packages |-> [caches[c].packages EXCEPT ![p] = kept],
                        born |-> caches[c].born, shared |-> caches[c].shared,
                        granted |-> caches[c].granted \cup grants]
      BY <3>2, <3>4
    <3> QED
      BY <2>2, <2>4, <3>5 DEF grants, p
  <2> QED
    BY <2>3, <2>4
<1> QED
  BY <1>3, <1>4

(* An insertion that changes a cache changes the caller's own. *)
LEMMA InsertedCache ==
    ASSUME TypeOK, NEW t \in Threads, InsertPackageIndex(t), NEW c \in Caches,
           caches'[c] # caches[c]
    PROVE  /\ c = calls[t].cache
           /\ \E kept \in Kept(t) :
                 caches'[c] = [packages |-> [caches[c].packages EXCEPT
                                                ![calls[t].package] = kept],
                               born |-> caches[c].born, shared |-> caches[c].shared,
                               granted |-> caches[c].granted \cup
                                              Granted(calls[t], calls[t].snapshot)]
<1> DEFINE With(kept) == [packages |-> [caches[c].packages EXCEPT ![calls[t].package] = kept],
                           born |-> caches[c].born, shared |-> caches[c].shared,
                           granted |-> caches[c].granted \cup
                                          Granted(calls[t], calls[t].snapshot)]
<1>1. \/ c # calls[t].cache /\ caches'[c] = caches[c]
      \/ /\ c = calls[t].cache
         /\ \E kept \in Kept(t) : kept \in Snapshots \cup {Null} /\ caches'[c] = With(kept)
  BY InsertCaches
<1> HIDE DEF With
<1>2. c = calls[t].cache /\ \E kept \in Kept(t) : caches'[c] = With(kept)
  BY <1>1
<1> QED
  BY <1>2 DEF With

(* What a hit does to each cache. *)
LEMMA FindCaches ==
    ASSUME TypeOK, NEW t \in Threads, NEW op \in {"resolve", "open"}, NEW p \in Packages,
           NEW name \in Requests, FindCached(t, op, p, name), NEW c \in Caches
    PROVE  /\ caches'[c].packages = caches[c].packages
           /\ caches'[c].born = caches[c].born
           /\ caches'[c].shared = caches[c].shared
           /\ \A g \in caches'[c].granted :
                 \/ g \in caches[c].granted
                 \/ /\ g = <<p, name>>
                    /\ caches[c].packages[p] # Null
                    /\ Found(caches[c].packages[p], name)
<1> DEFINE own == GetCurrentCache(t)
           call == Enter(t, op, p, name, own)
           grants == Granted(call, caches[own].packages[p])
<1>1. own \in Caches /\ caches[own].packages[p] # Null
  BY CurrentCacheHeld DEF FindCached, Cached
<1>2. call.package = p /\ call.name = name
  BY DEF Enter
<1>3. \A g \in grants : g = <<p, name>> /\ Found(caches[own].packages[p], name)
  BY <1>2 DEF Granted
<1>4. caches' = [caches EXCEPT ![own].granted = @ \cup grants]
  BY DEF FindCached
<1> HIDE DEF own, call, grants
<1>5. caches[c] \in CacheType
  BY DEF TypeOK
<1>6. CASE c # own
  BY <1>1, <1>4, <1>6 DEF TypeOK
<1>7. CASE c = own
  <2>1. caches'[c] = [caches[c] EXCEPT !.granted = @ \cup grants]
    BY <1>1, <1>4, <1>7 DEF TypeOK
  <2>2. /\ caches'[c].packages = caches[c].packages
        /\ caches'[c].born = caches[c].born
        /\ caches'[c].shared = caches[c].shared
        /\ caches'[c].granted = caches[c].granted \cup grants
    BY <1>5, <2>1 DEF CacheType
  <2> QED
    BY <1>1, <1>3, <1>7, <2>2
<1> QED
  BY <1>6, <1>7

(* Steps that leave the scopes and who shares what alone. *)
CallStep(t) ==
    \/ \E op \in {"resolve", "open"}, p \in Packages, name \in Requests :
          FindCached(t, op, p, name) \/ FindMissing(t, op, p, name)
    \/ BuildPackageIndex(t)
    \/ InsertPackageIndex(t)

LEMMA CallStepScopes ==
    ASSUME TypeOK, NEW t \in Threads, CallStep(t)
    PROVE  /\ stacks' = stacks
           /\ \A c \in Caches : /\ caches'[c].shared = caches[c].shared
                                /\ caches'[c].born = caches[c].born
<1>1. CASE \E op \in {"resolve", "open"}, p \in Packages, name \in Requests :
              FindCached(t, op, p, name)
  BY <1>1, FindCaches DEF FindCached
<1>2. CASE \E op \in {"resolve", "open"}, p \in Packages, name \in Requests :
              FindMissing(t, op, p, name)
  BY <1>2 DEF FindMissing
<1>3. CASE BuildPackageIndex(t)
  BY <1>3 DEF BuildPackageIndex
<1>4. CASE InsertPackageIndex(t)
  <2>1. stacks' = stacks
    BY <1>4 DEF InsertPackageIndex
  <2>2. ASSUME NEW c \in Caches
        PROVE  caches'[c].shared = caches[c].shared /\ caches'[c].born = caches[c].born
    <3>1. CASE caches'[c] = caches[c]
      BY <3>1
    <3>2. CASE caches'[c] # caches[c]
      <4>1. PICK kept \in Kept(t) :
               caches'[c] = [packages |-> [caches[c].packages EXCEPT
                                              ![calls[t].package] = kept],
                             born |-> caches[c].born, shared |-> caches[c].shared,
                             granted |-> caches[c].granted \cup
                                            Granted(calls[t], calls[t].snapshot)]
        BY <1>4, <3>2, InsertedCache
      <4> QED
        BY <4>1
    <3> QED
      BY <3>1, <3>2
  <2> QED
    BY <2>1, <2>2
<1> QED
  BY <1>1, <1>2, <1>3, <1>4 DEF CallStep

(* Opening a scope, seen from the caches and from the threads that hold them. *)
LEMMA BeginCases ==
    ASSUME TypeOK, NEW t \in Threads, BeginCacheScope(t)
    PROVE  \/ \E c \in Caches :
                 /\ \A x \in Threads : ~Holds(x, c)
                 /\ \A x \in Threads, d \in Caches :
                       Holds(x, d)' <=> Holds(x, d) \/ (x = t /\ d = c)
                 /\ caches'[c] = Cache([p \in Packages |-> files[p].version])
                 /\ \A d \in Caches \ {c} : caches'[d] = caches[d]
           \/ /\ caches' = caches
              /\ \A x \in Threads, d \in Caches : Holds(x, d)' <=> Holds(x, d)
<1>1. CASE stacks[t] = << >>
  <2>1. PICK c \in Caches \ InUse(stacks) :
           /\ stacks' = [stacks EXCEPT ![t] = <<c>>]
           /\ caches' = [caches EXCEPT ![c] = Cache([p \in Packages |-> files[p].version])]
    BY <1>1 DEF BeginCacheScope
  <2>2. \A x \in Threads : ~Holds(x, c)
    BY <2>1 DEF InUse, Holds
  <2>3. stacks' = [stacks EXCEPT ![t] = Append(stacks[t], c)]
    <3>1. Append(stacks[t], c) = <<c>>
      BY <1>1
    <3> QED
      BY <2>1, <3>1
  <2>4. \A x \in Threads, d \in Caches : Holds(x, d)' <=> Holds(x, d) \/ (x = t /\ d = c)
    BY <2>3, AppendHolds
  <2> QED
    BY <2>1, <2>2, <2>4 DEF TypeOK
<1>2. CASE stacks[t] # << >>
  <2>1. /\ stacks' = [stacks EXCEPT ![t] = Append(stacks[t], GetCurrentCache(t))]
        /\ caches' = caches
    BY <1>2 DEF BeginCacheScope
  <2>2. GetCurrentCache(t) \in Caches /\ Holds(t, GetCurrentCache(t))
    BY <1>2, CurrentCacheHeld
  <2> QED
    BY <2>1, <2>2, AppendHolds
<1> QED
  BY <1>1, <1>2

(* Sharing a scope marks one cache and changes nothing else in the caches. *)
LEMMA SharedCaches ==
    ASSUME TypeOK, NEW t \in Threads, NEW u \in Threads, BeginSharedScope(t, u)
    PROVE  \E c \in Caches :
              /\ caches'[c].shared
              /\ \A x \in Threads, d \in Caches :
                    Holds(x, d)' <=> Holds(x, d) \/ (x = t /\ d = c)
              /\ \A d \in Caches : /\ d # c => caches'[d] = caches[d]
                                   /\ caches'[d].packages = caches[d].packages
                                   /\ caches'[d].born = caches[d].born
                                   /\ caches'[d].granted = caches[d].granted
<1> DEFINE c == GetCurrentCache(u)
<1>1. c \in Caches
  BY CurrentCacheHeld DEF BeginSharedScope
<1>2. /\ stacks' = [stacks EXCEPT ![t] = Append(stacks[t], c)]
      /\ caches' = [caches EXCEPT ![c].shared = TRUE]
  BY DEF BeginSharedScope
<1> HIDE DEF c
<1>3. \A x \in Threads, d \in Caches : Holds(x, d)' <=> Holds(x, d) \/ (x = t /\ d = c)
  BY <1>1, <1>2, AppendHolds
<1>4. \A d \in Caches : caches[d] \in CacheType
  BY DEF TypeOK
<1>5. caches'[c] = [caches[c] EXCEPT !.shared = TRUE] /\ \A d \in Caches \ {c} : caches'[d] = caches[d]
  BY <1>1, <1>2 DEF TypeOK
<1>6. /\ caches'[c].shared
      /\ caches'[c].packages = caches[c].packages
      /\ caches'[c].born = caches[c].born
      /\ caches'[c].granted = caches[c].granted
  BY <1>1, <1>4, <1>5 DEF CacheType
<1> QED
  BY <1>1, <1>3, <1>5, <1>6

-----------------------------------------------------------------------------
(* The parts of the inductive invariant *)

LEMMA ScopesOwnedKept ==
    TypeOK /\ ScopesOwned /\ [Next]_vars => ScopesOwned'
<1> SUFFICES ASSUME TypeOK, ScopesOwned, [Next]_vars PROVE ScopesOwned'
  OBVIOUS
<1>1. ASSUME stacks' = stacks, \A c \in Caches : caches'[c].shared = caches[c].shared
      PROVE  ScopesOwned'
  BY <1>1 DEF ScopesOwned, Holds
<1>2. CASE UNCHANGED vars \/ \E p \in Packages : Rewrite(p)
  BY <1>1, <1>2 DEF vars, Rewrite
<1>3. ASSUME NEW t \in Threads, CallStep(t) PROVE ScopesOwned'
  BY <1>1, <1>3, CallStepScopes
<1>4. ASSUME NEW t \in Threads, BeginCacheScope(t) PROVE ScopesOwned'
  <2>1. CASE caches' = caches /\ \A x \in Threads, d \in Caches : Holds(x, d)' <=> Holds(x, d)
    BY <2>1 DEF ScopesOwned
  <2>2. ASSUME NEW c \in Caches, \A x \in Threads : ~Holds(x, c),
               \A x \in Threads, d \in Caches :
                  Holds(x, d)' <=> Holds(x, d) \/ (x = t /\ d = c),
               \A d \in Caches \ {c} : caches'[d] = caches[d]
        PROVE  ScopesOwned'
    BY <2>2 DEF ScopesOwned
  <2> QED
    BY <1>4, <2>1, <2>2, BeginCases
<1>5. ASSUME NEW t \in Threads, NEW u \in Threads, BeginSharedScope(t, u)
      PROVE  ScopesOwned'
  BY <1>5, SharedCaches DEF ScopesOwned
<1>6. ASSUME NEW t \in Threads, EndCacheScope(t) PROVE ScopesOwned'
  <2> SUFFICES ASSUME NEW c \in Caches, ~caches'[c].shared,
                      NEW x \in Threads, NEW y \in Threads, Holds(x, c)', Holds(y, c)'
               PROVE  x = y
    BY DEF ScopesOwned
  <2>1. caches'[c] = caches[c]
    BY <1>6, EndCaches
  <2> QED
    BY <1>6, <2>1, EndHolds DEF ScopesOwned
<1> QED
  BY <1>2, <1>3, <1>4, <1>5, <1>6 DEF Next, CallStep

LEMMA CallsInScopeKept ==
    TypeOK /\ ScopesOwned /\ CallsInScope /\ [Next]_vars => CallsInScope'
<1> SUFFICES ASSUME TypeOK, ScopesOwned, CallsInScope, [Next]_vars PROVE CallsInScope'
  OBVIOUS
<1>1. ASSUME NEW x \in Threads, calls'[x] # Idle, calls'[x] = calls[x],
             stacks'[x] = stacks[x],
             calls[x].cache # Null => /\ caches'[calls[x].cache].packages
                                            = caches[calls[x].cache].packages
                                      /\ caches[calls[x].cache].shared
                                            => caches'[calls[x].cache].shared
      PROVE  /\ calls'[x].cache = GetCurrentCache(x)'
             /\ calls'[x].cache # Null /\ ~caches'[calls'[x].cache].shared =>
                   caches'[calls'[x].cache].packages[calls'[x].package] = Null
  BY <1>1 DEF CallsInScope, GetCurrentCache
<1>2. CASE UNCHANGED vars \/ \E p \in Packages : Rewrite(p)
  BY <1>2 DEF vars, Rewrite, CallsInScope, GetCurrentCache
<1>3. ASSUME NEW t \in Threads, BeginCacheScope(t) PROVE CallsInScope'
  <2> SUFFICES ASSUME NEW x \in Threads, calls'[x] # Idle
               PROVE  /\ calls'[x].cache = GetCurrentCache(x)'
                      /\ calls'[x].cache # Null /\ ~caches'[calls'[x].cache].shared =>
                            caches'[calls'[x].cache].packages[calls'[x].package] = Null
    BY DEF CallsInScope
  <2>1. calls' = calls /\ x # t
    BY <1>3, CallKinds DEF BeginCacheScope, CanBegin
  <2>2. stacks'[x] = stacks[x]
    BY <1>3, <2>1 DEF BeginCacheScope, TypeOK
  <2>3. ASSUME calls[x].cache # Null
        PROVE  caches'[calls[x].cache] = caches[calls[x].cache]
    <3>1. calls[x].cache \in Caches /\ Holds(x, calls[x].cache)
      BY <2>1, <2>3, CallHoldsCache
    <3>2. \/ caches' = caches
          \/ \E c \in Caches : /\ \A y \in Threads : ~Holds(y, c)
                               /\ \A d \in Caches \ {c} : caches'[d] = caches[d]
      BY <1>3, BeginCases
    <3> QED
      BY <3>1, <3>2
  <2> QED
    BY <1>1, <2>1, <2>2, <2>3
<1>4. ASSUME NEW t \in Threads, NEW u \in Threads, BeginSharedScope(t, u)
      PROVE  CallsInScope'
  <2> SUFFICES ASSUME NEW x \in Threads, calls'[x] # Idle
               PROVE  /\ calls'[x].cache = GetCurrentCache(x)'
                      /\ calls'[x].cache # Null /\ ~caches'[calls'[x].cache].shared =>
                            caches'[calls'[x].cache].packages[calls'[x].package] = Null
    BY DEF CallsInScope
  <2>1. calls' = calls /\ x # t
    BY <1>4, CallKinds DEF BeginSharedScope, CanBegin
  <2>2. stacks'[x] = stacks[x]
    BY <1>4, <2>1 DEF BeginSharedScope, TypeOK
  <2>3. calls[x].cache # Null => /\ caches'[calls[x].cache].packages
                                       = caches[calls[x].cache].packages
                                 /\ caches[calls[x].cache].shared
                                       => caches'[calls[x].cache].shared
    BY <1>4, <2>1, SharedCaches, CallHoldsCache
  <2> QED
    BY <1>1, <2>1, <2>2, <2>3
<1>5. ASSUME NEW t \in Threads, EndCacheScope(t) PROVE CallsInScope'
  <2> SUFFICES ASSUME NEW x \in Threads, calls'[x] # Idle
               PROVE  /\ calls'[x].cache = GetCurrentCache(x)'
                      /\ calls'[x].cache # Null /\ ~caches'[calls'[x].cache].shared =>
                            caches'[calls'[x].cache].packages[calls'[x].package] = Null
    BY DEF CallsInScope
  <2>1. calls' = calls /\ x # t
    BY <1>5, CallKinds DEF EndCacheScope
  <2>2. stacks'[x] = stacks[x]
    BY <1>5, <2>1 DEF EndCacheScope, TypeOK
  <2>3. ASSUME calls[x].cache # Null
        PROVE  calls[x].cache \in Caches /\ calls[x].cache \in InUse(stacks')
    <3>1. calls[x].cache \in Caches /\ Holds(x, calls[x].cache)
      BY <2>1, <2>3, CallHoldsCache
    <3> QED
      BY <2>2, <3>1 DEF Holds, InUse
  <2>4. calls[x].cache # Null => caches'[calls[x].cache] = caches[calls[x].cache]
    BY <1>5, <2>3, EndCaches
  <2> QED
    BY <1>1, <2>1, <2>2, <2>4
<1>6. ASSUME NEW t \in Threads, NEW op \in {"resolve", "open"}, NEW p \in Packages,
             NEW name \in Requests, FindCached(t, op, p, name)
      PROVE  CallsInScope'
  <2> SUFFICES ASSUME NEW x \in Threads, calls'[x] # Idle
               PROVE  /\ calls'[x].cache = GetCurrentCache(x)'
                      /\ calls'[x].cache # Null /\ ~caches'[calls'[x].cache].shared =>
                            caches'[calls'[x].cache].packages[calls'[x].package] = Null
    BY DEF CallsInScope
  <2>1. calls' = calls /\ stacks' = stacks
    BY <1>6 DEF FindCached
  <2>2. calls[x].cache # Null => /\ caches'[calls[x].cache].packages
                                       = caches[calls[x].cache].packages
                                 /\ caches[calls[x].cache].shared
                                       => caches'[calls[x].cache].shared
    BY <1>6, <2>1, FindCaches, CallHoldsCache
  <2> QED
    BY <1>1, <2>1, <2>2
<1>7. ASSUME NEW t \in Threads, NEW op \in {"resolve", "open"}, NEW p \in Packages,
             NEW name \in Requests, FindMissing(t, op, p, name)
      PROVE  CallsInScope'
  <2> DEFINE c == GetCurrentCache(t)
  <2>1. /\ calls'[t].cache = c /\ calls'[t].package = p
        /\ \A x \in Threads \ {t} : calls'[x] = calls[x]
    BY <1>7 DEF FindMissing, Enter, TypeOK
  <2>2. stacks' = stacks /\ caches' = caches
    BY <1>7 DEF FindMissing
  <2>3. ASSUME c # Null, ~caches[c].shared PROVE caches[c].packages[p] = Null
    <3>1. c \in Caches /\ Holds(t, c)
      BY <2>3, CurrentCacheHeld
    <3>2. ~Racing(t, c)
      <4> SUFFICES ASSUME NEW u \in Threads \ {t}, calls[u].at = "insert", calls[u].cache = c
                   PROVE  FALSE
        BY DEF Racing
      <4>1. Holds(u, c)
        BY <2>3, CallHoldsCache, CallKinds
      <4> QED
        BY <2>3, <3>1, <4>1 DEF ScopesOwned
    <3> QED
      BY <1>7, <2>3, <3>2 DEF FindMissing, Cached
  <2> HIDE DEF c
  <2>4. c = GetCurrentCache(t)'
    BY <2>2 DEF c, GetCurrentCache
  <2>5. ASSUME NEW x \in Threads, x # t, calls'[x] # Idle
        PROVE  /\ calls'[x].cache = GetCurrentCache(x)'
               /\ calls'[x].cache # Null /\ ~caches'[calls'[x].cache].shared =>
                     caches'[calls'[x].cache].packages[calls'[x].package] = Null
    BY <1>1, <2>1, <2>2, <2>5
  <2> QED
    BY <2>1, <2>2, <2>3, <2>4, <2>5 DEF CallsInScope
<1>8. ASSUME NEW t \in Threads, BuildPackageIndex(t) PROVE CallsInScope'
  <2>1. /\ stacks' = stacks /\ caches' = caches
        /\ \A x \in Threads \ {t} : calls'[x] = calls[x]
    BY <1>8 DEF BuildPackageIndex, TypeOK
  <2>2. calls[t] \in InCall({"build"}, {Null}) /\ calls[t] # Idle
    BY <1>8 DEF BuildPackageIndex, TypeOK, InCall, Idle
  <2>3. calls'[t] = [calls[t] EXCEPT !.at = "insert",
                                     !.snapshot = Snapshot(files[calls[t].package])]
    BY <1>8 DEF BuildPackageIndex, TypeOK
  <2>4. calls'[t].cache = calls[t].cache /\ calls'[t].package = calls[t].package
    BY <2>2, <2>3 DEF InCall
  <2> QED
    BY <2>1, <2>2, <2>4 DEF CallsInScope, GetCurrentCache
<1>9. ASSUME NEW t \in Threads, InsertPackageIndex(t) PROVE CallsInScope'
  <2>1. /\ stacks' = stacks /\ calls'[t] = Idle /\ calls[t] # Idle
        /\ \A x \in Threads \ {t} : calls'[x] = calls[x]
    BY <1>9, CallKinds DEF InsertPackageIndex, TypeOK
  <2> SUFFICES ASSUME NEW x \in Threads, calls'[x] # Idle
               PROVE  /\ calls'[x].cache = GetCurrentCache(x)'
                      /\ calls'[x].cache # Null /\ ~caches'[calls'[x].cache].shared =>
                            caches'[calls'[x].cache].packages[calls'[x].package] = Null
    BY DEF CallsInScope
  <2>2. x # t /\ calls'[x] = calls[x]
    BY <2>1
  <2>3. CASE calls[x].cache = Null \/ calls[x].cache # calls[t].cache
    <3>1. calls[x].cache # Null => caches'[calls[x].cache] = caches[calls[x].cache]
      BY <1>9, <2>2, <2>3, InsertCaches, CallHoldsCache
    <3> QED
      BY <1>1, <2>1, <2>2, <3>1
  <2>4. CASE calls[x].cache # Null /\ calls[x].cache = calls[t].cache
    <3>1. calls[x].cache \in Caches /\ caches[calls[x].cache].shared
      BY <2>1, <2>2, <2>4, CallHoldsCache DEF ScopesOwned
    <3>2. caches'[calls[x].cache].shared
      BY <1>9, <3>1, CallStepScopes DEF CallStep
    <3>3. calls'[x].cache = GetCurrentCache(x)'
      BY <2>1, <2>2 DEF CallsInScope, GetCurrentCache
    <3> QED
      BY <2>2, <3>2, <3>3
  <2> QED
    BY <2>3, <2>4
<1> QED
  BY <1>2, <1>3, <1>4, <1>5, <1>6, <1>7, <1>8, <1>9 DEF Next

LEMMA ReleasedFields ==
    /\ Released.granted = {}
    /\ \A p \in Packages : Released.packages[p] = Null /\ Released.born[p] = 0
BY DEF Released, Cache

LEMMA GrantsKeptKept ==
    TypeOK /\ ScopesOwned /\ CallsInScope /\ GrantsKept /\ [Next]_vars => GrantsKept'
<1> SUFFICES ASSUME TypeOK, ScopesOwned, CallsInScope, GrantsKept, [Next]_vars
             PROVE  GrantsKept'
  OBVIOUS
<1>1. CASE caches' = caches
  BY <1>1 DEF GrantsKept, Found
<1>2. ASSUME NEW t \in Threads, BeginCacheScope(t) PROVE GrantsKept'
  <2>1. ASSUME NEW c \in Caches, caches'[c] = Cache([p \in Packages |-> files[p].version]),
               \A d \in Caches \ {c} : caches'[d] = caches[d]
        PROVE  GrantsKept'
    <3>1. caches'[c].granted = {}
      BY <2>1 DEF Cache
    <3> QED
      BY <2>1, <3>1 DEF GrantsKept, Found
  <2> QED
    BY <1>1, <1>2, <2>1, BeginCases
<1>3. ASSUME NEW t \in Threads, NEW u \in Threads, BeginSharedScope(t, u)
      PROVE  GrantsKept'
  <2>1. PICK c \in Caches :
           /\ caches'[c].shared
           /\ \A d \in Caches : d # c => caches'[d] = caches[d]
    BY <1>3, SharedCaches
  <2> QED
    BY <2>1 DEF GrantsKept, Found
<1>4. ASSUME NEW t \in Threads, EndCacheScope(t) PROVE GrantsKept'
  <2>1. \A c \in Caches : caches'[c] = caches[c] \/ caches'[c].granted = {}
    BY <1>4, EndCaches, ReleasedFields
  <2> QED
    BY <2>1 DEF GrantsKept, Found
<1>5. ASSUME NEW t \in Threads, NEW op \in {"resolve", "open"}, NEW p \in Packages,
             NEW name \in Requests, FindCached(t, op, p, name)
      PROVE  GrantsKept'
  <2> SUFFICES ASSUME NEW c \in Caches, ~caches'[c].shared, NEW g \in caches'[c].granted
               PROVE  /\ caches'[c].packages[g[1]] # Null
                      /\ Found(caches'[c].packages[g[1]], g[2])
    BY DEF GrantsKept, Found
  <2>1. /\ caches'[c].packages = caches[c].packages
        /\ ~caches[c].shared
        /\ \/ g \in caches[c].granted
           \/ /\ g = <<p, name>>
              /\ caches[c].packages[p] # Null
              /\ Found(caches[c].packages[p], name)
    BY <1>5, FindCaches
  <2>2. CASE g \in caches[c].granted
    BY <2>1, <2>2 DEF GrantsKept
  <2>3. CASE g = <<p, name>> /\ caches[c].packages[p] # Null
             /\ Found(caches[c].packages[p], name)
    BY <2>1, <2>3
  <2> QED
    BY <2>1, <2>2, <2>3
<1>6. ASSUME NEW t \in Threads, InsertPackageIndex(t) PROVE GrantsKept'
  <2> DEFINE call == calls[t]
  <2> SUFFICES ASSUME NEW c \in Caches, ~caches'[c].shared, NEW g \in caches'[c].granted
               PROVE  /\ caches'[c].packages[g[1]] # Null
                      /\ Found(caches'[c].packages[g[1]], g[2])
    BY DEF GrantsKept, Found
  <2>1. CASE caches'[c] = caches[c]
    BY <2>1 DEF GrantsKept
  <2>2. CASE caches'[c] # caches[c]
    <3>1. PICK kept \in Kept(t) :
             caches'[c] = [packages |-> [caches[c].packages EXCEPT ![calls[t].package] = kept],
                           born |-> caches[c].born, shared |-> caches[c].shared,
                           granted |-> caches[c].granted \cup
                                          Granted(calls[t], calls[t].snapshot)]
      <4> HIDE DEF call
      <4> QED
        BY <1>6, <2>2, InsertedCache
    <3>2. c = call.cache /\ call # Idle /\ call.snapshot \in Snapshots /\ call.package \in Packages
      <4>1. call.at = "insert"
        BY <1>6 DEF InsertPackageIndex
      <4>2. c = call.cache
        BY <1>6, <2>2, InsertCaches
      <4>3. call # Idle /\ call.snapshot \in Snapshots /\ call.package \in Packages
        BY <4>1, CallKinds DEF Idle
      <4> QED
        BY <4>2, <4>3
    <3>3. ~caches[c].shared
      BY <3>1
    <3>4. c # Null
      BY ResolverAssumption
    <3>5. ~Racing(t, c)
      <4> SUFFICES ASSUME NEW u \in Threads \ {t}, calls[u].at = "insert", calls[u].cache = c
                   PROVE  FALSE
        BY DEF Racing
      <4>1. Holds(u, c) /\ Holds(t, c)
        BY <3>2, <3>4, CallHoldsCache, CallKinds
      <4> QED
        BY <3>3, <4>1 DEF ScopesOwned
    <3>6. kept = call.snapshot
      BY <3>2, <3>5 DEF Kept
    <3>7. caches[c].packages[call.package] = Null
      BY <3>2, <3>3, <3>4 DEF CallsInScope
    <3>8. caches[c].packages \in [Packages -> Snapshots \cup {Null}]
          /\ caches[c].granted \subseteq Packages \X Requests
      BY DEF TypeOK, CacheType
    <3>9. caches'[c].packages[call.package] = call.snapshot
          /\ \A q \in Packages \ {call.package} :
                caches'[c].packages[q] = caches[c].packages[q]
      BY <3>1, <3>2, <3>6, <3>8
    <3>10. CASE g \in caches[c].granted
      <4>1. g[1] \in Packages /\ caches[c].packages[g[1]] # Null
            /\ Found(caches[c].packages[g[1]], g[2])
        BY <3>3, <3>8, <3>10 DEF GrantsKept
      <4>2. g[1] # call.package
        BY <3>7, <4>1
      <4> QED
        BY <3>9, <4>1, <4>2
    <3>11. CASE g \in Granted(call, call.snapshot)
      <4>1. g = <<call.package, call.name>> /\ Found(call.snapshot, call.name)
        BY <3>11 DEF Granted
      <4>2. g[1] = call.package /\ g[2] = call.name
        BY <4>1
      <4>3. call.snapshot # Null
        BY <3>2, SnapshotFacts
      <4> QED
        BY <3>9, <4>1, <4>2, <4>3
    <3>12. caches'[c].granted = caches[c].granted \cup Granted(call, call.snapshot)
      BY <3>1
    <3> QED
      BY <3>10, <3>11, <3>12
  <2> QED
    BY <2>1, <2>2
<1> QED
  <2>1. CASE UNCHANGED vars
    BY <1>1, <2>1 DEF vars
  <2>2. CASE \E p \in Packages : Rewrite(p)
    BY <1>1, <2>2 DEF Rewrite
  <2>3. CASE \E t \in Threads : BuildPackageIndex(t)
    BY <1>1, <2>3 DEF BuildPackageIndex
  <2>4. CASE \E t \in Threads, op \in {"resolve", "open"}, p \in Packages, name \in Requests :
                FindMissing(t, op, p, name)
    BY <1>1, <2>4 DEF FindMissing
  <2> QED
    BY <1>2, <1>3, <1>4, <1>5, <1>6, <2>1, <2>2, <2>3, <2>4 DEF Next

LEMMA CachesFreshKept ==
    TypeOK /\ CachesFresh /\ CallsFresh /\ [Next]_vars => CachesFresh'
<1> SUFFICES ASSUME TypeOK, CachesFresh, CallsFresh, [Next]_vars PROVE CachesFresh'
  OBVIOUS
<1> DEFINE FreshCache(c, p) ==
              /\ caches[c].born[p] <= files[p].version
              /\ caches[c].packages[p] # Null =>
                    caches[c].packages[p].version >= caches[c].born[p]
<1>1. \A c \in Caches, p \in Packages : FreshCache(c, p)
  BY DEF CachesFresh
<1>2. \A p \in Packages : files[p].version \in Nat
  BY DEF TypeOK, Versioned
<1>3. ASSUME NEW c \in Caches, NEW p \in Packages, files'[p].version >= files[p].version,
             files'[p].version \in Nat,
             caches'[c].packages = caches[c].packages, caches'[c].born = caches[c].born
      PROVE  FreshCache(c, p)'
  <2>1. caches[c].born[p] \in Nat
    BY DEF TypeOK, CacheType
  <2>2. caches'[c].born[p] <= files'[p].version
    BY <1>1, <1>2, <1>3, <2>1
  <2> QED
    BY <1>1, <1>3, <2>2
<1>4. ASSUME NEW t \in Threads, BeginCacheScope(t) PROVE CachesFresh'
  <2>1. files' = files
    BY <1>4 DEF BeginCacheScope
  <2>2. CASE caches' = caches
    BY <1>1, <2>1, <2>2 DEF CachesFresh
  <2>3. ASSUME NEW c \in Caches, caches'[c] = Cache([p \in Packages |-> files[p].version]),
               \A d \in Caches \ {c} : caches'[d] = caches[d]
        PROVE  CachesFresh'
    <3>1. \A p \in Packages : caches'[c].packages[p] = Null
                              /\ caches'[c].born[p] = files[p].version
      BY <2>3 DEF Cache
    <3> QED
      BY <1>1, <1>2, <2>1, <2>3, <3>1 DEF CachesFresh
  <2> QED
    BY <1>4, <2>2, <2>3, BeginCases
<1>5. ASSUME NEW t \in Threads, NEW u \in Threads, BeginSharedScope(t, u)
      PROVE  CachesFresh'
  <2>1. files' = files
    BY <1>5 DEF BeginSharedScope
  <2>2. \A d \in Caches : /\ caches'[d].packages = caches[d].packages
                          /\ caches'[d].born = caches[d].born
    BY <1>5, SharedCaches
  <2> QED
    BY <1>1, <2>1, <2>2 DEF CachesFresh
<1>6. ASSUME NEW t \in Threads, EndCacheScope(t) PROVE CachesFresh'
  <2>1. files' = files
    BY <1>6 DEF EndCacheScope
  <2>2. \A c \in Caches : caches'[c] = caches[c] \/ caches'[c] = Released
    BY <1>6, EndCaches
  <2>3. \A p \in Packages : 0 <= files[p].version
    BY <1>2
  <2>4. ASSUME NEW c \in Caches, NEW p \in Packages PROVE FreshCache(c, p)'
    <3>1. CASE caches'[c] = caches[c]
      BY <1>1, <2>1, <3>1
    <3>2. CASE caches'[c] = Released
      BY <2>1, <2>3, <3>2, ReleasedFields
    <3> QED
      BY <2>2, <3>1, <3>2
  <2> QED
    BY <2>4 DEF CachesFresh
<1>7. ASSUME NEW t \in Threads, NEW op \in {"resolve", "open"}, NEW p \in Packages,
             NEW name \in Requests, FindCached(t, op, p, name)
      PROVE  CachesFresh'
  <2>1. files' = files
    BY <1>7 DEF FindCached
  <2>2. \A d \in Caches : /\ caches'[d].packages = caches[d].packages
                          /\ caches'[d].born = caches[d].born
    BY <1>7, FindCaches
  <2> QED
    BY <1>1, <2>1, <2>2 DEF CachesFresh
<1>8. ASSUME NEW t \in Threads, InsertPackageIndex(t) PROVE CachesFresh'
  <2> DEFINE call == calls[t]
  <2>1. files' = files
    BY <1>8 DEF InsertPackageIndex
  <2>2. /\ call # Idle /\ call.at = "insert" /\ call.package \in Packages
        /\ call.snapshot \in Snapshots
    BY <1>8, CallKinds DEF InsertPackageIndex
  <2>3. ASSUME NEW c \in Caches, NEW p \in Packages PROVE FreshCache(c, p)'
    <3>1. CASE caches'[c] = caches[c]
      BY <1>1, <2>1, <3>1
    <3>2. CASE caches'[c] # caches[c]
      <4>1. PICK kept \in Kept(t) :
               caches'[c] = [packages |-> [caches[c].packages EXCEPT ![call.package] = kept],
                             born |-> caches[c].born, shared |-> caches[c].shared,
                             granted |-> caches[c].granted \cup Granted(call, call.snapshot)]
        BY <1>8, <3>2, InsertCaches
      <4>2. c = call.cache
        BY <1>8, <3>2, InsertCaches
      <4>3. caches'[c].born = caches[c].born
        BY <4>1
      <4>4. caches[c].packages \in [Packages -> Snapshots \cup {Null}]
        BY DEF TypeOK, CacheType
      <4>5. caches'[c].packages = [caches[c].packages EXCEPT ![call.package] = kept]
        BY <4>1
      <4>6. CASE p # call.package
        <5>1. caches'[c].packages[p] = caches[c].packages[p]
          BY <4>4, <4>5, <4>6
        <5> QED
          BY <1>1, <2>1, <4>3, <5>1
      <4>7. CASE p = call.package
        <5>1. caches'[c].packages[p] = kept
          BY <4>4, <4>5, <4>7
        <5>2. call.snapshot.version >= caches[c].born[p]
          BY <2>2, <4>2, <4>7, ResolverAssumption DEF CallsFresh
        <5>3. kept = call.snapshot \/ kept = caches[c].packages[p]
          BY <4>2, <4>7 DEF Kept
        <5> QED
          BY <1>1, <2>1, <4>3, <5>1, <5>2, <5>3
      <4> QED
        BY <4>6, <4>7
    <3> QED
      BY <3>1, <3>2
  <2> QED
    BY <2>3 DEF CachesFresh
<1>9. ASSUME NEW q \in Packages, Rewrite(q) PROVE CachesFresh'
  <2>1. caches' = caches
    BY <1>9 DEF Rewrite
  <2>2. \A p \in Packages : files'[p].version >= files[p].version /\ files'[p].version \in Nat
    <3>1. files'[q].version = files[q].version + 1
      BY <1>9 DEF Rewrite, TypeOK
    <3>2. \A p \in Packages \ {q} : files'[p] = files[p]
      BY <1>9 DEF Rewrite, TypeOK
    <3> QED
      BY <1>2, <3>1, <3>2
  <2>3. \A c \in Caches, p \in Packages : FreshCache(c, p)'
    BY <1>3, <2>1, <2>2
  <2> QED
    BY <2>3 DEF CachesFresh
<1> QED
  <2>1. ASSUME files' = files, caches' = caches PROVE CachesFresh'
    BY <1>1, <2>1 DEF CachesFresh
  <2>2. CASE UNCHANGED vars
    BY <2>1, <2>2 DEF vars
  <2>3. CASE \E t \in Threads : BuildPackageIndex(t)
    BY <2>1, <2>3 DEF BuildPackageIndex
  <2>4. CASE \E t \in Threads, op \in {"resolve", "open"}, p \in Packages, name \in Requests :
                FindMissing(t, op, p, name)
    BY <2>1, <2>4 DEF FindMissing
  <2> QED
    BY <1>4, <1>5, <1>6, <1>7, <1>8, <1>9, <2>2, <2>3, <2>4 DEF Next

LEMMA CallsFreshKept ==
    TypeOK /\ CallsInScope /\ CachesFresh /\ CallsFresh /\ [Next]_vars => CallsFresh'
<1> SUFFICES ASSUME TypeOK, CallsInScope, CachesFresh, CallsFresh, [Next]_vars
             PROVE  CallsFresh'
  OBVIOUS
<1> DEFINE FreshCall(x) ==
              /\ calls[x].since <= files[calls[x].package].version
              /\ calls[x].at = "insert" => calls[x].snapshot.version >= calls[x].since
              /\ calls[x].cache # Null =>
                    calls[x].since = caches[calls[x].cache].born[calls[x].package]
<1>1. \A p \in Packages : files[p].version \in Nat
  BY DEF TypeOK, Versioned
<1>2. ASSUME NEW x \in Threads, calls'[x] # Idle, calls'[x] = calls[x],
             files'[calls[x].package].version >= files[calls[x].package].version,
             files'[calls[x].package].version \in Nat,
             calls[x].cache # Null =>
                caches'[calls[x].cache].born = caches[calls[x].cache].born
      PROVE  FreshCall(x)'
  <2>1. FreshCall(x) /\ calls[x].since \in Nat /\ calls[x].package \in Packages
    BY <1>2, CallKinds DEF CallsFresh
  <2>2. calls[x].since <= files'[calls[x].package].version
    BY <1>1, <1>2, <2>1
  <2> QED
    BY <1>2, <2>1, <2>2
<1>3. ASSUME NEW x \in Threads, calls'[x] # Idle, calls'[x] = calls[x], files' = files,
             calls[x].cache # Null =>
                caches'[calls[x].cache].born = caches[calls[x].cache].born
      PROVE  FreshCall(x)'
  <2>1. calls[x].package \in Packages
    BY <1>3, CallKinds
  <2> QED
    BY <1>1, <1>2, <1>3, <2>1
<1>4. ASSUME NEW q \in Packages, Rewrite(q) PROVE CallsFresh'
  <2>1. calls' = calls /\ caches' = caches
    BY <1>4 DEF Rewrite
  <2>2. \A p \in Packages : files'[p].version >= files[p].version /\ files'[p].version \in Nat
    <3>1. files'[q].version = files[q].version + 1
      BY <1>4 DEF Rewrite, TypeOK
    <3>2. \A p \in Packages \ {q} : files'[p] = files[p]
      BY <1>4 DEF Rewrite, TypeOK
    <3> QED
      BY <1>1, <3>1, <3>2
  <2>3. ASSUME NEW x \in Threads, calls'[x] # Idle PROVE FreshCall(x)'
    <3>1. calls[x].package \in Packages
      BY <2>1, <2>3, CallKinds
    <3> QED
      BY <1>2, <2>1, <2>2, <2>3, <3>1
  <2> QED
    BY <2>3 DEF CallsFresh
<1>5. ASSUME NEW t \in Threads, BeginCacheScope(t) PROVE CallsFresh'
  <2>1. calls' = calls /\ files' = files
    BY <1>5 DEF BeginCacheScope
  <2>2. ASSUME NEW x \in Threads, calls'[x] # Idle PROVE FreshCall(x)'
    <3>1. ASSUME calls[x].cache # Null
          PROVE  caches'[calls[x].cache].born = caches[calls[x].cache].born
      <4>1. calls[x].cache \in Caches /\ Holds(x, calls[x].cache)
        BY <2>1, <2>2, <3>1, CallHoldsCache
      <4>2. \/ caches' = caches
            \/ \E c \in Caches : /\ \A y \in Threads : ~Holds(y, c)
                                 /\ \A d \in Caches \ {c} : caches'[d] = caches[d]
        BY <1>5, BeginCases
      <4> QED
        BY <4>1, <4>2
    <3> QED
      BY <1>3, <2>1, <2>2, <3>1
  <2> QED
    BY <2>2 DEF CallsFresh
<1>6. ASSUME NEW t \in Threads, NEW u \in Threads, BeginSharedScope(t, u)
      PROVE  CallsFresh'
  <2>1. calls' = calls /\ files' = files
    BY <1>6 DEF BeginSharedScope
  <2>2. ASSUME NEW x \in Threads, calls'[x] # Idle PROVE FreshCall(x)'
    <3>1. calls[x].cache # Null => caches'[calls[x].cache].born = caches[calls[x].cache].born
      BY <1>6, <2>1, <2>2, SharedCaches, CallHoldsCache
    <3> QED
      BY <1>3, <2>1, <2>2, <3>1
  <2> QED
    BY <2>2 DEF CallsFresh
<1>7. ASSUME NEW t \in Threads, EndCacheScope(t) PROVE CallsFresh'
  <2>1. calls' = calls /\ files' = files
    BY <1>7 DEF EndCacheScope
  <2>2. ASSUME NEW x \in Threads, calls'[x] # Idle PROVE FreshCall(x)'
    <3>1. ASSUME calls[x].cache # Null
          PROVE  caches'[calls[x].cache].born = caches[calls[x].cache].born
      <4>1. calls[x].cache \in Caches /\ Holds(x, calls[x].cache) /\ x # t
        BY <1>7, <2>1, <2>2, <3>1, CallHoldsCache, CallKinds DEF EndCacheScope
      <4>2. stacks'[x] = stacks[x]
        BY <1>7, <4>1 DEF EndCacheScope, TypeOK
      <4>3. calls[x].cache \in InUse(stacks')
        BY <4>1, <4>2 DEF Holds, InUse
      <4> QED
        BY <1>7, <4>1, <4>3, EndCaches
    <3> QED
      BY <1>3, <2>1, <2>2, <3>1
  <2> QED
    BY <2>2 DEF CallsFresh
<1>8. ASSUME NEW t \in Threads, CallStep(t),
             files' = files, NEW x \in Threads, calls'[x] # Idle, calls'[x] = calls[x]
      PROVE  FreshCall(x)'
  <2>1. calls[x].cache # Null => caches'[calls[x].cache].born = caches[calls[x].cache].born
    BY <1>8, CallStepScopes, CallHoldsCache
  <2> QED
    BY <1>3, <1>8, <2>1
<1>9. ASSUME NEW t \in Threads, NEW op \in {"resolve", "open"}, NEW p \in Packages,
             NEW name \in Requests, FindCached(t, op, p, name)
      PROVE  CallsFresh'
  <2>1. files' = files /\ calls' = calls
    BY <1>9 DEF FindCached
  <2>2. CallStep(t)
    BY <1>9 DEF CallStep
  <2> QED
    BY <1>8, <2>1, <2>2 DEF CallsFresh
<1>10. ASSUME NEW t \in Threads, NEW op \in {"resolve", "open"}, NEW p \in Packages,
              NEW name \in Requests, FindMissing(t, op, p, name)
       PROVE  CallsFresh'
  <2> DEFINE c == GetCurrentCache(t)
  <2>1. /\ files' = files /\ caches' = caches
        /\ \A x \in Threads \ {t} : calls'[x] = calls[x]
        /\ calls'[t] = Enter(t, op, p, name, c)
    BY <1>10 DEF FindMissing, TypeOK
  <2>2. CallStep(t)
    BY <1>10 DEF CallStep
  <2>3. FreshCall(t)'
    <3>1. /\ calls'[t].at = "build" /\ calls'[t].package = p /\ calls'[t].cache = c
          /\ calls'[t].since = IF stacks[t] = << >> THEN files[p].version ELSE caches[c].born[p]
      BY <2>1 DEF Enter
    <3>2. CASE stacks[t] = << >>
      <4>1. c = Null
        BY <3>2, CurrentCacheHeld
      <4> QED
        BY <1>1, <2>1, <3>1, <3>2, <4>1
    <3>3. CASE stacks[t] # << >>
      <4>1. c \in Caches
        BY <3>3, CurrentCacheHeld
      <4>2. caches[c].born[p] <= files[p].version
        BY <4>1 DEF CachesFresh
      <4> QED
        BY <2>1, <3>1, <3>3, <4>2
    <3> QED
      BY <3>2, <3>3
  <2> QED
    BY <1>8, <2>1, <2>2, <2>3 DEF CallsFresh
<1>11. ASSUME NEW t \in Threads, BuildPackageIndex(t) PROVE CallsFresh'
  <2>1. /\ files' = files /\ caches' = caches
        /\ \A x \in Threads \ {t} : calls'[x] = calls[x]
    BY <1>11 DEF BuildPackageIndex, TypeOK
  <2>2. calls[t] \in InCall({"build"}, {Null}) /\ calls[t] # Idle
    BY <1>11 DEF BuildPackageIndex, TypeOK, InCall, Idle
  <2>3. calls'[t] = [calls[t] EXCEPT !.at = "insert",
                                     !.snapshot = Snapshot(files[calls[t].package])]
    BY <1>11 DEF BuildPackageIndex, TypeOK
  <2>4. /\ calls'[t].cache = calls[t].cache
        /\ calls'[t].package = calls[t].package
        /\ calls'[t].since = calls[t].since
        /\ calls'[t].snapshot = Snapshot(files[calls[t].package])
    BY <2>2, <2>3 DEF InCall
  <2>5. Snapshot(files[calls[t].package]).version = files[calls[t].package].version
    BY DEF Snapshot
  <2>6. FreshCall(t)
    BY <2>2 DEF CallsFresh
  <2>7. calls[t].since \in Nat /\ files[calls[t].package].version \in Nat
    BY <1>1, <2>2, CallKinds
  <2>8. FreshCall(t)'
    BY <2>1, <2>4, <2>5, <2>6, <2>7
  <2>9. CallStep(t)
    BY <1>11 DEF CallStep
  <2> QED
    BY <1>8, <2>1, <2>8, <2>9 DEF CallsFresh
<1>12. ASSUME NEW t \in Threads, InsertPackageIndex(t) PROVE CallsFresh'
  <2>1. /\ files' = files /\ calls'[t] = Idle
        /\ \A x \in Threads \ {t} : calls'[x] = calls[x]
    BY <1>12 DEF InsertPackageIndex, TypeOK
  <2>2. CallStep(t)
    BY <1>12 DEF CallStep
  <2> QED
    BY <1>8, <2>1, <2>2 DEF CallsFresh
<1>13. CASE UNCHANGED vars
  BY <1>13 DEF vars, CallsFresh
<1> QED
  BY <1>4, <1>5, <1>6, <1>7, <1>9, <1>10, <1>11, <1>12, <1>13 DEF Next

ScopeInvariant ==
    TypeOK /\ ScopesOwned /\ CallsInScope /\ GrantsKept /\ CachesFresh /\ CallsFresh

(* Scopes are owned or shared, calls stay in theirs, grants and freshness last. *)
THEOREM ScopesCorrect == Spec => []ScopeInvariant
<1>1. Init => ScopeInvariant
  <2> SUFFICES ASSUME Init PROVE ScopeInvariant
    OBVIOUS
  <2>1. TypeOK
    <3>1. files \in [Packages -> Versioned]
      BY ResolverAssumption DEF Init, Versioned
    <3>2. Released \in CacheType
      BY ResolverAssumption DEF Released, Cache, CacheType
    <3> QED
      BY <3>1, <3>2 DEF Init, TypeOK
  <2>2. /\ \A c \in Caches : caches[c] = Released
        /\ \A t \in Threads : calls[t] = Idle /\ stacks[t] = << >>
    BY DEF Init
  <2>3. ScopesOwned
    BY <2>2 DEF ScopesOwned, Holds
  <2>4. CallsInScope /\ CallsFresh
    BY <2>2 DEF CallsInScope, CallsFresh
  <2>5. GrantsKept
    BY <2>2, ReleasedFields DEF GrantsKept
  <2>6. CachesFresh
    <3>1. \A p \in Packages : files[p].version = 0
      BY DEF Init
    <3> QED
      BY <2>2, <3>1, ReleasedFields DEF CachesFresh
  <2> QED
    BY <2>1, <2>3, <2>4, <2>5, <2>6 DEF ScopeInvariant
<1>2. ScopeInvariant /\ [Next]_vars => ScopeInvariant'
  BY TypeKept, ScopesOwnedKept, CallsInScopeKept, GrantsKeptKept, CachesFreshKept,
     CallsFreshKept DEF ScopeInvariant
<1> QED
  BY <1>1, <1>2, PTL DEF Spec

-----------------------------------------------------------------------------
(* What the calls answer *)

\* A call may rely on snapshot s: it is recent enough and has what the call is owed.
Reliable(call, s) ==
    /\ s \in Snapshots
    /\ s.version >= call.since
    /\ /\ call.cache # Null
       /\ ~caches[call.cache].shared
       /\ <<call.package, call.name>> \in caches[call.cache].granted
       => Found(s, call.name)

LEMMA AnswersReliable ==
    ASSUME ScopeInvariant, [Next]_vars
    PROVE  \/ answer' = answer
           \/ answer' = Unasked
           \/ \E call, s : Reliable(call, s) /\ answer' = Answer(call, s)
<1> USE DEF ScopeInvariant
<1>1. ASSUME NEW t \in Threads, NEW op \in {"resolve", "open"}, NEW p \in Packages,
             NEW name \in Requests, FindCached(t, op, p, name)
      PROVE  \E call, s : Reliable(call, s) /\ answer' = Answer(call, s)
  <2> DEFINE c == GetCurrentCache(t)
             call == Enter(t, op, p, name, c)
             s == caches[c].packages[p]
  <2>1. c \in Caches /\ s # Null /\ stacks[t] # << >>
    BY <1>1, CurrentCacheHeld DEF FindCached, Cached
  <2>2. s \in Snapshots
    BY <2>1 DEF TypeOK, CacheType
  <2>3. call.since = caches[c].born[p] /\ call.cache = c /\ call.package = p /\ call.name = name
    BY <2>1 DEF Enter
  <2>4. s.version >= call.since
    BY <2>1, <2>3 DEF CachesFresh
  <2>5. ~caches[c].shared /\ <<p, name>> \in caches[c].granted => Found(s, name)
    BY <2>1 DEF GrantsKept
  <2>6. answer' = Answer(call, s)
    BY <1>1 DEF FindCached
  <2> HIDE DEF c, call, s
  <2>7. Reliable(call, s)
    BY <2>2, <2>3, <2>4, <2>5 DEF Reliable
  <2> QED
    BY <2>6, <2>7
<1>2. ASSUME NEW t \in Threads, InsertPackageIndex(t)
      PROVE  \E call, s : Reliable(call, s) /\ answer' = Answer(call, s)
  <2> DEFINE call == calls[t]
             s == calls[t].snapshot
  <2>1. call # Idle /\ call.at = "insert" /\ s \in Snapshots
        /\ call.cache \in Caches \cup {Null} /\ call.package \in Packages
    BY <1>2, CallKinds DEF InsertPackageIndex
  <2>2. s.version >= call.since
    BY <2>1 DEF CallsFresh
  <2>3. ASSUME call.cache # Null, ~caches[call.cache].shared,
               <<call.package, call.name>> \in caches[call.cache].granted
        PROVE  FALSE
    <3>1. caches[call.cache].packages[call.package] = Null
      BY <2>1, <2>3 DEF CallsInScope
    <3>2. caches[call.cache].packages[<<call.package, call.name>>[1]] # Null
      BY <2>1, <2>3 DEF GrantsKept
    <3> QED
      BY <3>1, <3>2
  <2>4. answer' = Answer(call, s)
    BY <1>2 DEF InsertPackageIndex
  <2> HIDE DEF call, s
  <2>5. Reliable(call, s)
    BY <2>1, <2>2, <2>3 DEF Reliable
  <2> QED
    BY <2>4, <2>5
<1>3. CASE UNCHANGED vars
  BY <1>3 DEF vars
<1>4. CASE \E p \in Packages : Rewrite(p)
  BY <1>4 DEF Rewrite
<1>5. ASSUME NEW t \in Threads,
             \/ BeginCacheScope(t) \/ EndCacheScope(t) \/ BuildPackageIndex(t)
             \/ \E u \in Threads : BeginSharedScope(t, u)
             \/ \E op \in {"resolve", "open"}, p \in Packages, name \in Requests :
                   FindMissing(t, op, p, name)
      PROVE  answer' = Unasked
  BY <1>5 DEF BeginCacheScope, EndCacheScope, BuildPackageIndex, BeginSharedScope, FindMissing
<1> QED
  BY <1>1, <1>2, <1>3, <1>4, <1>5 DEF Next

(* The fields of an answer. *)
LEMMA AnswerFields ==
    ASSUME NEW call, NEW s, answer' = Answer(call, s)
    PROVE  /\ answer'.op = call.op
           /\ answer'.name = call.name
           /\ answer'.found <=> Found(s, call.name)
           /\ answer'.op = "open" /\ answer'.found => answer'.asset = s.images[call.name]
           /\ answer'.authored <=> call.name \in s.authored
           /\ answer'.version = s.version
           /\ answer'.since = call.since
           /\ answer'.owed <=> /\ call.cache # Null
                               /\ call.op = "open"
                               /\ ~caches[call.cache].shared
                               /\ <<call.package, call.name>> \in caches[call.cache].granted
BY DEF Answer

(* The four properties together: Spec => []AnswersCorrect. *)
AnswersCorrect ==
    ServedUnderItsName /\ ResolvedOpens /\ NeverStale /\ AuthoredResolves

LEMMA AnswersCorrectKept ==
    AnswersCorrect /\ ScopeInvariant /\ [Next]_vars => AnswersCorrect'
<1> SUFFICES ASSUME AnswersCorrect, ScopeInvariant, [Next]_vars PROVE AnswersCorrect'
  OBVIOUS
<1> USE DEF AnswersCorrect, Opened, Replied
<1>1. CASE answer' = answer
  BY <1>1 DEF ServedUnderItsName, ResolvedOpens, NeverStale, AuthoredResolves
<1>2. CASE answer' = Unasked
  BY <1>2 DEF ServedUnderItsName, ResolvedOpens, NeverStale, AuthoredResolves
<1>3. ASSUME NEW call, NEW s, Reliable(call, s), answer' = Answer(call, s)
      PROVE  AnswersCorrect'
  <2>1. /\ \A name \in DOMAIN s.images : Serves(name, s.images[name])
        /\ \A name \in s.authored : Found(s, name)
    BY <1>3, SnapshotFacts DEF Reliable
  <2>2. ServedUnderItsName'
    BY <1>3, <2>1, AnswerFields DEF ServedUnderItsName, Found
  <2>3. ResolvedOpens'
    BY <1>3, AnswerFields DEF ResolvedOpens, Reliable
  <2>4. NeverStale'
    BY <1>3, AnswerFields DEF NeverStale, Reliable
  <2>5. AuthoredResolves'
    BY <1>3, <2>1, AnswerFields DEF AuthoredResolves
  <2> QED
    BY <2>2, <2>3, <2>4, <2>5
<1> QED
  BY <1>1, <1>2, <1>3, AnswersReliable

LEMMA AnswersInvariant == Spec => []AnswersCorrect
<1>1. Init => AnswersCorrect
  BY DEF Init, AnswersCorrect, ServedUnderItsName, ResolvedOpens, NeverStale,
         AuthoredResolves, Opened, Replied
<1> QED
  BY <1>1, AnswersCorrectKept, ScopesCorrect, PTL DEF Spec

(* Spec => []ServedUnderItsName: for every hash and every interleaving, an opened asset is
   an image whose content hashes to its name. *)
THEOREM ContentMatchesName == Spec => []ServedUnderItsName
<1>1. AnswersCorrect => ServedUnderItsName
  BY DEF AnswersCorrect
<1> QED
  BY <1>1, AnswersInvariant, PTL

(* Spec => []ResolvedOpens: inside a scope of one thread, what Resolve found opens. *)
THEOREM ResolvedNamesOpen == Spec => []ResolvedOpens
<1>1. AnswersCorrect => ResolvedOpens
  BY DEF AnswersCorrect
<1> QED
  BY <1>1, AnswersInvariant, PTL

(* Spec => []NeverStale: no index outlives the outermost scope it was built in. *)
THEOREM AnswersAreFresh == Spec => []NeverStale
<1>1. AnswersCorrect => NeverStale
  BY DEF AnswersCorrect
<1> QED
  BY <1>1, AnswersInvariant, PTL

(* Spec => []AuthoredResolves: the importer and the resolver agree on the name of every
   image of every container. *)
THEOREM AuthoredNamesResolve == Spec => []AuthoredResolves
<1>1. AnswersCorrect => AuthoredResolves
  BY DEF AnswersCorrect
<1> QED
  BY <1>1, AnswersInvariant, PTL
=============================================================================
