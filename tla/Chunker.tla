------------------------------- MODULE Chunker -------------------------------
(***************************************************************************)
(* chunk_paragraphs (ingestion/chunker.py): the sentences of a document,   *)
(* one after the other, are gathered into chunks of at most chunk_size     *)
(* tokens; a heading starts a new chunk, and a chunk that is full hands    *)
(* its last sentences on to the next.                                      *)
(*                                                                         *)
(* A unit is a sentence, or a window of a sentence that is too long; its   *)
(* text stands for its words, and Tokens for approximate_token_count,      *)
(* which counts ideographs, ASCII letters and digits only: a rule of       *)
(* dashes or a sentence in kana has no token at all.  A chunk is the       *)
(* sequence of the positions of its units.                                 *)
(***************************************************************************)
EXTENDS Integers, Sequences, FiniteSets, SequencesExt

CONSTANTS
    Texts, Tokens,   \* what a unit may say, and how many tokens that is
    Headings,
    ChunkSize,
    MaxUnits         \* bound on the length of a document

ASSUME TokensAssumption == Tokens \in [Texts -> Nat]
ASSUME SizeAssumption == ChunkSize \in Nat \ {0}

VARIABLES
    units,     \* the document
    overlap,   \* CHUNK_OVERLAP
    next,      \* the position of the next unit
    buffer,    \* the chunk in the making
    chunks,    \* the finished chunks
    done

vars == <<units, overlap, next, buffer, chunks, done>>

Unit == [text : Texts, heading : Headings]

\* A window of a long sentence may be larger than a chunk.
Init ==
    /\ units \in UNION {[1..n -> Unit] : n \in 0..MaxUnits}
    /\ overlap \in 0..ChunkSize - 1
    /\ next = 1
    /\ buffer = <<>> /\ chunks = <<>>
    /\ done = FALSE

------------------------------------------------------------------------------
Total(sizes) ==
    LET total[k \in 0..Len(sizes)] == IF k = 0 THEN 0 ELSE total[k - 1] + sizes[k]
    IN  total[Len(sizes)]

TokensIn(chunk) == Total([k \in 1..Len(chunk) |-> Tokens[units[chunk[k]].text]])
Said(chunk) == [k \in DOMAIN chunk |-> units[chunk[k]].text]
From(chunk, k) == SubSeq(chunk, k, Len(chunk))

Heading(chunk) == units[Last(chunk)].heading

\* The suffix is begun one unit later: a mistake.
OverlapSuffixShort(chunk) ==
    LET enough == {k \in DOMAIN chunk : TokensIn(From(chunk, k)) >= overlap}
        first == IF enough = {} THEN 1 ELSE CHOOSE k \in enough : \A j \in enough : j <= k
    IN  IF overlap = 0 THEN <<>> ELSE From(chunk, first + 1)

\* The shortest suffix with at least overlap tokens, or all there is.
OverlapSuffix(chunk) ==
    LET enough == {k \in DOMAIN chunk : TokensIn(From(chunk, k)) >= overlap}
        first == IF enough = {} THEN 1 ELSE CHOOSE k \in enough : \A j \in enough : j <= k
    IN  IF overlap = 0 THEN <<>> ELSE From(chunk, first)

\* The overlap is taken as it is: a mistake.
Untrimmed(chunk, tokens) == chunk

\* Units are dropped from the front until the new one fits or none is left.
Trimmed(chunk, tokens) ==
    LET fits == {k \in DOMAIN chunk : TokensIn(From(chunk, k)) + tokens <= ChunkSize}
    IN  IF fits = {} THEN <<>>
        ELSE From(chunk, CHOOSE k \in fits : \A j \in fits : k <= j)

------------------------------------------------------------------------------
Coming == units[next]
Overflows == TokensIn(buffer) + Tokens[Coming.text] > ChunkSize

Consume ==
    /\ next <= Len(units)
    /\ next' = next + 1
    /\ UNCHANGED <<units, overlap, done>>

\* The overlap is carried into the next section as well: a mistake.
BeginSectionOverlapping ==
    /\ Consume
    /\ buffer # <<>> /\ Coming.heading # Heading(buffer)
    /\ chunks' = Append(chunks, buffer)
    /\ buffer' = Append(Trimmed(OverlapSuffix(buffer), Tokens[Coming.text]), next)

\* The next unit begins a section: nothing is carried over.
BeginSection ==
    /\ Consume
    /\ buffer # <<>> /\ Coming.heading # Heading(buffer)
    /\ chunks' = Append(chunks, buffer)
    /\ buffer' = <<next>>

\* The next unit does not fit.
BeginChunk ==
    /\ Consume
    /\ buffer # <<>> /\ Coming.heading = Heading(buffer)
    /\ Overflows
    /\ chunks' = Append(chunks, buffer)
    /\ buffer' = Append(Trimmed(OverlapSuffix(buffer), Tokens[Coming.text]), next)

Extend ==
    /\ Consume
    /\ buffer # <<>> => Coming.heading = Heading(buffer) /\ ~Overflows
    /\ buffer' = Append(buffer, next)
    /\ UNCHANGED chunks

\* The rest of the document is forgotten when it is small: a mistake.
FinishFull ==
    /\ ~done /\ next > Len(units)
    /\ done' = TRUE
    /\ chunks' = IF buffer # <<>> /\ TokensIn(buffer) >= overlap
                 THEN Append(chunks, buffer) ELSE chunks
    /\ UNCHANGED <<units, overlap, next, buffer>>

\* What is left becomes the last chunk, unless it says what the one before says.
Finish ==
    /\ ~done /\ next > Len(units)
    /\ done' = TRUE
    /\ chunks' = IF buffer # <<>> /\ (chunks = <<>> \/ Said(buffer) # Said(Last(chunks)))
                 THEN Append(chunks, buffer) ELSE chunks
    /\ UNCHANGED <<units, overlap, next, buffer>>

Next == BeginSection \/ BeginChunk \/ Extend \/ Finish

Spec == Init /\ [][Next]_vars

------------------------------------------------------------------------------
(* Properties *)

\* No chunk holds text of two sections, not even by overlap, so that no citation
\* names the heading of another policy (ingestion/chunker.py:39-46, 92).
SectionsApart ==
    \A c \in Range(chunks) \cup {buffer} :
        \A i, j \in Range(c) : units[i].heading = units[j].heading

\* A chunk of several units keeps to the size in tokens, whatever overlap it
\* began with; only a window of a long sentence may be larger, and then alone.
\* Of units without tokens it may hold any number
\* (ingestion/chunker.py:47-53, 70-72).
SizeKept ==
    \A c \in Range(chunks) \cup {buffer} :
        Len(c) > 1 => TokensIn(c) <= ChunkSize

\* In the end every unit is in a chunk, and every chunk brings units that no
\* chunk before it has.  Only the end of a document may be left out, when it
\* repeats the words of the chunk before it - be it another section
\* (ingestion/chunker.py:57-60).
NothingLost ==
    done =>
        LET kept == UNION {Range(c) : c \in Range(chunks)}
            lost == (1..Len(units)) \ kept
        IN  /\ lost # {} => /\ chunks # <<>> /\ lost \subseteq Range(buffer)
                            /\ Said(buffer) = Said(Last(chunks))
            /\ \A k \in DOMAIN chunks :
                ~ (Range(chunks[k]) \subseteq UNION {Range(chunks[j]) : j \in 1..k - 1})

\* What c hands on to d: the end of c is the beginning of d, which goes on with
\* the unit after it; it is no longer than the overlap asks for, and it is not
\* empty if an overlap is wanted and the last unit fits with the next.
HandsOn(c, d) ==
    LET fresh == Last(c) + 1
    IN  \E j \in 1..Len(c) + 1 :
            LET shared == From(c, j)
            IN  /\ IsPrefix(Append(shared, fresh), d)
                /\ shared # <<>> => TokensIn(Tail(shared)) < overlap
                /\ overlap > 0 /\ TokensIn(<<Last(c), fresh>>) <= ChunkSize => shared # <<>>

\* Every chunk is handed the overlap of the chunk before it, if the two are of
\* one section (ingestion/chunker.py:49-53, 75-87).
ContextCarried ==
    \A k \in 1..Len(chunks) - 1 :
        Heading(chunks[k]) = Heading(chunks[k + 1]) => HandsOn(chunks[k], chunks[k + 1])
==============================================================================
