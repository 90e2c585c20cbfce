------------------------- MODULE KnowledgeRetrieval -------------------------
(***************************************************************************)
(* What becomes of the text of a document: SimpleTextSplitter cuts its     *)
(* pages into chunks, _embed_chunks has them embedded batch by batch, a    *)
(* query retrieves some of them, ContextAssembler packs these into a       *)
(* prompt of bounded size.                                                 *)
(*                                                                         *)
(* A page is a sequence of characters that are part of a WORD or a         *)
(* SEPARATOR (space or newline); positions count from 0.  A chunk is known *)
(* by its page and by where it was started, and its content by where the   *)
(* words in it are; its index is its place in the order of them.  A        *)
(* similarity is a small number, and which chunks a query finds is up to   *)
(* the embeddings.                                                         *)
(*                                                                         *)
(* The names KnowledgeImport would use too carry Retrieval here.           *)
(***************************************************************************)
EXTENDS Integers, Sequences, FiniteSets, FiniteSetsExt

CONSTANTS
    Documents,        \* sequences of pages, as clean() leaves them
    ChunkSize,        \* rag_chunk_size
    Overlaps,         \* values of rag_chunk_overlap
    MaxChunks,        \* rag_max_chunks_per_document
    BatchSize,        \* embedding_batch_size
    ProviderLimits,   \* max_batch_size of embedding providers
    Scores,           \* similarities from similarity_threshold upwards
    TopK,             \* topK of requests, the default included
    MaxTopK,          \* rag_max_top_k
    CharsPerToken,    \* 4 in the code
    MaxContextTokens, \* rag_max_context_tokens
    MaxChunkTokens,   \* rag_max_chunk_tokens
    NoResultIsError   \* rag_no_result_policy = "error"

\* The validators of the settings and the constructor of the splitter.
ASSUME RetrievalAssumption ==
    /\ Documents \subseteq Seq(Seq({"WORD", "SEPARATOR"}))
    /\ ChunkSize \in Nat \ {0} /\ Overlaps \subseteq 0 .. ChunkSize - 1
    /\ MaxChunks \in Nat \ {0} /\ BatchSize \in Nat \ {0}
    /\ ProviderLimits \subseteq Nat \ {0}
    /\ Scores \subseteq Nat /\ TopK \subseteq Int
    /\ MaxTopK \in Nat \ {0} /\ CharsPerToken \in Nat \ {0}
    /\ MaxContextTokens \in Nat \ {0} /\ MaxChunkTokens \in Nat \ {0}
    /\ NoResultIsError \in BOOLEAN

VARIABLES
    overlap,    \* chunk_overlap of the splitter
    pages,      \* the document
    page,       \* the page that is split
    start,      \* where the next chunk of it starts
    textChunks, \* the result of split()
    limit,      \* the provider's max_batch_size
    batch,      \* how many batches of chunks have their vectors
    phase,      \* what goes on
    score,      \* similarity of each retrieved chunk
    waiting,    \* retrieved chunks assemble() has not looked at
    selected    \* the citations

splitting == <<overlap, pages, page, start, textChunks, limit>>
retrievalVars == <<splitting, batch, phase, score, waiting, selected>>

-----------------------------------------------------------------------------

\* Its text runs from the first to the last of its words, once the separators
\* around it are stripped.
Chunk == [page : Nat, start : Nat, words : SUBSET Nat]

RetrievalInit ==
    /\ overlap \in Overlaps
    /\ pages \in Documents
    /\ page = 1
    /\ start = 0
    /\ textChunks = {}
    /\ limit \in ProviderLimits
    /\ batch = 0
    /\ phase = "SPLIT"
    /\ score = << >>
    /\ waiting = {}
    /\ selected = {}

-----------------------------------------------------------------------------
(* SimpleTextSplitter.split, one round of its loop after the other.        *)

Text == pages[page]
Separators(from, to) == {i \in from .. to - 1 : Text[i + 1] = "SEPARATOR"}

\* A chunk ends at the last separator, if that is in its second half.
CutEnd ==
    LET full == start + ChunkSize
        boundary == Max(Separators(start, full))
    IN  IF full >= Len(Text) THEN Len(Text)
        ELSE IF Separators(start, full) # {} /\ boundary > start + ChunkSize \div 2
        THEN boundary ELSE full

\* content.strip(); an empty one is no chunk.
Words(from, to) == (from .. to - 1) \ Separators(from, to)
Cut(from, to) ==
    IF Words(from, to) = {} THEN {}
    ELSE {[page |-> page, start |-> from, words |-> Words(from, to)]}

\* Mutants: the start may stay where it is; the end before the cut is used.
NextStartInPlace == Max({CutEnd - overlap, start})
NextStartUncut == start + ChunkSize - overlap

NextStart == Max({CutEnd - overlap, start + 1})

SplitStep ==
    /\ phase = "SPLIT" /\ page <= Len(pages)
    /\ start < Len(Text)
    /\ textChunks' = textChunks \cup Cut(start, CutEnd)
    /\ IF CutEnd >= Len(Text) THEN page' = page + 1 /\ start' = 0
                           ELSE start' = NextStart /\ UNCHANGED page
    /\ UNCHANGED <<overlap, pages, limit, batch, phase, score, waiting, selected>>

SkipEmptyPage ==
    /\ phase = "SPLIT" /\ page <= Len(pages)
    /\ Text = << >>
    /\ page' = page + 1
    /\ UNCHANGED <<overlap, pages, start, textChunks, limit, batch, phase, score, waiting, selected>>

\* process_document_job fails a document without chunks or with too many.
SplitEnds ==
    /\ phase = "SPLIT" /\ page > Len(pages)
    /\ phase' = IF Cardinality(textChunks) \in 1 .. MaxChunks THEN "EMBED" ELSE "FAILED"
    /\ UNCHANGED <<splitting, batch, score, waiting, selected>>

-----------------------------------------------------------------------------
(* _embed_chunks and store_chunks.                                         *)

EffectiveBatchSize == Min({BatchSize, limit})

Before(c, d) == c.page < d.page \/ (c.page = d.page /\ c.start < d.start)

Index(c) == Cardinality({d \in textChunks : Before(d, c)})

\* The n-th batch, counted from 0.
Batch(n) ==
    {c \in textChunks : Index(c) \div EffectiveBatchSize = n}

BatchCount == (Cardinality(textChunks) + EffectiveBatchSize - 1) \div EffectiveBatchSize
Embedded == UNION {Batch(n) : n \in 0 .. batch - 1}

\* One batch is embedded: as many vectors as texts, of the right dimensions.
EmbedBatch ==
    /\ phase = "EMBED"
    /\ batch < BatchCount
    /\ batch' = batch + 1
    /\ UNCHANGED <<splitting, phase, score, waiting, selected>>

\* The provider raises, or its vectors have another number or dimension: what
\* has been embedded is dropped with the whole import.
EmbedFails ==
    /\ phase = "EMBED"
    /\ batch < BatchCount
    /\ batch' = 0
    /\ phase' = "FAILED"
    /\ UNCHANGED <<splitting, score, waiting, selected>>

StoreChunks ==
    /\ phase = "EMBED"
    /\ batch = BatchCount
    /\ phase' = "SEARCH"
    /\ UNCHANGED <<splitting, batch, score, waiting, selected>>

-----------------------------------------------------------------------------
(* RagContextProvider.build: retrieval, then ContextAssembler.assemble.    *)

BoundedTopK(k) == Min({Max({k, 1}), MaxTopK})

\* The search finds chunks of a READY document, at most top_k of them; those
\* left out are below the threshold or less similar than these.
Retrieve ==
    /\ phase = "SEARCH"
    /\ \E k \in TopK, found \in SUBSET Embedded :
        /\ Cardinality(found) <= BoundedTopK(k)
        /\ score' \in [found -> Scores]
        /\ waiting' = found
    /\ phase' = "ASSEMBLE"
    /\ UNCHANGED <<splitting, batch, selected>>

\* The excerpt of a chunk: its first characters, stripped.
ExcerptLength(c) ==
    LET taken == {i \in c.words : i < Min(c.words) + MaxChunkTokens * CharsPerToken}
    IN  IF taken = {} THEN 0 ELSE Max(taken) - Min(taken) + 1

Tokens(c) == (ExcerptLength(c) + CharsPerToken - 1) \div CharsPerToken
TokenCount(cs) == MapThenSumSet(Tokens, cs)

IsNext(c) == c \in waiting /\ \A d \in waiting : score[c] >= score[d]

\* Mutant: the first chunk that does not fit ends the loop.
AssembleUntilFull ==
    /\ phase = "ASSEMBLE"
    /\ \E c \in waiting :
        /\ IsNext(c)
        /\ IF TokenCount(selected) + Tokens(c) <= MaxContextTokens
           THEN selected' = selected \cup {c} /\ waiting' = waiting \ {c}
           ELSE waiting' = {} /\ UNCHANGED selected
    /\ UNCHANGED <<splitting, batch, phase, score>>

\* One round of the loop; what does not fit is left out.
Assemble ==
    /\ phase = "ASSEMBLE"
    /\ \E c \in waiting :
        /\ IsNext(c)
        /\ waiting' = waiting \ {c}
        /\ selected' = IF /\ ExcerptLength(c) > 0 /\ Tokens(c) <= MaxChunkTokens
                          /\ TokenCount(selected) + Tokens(c) <= MaxContextTokens
                       THEN selected \cup {c} ELSE selected
    /\ UNCHANGED <<splitting, batch, phase, score>>

Answer ==
    /\ phase = "ASSEMBLE" /\ waiting = {}
    /\ phase' = IF selected = {} /\ NoResultIsError THEN "NO_RESULTS" ELSE "DONE"
    /\ UNCHANGED <<splitting, batch, score, waiting, selected>>

-----------------------------------------------------------------------------

RetrievalNext ==
    \/ SplitStep
    \/ SkipEmptyPage
    \/ SplitEnds
    \/ EmbedBatch
    \/ EmbedFails
    \/ StoreChunks
    \/ Retrieve
    \/ Assemble
    \/ Answer

RetrievalSpec == RetrievalInit /\ [][RetrievalNext]_retrievalVars

\* The loops run on.
RetrievalFairSpec == RetrievalSpec /\ WF_retrievalVars(RetrievalNext)

-----------------------------------------------------------------------------
(* Properties.                                                             *)

\* Every variable has its type.
RetrievalTypeOK ==
    /\ overlap \in Overlaps
    /\ pages \in Documents
    /\ page \in 1 .. Len(pages) + 1
    /\ start \in Nat
    /\ textChunks \in SUBSET Chunk
    /\ limit \in ProviderLimits
    /\ batch \in 0 .. BatchCount
    /\ phase \in {"SPLIT", "EMBED", "FAILED", "SEARCH", "ASSEMBLE", "DONE", "NO_RESULTS"}
    /\ DOMAIN score \subseteq textChunks /\ \A c \in DOMAIN score : score[c] \in Scores
    /\ waiting \subseteq DOMAIN score
    /\ selected \subseteq DOMAIN score

Searchable == IF phase \in {"SPLIT", "EMBED", "FAILED"} THEN textChunks ELSE Embedded
Covered(p, i) == \E c \in Searchable : c.page = p /\ i \in c.words

\* No word of the document is lost between two chunks, wherever the separators,
\* the cut at one of them and the overlap put the ends of the chunks, nor between
\* two batches of the embedding, whichever of the two limits is the smaller.
NothingIsLost ==
    \A p \in DOMAIN pages : \A i \in 0 .. Len(pages[p]) - 1 :
        /\ pages[p][i + 1] = "WORD"
        /\ p < page \/ (p = page /\ i < start)
        => Covered(p, i)

\* Splitting ends for every document and every overlap below the chunk size.
SplittingEnds == <>(phase # "SPLIT")

\* The prompt keeps its limit, and a retrieved chunk is left out only if it does
\* not fit beside chunks at least as similar: no chunk is lost for being behind a
\* large one, cut to nothing, or counted twice.
ContextIsBest ==
    phase \in {"DONE", "NO_RESULTS"} =>
        /\ TokenCount(selected) <= MaxContextTokens
        /\ \A c \in DOMAIN score \ selected :
            Tokens(c) + TokenCount({d \in selected : score[d] >= score[c]}) > MaxContextTokens

=============================================================================
