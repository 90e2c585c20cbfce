---------------------------- MODULE MCKnowledge ----------------------------
(* A small instance of KnowledgeImport and KnowledgeRetrieval for TLC.  One *)
(* has the rows and the file of a document, the other its text; they share *)
(* nothing: a behaviour is of one of them, while the other is at rest.     *)
EXTENDS KnowledgeImport, KnowledgeRetrieval

\* Cleaned text begins and ends with a word and has no long gaps (at most a
\* space and two newlines).
Cleaned(maxLength) ==
    {t \in UNION {[1 .. n -> {"WORD", "SEPARATOR"}] : n \in 0 .. maxLength} :
        /\ Len(t) > 0 => t[1] = "WORD" /\ t[Len(t)] = "WORD"
        /\ \A i \in 1 .. Len(t) - 3 : \E j \in i .. i + 3 : t[j] = "WORD"}

\* One page, or a short one after a page that is empty or short as well.
SmallDocuments ==
    {<<t>> : t \in Cleaned(8)} \cup {<<t, u>> : t \in {<< >>, <<"WORD">>}, u \in Cleaned(4)}

\* As after a document without pages.
NoText ==
    /\ pages = << >> /\ overlap = 0 /\ limit = 1
    /\ page = 1 /\ start = 0 /\ textChunks = {} /\ batch = 0
    /\ phase = "FAILED"
    /\ score = << >> /\ waiting = {} /\ selected = {}

KnowledgeInit == Init /\ (RetrievalInit \/ NoText)

\* The prompt is assembled or there is none: nothing is left to do.
RetrievalOver ==
    /\ phase \in {"FAILED", "DONE", "NO_RESULTS"} /\ ~NoText
    /\ UNCHANGED <<vars, retrievalVars>>

KnowledgeNext ==
    \/ NoText /\ Next /\ UNCHANGED retrievalVars
    \/ RetrievalNext /\ UNCHANGED vars
    \/ RetrievalOver

KnowledgeSpec ==
    /\ KnowledgeInit /\ [][KnowledgeNext]_<<vars, retrievalVars>>
    /\ Fairness
    /\ WF_retrievalVars(RetrievalNext)
=============================================================================
