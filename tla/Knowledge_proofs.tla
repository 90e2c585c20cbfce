-------------------------- MODULE Knowledge_proofs --------------------------
(***************************************************************************)
(* Theorems about KnowledgeImport, for every number of attempts,           *)
(* deletions, crashes, timeouts and errors, and about KnowledgeRetrieval,  *)
(* for every document, chunk size, overlap, batch size and budget.         *)
(*                                                                         *)
(* ImportInv is the inductive invariant of the import: typing, how the     *)
(* requests bound the life of the row, and, as long as no outcome has been *)
(* mistaken, what a coroutine under way means for it.  RetrievalInv is     *)
(* that of the splitter, the embedding and the context: what has been      *)
(* split has its words in the chunks, the vectors are complete when they   *)
(* are stored, and what the context leaves out did not fit beside what was *)
(* selected before it.                                                     *)
(***************************************************************************)
EXTENDS KnowledgeImport, KnowledgeRetrieval, FiniteSetTheorems, TLAPS

-----------------------------------------------------------------------------
(* The invariant of the import.                                            *)

\* The requests bound the life of the row, its chunks and its file.
LifeInv ==
    /\ upload \in {"IDLE", "CREATE"} => document.status = "ABSENT"
    /\ document.status = "ABSENT" => ~chunks /\ job = "IDLE"
    /\ deletion # "IDLE" \/ removal \notin {"IDLE", "DROP_UNSEEN"} => document.status # "ABSENT"
    /\ removal = "DROP" => ~file
    /\ deletion = "DELETE" => ~file
    /\ NothingOutlivesTheRow

\* Nobody has written the row in ignorance of what became of its job.
NobodyMistaken == spent["LATE"] = 0 /\ upload \notin {"UNLINK", "REJECTED"}

OutcomeInv ==
    NobodyMistaken =>
        /\ job # "IDLE" => document.status \in {"PROCESSING"} \union Gone
        /\ spent["DELETE"] = 0 =>
              /\ deletion = "IDLE" /\ removal = "IDLE"
              /\ chunks <=> document.status = "READY"

ImportInv == TypeOK /\ LifeInv /\ OutcomeInv

-----------------------------------------------------------------------------
(* The queue of one job.                                                   *)

\* What the job's coroutine or ARQ may make of the queue, by where it leaves
\* the job; an enqueue never touches a running one.
LEMMA QueueKeepsType ==
    ASSUME jobs \in [{ImportJob} -> Job]
    PROVE  /\ Delivered(jobs, ImportJob) \in [{ImportJob} -> Job]
           /\ Delivered(jobs, ImportJob)[ImportJob].phase = "RUNNING"
           /\ Requeued(jobs, ImportJob) \in [{ImportJob} -> Job]
           /\ Requeued(jobs, ImportJob)[ImportJob].phase = "QUEUED"
           /\ Finished(jobs, ImportJob) \in [{ImportJob} -> Job]
           /\ Finished(jobs, ImportJob)[ImportJob].phase = "FINISHED"
           /\ \A q \in EnqueueOutcomes(jobs, ImportJob) :
                 /\ q \in [{ImportJob} -> Job]
                 /\ q[ImportJob].phase = "RUNNING" <=> jobs[ImportJob].phase = "RUNNING"
  BY DEF Delivered, Requeued, Finished, EnqueueOutcomes, Enqueued, Blocked, KeepsResult, Job, JobPhase

LEMMA SpendCounts ==
    ASSUME spent \in [BoundedEvent -> Nat], NEW kind \in BoundedEvent, Spend(kind)
    PROVE  /\ spent' \in [BoundedEvent -> Nat]
           /\ \A k \in BoundedEvent : spent'[k] = 0 => spent[k] = 0
           /\ spent'[kind] # 0
           /\ \A k \in BoundedEvent \ {kind} : spent'[k] = spent[k]
  BY DEF Spend

-----------------------------------------------------------------------------
(* Typing.                                                                 *)

LEMMA SpentOnlyGrows ==
    ASSUME TypeOK, [Next]_vars
    PROVE  /\ spent' \in [BoundedEvent -> Nat]
           /\ \A k \in BoundedEvent : spent'[k] = 0 => spent[k] = 0
<1>1. spent' = spent \/ \E k \in BoundedEvent : Spend(k)
  BY DEF Next, Upload, Deletion, Import, Process, vars, BoundedEvent,
         SavePdf, CreateDocument, EnqueueDocument, EnqueueFails, MarkQueueUnavailable,
         UnlinkUpload, UploadCrash, DeleteChunks, UnlinkFile, DeleteRow, DeletionCrash,
         ListBase, RemoveChunks, RemoveFile, DropBase, RemovalCrash,
         Claim, Refuse, DropDelivery, ClaimError, ClearChunks, Parse, StoreAndMarkReady,
         LateError, TransientError, CleanUpAndRetry, ForgetChunks, MarkFailed, WriteError,
         JobTimeout, ProcessEnds, ProcessStarts, RecoveryEnqueue, StartupFails, ClaimGoesStale
<1>2. QED  BY <1>1, SpendCounts DEF TypeOK

LEMMA RowKeepsType ==
    ASSUME TypeOK, [Next]_vars
    PROVE  document' \in Document
<1>1. CASE Claim
  <2>1. document' = Claimed /\ document \in Document /\ MaxTries \in Nat
    BY <1>1, ImportAssumption DEF Claim, TypeOK
  <2>2. QED  BY <2>1 DEF Claimed, Document, DocumentStatus
<1>2. CASE DeleteRow \/ DropBase
  <2>1. \E s \in Gone : document' = Dropped(s)
    BY <1>2 DEF DeleteRow, DropBase, Gone
  <2>2. NoDocument \in Document /\ document \in Document
    BY ImportAssumption DEF NoDocument, Document, DocumentStatus, TypeOK
  <2>3. QED  BY <2>1, <2>2 DEF Dropped, Document, DocumentStatus
<1>3. CASE ~(Claim \/ DeleteRow \/ DropBase)
  <2>1. \/ document' = document
        \/ \E s \in DocumentStatus : document' = [document EXCEPT !.status = s]
        \/ document' = [document EXCEPT !.started = "STALE"]
    BY <1>3 DEF Next, Upload, Deletion, Import, Process, vars, DocumentStatus, FailedDocument,
         SavePdf, CreateDocument, EnqueueDocument, EnqueueFails, MarkQueueUnavailable,
         UnlinkUpload, UploadCrash, DeleteChunks, UnlinkFile, DeletionCrash,
         ListBase, RemoveChunks, RemoveFile, RemovalCrash,
         Refuse, DropDelivery, ClaimError, ClearChunks, Parse, StoreAndMarkReady,
         LateError, TransientError, CleanUpAndRetry, ForgetChunks, MarkFailed, WriteError,
         JobTimeout, ProcessEnds, ProcessStarts, RecoveryEnqueue, StartupFails, ClaimGoesStale
  <2>2. document \in Document
    BY DEF TypeOK
  <2>3. QED  BY <2>1, <2>2 DEF Document
<1>4. QED  BY <1>1, <1>2, <1>3

\* The queue, the coroutine and the process, which starts the one from the other.
LEMMA JobKeepsType ==
    ASSUME TypeOK, [Next]_vars
    PROVE  /\ jobs' \in [{ImportJob} -> Job]
           /\ job' \in JobStep
           /\ job' # "IDLE" <=> jobs'[ImportJob].phase = "RUNNING"
<1> USE DEF TypeOK
<1> DEFINE Typed(q, step) == /\ q \in [{ImportJob} -> Job]
                            /\ step \in JobStep
                            /\ step # "IDLE" <=> q[ImportJob].phase = "RUNNING"
<1>1. CASE Import
  <2>1. CASE Claim
    BY <2>1, QueueKeepsType DEF Claim, JobStep
  <2>2. CASE Refuse \/ DropDelivery \/ ClaimError
    <3>1. jobs' = Finished(jobs, ImportJob) /\ job' = job /\ jobs[ImportJob].phase = "QUEUED"
      BY <2>2 DEF Refuse, DropDelivery, ClaimError, Deliverable
    <3>2. QED  BY <3>1, QueueKeepsType
  <2>3. CASE StoreAndMarkReady \/ CleanUpAndRetry \/ MarkFailed \/ WriteError \/ JobTimeout
    <3>1. \/ job' = "IDLE" /\ jobs' = Finished(jobs, ImportJob)
          \/ job' = "IDLE" /\ jobs' = Requeued(jobs, ImportJob)
          \/ job # "IDLE" /\ job' \in JobStep \ {"IDLE"} /\ jobs' = jobs
      BY <2>3 DEF StoreAndMarkReady, CleanUpAndRetry, MarkFailed, WriteError, JobTimeout,
           End, Step, AfterException, JobStep
    <3>2. QED  BY <3>1, QueueKeepsType DEF JobStep
  <2>4. CASE ClearChunks \/ Parse \/ LateError \/ TransientError \/ ForgetChunks
    <3>1. job # "IDLE" /\ job' \in JobStep \ {"IDLE"} /\ jobs' = jobs
      BY <2>4 DEF ClearChunks, Parse, LateError, TransientError, ForgetChunks,
           Step, AfterException, JobStep
    <3>2. QED  BY <3>1
  <2>5. QED  BY <1>1, <2>1, <2>2, <2>3, <2>4 DEF Import
<1>2. CASE ProcessEnds
  <2>1. \/ job' = job /\ jobs' = jobs
        \/ job' = "IDLE" /\ jobs' = Requeued(jobs, ImportJob)
    BY <1>2 DEF ProcessEnds, End
  <2>2. QED  BY <2>1, QueueKeepsType DEF JobStep
<1>3. CASE ~Import /\ ~ProcessEnds
  <2>1. job' = job /\ (jobs' = jobs \/ jobs' \in EnqueueOutcomes(jobs, ImportJob))
    BY <1>3 DEF Next, Upload, Deletion, Process, vars,
         SavePdf, CreateDocument, EnqueueDocument, EnqueueFails, MarkQueueUnavailable,
         UnlinkUpload, UploadCrash, DeleteChunks, UnlinkFile, DeleteRow, DeletionCrash,
         ListBase, RemoveChunks, RemoveFile, DropBase, RemovalCrash,
         ProcessStarts, RecoveryEnqueue, StartupFails, ClaimGoesStale
  <2>2. QED  BY <2>1, QueueKeepsType
<1>4. QED  BY <1>1, <1>2, <1>3

LEMMA TypeIsKept ==
    ASSUME TypeOK, [Next]_vars
    PROVE  TypeOK'
<1> DEFINE Typed == /\ base' \in BOOLEAN /\ chunks' \in BOOLEAN /\ file' \in BOOLEAN
                    /\ process' \in ProcessStep /\ upload' \in UploadStep
                    /\ deletion' \in DeletionStep /\ removal' \in RemovalStep
<1> USE DEF TypeOK, ProcessStep, UploadStep, DeletionStep, RemovalStep
<1>1. Upload => Typed
  BY DEF Upload, SavePdf, CreateDocument, EnqueueDocument, EnqueueFails,
       MarkQueueUnavailable, UnlinkUpload, UploadCrash
<1>2. Deletion => Typed
  BY DEF Deletion, DeleteChunks, UnlinkFile, DeleteRow, DeletionCrash,
       ListBase, RemoveChunks, RemoveFile, DropBase, RemovalCrash
<1>3. Import => Typed
  BY DEF Import, Claim, Refuse, DropDelivery, ClaimError, ClearChunks, Parse,
       StoreAndMarkReady, LateError, TransientError, CleanUpAndRetry, ForgetChunks,
       MarkFailed, WriteError, JobTimeout
<1>4. Process => Typed
  BY DEF Process, ProcessEnds, ProcessStarts, RecoveryEnqueue, StartupFails, ClaimGoesStale
<1>5. Typed
  BY <1>1, <1>2, <1>3, <1>4 DEF Next, vars
<1>6. QED  BY <1>5, SpentOnlyGrows, RowKeepsType, JobKeepsType

-----------------------------------------------------------------------------
(* The row, its chunks and its file.                                       *)

LEMMA StatusOfARow ==
    ASSUME document \in Document, NEW s \in DocumentStatus
    PROVE  /\ [document EXCEPT !.status = s].status = s
           /\ [document EXCEPT !.started = "STALE"].status = document.status
           /\ Claimed.status = "PROCESSING"
           /\ Dropped(s).status = IF Exists THEN s ELSE document.status
  BY DEF Document, Claimed, NoDocument, Dropped

LEMMA LifeIsKept ==
    ASSUME TypeOK, LifeInv, [Next]_vars
    PROVE  LifeInv'
<1> USE DEF LifeInv, NothingOutlivesTheRow, Exists, Gone
<1>0. document \in Document /\ Gone \subseteq DocumentStatus /\ "PENDING" \in DocumentStatus
      /\ "READY" \in DocumentStatus /\ "FAILED" \in DocumentStatus
  BY DEF TypeOK, DocumentStatus
<1>1. CASE Upload
  <2>1. CASE SavePdf
    BY <2>1 DEF SavePdf
  <2>2. CASE CreateDocument
    BY <2>2, <1>0, StatusOfARow DEF CreateDocument
  <2>3. CASE MarkQueueUnavailable
    BY <2>3, <1>0, StatusOfARow DEF MarkQueueUnavailable, FailedDocument
  <2>4. CASE EnqueueDocument \/ EnqueueFails \/ UnlinkUpload \/ UploadCrash
    BY <2>4 DEF EnqueueDocument, EnqueueFails, UnlinkUpload, UploadCrash, UploadOver
  <2>5. QED  BY <1>1, <2>1, <2>2, <2>3, <2>4 DEF Upload
<1>2. CASE Deletion
  <2>1. CASE DeleteRow
    BY <2>1, <1>0, StatusOfARow DEF DeleteRow
  <2>2. CASE DropBase
    BY <2>2, <1>0, StatusOfARow DEF DropBase
  <2>3. CASE DeleteChunks \/ UnlinkFile \/ DeletionCrash
    BY <2>3 DEF DeleteChunks, UnlinkFile, DeletionCrash
  <2>4. CASE ListBase \/ RemoveChunks \/ RemoveFile \/ RemovalCrash
    BY <2>4 DEF ListBase, RemoveChunks, RemoveFile, RemovalCrash
  <2>5. QED  BY <1>2, <2>1, <2>2, <2>3, <2>4 DEF Deletion
<1>3. CASE Import
  <2>1. CASE Claim
    BY <2>1, <1>0, StatusOfARow DEF Claim, MayClaim
  <2>2. CASE StoreAndMarkReady \/ LateError
    <3>1. \/ ~Exists /\ UNCHANGED <<document, chunks>>
          \/ Exists /\ document' = [document EXCEPT !.status = "READY"]
      BY <2>2 DEF StoreAndMarkReady, LateError
    <3>2. document.status # "ABSENT" /\ UNCHANGED <<file, upload, deletion, removal>>
      BY <2>2 DEF StoreAndMarkReady, LateError
    <3>3. CASE ~Exists /\ UNCHANGED <<document, chunks>>
      BY <3>3, <3>2
    <3>4. CASE Exists /\ document' = [document EXCEPT !.status = "READY"]
      <4>1. document'.status = "READY"
        BY <3>4, <1>0, StatusOfARow
      <4>2. QED  BY <3>2, <3>4, <4>1
    <3>5. QED  BY <3>1, <3>3, <3>4
  <2>3. CASE MarkFailed
    BY <2>3, <1>0, StatusOfARow DEF MarkFailed, FailedDocument, End
  <2>4. CASE ~(Claim \/ StoreAndMarkReady \/ LateError \/ MarkFailed)
    BY <1>3, <2>4 DEF Import, Refuse, DropDelivery, ClaimError, ClearChunks, Parse, TransientError,
         CleanUpAndRetry, ForgetChunks, WriteError, JobTimeout, Step, End
  <2>5. QED  BY <2>1, <2>2, <2>3, <2>4
<1>4. CASE Process
  <2>1. CASE ClaimGoesStale
    BY <2>1, <1>0, StatusOfARow DEF ClaimGoesStale
  <2>2. CASE ~ClaimGoesStale
    BY <1>4, <2>2 DEF Process, ProcessEnds, ProcessStarts, RecoveryEnqueue, StartupFails, End
  <2>3. QED  BY <2>1, <2>2
<1>5. CASE UNCHANGED vars
  BY <1>5 DEF vars
<1>6. QED  BY <1>1, <1>2, <1>3, <1>4, <1>5 DEF Next

LEMMA OutcomeIsKept ==
    ASSUME ImportInv, [Next]_vars
    PROVE  OutcomeInv'
<1> USE DEF ImportInv, OutcomeInv, NobodyMistaken, Gone
<1>0. document \in Document /\ Gone \subseteq DocumentStatus /\ "PENDING" \in DocumentStatus
      /\ "READY" \in DocumentStatus /\ "FAILED" \in DocumentStatus
  BY DEF TypeOK, DocumentStatus
<1>1. \A k \in BoundedEvent : spent'[k] = 0 => spent[k] = 0
  BY SpentOnlyGrows
<1>2. "LATE" \in BoundedEvent /\ "DELETE" \in BoundedEvent
  BY DEF BoundedEvent
<1>3. CASE Upload
  <2>1. CASE CreateDocument
    BY <2>1, <1>0, <1>1, <1>2, StatusOfARow DEF CreateDocument, LifeInv
  <2>2. CASE MarkQueueUnavailable
    BY <2>2, <1>1, <1>2 DEF MarkQueueUnavailable, FailedDocument
  <2>3. CASE ~(CreateDocument \/ MarkQueueUnavailable)
    BY <1>3, <2>3, <1>1, <1>2 DEF Upload, SavePdf, EnqueueDocument, EnqueueFails, UnlinkUpload,
         UploadCrash, UploadOver
  <2>4. QED  BY <2>1, <2>2, <2>3
<1>4. CASE Deletion
  <2>1. CASE DeleteRow
    BY <2>1, <1>0, <1>1, <1>2, StatusOfARow DEF DeleteRow
  <2>2. CASE DropBase
    BY <2>2, <1>0, <1>1, <1>2, StatusOfARow DEF DropBase, LifeInv
  <2>3. CASE DeleteChunks
    <3>1. spent'["DELETE"] # 0
      BY <2>3, <1>2, SpendCounts DEF DeleteChunks, TypeOK
    <3>2. QED  BY <2>3, <3>1, <1>1, <1>2 DEF DeleteChunks
  <2>4. CASE ListBase
    BY <2>4, <1>2, SpendCounts DEF ListBase, TypeOK
  <2>5. CASE RemoveChunks
    BY <2>5, <1>1, <1>2 DEF RemoveChunks
  <2>6. CASE UnlinkFile \/ DeletionCrash \/ RemoveFile \/ RemovalCrash
    BY <2>6, <1>1, <1>2 DEF UnlinkFile, DeletionCrash, RemoveFile, RemovalCrash
  <2>7. QED  BY <1>4, <2>1, <2>2, <2>3, <2>4, <2>5, <2>6 DEF Deletion
<1>5. CASE Import
  <2>1. CASE Claim
    BY <2>1, <1>0, <1>1, <1>2, StatusOfARow DEF Claim, MayClaim
  <2>2. CASE StoreAndMarkReady
    BY <2>2, <1>0, <1>1, <1>2, StatusOfARow DEF StoreAndMarkReady, Step, End, Exists
  <2>3. CASE LateError
    <3>1. spent'["LATE"] # 0
      BY <2>3, <1>2, SpendCounts DEF LateError, TypeOK
    <3>2. QED  BY <3>1
  <2>4. CASE MarkFailed
    BY <2>4, <1>0, <1>1, <1>2, StatusOfARow DEF MarkFailed, FailedDocument, End
  <2>5. CASE ~(Claim \/ StoreAndMarkReady \/ LateError \/ MarkFailed)
    BY <1>5, <2>5, <1>1, <1>2 DEF Import, Refuse, DropDelivery, ClaimError, ClearChunks, Parse,
         TransientError, CleanUpAndRetry, ForgetChunks, WriteError, JobTimeout, Step, End
  <2>6. QED  BY <2>1, <2>2, <2>3, <2>4, <2>5
<1>6. CASE Process
  <2>1. CASE ClaimGoesStale
    BY <2>1, <1>0, <1>1, <1>2, StatusOfARow DEF ClaimGoesStale
  <2>2. CASE ~ClaimGoesStale
    BY <1>6, <2>2, <1>1, <1>2 DEF Process, ProcessEnds, ProcessStarts, RecoveryEnqueue,
         StartupFails, End
  <2>3. QED  BY <2>1, <2>2
<1>7. CASE UNCHANGED vars
  BY <1>7 DEF vars
<1>8. QED  BY <1>3, <1>4, <1>5, <1>6, <1>7 DEF Next

-----------------------------------------------------------------------------
(* The theorems.                                                           *)

LEMMA InitHolds == Init => ImportInv
<1> SUFFICES ASSUME Init PROVE ImportInv
  OBVIOUS
<1>1. TypeOK
  <2>1. NoDocument \in Document
    BY ImportAssumption DEF NoDocument, Document, DocumentStatus
  <2>2. /\ EmptyQueue({ImportJob}) \in [{ImportJob} -> Job]
        /\ EmptyQueue({ImportJob})[ImportJob].phase # "RUNNING"
    BY DEF EmptyQueue, NoJob, Job, JobPhase
  <2>3. QED
    BY <2>1, <2>2 DEF Init, TypeOK, JobStep, ProcessStep, UploadStep, DeletionStep, RemovalStep
<1>2. LifeInv /\ OutcomeInv
  BY DEF Init, NoDocument, LifeInv, OutcomeInv, NothingOutlivesTheRow, Exists
<1>3. QED  BY <1>1, <1>2 DEF ImportInv

\* The invariant holds in every reachable state, for all values of the constants.
THEOREM ImportInvariant == Spec => []ImportInv
<1>1. ImportInv /\ [Next]_vars => ImportInv'
  BY TypeIsKept, LifeIsKept, OutcomeIsKept DEF ImportInv
<1>2. QED  BY InitHolds, <1>1, PTL DEF Spec

\* Every variable keeps its type, and a coroutine runs exactly while its job
\* is in progress.
THEOREM ImportTypeCorrect == Spec => []TypeOK
<1>1. ImportInv => TypeOK
  BY DEF ImportInv
<1>2. QED  BY ImportInvariant, <1>1, PTL

\* Chunks and file never outlive a deleted document: a job that was embedding
\* meanwhile cannot bring them back, nor a deletion that was repeated.
THEOREM DeletionIsComplete == Spec => []NothingOutlivesTheRow
<1>1. ImportInv => NothingOutlivesTheRow
  BY DEF ImportInv, LifeInv
<1>2. QED  BY ImportInvariant, <1>1, PTL

\* Committed chunks and the status READY go together, through any number of
\* redeliveries, retries, crashes and timeouts.
THEOREM ReadyMeansSearchable == Spec => []SearchableExactlyWhenReady
<1>1. ImportInv => SearchableExactlyWhenReady
  BY DEF ImportInv, OutcomeInv, NobodyMistaken, OutcomesKnown, SearchableExactlyWhenReady
<1>2. QED  BY ImportInvariant, <1>1, PTL

\* No redelivery, retry or recovery touches the outcome of an import.
THEOREM OutcomesNeverChange == Spec => SettledIsFinal
<1>1. ImportInv /\ [Next]_vars =>
        [(OutcomesKnown /\ document.status \in {"READY", "FAILED"})
          => document'.status \in {document.status} \union Gone]_vars
  <2> SUFFICES ASSUME ImportInv, [Next]_vars,
                      OutcomesKnown, document.status \in {"READY", "FAILED"}
               PROVE  document'.status \in {document.status} \union Gone
    OBVIOUS
  <2>1. job = "IDLE" /\ upload \notin {"CREATE", "MARK"}
    BY DEF ImportInv, LifeInv, OutcomeInv, NobodyMistaken, OutcomesKnown, Gone
  <2>2. CASE DeleteRow \/ DropBase
    BY <2>2 DEF DeleteRow, DropBase, Dropped, NoDocument, Gone
  <2>3. CASE ~(DeleteRow \/ DropBase)
    <3>1. document' = document
      BY <2>1, <2>3 DEF Next, Upload, Deletion, Import, Process, vars, MayClaim,
           SavePdf, CreateDocument, EnqueueDocument, EnqueueFails, MarkQueueUnavailable,
           UnlinkUpload, UploadCrash, DeleteChunks, UnlinkFile, DeletionCrash,
           ListBase, RemoveChunks, RemoveFile, RemovalCrash,
           Claim, Refuse, DropDelivery, ClaimError, ClearChunks, Parse, StoreAndMarkReady,
           LateError, TransientError, CleanUpAndRetry, ForgetChunks, MarkFailed, WriteError,
           JobTimeout, ProcessEnds, ProcessStarts, RecoveryEnqueue, StartupFails, ClaimGoesStale
    <3>2. QED  BY <3>1
  <2>4. QED  BY <2>2, <2>3
<1>2. QED  BY ImportInvariant, <1>1, PTL DEF Spec, SettledIsFinal

-----------------------------------------------------------------------------
(* Least elements.  What the library states of well-founded relations      *)
(* takes the place of induction here.                                      *)

LEMMA StrictSubsetIsLess ==
    ASSUME NEW S, NEW A \in SUBSET S, NEW B \in SUBSET S, A \subseteq B, A # B
    PROVE  <<A, B>> \in StrictSubsetOrdering(S)
<1>1. <<A, B>> \in (SUBSET S) \X (SUBSET S)
  OBVIOUS
<1>2. <<A, B>>[1] = A /\ <<A, B>>[2] = B
  OBVIOUS
<1>3. QED  BY <1>1, <1>2, Zenon DEF StrictSubsetOrdering

\* Among finite sets there is one that has none of the others as a part.
LEMMA SmallestSet ==
    ASSUME NEW S, NEW F, F \subseteq FiniteSubsetsOf(S), F # {}
    PROVE  \E A \in F : \A B \in F : B \subseteq A => B = A
<1> DEFINE R == StrictSubsetOrdering(S)
<1>1. IsWellFoundedOn(R, FiniteSubsetsOf(S))
  BY FS_StrictSubsetOrderingWellFounded
<1>2. \E A \in F : \A B \in F : ~(<<B, A>> \in R)
  <2> HIDE DEF R
  <2>1. QED  BY <1>1, WFMin
<1>3. PICK A \in F : \A B \in F : ~(<<B, A>> \in R)
  BY <1>2
<1>4. ASSUME NEW B \in F, B \subseteq A, B # A PROVE FALSE
  <2>1. A \in SUBSET S /\ B \in SUBSET S
    BY DEF FiniteSubsetsOf
  <2>2. <<B, A>> \in R
    BY <1>4, <2>1, StrictSubsetIsLess
  <2>3. QED  BY <1>3, <2>2
<1>5. QED  BY <1>4

LEMMA LeastOfNaturals ==
    ASSUME NEW S \in SUBSET Nat, S # {}
    PROVE  \E m \in S : \A n \in S : m <= n
<1> DEFINE below(n) == 0 .. n - 1
           F == {below(n) : n \in S}
<1>1. F # {} /\ F \subseteq FiniteSubsetsOf(Nat)
  <2>1. ASSUME NEW n \in S PROVE below(n) \in FiniteSubsetsOf(Nat)
    BY FS_Interval DEF FiniteSubsetsOf
  <2>2. QED  BY <2>1
<1>2. \E A \in F : \A B \in F : B \subseteq A => B = A
  <2> HIDE DEF F
  <2>1. QED  BY <1>1, SmallestSet
<1>3. PICK m \in S : \A n \in S : below(n) \subseteq below(m) => below(n) = below(m)
  <2>1. PICK A \in F : \A B \in F : B \subseteq A => B = A
    BY <1>2
  <2>2. PICK m \in S : A = below(m)
    OBVIOUS
  <2>3. ASSUME NEW n \in S, below(n) \subseteq below(m) PROVE below(n) = below(m)
    <3>1. below(n) \in F
      OBVIOUS
    <3>2. QED  BY <2>1, <2>2, <2>3, <3>1, Zenon
  <2>4. QED  BY <2>3
<1>4. ASSUME NEW n \in S, n < m PROVE FALSE
  <2>1. below(n) \subseteq below(m) /\ n \in below(m) /\ n \notin below(n)
    BY <1>4
  <2>2. QED  BY <1>3, <2>1
<1>5. \A n \in S : ~(n < m)
  BY <1>4
<1>6. QED  BY <1>5

LEMMA MinIsLeast ==
    ASSUME NEW S \in SUBSET Nat, S # {}
    PROVE  Min(S) \in S /\ \A n \in S : Min(S) <= n
  BY LeastOfNaturals DEF Min

LEMMA MaxIsGreatest ==
    ASSUME NEW S \in SUBSET Nat, S # {}, NEW b \in Nat, \A n \in S : n <= b
    PROVE  Max(S) \in S /\ \A n \in S : n <= Max(S)
<1> DEFINE T == {b - n : n \in S}
<1>1. T \in SUBSET Nat /\ T # {}
  <2>1. ASSUME NEW n \in S PROVE b - n \in Nat
    OBVIOUS
  <2>2. QED  BY <2>1
<1>2. \E m \in T : \A n \in T : m <= n
  <2> HIDE DEF T
  <2>1. QED  BY <1>1, LeastOfNaturals
<1>3. PICK m \in S : \A n \in S : b - m <= b - n
  <2>1. PICK k \in T : \A n \in T : k <= n
    BY <1>2
  <2>2. PICK m \in S : k = b - m
    OBVIOUS
  <2>3. ASSUME NEW n \in S PROVE b - m <= b - n
    <3>1. b - n \in T
      OBVIOUS
    <3>2. QED  BY <2>1, <2>2, <3>1
  <2>4. QED  BY <2>3
<1>4. \A n \in S : m >= n
  BY <1>3
<1>5. QED  BY <1>4 DEF Max

LEMMA MaxOfTwo ==
    ASSUME NEW m \in Nat, NEW n \in Nat
    PROVE  Max({m, n}) = IF m >= n THEN m ELSE n
<1>1. \E x \in {m, n} : \A y \in {m, n} : x >= y
  OBVIOUS
<1>2. Max({m, n}) \in {m, n} /\ \A y \in {m, n} : Max({m, n}) >= y
  BY <1>1 DEF Max
<1>3. QED  BY <1>2

-----------------------------------------------------------------------------
(* Token counts: TokenCount adds up in whichever order the chunks come.    *)

Picked(S) == CHOOSE c \in S : TRUE

\* g adds up the tokens of every part of S, in the order of Picked.
AddsUp(g, S) ==
    g = [s \in SUBSET S |-> IF s = {} THEN 0 ELSE Tokens(Picked(s)) + g[s \ {Picked(s)}]]

LEMMA SumStep ==
    ASSUME NEW g, NEW S, AddsUp(g, S)
    PROVE  /\ g[{}] = 0
           /\ \A s \in SUBSET S : s # {} =>
                /\ Picked(s) \in s
                /\ g[s] = Tokens(Picked(s)) + g[s \ {Picked(s)}]
<1>1. \A s \in SUBSET S :
        g[s] = IF s = {} THEN 0 ELSE Tokens(Picked(s)) + g[s \ {Picked(s)}]
  BY DEF AddsUp
<1>2. QED  BY <1>1 DEF Picked

LEMMA SumIsUnique ==
    ASSUME NEW S, NEW T, IsFiniteSet(S), S \subseteq T,
           NEW g, NEW h, AddsUp(g, S), AddsUp(h, T)
    PROVE  \A s \in SUBSET S : g[s] = h[s]
<1> DEFINE F == {s \in SUBSET S : g[s] # h[s]}
<1> SUFFICES ASSUME F # {} PROVE FALSE
  OBVIOUS
<1>1. F \subseteq FiniteSubsetsOf(S)
  <2>1. ASSUME NEW s \in F PROVE s \in FiniteSubsetsOf(S)
    <3>1. s \in SUBSET S
      OBVIOUS
    <3>2. QED  BY <3>1, FS_Subset DEF FiniteSubsetsOf
  <2>2. QED  BY <2>1
<1>2. PICK A \in F : \A B \in F : B \subseteq A => B = A
  <2> HIDE DEF F
  <2>1. QED  BY <1>1, SmallestSet
<1>3. A \in SUBSET S /\ A \in SUBSET T /\ g[A] # h[A]
  OBVIOUS
<1>4. A # {}
  BY <1>3, SumStep
<1> DEFINE B == A \ {Picked(A)}
<1>5. /\ Picked(A) \in A
      /\ g[A] = Tokens(Picked(A)) + g[B] /\ h[A] = Tokens(Picked(A)) + h[B]
  BY <1>3, <1>4, SumStep
<1>6. B \in SUBSET S /\ B \subseteq A /\ B # A
  BY <1>3, <1>5
<1>7. g[B] = h[B]
  BY <1>2, <1>6
<1>8. QED  BY <1>3, <1>5, <1>7

LEMMA SumExists ==
    ASSUME NEW S, IsFiniteSet(S)
    PROVE  \E g : AddsUp(g, S)
<1> DEFINE F == {T \in SUBSET S : ~ \E g : AddsUp(g, T)}
<1> SUFFICES ASSUME F # {} PROVE FALSE
  OBVIOUS
<1>1. F \subseteq FiniteSubsetsOf(S)
  <2>1. ASSUME NEW s \in F PROVE s \in FiniteSubsetsOf(S)
    <3>1. s \in SUBSET S
      OBVIOUS
    <3>2. QED  BY <3>1, FS_Subset DEF FiniteSubsetsOf
  <2>2. QED  BY <2>1
<1>2. PICK T \in F : \A U \in F : U \subseteq T => U = T
  <2> HIDE DEF F
  <2>1. QED  BY <1>1, SmallestSet
<1> DEFINE sum(U) == CHOOSE g : AddsUp(g, U)
           next(U) == U \ {Picked(U)}
<1>3. ASSUME NEW U \in SUBSET T, U # T PROVE AddsUp(sum(U), U)
  <2>1. U \in SUBSET S /\ U \notin F
    BY <1>2, <1>3
  <2>2. \E g : AddsUp(g, U)
    BY <2>1
  <2>3. QED  BY <2>2
<1> DEFINE h == [U \in SUBSET T |->
                    IF U = {} THEN 0 ELSE Tokens(Picked(U)) + sum(next(U))[next(U)]]
<1>4. ASSUME NEW U \in SUBSET T, U # T PROVE h[U] = sum(U)[U]
  <2>1. AddsUp(sum(U), U)
    BY <1>3, <1>4
  <2>2. h[U] = IF U = {} THEN 0 ELSE Tokens(Picked(U)) + sum(next(U))[next(U)]
    OBVIOUS
  <2> HIDE DEF sum, h
  <2>3. CASE U = {}
    BY <2>1, <2>2, <2>3, SumStep
  <2>4. CASE U # {}
    <3>1. Picked(U) \in U /\ sum(U)[U] = Tokens(Picked(U)) + sum(U)[next(U)]
      BY <2>1, <2>4, SumStep
    <3>2. next(U) \in SUBSET T /\ next(U) # T /\ next(U) \subseteq U /\ IsFiniteSet(next(U))
      BY <1>2, <1>4, <3>1, FS_Subset
    <3>3. AddsUp(sum(next(U)), next(U))
      BY <1>3, <3>2
    <3>4. sum(next(U))[next(U)] = sum(U)[next(U)]
      <4> HIDE DEF next
      <4>1. QED  BY <2>1, <3>2, <3>3, SumIsUnique
    <3>5. QED  BY <2>2, <2>4, <3>1, <3>4
  <2>5. QED  BY <2>3, <2>4
<1>5. ASSUME NEW U \in SUBSET T, U # {} PROVE sum(next(U))[next(U)] = h[next(U)]
  <2>1. Picked(U) \in U
    BY <1>5 DEF Picked
  <2>2. next(U) \in SUBSET T /\ next(U) # T
    BY <2>1
  <2> HIDE DEF next, h, sum
  <2>3. QED  BY <1>4, <2>2
<1>6. h = [U \in SUBSET T |-> IF U = {} THEN 0 ELSE Tokens(Picked(U)) + h[next(U)]]
  <2> DEFINE k == [U \in SUBSET T |-> IF U = {} THEN 0 ELSE Tokens(Picked(U)) + h[next(U)]]
  <2>1. \A U \in SUBSET T : h[U] = k[U]
    <3>1. \A U \in SUBSET T :
            h[U] = IF U = {} THEN 0 ELSE Tokens(Picked(U)) + sum(next(U))[next(U)]
      OBVIOUS
    <3> HIDE DEF h, sum, next
    <3>2. QED  BY <1>5, <3>1
  <2>2. h = [U \in SUBSET T |-> h[U]]
    OBVIOUS
  <2>3. k = [U \in SUBSET T |-> k[U]]
    OBVIOUS
  <2> HIDE DEF h, k
  <2>4. h = k
    BY <2>1, <2>2, <2>3
  <2>5. QED  BY <2>4 DEF k
<1>7. AddsUp(h, T)
  BY <1>6 DEF AddsUp
<1>8. QED  BY <1>2, <1>7

LEMMA TokenCountIsSum ==
    ASSUME NEW S, IsFiniteSet(S)
    PROVE  \E g : AddsUp(g, S) /\ TokenCount(S) = g[S]
<1> DEFINE h == CHOOSE g : AddsUp(g, S)
<1>1. AddsUp(h, S)
  BY SumExists
<1>2. TokenCount(S) = h[S]
  BY DEF TokenCount, MapThenSumSet, MapThenFoldSet, AddsUp, Picked
<1>3. QED  BY <1>1, <1>2

LEMMA TokenCountStep ==
    ASSUME NEW S, IsFiniteSet(S)
    PROVE  /\ TokenCount({}) = 0
           /\ S # {} => /\ Picked(S) \in S
                        /\ TokenCount(S) = Tokens(Picked(S)) + TokenCount(S \ {Picked(S)})
<1>1. IsFiniteSet({}) /\ {} \in SUBSET S
  BY FS_EmptySet
<1>2. TokenCount({}) = 0
  BY <1>1, TokenCountIsSum, SumStep
<1>3. ASSUME S # {}
      PROVE  /\ Picked(S) \in S
             /\ TokenCount(S) = Tokens(Picked(S)) + TokenCount(S \ {Picked(S)})
  <2>1. PICK g : AddsUp(g, S) /\ TokenCount(S) = g[S]
    BY TokenCountIsSum
  <2> DEFINE U == S \ {Picked(S)}
  <2>2. Picked(S) \in S /\ TokenCount(S) = Tokens(Picked(S)) + g[U]
    BY <1>3, <2>1, SumStep
  <2>3. IsFiniteSet(U) /\ U \subseteq S
    BY FS_Subset
  <2> HIDE DEF U
  <2>4. PICK h : AddsUp(h, U) /\ TokenCount(U) = h[U]
    BY <2>3, TokenCountIsSum
  <2>5. h[U] = g[U]
    BY <2>1, <2>3, <2>4, SumIsUnique
  <2>6. QED  BY <2>2, <2>4, <2>5 DEF U
<1>4. QED  BY <1>2, <1>3

\* Whichever chunk is taken out first.
LEMMA TokenCountWithout ==
    ASSUME NEW S, IsFiniteSet(S), \A c \in S : Tokens(c) \in Nat
    PROVE  /\ TokenCount(S) \in Nat
           /\ \A c \in S : TokenCount(S) = Tokens(c) + TokenCount(S \ {c})
<1> DEFINE Good(s) == /\ TokenCount(s) \in Nat
                      /\ \A c \in s : TokenCount(s) = Tokens(c) + TokenCount(s \ {c})
           F == {s \in SUBSET S : ~Good(s)}
<1> SUFFICES ASSUME F # {} PROVE FALSE
  OBVIOUS
<1>1. F \subseteq FiniteSubsetsOf(S)
  <2>1. ASSUME NEW s \in F PROVE s \in FiniteSubsetsOf(S)
    <3>1. s \in SUBSET S
      OBVIOUS
    <3>2. QED  BY <3>1, FS_Subset DEF FiniteSubsetsOf
  <2>2. QED  BY <2>1
<1>2. \E A \in F : \A B \in F : B \subseteq A => B = A
  <2> HIDE DEF F
  <2>1. QED  BY <1>1, SmallestSet
<1>3. PICK A \in F : \A B \in F : B \subseteq A => B = A
  BY <1>2
<1>4. A \in SUBSET S /\ ~Good(A)
  OBVIOUS
<1>5. ASSUME NEW B \in SUBSET S, B \subseteq A, B # A PROVE Good(B)
  BY <1>3, <1>5
<1> HIDE DEF F
<1>6. IsFiniteSet(A)
  BY <1>4, FS_Subset
<1>7. CASE A = {}
  <2>1. TokenCount({}) = 0
    BY <1>6, TokenCountStep
  <2>2. Good({})
    BY <2>1
  <2>3. QED  BY <1>4, <1>7, <2>2
<1>8. CASE A # {}
  <2> DEFINE x == Picked(A)
             B == A \ {x}
  <2>1. x \in A /\ TokenCount(A) = Tokens(x) + TokenCount(B)
    BY <1>6, <1>8, TokenCountStep
  <2>2. Good(B)
    BY <1>4, <1>5, <2>1
  <2>3. TokenCount(A) \in Nat
    BY <1>4, <2>1, <2>2
  <2>4. ASSUME NEW c \in A PROVE TokenCount(A) = Tokens(c) + TokenCount(A \ {c})
    <3>1. CASE c = x
      BY <2>1, <3>1
    <3>2. CASE c # x
      <4> DEFINE C == A \ {c}
                 D == (A \ {x}) \ {c}
      <4>1. c \in B /\ TokenCount(B) = Tokens(c) + TokenCount(D)
        BY <2>2, <3>2
      <4>2. Good(C) /\ x \in C
        BY <1>4, <1>5, <2>1, <3>2
      <4>3. C \ {x} = D
        OBVIOUS
      <4>4. TokenCount(C) = Tokens(x) + TokenCount(D)
        BY <4>2, <4>3
      <4>5. Good(D)
        BY <1>4, <1>5, <2>1
      <4>6. Tokens(c) \in Nat /\ Tokens(x) \in Nat /\ TokenCount(D) \in Nat
        BY <1>4, <2>1, <4>5
      <4> HIDE DEF B, C, D, x, Good
      <4>7. TokenCount(A) = Tokens(c) + TokenCount(C)
        BY <2>1, <4>1, <4>4, <4>6
      <4>8. QED  BY <4>7 DEF C
    <3>3. QED  BY <3>1, <3>2
  <2>5. QED  BY <1>4, <2>3, <2>4
<1>9. QED  BY <1>7, <1>8

-----------------------------------------------------------------------------
(* The invariant of the splitter, the embedding and the context.           *)

Found(p, i) == \E c \in textChunks : c.page = p /\ i \in c.words

\* What has been split has its words in the chunks.
SplitInv ==
    /\ IsFiniteSet(textChunks)
    /\ \A c \in textChunks : c.words # {}
    /\ page <= Len(pages) => start <= Len(Text)
    /\ \A p \in DOMAIN pages : \A i \in 0 .. Len(pages[p]) - 1 :
        /\ pages[p][i + 1] = "WORD"
        /\ p < page \/ (p = page /\ i < start)
        => Found(p, i)

\* The vectors are complete when they are stored, and begun after the split.
EmbedInv ==
    /\ phase = "SPLIT" => batch = 0
    /\ phase \in {"SEARCH", "ASSEMBLE", "DONE", "NO_RESULTS"} => batch = BatchCount

\* What has been looked at is at least as similar as what waits, and left out
\* only for what was selected before it.
ContextInv ==
    LET seen == DOMAIN score \ waiting
    IN  /\ selected \subseteq seen
        /\ \A c \in seen, d \in waiting : score[c] >= score[d]
        /\ TokenCount(selected) <= MaxContextTokens
        /\ \A c \in seen \ selected :
            Tokens(c) + TokenCount({d \in selected : score[d] >= score[c]}) > MaxContextTokens
        /\ phase \in {"SPLIT", "EMBED", "FAILED", "SEARCH"} => selected = {}
        /\ phase \in {"DONE", "NO_RESULTS"} => waiting = {}

RetrievalInv == RetrievalTypeOK /\ SplitInv /\ EmbedInv /\ ContextInv

-----------------------------------------------------------------------------
(* Where a chunk ends, which batch it is in, how long its excerpt is.      *)

LEMMA SeparatorsAreBetween ==
    ASSUME NEW a \in Nat, NEW b \in Nat
    PROVE  Separators(a, b) \in SUBSET Nat /\ \A i \in Separators(a, b) : a <= i /\ i <= b - 1
  BY DEF Separators

\* Every round moves on, and never beyond the end of the page.
LEMMA CutMovesOn ==
    ASSUME RetrievalTypeOK, page <= Len(pages), start < Len(Text)
    PROVE  CutEnd \in Nat /\ start < CutEnd /\ CutEnd <= Len(Text)
<1> DEFINE full == start + ChunkSize
           separators == Separators(start, full)
           boundary == Max(separators)
<1>1. start \in Nat /\ Len(Text) \in Nat /\ ChunkSize \in Nat \ {0} /\ full \in Nat /\ full > start
  <2>1. pages \in Seq(Seq({"WORD", "SEPARATOR"})) /\ page \in 1 .. Len(pages)
    BY RetrievalAssumption DEF RetrievalTypeOK
  <2>2. Text \in Seq({"WORD", "SEPARATOR"})
    BY <2>1 DEF Text
  <2>3. QED  BY <2>2, RetrievalAssumption DEF RetrievalTypeOK
<1>2. ASSUME separators # {}
      PROVE  boundary \in Nat /\ boundary <= full - 1
  <2>1. separators \in SUBSET Nat /\ \A i \in separators : i <= full - 1
    BY <1>1, SeparatorsAreBetween
  <2>2. full - 1 \in Nat
    BY <1>1
  <2> HIDE DEF separators, full
  <2>3. boundary \in separators
    BY <1>2, <2>1, <2>2, MaxIsGreatest
  <2>4. QED  BY <2>1, <2>3
<1>3. CutEnd = IF full >= Len(Text) THEN Len(Text)
               ELSE IF separators # {} /\ boundary > start + ChunkSize \div 2
               THEN boundary ELSE full
  BY DEF CutEnd
<1>4. ChunkSize \div 2 \in Nat
  BY <1>1
<1> HIDE DEF full, separators, boundary
<1>5. QED  BY <1>1, <1>2, <1>3, <1>4

LEMMA NextStartIsWithin ==
    ASSUME RetrievalTypeOK, page <= Len(pages), start < Len(Text)
    PROVE  NextStart \in Nat /\ NextStart > start /\ NextStart <= CutEnd
<1>1. CutEnd \in Nat /\ start < CutEnd
  BY CutMovesOn
<1>2. start \in Nat /\ overlap \in Nat
  BY RetrievalAssumption DEF RetrievalTypeOK
<1>3. CASE CutEnd - overlap \in Nat
  <2>1. NextStart = IF CutEnd - overlap >= start + 1 THEN CutEnd - overlap ELSE start + 1
    BY <1>2, <1>3, MaxOfTwo DEF NextStart
  <2>2. QED  BY <1>1, <1>2, <1>3, <2>1
<1>4. CASE CutEnd - overlap \notin Nat
  <2>1. CutEnd - overlap < start + 1
    BY <1>1, <1>2, <1>4
  <2> DEFINE m == CutEnd - overlap
             n == start + 1
  <2>2. m \in Int /\ n \in Nat /\ m < n
    BY <1>1, <1>2, <2>1
  <2> HIDE DEF m, n
  <2>3. Max({m, n}) = n
    <3>1. n \in {m, n} /\ \A y \in {m, n} : n >= y
      BY <2>2
    <3>2. Max({m, n}) \in {m, n} /\ \A y \in {m, n} : Max({m, n}) >= y
      BY <3>1 DEF Max
    <3>3. QED  BY <2>2, <3>2
  <2>4. QED  BY <1>1, <1>2, <2>3 DEF NextStart, m, n
<1>5. QED  BY <1>3, <1>4

LEMMA BatchSizeIsPositive ==
    ASSUME RetrievalTypeOK
    PROVE  EffectiveBatchSize \in Nat \ {0}
<1>1. BatchSize \in Nat \ {0} /\ limit \in Nat \ {0}
  BY RetrievalAssumption DEF RetrievalTypeOK
<1>2. Min({BatchSize, limit}) \in {BatchSize, limit}
  BY <1>1, MinIsLeast
<1>3. QED  BY <1>1, <1>2 DEF EffectiveBatchSize

LEMMA Quotient ==
    ASSUME NEW n \in Nat, NEW b \in Nat \ {0}
    PROVE  (n + b - 1) \div b \in Nat /\ \A i \in 0 .. n - 1 : i \div b \in 0 .. ((n + b - 1) \div b) - 1
  OBVIOUS

LEMMA QuotientIsBounded ==
    ASSUME NEW n \in Nat \ {0}, NEW b \in Nat \ {0}, NEW m \in Nat, n <= m * b
    PROVE  (n + b - 1) \div b \in 1 .. m
  OBVIOUS

LEMMA BatchCountIsNatural ==
    ASSUME RetrievalTypeOK, IsFiniteSet(textChunks)
    PROVE  BatchCount \in Nat
<1>1. Cardinality(textChunks) \in Nat
  BY FS_CardinalityType
<1>2. QED  BY <1>1, BatchSizeIsPositive, Quotient DEF BatchCount

\* The batches are a partition of the chunks: none is left over.
LEMMA EveryChunkIsInABatch ==
    ASSUME RetrievalTypeOK, IsFiniteSet(textChunks), batch = BatchCount
    PROVE  Embedded = textChunks
<1>1. Cardinality(textChunks) \in Nat /\ EffectiveBatchSize \in Nat \ {0}
  BY FS_CardinalityType, BatchSizeIsPositive
<1>2. ASSUME NEW c \in textChunks PROVE c \in Embedded
  <2> DEFINE earlier == {d \in textChunks : Before(d, c)}
             n == Index(c) \div EffectiveBatchSize
  <2>1. c \in Chunk
    BY DEF RetrievalTypeOK
  <2>2. ~Before(c, c)
    BY <2>1 DEF Before, Chunk
  <2>3. earlier \subseteq textChunks /\ earlier # textChunks
    BY <2>2
  <2>4. Index(c) \in 0 .. Cardinality(textChunks) - 1
    <3>1. IsFiniteSet(earlier) /\ Cardinality(earlier) <= Cardinality(textChunks)
          /\ Cardinality(earlier) # Cardinality(textChunks)
      <4> HIDE DEF earlier
      <4>1. QED  BY <2>3, FS_Subset
    <3>2. Cardinality(earlier) \in Nat
      BY <3>1, FS_CardinalityType
    <3>3. QED  BY <1>1, <3>1, <3>2 DEF Index
  <2>5. n \in 0 .. batch - 1
    BY <1>1, <2>4, Quotient DEF BatchCount
  <2>6. c \in Batch(n)
    BY DEF Batch
  <2>7. QED  BY <2>5, <2>6 DEF Embedded
<1>3. Embedded \subseteq textChunks
  BY DEF Embedded, Batch
<1>4. QED  BY <1>2, <1>3

LEMMA EmbeddedAreChunks == Embedded \subseteq textChunks
  BY DEF Embedded, Batch

\* No excerpt is empty or longer than it may be.
LEMMA TokensAreBounded ==
    ASSUME NEW c \in Chunk, c.words # {}
    PROVE  ExcerptLength(c) > 0 /\ Tokens(c) \in 1 .. MaxChunkTokens
<1> DEFINE bound == MaxChunkTokens * CharsPerToken
           first == Min(c.words)
           taken == {i \in c.words : i < first + bound}
<1>1. c.words \in SUBSET Nat /\ MaxChunkTokens \in Nat \ {0} /\ CharsPerToken \in Nat \ {0}
  BY RetrievalAssumption DEF Chunk
<1>2. bound \in Nat /\ bound > 0
  BY <1>1
<1>3. first \in c.words /\ first \in Nat /\ \A i \in c.words : first <= i
  BY <1>1, MinIsLeast
<1>4. ExcerptLength(c) = IF taken = {} THEN 0 ELSE Max(taken) - Min(taken) + 1
  BY DEF ExcerptLength
<1> HIDE DEF bound, first
<1>5. first \in taken /\ taken \in SUBSET Nat /\ taken # {}
      /\ \A i \in taken : first <= i /\ i <= first + bound
  BY <1>1, <1>2, <1>3
<1>6. \A i \in taken : i < first + bound
  OBVIOUS
<1> HIDE DEF taken
<1>7. Max(taken) \in taken /\ \A i \in taken : i <= Max(taken)
  <2>1. first + bound \in Nat
    BY <1>2, <1>3
  <2>2. QED  BY <1>5, <2>1, MaxIsGreatest
<1>8. Min(taken) \in taken /\ \A i \in taken : Min(taken) <= i
  BY <1>5, MinIsLeast
<1>9. Min(taken) = first
  <2>1. Min(taken) <= first /\ first <= Min(taken) /\ Min(taken) \in Nat
    BY <1>5, <1>8
  <2>2. QED  BY <1>3, <2>1
<1>10. Max(taken) \in Nat /\ first <= Max(taken) /\ Max(taken) < first + bound
  BY <1>5, <1>6, <1>7
<1>11. ExcerptLength(c) = Max(taken) - first + 1
  BY <1>4, <1>5, <1>9
<1>12. ExcerptLength(c) \in Nat \ {0} /\ ExcerptLength(c) <= bound
  BY <1>2, <1>3, <1>10, <1>11
<1>13. Tokens(c) \in 1 .. MaxChunkTokens
  BY <1>1, <1>12, QuotientIsBounded DEF Tokens, bound
<1>14. QED  BY <1>12, <1>13

-----------------------------------------------------------------------------
(* The steps of the splitter, the embedding and the context.               *)

LEMMA RetrievalBegins == RetrievalInit => RetrievalInv
<1> SUFFICES ASSUME RetrievalInit PROVE RetrievalInv
  OBVIOUS
<1> USE DEF RetrievalInit
<1>1. IsFiniteSet(textChunks)
  BY FS_EmptySet
<1>2. pages \in Seq(Seq({"WORD", "SEPARATOR"})) /\ page = 1
  BY RetrievalAssumption
<1>3. BatchCount \in Nat
  <2>1. Cardinality(textChunks) = 0
    BY FS_EmptySet
  <2>2. BatchSize \in Nat \ {0} /\ limit \in Nat \ {0}
    BY RetrievalAssumption
  <2>3. EffectiveBatchSize \in Nat \ {0}
    BY <2>2, MinIsLeast DEF EffectiveBatchSize
  <2>4. QED  BY <2>1, <2>3, Quotient DEF BatchCount
<1>4. RetrievalTypeOK
  BY <1>2, <1>3 DEF RetrievalTypeOK
<1>5. SplitInv
  <2>1. page <= Len(pages) => start <= Len(Text)
    BY <1>2 DEF Text
  <2>2. \A p \in DOMAIN pages : ~(p < page) /\ \A i \in Nat : ~(p = page /\ i < start)
    BY <1>2
  <2>3. QED  BY <1>1, <2>1, <2>2 DEF SplitInv
<1>6. EmbedInv
  BY DEF EmbedInv
<1>7. ContextInv
  <2>1. TokenCount({}) = 0
    BY FS_EmptySet, TokenCountStep
  <2>2. DOMAIN score = {}
    OBVIOUS
  <2>3. QED  BY <2>1, <2>2, RetrievalAssumption DEF ContextInv
<1>8. QED  BY <1>4, <1>5, <1>6, <1>7 DEF RetrievalInv

\* The chunks are what they were, as are the pages.
LEMMA SplitIsKept ==
    ASSUME SplitInv, UNCHANGED splitting
    PROVE  SplitInv'
  BY DEF SplitInv, splitting, Text, Found

LEMMA BatchCountIsKept ==
    ASSUME UNCHANGED splitting
    PROVE  BatchCount' = BatchCount /\ EffectiveBatchSize' = EffectiveBatchSize
  BY DEF splitting, BatchCount, EffectiveBatchSize

\* The context is what it was.
LEMMA ContextIsKept ==
    ASSUME ContextInv, UNCHANGED <<score, waiting, selected>>,
           phase' \in {"SPLIT", "EMBED", "FAILED", "SEARCH"} =>
               phase \in {"SPLIT", "EMBED", "FAILED", "SEARCH"},
           phase' \in {"DONE", "NO_RESULTS"} => waiting = {}
    PROVE  ContextInv'
  BY DEF ContextInv

\* What a round of the splitter leaves: a chunk more, or none if there is only
\* space, and every word before the place where the next one starts is in one.
LEMMA CutFindsItsWords ==
    ASSUME RetrievalInv, page <= Len(pages), start < Len(Text),
           textChunks' = textChunks \cup Cut(start, CutEnd)
    PROVE  /\ IsFiniteSet(textChunks')
           /\ textChunks' \in SUBSET Chunk
           /\ \A c \in textChunks' : c.words # {}
           /\ \A p \in DOMAIN pages : \A i \in 0 .. Len(pages[p]) - 1 :
                /\ pages[p][i + 1] = "WORD"
                /\ p < page \/ (p = page /\ i < CutEnd)
                => \E c \in textChunks' : c.page = p /\ i \in c.words
<1> DEFINE words == Words(start, CutEnd)
           new == [page |-> page, start |-> start, words |-> words]
<1>1. CutEnd \in Nat /\ start < CutEnd /\ CutEnd <= Len(Text)
  BY CutMovesOn DEF RetrievalInv
<1>2. page \in Nat /\ start \in Nat /\ textChunks \in SUBSET Chunk
  <2>1. pages \in Seq(Seq({"WORD", "SEPARATOR"}))
    BY RetrievalAssumption DEF RetrievalInv, RetrievalTypeOK
  <2>2. QED  BY <2>1 DEF RetrievalInv, RetrievalTypeOK
<1>3. words \in SUBSET Nat
  BY <1>1, <1>2 DEF Words
<1>4. new \in Chunk /\ new.words = words /\ new.page = page
  BY <1>2, <1>3 DEF Chunk
<1>5. Cut(start, CutEnd) = IF words = {} THEN {} ELSE {new}
  BY DEF Cut
<1> HIDE DEF new, words
<1>6. IsFiniteSet(textChunks')
  <2>1. IsFiniteSet(textChunks \cup {new}) /\ IsFiniteSet(textChunks)
    BY FS_AddElement DEF RetrievalInv, SplitInv
  <2>2. QED  BY <1>5, <2>1
<1>7. textChunks' \in SUBSET Chunk
  BY <1>2, <1>4, <1>5
<1>8. \A c \in textChunks' : c.words # {}
  BY <1>4, <1>5 DEF RetrievalInv, SplitInv
<1>9. ASSUME NEW p \in DOMAIN pages, NEW i \in 0 .. Len(pages[p]) - 1,
             pages[p][i + 1] = "WORD", p < page \/ (p = page /\ i < CutEnd)
      PROVE  \E c \in textChunks' : c.page = p /\ i \in c.words
  <2>1. CASE p < page \/ (p = page /\ i < start)
    <3>1. \E c \in textChunks : c.page = p /\ i \in c.words
      BY <1>9, <2>1 DEF RetrievalInv, SplitInv, Found
    <3>2. QED  BY <3>1
  <2>2. CASE p = page /\ start <= i /\ i < CutEnd
    <3>1. i \in words
      <4>1. Text[i + 1] = "WORD" /\ i \in Nat
        BY <1>9, <2>2 DEF Text
      <4>2. i \notin Separators(start, CutEnd)
        BY <4>1 DEF Separators
      <4>3. i \in start .. CutEnd - 1
        BY <1>1, <1>2, <2>2, <4>1
      <4>4. QED  BY <4>2, <4>3 DEF words, Words
    <3>2. new \in textChunks'
      BY <1>5, <3>1
    <3>3. QED  BY <1>4, <2>2, <3>1, <3>2
  <2>3. QED  BY <1>1, <1>2, <1>9, <2>1, <2>2
<1>10. QED  BY <1>6, <1>7, <1>8, <1>9

LEMMA SplitStepKeepsSplit ==
    ASSUME RetrievalInv, SplitStep
    PROVE  /\ SplitInv'
           /\ page' \in 1 .. Len(pages') + 1 /\ start' \in Nat
           /\ textChunks' \in SUBSET Chunk
<1>1. /\ page <= Len(pages) /\ start < Len(Text)
      /\ textChunks' = textChunks \cup Cut(start, CutEnd)
      /\ pages' = pages
  BY DEF SplitStep
<1>2. CutEnd \in Nat /\ start < CutEnd /\ CutEnd <= Len(Text)
  BY <1>1, CutMovesOn DEF RetrievalInv
<1>3. /\ IsFiniteSet(textChunks')
      /\ textChunks' \in SUBSET Chunk
      /\ \A c \in textChunks' : c.words # {}
      /\ \A p \in DOMAIN pages : \A i \in 0 .. Len(pages[p]) - 1 :
            /\ pages[p][i + 1] = "WORD"
            /\ p < page \/ (p = page /\ i < CutEnd)
            => \E c \in textChunks' : c.page = p /\ i \in c.words
  BY <1>1, CutFindsItsWords
<1>4. pages \in Seq(Seq({"WORD", "SEPARATOR"})) /\ page \in 1 .. Len(pages)
  BY <1>1, RetrievalAssumption DEF RetrievalInv, RetrievalTypeOK
<1>5. CASE CutEnd >= Len(Text)
  <2>1. page' = page + 1 /\ start' = 0
    BY <1>5 DEF SplitStep
  <2>2. page' <= Len(pages') => start' <= Len(Text')
    BY <1>1, <1>4, <2>1 DEF Text
  <2>3. ASSUME NEW p \in DOMAIN pages, NEW i \in 0 .. Len(pages[p]) - 1,
               pages[p][i + 1] = "WORD", p < page' \/ (p = page' /\ i < start')
        PROVE  \E c \in textChunks' : c.page = p /\ i \in c.words
    <3>1. p < page \/ (p = page /\ i < CutEnd)
      BY <1>2, <1>4, <1>5, <2>1, <2>3 DEF Text
    <3>2. QED  BY <1>3, <2>3, <3>1
  <2>4. SplitInv'
    BY <1>1, <1>3, <2>2, <2>3 DEF SplitInv, Found
  <2>5. QED  BY <1>1, <1>3, <1>4, <2>1, <2>4
<1>6. CASE CutEnd < Len(Text)
  <2>1. page' = page /\ start' = NextStart
    BY <1>2, <1>4, <1>6 DEF SplitStep, Text
  <2>2. NextStart \in Nat /\ NextStart > start /\ NextStart <= CutEnd
    BY <1>1, NextStartIsWithin DEF RetrievalInv
  <2>3. page' <= Len(pages') => start' <= Len(Text')
    <3>1. Text' = Text
      BY <1>1, <2>1 DEF Text
    <3>2. Len(Text) \in Nat
      BY <1>4 DEF Text
    <3>3. QED  BY <1>2, <2>1, <2>2, <3>1, <3>2
  <2>4. ASSUME NEW p \in DOMAIN pages, NEW i \in 0 .. Len(pages[p]) - 1,
               pages[p][i + 1] = "WORD", p < page' \/ (p = page' /\ i < start')
        PROVE  \E c \in textChunks' : c.page = p /\ i \in c.words
    <3>1. p < page \/ (p = page /\ i < CutEnd)
      BY <1>2, <1>4, <2>1, <2>2, <2>4
    <3>2. QED  BY <1>3, <2>4, <3>1
  <2>5. SplitInv'
    BY <1>1, <1>3, <2>3, <2>4 DEF SplitInv, Found
  <2>6. QED  BY <1>1, <1>3, <1>4, <2>1, <2>2, <2>5
<1>7. QED
  <2>1. Len(Text) \in Nat
    BY <1>4 DEF Text
  <2>2. QED  BY <1>2, <1>5, <1>6, <2>1


LEMMA SplitStepKeepsInv ==
    ASSUME RetrievalInv, SplitStep
    PROVE  RetrievalInv'
<1>1. /\ SplitInv'
      /\ page' \in 1 .. Len(pages') + 1 /\ start' \in Nat
      /\ textChunks' \in SUBSET Chunk
  BY SplitStepKeepsSplit
<1>2. /\ textChunks \subseteq textChunks' /\ phase = "SPLIT"
      /\ UNCHANGED <<overlap, pages, limit, batch, phase, score, waiting, selected>>
  BY DEF SplitStep
<1>3. BatchCount' \in Nat
  <2>1. Cardinality(textChunks') \in Nat
    BY <1>1, FS_CardinalityType DEF SplitInv
  <2>2. EffectiveBatchSize' = EffectiveBatchSize /\ EffectiveBatchSize \in Nat \ {0}
    BY <1>2, BatchSizeIsPositive DEF RetrievalInv, EffectiveBatchSize
  <2>3. QED  BY <2>1, <2>2, Quotient DEF BatchCount
<1>4. RetrievalTypeOK'
  <2>1. batch' \in 0 .. BatchCount'
    BY <1>2, <1>3 DEF RetrievalInv, EmbedInv
  <2>2. QED  BY <1>1, <1>2, <2>1 DEF RetrievalInv, RetrievalTypeOK
<1>5. EmbedInv'
  BY <1>2 DEF RetrievalInv, EmbedInv
<1>6. ContextInv'
  BY <1>2, ContextIsKept DEF RetrievalInv
<1>7. QED  BY <1>1, <1>4, <1>5, <1>6 DEF RetrievalInv

LEMMA SkipEmptyPageKeepsInv ==
    ASSUME RetrievalInv, SkipEmptyPage
    PROVE  RetrievalInv'
<1>1. /\ phase = "SPLIT" /\ page <= Len(pages) /\ Text = << >> /\ page' = page + 1
      /\ UNCHANGED <<overlap, pages, start, textChunks, limit, batch, phase, score, waiting, selected>>
  BY DEF SkipEmptyPage
<1>2. pages \in Seq(Seq({"WORD", "SEPARATOR"})) /\ page \in 1 .. Len(pages)
  BY <1>1, RetrievalAssumption DEF RetrievalInv, RetrievalTypeOK
<1>3. start = 0
  BY <1>1 DEF RetrievalInv, RetrievalTypeOK, SplitInv
<1>4. SplitInv'
  <2>1. page' <= Len(pages') => start' <= Len(Text')
    BY <1>1, <1>2, <1>3 DEF Text
  <2>2. ASSUME NEW p \in DOMAIN pages, NEW i \in 0 .. Len(pages[p]) - 1,
               pages[p][i + 1] = "WORD", p < page' \/ (p = page' /\ i < start')
        PROVE  Found(p, i)
    <3>1. p # page
      BY <1>1, <2>2 DEF Text
    <3>2. p < page
      BY <1>1, <1>2, <1>3, <2>2, <3>1
    <3>3. QED  BY <2>2, <3>2 DEF RetrievalInv, SplitInv
  <2>3. QED  BY <1>1, <2>1, <2>2 DEF RetrievalInv, SplitInv, Found
<1>5. RetrievalTypeOK'
  <2>1. BatchCount' = BatchCount
    BY <1>1 DEF BatchCount, EffectiveBatchSize
  <2>2. QED  BY <1>1, <1>2, <2>1 DEF RetrievalInv, RetrievalTypeOK
<1>6. EmbedInv'
  BY <1>1 DEF RetrievalInv, EmbedInv
<1>7. ContextInv'
  BY <1>1, ContextIsKept DEF RetrievalInv
<1>8. QED  BY <1>4, <1>5, <1>6, <1>7 DEF RetrievalInv

\* The end of the split and the rounds of the embedding.
LEMMA EmbeddingKeepsInv ==
    ASSUME RetrievalInv, SplitEnds \/ EmbedBatch \/ EmbedFails \/ StoreChunks
    PROVE  RetrievalInv'
<1>1. UNCHANGED <<splitting, score, waiting, selected>>
  BY DEF SplitEnds, EmbedBatch, EmbedFails, StoreChunks
<1>2. /\ phase \in {"SPLIT", "EMBED"}
      /\ phase' \in {"EMBED", "FAILED", "SEARCH"}
      /\ phase' = "SEARCH" => batch' = BatchCount
      /\ batch' = batch \/ batch' = 0 \/ (batch < BatchCount /\ batch' = batch + 1)
  BY DEF SplitEnds, EmbedBatch, EmbedFails, StoreChunks
<1>3. SplitInv'
  BY <1>1, SplitIsKept DEF RetrievalInv
<1>4. BatchCount' = BatchCount /\ BatchCount \in Nat
  BY <1>1, BatchCountIsKept, BatchCountIsNatural DEF RetrievalInv, SplitInv
<1>5. RetrievalTypeOK'
  <2>1. batch' \in 0 .. BatchCount'
    BY <1>2, <1>4 DEF RetrievalInv, RetrievalTypeOK
  <2>2. QED  BY <1>1, <1>2, <2>1 DEF RetrievalInv, RetrievalTypeOK, splitting
<1>6. EmbedInv'
  BY <1>2, <1>4 DEF EmbedInv
<1>7. ContextInv'
  BY <1>1, <1>2, ContextIsKept DEF RetrievalInv
<1>8. QED  BY <1>3, <1>5, <1>6, <1>7 DEF RetrievalInv

LEMMA RetrieveKeepsInv ==
    ASSUME RetrievalInv, Retrieve
    PROVE  RetrievalInv'
<1>1. /\ phase = "SEARCH" /\ phase' = "ASSEMBLE"
      /\ UNCHANGED <<splitting, batch, selected>>
  BY DEF Retrieve
<1>2. PICK found \in SUBSET Embedded : score' \in [found -> Scores] /\ waiting' = found
  BY DEF Retrieve
<1>3. DOMAIN score' = found /\ found \subseteq textChunks
  BY <1>2, EmbeddedAreChunks
<1>4. SplitInv'
  BY <1>1, SplitIsKept DEF RetrievalInv
<1>5. BatchCount' = BatchCount
  BY <1>1, BatchCountIsKept
<1>6. selected = {} /\ selected' = {}
  BY <1>1 DEF RetrievalInv, ContextInv
<1>7. RetrievalTypeOK'
  BY <1>1, <1>2, <1>3, <1>5, <1>6 DEF RetrievalInv, RetrievalTypeOK, splitting
<1>8. EmbedInv'
  BY <1>1, <1>5 DEF RetrievalInv, EmbedInv
<1>9. ContextInv'
  <2>1. TokenCount(selected') <= MaxContextTokens
    BY <1>1 DEF RetrievalInv, ContextInv
  <2>2. DOMAIN score' \ waiting' = {}
    BY <1>2, <1>3
  <2>3. QED  BY <1>1, <1>6, <2>1, <2>2 DEF ContextInv
<1>10. QED  BY <1>4, <1>7, <1>8, <1>9 DEF RetrievalInv

\* What is selected next is counted once.
LEMMA OneMoreCounts ==
    ASSUME NEW S, NEW c, IsFiniteSet(S), c \notin S, \A d \in S \cup {c} : Tokens(d) \in Nat
    PROVE  /\ TokenCount(S) \in Nat
           /\ TokenCount(S \cup {c}) = TokenCount(S) + Tokens(c)
<1> DEFINE T == S \cup {c}
<1>1. IsFiniteSet(T) /\ c \in T /\ T \ {c} = S
  BY FS_AddElement
<1>2. \A d \in S : Tokens(d) \in Nat
  OBVIOUS
<1>3. TokenCount(S) \in Nat
  BY <1>2, TokenCountWithout
<1>4. TokenCount(T) = Tokens(c) + TokenCount(T \ {c})
  <2>1. \A d \in T : Tokens(d) \in Nat
    OBVIOUS
  <2> HIDE DEF T
  <2>2. QED  BY <1>1, <2>1, TokenCountWithout
<1>5. Tokens(c) \in Nat
  OBVIOUS
<1>6. TokenCount(T) = TokenCount(S) + Tokens(c)
  <2> HIDE DEF T
  <2>1. TokenCount(T \ {c}) = TokenCount(S)
    BY <1>1, Zenon
  <2>2. QED  BY <1>3, <1>4, <1>5, <2>1
<1>7. QED  BY <1>3, <1>6

LEMMA AssembleKeepsContext ==
    ASSUME RetrievalInv, Assemble
    PROVE  ContextInv' /\ waiting' \subseteq DOMAIN score' /\ selected' \subseteq DOMAIN score'
<1>1. PICK c \in waiting :
        /\ IsNext(c)
        /\ waiting' = waiting \ {c}
        /\ selected' = IF /\ ExcerptLength(c) > 0 /\ Tokens(c) <= MaxChunkTokens
                          /\ TokenCount(selected) + Tokens(c) <= MaxContextTokens
                       THEN selected \cup {c} ELSE selected
  BY DEF Assemble
<1>2. phase = "ASSEMBLE" /\ UNCHANGED <<splitting, batch, phase, score>>
  BY DEF Assemble
<1> DEFINE seen == DOMAIN score \ waiting
           fits == TokenCount(selected) + Tokens(c) <= MaxContextTokens
           beside(d) == {e \in selected : score[e] >= score[d]}
           besides(d) == {e \in selected' : score'[e] >= score'[d]}
<1>3. /\ waiting \subseteq DOMAIN score /\ DOMAIN score \subseteq textChunks
      /\ textChunks \in SUBSET Chunk /\ \A d \in DOMAIN score : score[d] \in Nat
  BY RetrievalAssumption DEF RetrievalInv, RetrievalTypeOK
<1>4. /\ selected \subseteq seen
      /\ \A d \in seen, e \in waiting : score[d] >= score[e]
      /\ TokenCount(selected) <= MaxContextTokens
      /\ \A d \in seen \ selected : Tokens(d) + TokenCount(beside(d)) > MaxContextTokens
  BY DEF RetrievalInv, ContextInv
<1>5. \A d \in DOMAIN score : ExcerptLength(d) > 0 /\ Tokens(d) \in 1 .. MaxChunkTokens
  BY <1>3, TokensAreBounded DEF RetrievalInv, SplitInv
<1>6. MaxContextTokens \in Nat /\ MaxChunkTokens \in Nat
  BY RetrievalAssumption
<1>7. IsFiniteSet(selected)
  BY <1>3, <1>4, FS_Subset DEF RetrievalInv, SplitInv
<1>8. DOMAIN score' \ waiting' = seen \cup {c} /\ c \notin seen /\ c \in DOMAIN score
  BY <1>1, <1>2, <1>3
<1>9. selected' = IF fits THEN selected \cup {c} ELSE selected
  BY <1>1, <1>3, <1>5, <1>6
<1>10. selected' \subseteq seen \cup {c}
  BY <1>4, <1>9
<1>11. \A d \in seen \cup {c}, e \in waiting' : score'[d] >= score'[e]
  BY <1>1, <1>2, <1>4 DEF IsNext
\* A set of what has been selected, with and without the chunk.
<1>12. ASSUME NEW S \in SUBSET selected
       PROVE  /\ TokenCount(S) \in Nat /\ Tokens(c) \in Nat
              /\ TokenCount(S \cup {c}) = TokenCount(S) + Tokens(c)
  <2>1. IsFiniteSet(S) /\ c \notin S
    BY <1>4, <1>7, <1>8, FS_Subset
  <2>2. \A d \in S \cup {c} : Tokens(d) \in Nat
    BY <1>4, <1>5, <1>6, <1>8
  <2>3. QED  BY <2>1, <2>2, OneMoreCounts
<1> HIDE DEF fits, seen
<1>13. TokenCount(selected') <= MaxContextTokens
  BY <1>4, <1>9, <1>12 DEF fits
<1>14. ASSUME NEW d \in (seen \cup {c}) \ selected'
       PROVE  Tokens(d) + TokenCount(besides(d)) > MaxContextTokens
  <2>1. CASE d = c
    <3>1. ~fits /\ selected' = selected
      BY <1>9, <1>14, <2>1
    <3>2. besides(d) = selected
      BY <1>1, <1>2, <1>3, <1>4, <2>1, <3>1
    <3>3. TokenCount(selected) \in Nat /\ Tokens(c) \in Nat
      BY <1>12
    <3>4. QED  BY <1>6, <2>1, <3>1, <3>2, <3>3 DEF fits
  <2>2. CASE d # c
    <3>1. d \in seen \ selected
      BY <1>9, <1>14, <2>2
    <3>2. Tokens(d) + TokenCount(beside(d)) > MaxContextTokens
      BY <1>4, <3>1
    <3>3. d \in DOMAIN score /\ Tokens(d) \in Nat
      BY <1>5, <1>6, <3>1 DEF seen
    <3>4. besides(d) = beside(d) \/ besides(d) = beside(d) \cup {c}
      BY <1>2, <1>9
    <3>5. /\ TokenCount(beside(d)) \in Nat /\ Tokens(c) \in Nat
          /\ TokenCount(beside(d) \cup {c}) = TokenCount(beside(d)) + Tokens(c)
      <4> DEFINE S == beside(d)
      <4>1. S \in SUBSET selected
        OBVIOUS
      <4> HIDE DEF S
      <4>2. /\ TokenCount(S) \in Nat /\ Tokens(c) \in Nat
            /\ TokenCount(S \cup {c}) = TokenCount(S) + Tokens(c)
        BY <1>12, <4>1
      <4>3. QED  BY <4>2 DEF S
    <3> HIDE DEF beside, besides
    <3>6. TokenCount(besides(d)) = TokenCount(beside(d))
          \/ TokenCount(besides(d)) = TokenCount(beside(d)) + Tokens(c)
      BY <3>4, <3>5
    <3>7. QED  BY <1>6, <3>2, <3>3, <3>5, <3>6
  <2>3. QED  BY <2>1, <2>2
<1>15. ContextInv'
  BY <1>2, <1>8, <1>10, <1>11, <1>13, <1>14 DEF ContextInv
<1>16. QED  BY <1>1, <1>2, <1>3, <1>8, <1>10, <1>15 DEF seen

LEMMA AssembleKeepsInv ==
    ASSUME RetrievalInv, Assemble
    PROVE  RetrievalInv'
<1>1. phase = "ASSEMBLE" /\ UNCHANGED <<splitting, batch, phase, score>>
  BY DEF Assemble
<1>2. ContextInv' /\ waiting' \subseteq DOMAIN score' /\ selected' \subseteq DOMAIN score'
  BY AssembleKeepsContext
<1>3. SplitInv'
  BY <1>1, SplitIsKept DEF RetrievalInv
<1>4. BatchCount' = BatchCount
  BY <1>1, BatchCountIsKept
<1>5. RetrievalTypeOK'
  BY <1>1, <1>2, <1>4 DEF RetrievalInv, RetrievalTypeOK, splitting
<1>6. EmbedInv'
  BY <1>1, <1>4 DEF RetrievalInv, EmbedInv
<1>7. QED  BY <1>2, <1>3, <1>5, <1>6 DEF RetrievalInv

\* Also the steps that change nothing.
LEMMA AnswerKeepsInv ==
    ASSUME RetrievalInv, Answer \/ UNCHANGED retrievalVars
    PROVE  RetrievalInv'
<1>1. UNCHANGED <<splitting, batch, score, waiting, selected>>
  BY DEF Answer, retrievalVars
<1>2. phase' = phase \/ (phase = "ASSEMBLE" /\ waiting = {} /\ phase' \in {"DONE", "NO_RESULTS"})
  BY DEF Answer, retrievalVars
<1>3. SplitInv'
  BY <1>1, SplitIsKept DEF RetrievalInv
<1>4. BatchCount' = BatchCount
  BY <1>1, BatchCountIsKept
<1>5. RetrievalTypeOK'
  BY <1>1, <1>2, <1>4 DEF RetrievalInv, RetrievalTypeOK, splitting
<1>6. EmbedInv'
  BY <1>1, <1>2, <1>4 DEF RetrievalInv, EmbedInv
<1>7. ContextInv'
  <2>1. phase' \in {"DONE", "NO_RESULTS"} => waiting = {}
    BY <1>2 DEF RetrievalInv, ContextInv
  <2>2. QED  BY <1>1, <1>2, <2>1, ContextIsKept DEF RetrievalInv
<1>8. QED  BY <1>3, <1>5, <1>6, <1>7 DEF RetrievalInv

-----------------------------------------------------------------------------
(* Theorems.                                                               *)

\* RetrievalInv holds for every document, every chunk size with an overlap below
\* it, every batch size and every budget.
THEOREM RetrievalInvariant == RetrievalSpec => []RetrievalInv
<1>1. RetrievalInit => RetrievalInv
  BY RetrievalBegins
<1>2. RetrievalInv /\ [RetrievalNext]_retrievalVars => RetrievalInv'
  <2> SUFFICES ASSUME RetrievalInv, [RetrievalNext]_retrievalVars PROVE RetrievalInv'
    OBVIOUS
  <2>1. CASE SplitStep
    BY <2>1, SplitStepKeepsInv
  <2>2. CASE SkipEmptyPage
    BY <2>2, SkipEmptyPageKeepsInv
  <2>3. CASE SplitEnds \/ EmbedBatch \/ EmbedFails \/ StoreChunks
    BY <2>3, EmbeddingKeepsInv
  <2>4. CASE Retrieve
    BY <2>4, RetrieveKeepsInv
  <2>5. CASE Assemble
    BY <2>5, AssembleKeepsInv
  <2>6. CASE Answer \/ UNCHANGED retrievalVars
    BY <2>6, AnswerKeepsInv
  <2>7. QED  BY <2>1, <2>2, <2>3, <2>4, <2>5, <2>6 DEF RetrievalNext
<1>3. QED  BY <1>1, <1>2, PTL DEF RetrievalSpec

\* Every variable of the splitter, the embedding and the retrieval keeps its type.
THEOREM RetrievalTypeCorrect == RetrievalSpec => []RetrievalTypeOK
<1>1. RetrievalInv => RetrievalTypeOK
  BY DEF RetrievalInv
<1>2. QED  BY <1>1, RetrievalInvariant, PTL

\* NothingIsLost: whatever the chunk size and the overlap, each word that
\* SimpleTextSplitter.split has passed is in a chunk, and once _embed_chunks is
\* through, in one that has its vector.
THEOREM NothingIsEverLost == RetrievalSpec => []NothingIsLost
<1>1. RetrievalInv => NothingIsLost
  <2> SUFFICES ASSUME RetrievalInv PROVE NothingIsLost
    OBVIOUS
  <2>1. Searchable = textChunks
    BY EveryChunkIsInABatch DEF RetrievalInv, RetrievalTypeOK, SplitInv, EmbedInv, Searchable
  <2>2. QED  BY <2>1 DEF RetrievalInv, SplitInv, NothingIsLost, Covered, Found
<1>2. QED  BY <1>1, RetrievalInvariant, PTL

\* ContextIsBest: whatever has been retrieved and whatever the budget,
\* ContextAssembler.assemble keeps the budget and leaves out a chunk only if it
\* does not fit beside those that are at least as similar.
THEOREM ContextIsAlwaysBest == RetrievalSpec => []ContextIsBest
<1>1. RetrievalInv => ContextIsBest
  <2> SUFFICES ASSUME RetrievalInv, phase \in {"DONE", "NO_RESULTS"} PROVE ContextIsBest
    BY DEF ContextIsBest
  <2>1. DOMAIN score \ waiting = DOMAIN score
    BY DEF RetrievalInv, ContextInv
  <2>2. QED  BY <2>1 DEF RetrievalInv, ContextInv, ContextIsBest
<1>2. QED  BY <1>1, RetrievalInvariant, PTL

\* A round of the splitter goes on to the next page or further on in this one, and
\* never beyond its end.
MovesOn ==
    phase = "SPLIT" /\ phase' = "SPLIT" =>
        \/ page' = page + 1 /\ page <= Len(pages)
        \/ page' = page /\ start' > start /\ start' <= Len(Text)

\* What SplittingEnds rests on: the loop of SimpleTextSplitter.split makes progress
\* in every round, for every overlap below the chunk size.
THEOREM EveryRoundMovesOn == RetrievalSpec => [][MovesOn]_retrievalVars
<1>1. RetrievalInv /\ [RetrievalNext]_retrievalVars => [MovesOn]_retrievalVars
  <2> SUFFICES ASSUME RetrievalInv, RetrievalNext, phase = "SPLIT", phase' = "SPLIT"
               PROVE  \/ page' = page + 1 /\ page <= Len(pages)
                      \/ page' = page /\ start' > start /\ start' <= Len(Text)
    BY DEF MovesOn
  <2>1. SplitStep \/ SkipEmptyPage
    BY DEF RetrievalNext, SplitEnds, EmbedBatch, EmbedFails, StoreChunks, Retrieve, Assemble, Answer
  <2>2. CASE SkipEmptyPage
    BY <2>2 DEF SkipEmptyPage
  <2>3. CASE SplitStep
    <3>1. page <= Len(pages) /\ start < Len(Text)
      BY <2>3 DEF SplitStep
    <3>2. CutEnd \in Nat /\ CutEnd <= Len(Text)
      BY <3>1, CutMovesOn DEF RetrievalInv
    <3>3. NextStart \in Nat /\ NextStart > start /\ NextStart <= CutEnd
      BY <3>1, NextStartIsWithin DEF RetrievalInv
    <3>4. Len(Text) \in Nat
      <4>1. pages \in Seq(Seq({"WORD", "SEPARATOR"})) /\ page \in 1 .. Len(pages)
        BY <3>1, RetrievalAssumption DEF RetrievalInv, RetrievalTypeOK
      <4>2. QED  BY <4>1 DEF Text
    <3>5. (page' = page + 1) \/ (page' = page /\ start' = NextStart)
      BY <2>3 DEF SplitStep
    <3>6. QED  BY <3>1, <3>2, <3>3, <3>4, <3>5
  <2>4. QED  BY <2>1, <2>2, <2>3
<1>2. QED  BY <1>1, RetrievalInvariant, PTL DEF RetrievalSpec

=============================================================================
