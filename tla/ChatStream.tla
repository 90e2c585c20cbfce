----------------------------- MODULE ChatStream -----------------------------
(***************************************************************************)
(* Chat: what POST .../sessions/{id}/chat does to one conversation.  Each  *)
(* delivery of a request stores the user's message and a PENDING assistant *)
(* message in two commits, streams the model's answer to its client, and   *)
(* then stores the answer or its failure.  A delivery whose request id is  *)
(* known already is answered from the stored messages.                     *)
(*                                                                         *)
(* Nothing is locked: between two awaits of one delivery any step of       *)
(* another one may happen.  A delivery inserts at most one user and one    *)
(* assistant message, so both are kept by the delivery that inserted them. *)
(* Texts are left out, apart from how much of an answer a message has.     *)
(***************************************************************************)
EXTENDS Integers, FiniteSets

CONSTANTS
    Deliveries,      \* POST requests: first ones, repeats, other tabs
    Requests,        \* the requestId values they carry
    MaxDisconnects,  \* bound: clients that go away during their stream
    MaxCrashes,      \* bound: deaths of the API process
    MaxErrors        \* bound: database errors

ASSUME ChatAssumption ==
    /\ IsFiniteSet(Deliveries)
    /\ MaxDisconnects \in Nat /\ MaxCrashes \in Nat /\ MaxErrors \in Nat

VARIABLES
    conversation,  \* status of the conversations row
    question,      \* user message a delivery has inserted
    reply,         \* assistant message a delivery has inserted
    delivery,      \* local state of each request handler
    told,          \* the last event each client was sent
    overlapped,    \* request ids that were handled by two deliveries at once
    spent          \* how often each bounded event has happened

vars == <<conversation, question, reply, delivery, told, overlapped, spent>>

-----------------------------------------------------------------------------

\* DELETED: the row and, by cascade, its messages are gone.
ConversationStatus == {"ABSENT", "ACTIVE", "FINISHED", "DELETED"}
MessageStatus == {"NONE", "PENDING", "COMPLETED", "FAILED"}

\* How much of an answer: nothing, some deltas, all of it.
Content == {"EMPTY", "PART", "FULL"}

\* Two messages per delivery, each numbered by max + 1: no number is larger.
MaxSequence == 2 * Cardinality(Deliveries)
Sequence == 0 .. MaxSequence + 1

\* cited: the message has a citation of every chunk its answer was built from.
Message == [status : MessageStatus, sequence : Sequence, content : Content,
            cited : BOOLEAN]
NoMessage == [status |-> "NONE", sequence |-> 0, content |-> "EMPTY", cited |-> FALSE]

\* The awaits of stream_chat, then those of _generate: STORE is the update to
\* COMPLETED, FAIL the update of an except branch with an error event, CANCEL
\* the one of the CancelledError branch.
Preparing == {"FIND", "FINDREPLY", "NUMBER", "QUESTION", "REPLY", "HISTORY"}
Streaming == {"CONTEXT", "GENERATE", "STORE", "FAIL", "CANCEL"}
DeliveryStep == {"IDLE", "OVER"} \union Preparing \union Streaming

\* The retrieved chunks: there are none, all are there, some were deleted.
Chunks == {"NONE", "LIVE", "GONE"}

Delivery == [step : DeliveryStep, request : Requests \union {"NONE"},
             number : Sequence, content : Content, cites : Chunks]
NoDelivery == [step |-> "IDLE", request |-> "NONE", number |-> 0,
               content |-> "EMPTY", cites |-> "NONE"]

\* COMPLETE is the complete event of _generate, REPLAYED and BLANK those of
\* _replay with and without content; BROKEN an error status or a cut stream.
Event == {"NOTHING", "REFUSED", "START", "DELTA", "COMPLETE", "REPLAYED", "BLANK",
          "ERROR", "BROKEN"}

BoundedEvent == {"DISCONNECT", "CRASH", "ERROR"}
Bound == [DISCONNECT |-> MaxDisconnects, CRASH |-> MaxCrashes, ERROR |-> MaxErrors]

Spend(kind) == /\ spent[kind] < Bound[kind]
               /\ spent' = [spent EXCEPT ![kind] = @ + 1]

At(d, step) == delivery[d].step = step
Live(d) == delivery[d].step \in Preparing \union Streaming

TypeOK ==
    /\ conversation \in ConversationStatus
    /\ question \in [Deliveries -> Message]
    /\ reply \in [Deliveries -> Message]
    /\ delivery \in [Deliveries -> Delivery]
    /\ told \in [Deliveries -> Event]
    /\ overlapped \in SUBSET Requests
    /\ spent \in [BoundedEvent -> Nat]

Init ==
    /\ conversation = "ABSENT"
    /\ question = [d \in Deliveries |-> NoMessage]
    /\ reply = [d \in Deliveries |-> NoMessage]
    /\ delivery = [d \in Deliveries |-> NoDelivery]
    /\ told = [d \in Deliveries |-> "NOTHING"]
    /\ overlapped = {}
    /\ spent = [k \in BoundedEvent |-> 0]

-----------------------------------------------------------------------------
(* The messages table.                                                     *)

Stored(message) == {d \in Deliveries : message[d].status # "NONE"}

Numbers == {question[d].sequence : d \in Stored(question)}
           \union {reply[d].sequence : d \in Stored(reply)}

\* Repository next_sequence.
NextSequence == CHOOSE n \in 1 .. MaxSequence + 1 :
                    /\ n - 1 \in Numbers \union {0}
                    /\ \A m \in Numbers : m < n

\* Mutant: no unique constraint.
MayInsertTwice(n) == conversation \in {"ACTIVE", "FINISHED"}

\* The foreign key and the unique constraint on (conversation, sequence).
MayInsert(n) == conversation \in {"ACTIVE", "FINISHED"} /\ n \notin Numbers

\* get_user_message_by_request and get_assistant_message_by_request.
OfRequest(message, r) == {d \in Stored(message) : delivery[d].request = r}

-----------------------------------------------------------------------------
(* The conversation: create_conversation, finish_conversation and          *)
(* delete_conversation.  None of them looks at the streams under way.      *)

CreateConversation ==
    /\ conversation = "ABSENT"
    /\ conversation' = "ACTIVE"
    /\ UNCHANGED <<question, reply, delivery, told, overlapped, spent>>

FinishConversation ==
    /\ conversation = "ACTIVE"
    /\ conversation' = "FINISHED"
    /\ UNCHANGED <<question, reply, delivery, told, overlapped, spent>>

DeleteConversation ==
    /\ conversation \in {"ACTIVE", "FINISHED"}
    /\ conversation' = "DELETED"
    /\ question' = [d \in Deliveries |-> NoMessage]
    /\ reply' = [d \in Deliveries |-> NoMessage]
    /\ UNCHANGED <<delivery, told, overlapped, spent>>

\* A document or a knowledge base is deleted, and by cascade its chunks and every
\* citation of them: those of any set of answers that cite some of the chunks.
\* A stream under way still holds what it has retrieved.
DeleteSources ==
    /\ \E citing \in SUBSET {d \in Deliveries : delivery[d].cites = "LIVE"} :
        /\ citing # {}
        /\ delivery' = [d \in Deliveries |->
                IF d \in citing THEN [delivery[d] EXCEPT !.cites = "GONE"] ELSE delivery[d]]
        /\ reply' = [d \in Deliveries |->
                IF d \in citing THEN [reply[d] EXCEPT !.cited = FALSE] ELSE reply[d]]
    /\ UNCHANGED <<conversation, question, told, overlapped, spent>>

-----------------------------------------------------------------------------
(* stream_chat: everything before the response starts.                     *)

GoTo(d, step) == delivery' = [delivery EXCEPT ![d].step = step]
Ended(d) == [delivery[d] EXCEPT !.step = "OVER", !.number = 0, !.content = "EMPTY"]
End(d) == delivery' = [delivery EXCEPT ![d] = Ended(d)]
Tell(d, event) == told' = [told EXCEPT ![d] = event]

\* The conversation is read, and with RAG the knowledge base.
Arrive(d) ==
    /\ At(d, "IDLE")
    /\ conversation # "ABSENT"
    /\ \E r \in Requests :
        IF conversation = "ACTIVE"
        THEN /\ delivery' = [delivery EXCEPT ![d].step = "FIND", ![d].request = r]
             /\ overlapped' = IF \E e \in Deliveries : Live(e) /\ delivery[e].request = r
                              THEN overlapped \union {r} ELSE overlapped
             /\ UNCHANGED told
        ELSE /\ delivery' = [delivery EXCEPT ![d].step = "OVER", ![d].request = r]
             /\ Tell(d, "REFUSED")
             /\ UNCHANGED overlapped
    /\ UNCHANGED <<conversation, question, reply, spent>>

\* Mutant: a repeat is recognised by the answer.
FindAnswer(d) ==
    /\ At(d, "FIND")
    /\ GoTo(d, IF OfRequest(reply, delivery[d].request) = {} THEN "NUMBER" ELSE "FINDREPLY")
    /\ UNCHANGED <<conversation, question, reply, told, overlapped, spent>>

\* scalar_one_or_none: none, one, or an exception.
FindQuestion(d) ==
    /\ At(d, "FIND")
    /\ LET found == OfRequest(question, delivery[d].request)
       IN CASE found = {} -> GoTo(d, "NUMBER") /\ UNCHANGED told
            [] Cardinality(found) = 1 -> GoTo(d, "FINDREPLY") /\ UNCHANGED told
            [] OTHER -> End(d) /\ Tell(d, "BROKEN")
    /\ UNCHANGED <<conversation, question, reply, overlapped, spent>>

\* The events of _replay.
Replayed(message) ==
    IF message.status = "FAILED" THEN "ERROR"
    ELSE IF message.content = "EMPTY" THEN "BLANK" ELSE "REPLAYED"

Replay(d) ==
    /\ At(d, "FINDREPLY")
    /\ LET found == OfRequest(reply, delivery[d].request)
       IN CASE found = {} -> Tell(d, "BLANK")
            [] Cardinality(found) = 1 -> \E e \in found : Tell(d, Replayed(reply[e]))
            [] OTHER -> Tell(d, "BROKEN")
    /\ End(d)
    /\ UNCHANGED <<conversation, question, reply, overlapped, spent>>

ReadNumber(d) ==
    /\ At(d, "NUMBER")
    /\ delivery' = [delivery EXCEPT ![d].step = "QUESTION", ![d].number = NextSequence]
    /\ UNCHANGED <<conversation, question, reply, told, overlapped, spent>>

\* A refused insert is answered with status 500; nothing is taken back.
StoreQuestion(d) ==
    /\ At(d, "QUESTION")
    /\ IF MayInsert(delivery[d].number)
       THEN /\ question' = [question EXCEPT
                    ![d] = [NoMessage EXCEPT !.status = "COMPLETED", !.content = "FULL",
                                             !.sequence = delivery[d].number]]
            /\ GoTo(d, "REPLY")
            /\ UNCHANGED told
       ELSE End(d) /\ Tell(d, "BROKEN") /\ UNCHANGED question
    /\ UNCHANGED <<conversation, reply, overlapped, spent>>

StoreReply(d) ==
    /\ At(d, "REPLY")
    /\ IF MayInsert(delivery[d].number + 1)
       THEN /\ reply' = [reply EXCEPT
                    ![d] = [NoMessage EXCEPT !.status = "PENDING",
                                             !.sequence = delivery[d].number + 1]]
            /\ GoTo(d, "HISTORY")
            /\ UNCHANGED told
       ELSE End(d) /\ Tell(d, "BROKEN") /\ UNCHANGED reply
    /\ UNCHANGED <<conversation, question, overlapped, spent>>

\* The history is read, the response begins with the start event.  A request
\* that names a knowledge base goes on with the retrieval.
ReadHistory(d) ==
    /\ At(d, "HISTORY")
    /\ \E step \in {"CONTEXT", "GENERATE"} : GoTo(d, step)
    /\ Tell(d, "START")
    /\ UNCHANGED <<conversation, question, reply, overlapped, spent>>

PreparationBreaks(d) ==
    /\ delivery[d].step \in Preparing
    /\ Spend("ERROR")
    /\ End(d)
    /\ Tell(d, "BROKEN")
    /\ UNCHANGED <<conversation, question, reply, overlapped>>

-----------------------------------------------------------------------------
(* _generate: the stream.                                                  *)

\* The retrieval finds citations, or none, or fails.
BuildContext(d) ==
    /\ At(d, "CONTEXT")
    /\ \/ \E cites \in {"NONE", "LIVE"} :
            delivery' = [delivery EXCEPT ![d].step = "GENERATE", ![d].cites = cites]
       \/ GoTo(d, "FAIL")
    /\ UNCHANGED <<conversation, question, reply, told, overlapped, spent>>

Delta(d) ==
    /\ At(d, "GENERATE")
    /\ delivery[d].content = "EMPTY"
    /\ delivery' = [delivery EXCEPT ![d].content = "PART"]
    /\ Tell(d, "DELTA")
    /\ UNCHANGED <<conversation, question, reply, overlapped, spent>>

\* A stream without a delta is an answer too: nothing is all of it.
Whole(content) == IF content = "PART" THEN "FULL" ELSE content

\* Mutant: the complete event is sent before the answer is stored.
EndStreamTold(d) ==
    /\ At(d, "GENERATE")
    /\ delivery' = [delivery EXCEPT ![d].step = "STORE", ![d].content = Whole(@)]
    /\ Tell(d, "COMPLETE")
    /\ UNCHANGED <<conversation, question, reply, overlapped, spent>>

\* The model's stream ends, or raises.
EndStream(d) ==
    /\ At(d, "GENERATE")
    /\ \/ delivery' = [delivery EXCEPT ![d].step = "STORE", ![d].content = Whole(@)]
       \/ GoTo(d, "FAIL")
    /\ UNCHANGED <<conversation, question, reply, told, overlapped, spent>>

\* The UPDATE by id: it finds no row when the conversation has been deleted.
Updated(d, status) ==
    IF reply[d].status = "NONE" THEN reply
    ELSE [reply EXCEPT ![d].status = status, ![d].content = delivery[d].content,
                       ![d].cited = @ \/ (status = "COMPLETED" /\ delivery[d].cites = "LIVE")]

\* The foreign keys of a citation: the commit of an answer fails as a whole when
\* a chunk that it cites is gone.
Completed(d) == IF delivery[d].cites = "GONE" THEN reply ELSE Updated(d, "COMPLETED")

\* update and complete_with_citations; scalar_one raises if the row is gone.
StoreAnswer(d) ==
    /\ At(d, "STORE")
    /\ reply' = Completed(d)
    /\ IF reply[d].status = "NONE" \/ delivery[d].cites = "GONE"
       THEN GoTo(d, "FAIL") /\ UNCHANGED told
       ELSE End(d) /\ Tell(d, "COMPLETE")
    /\ UNCHANGED <<conversation, question, overlapped, spent>>

\* The commit fails, or the read that follows it.
StoreAnswerFails(d) ==
    /\ At(d, "STORE")
    /\ Spend("ERROR")
    /\ reply' \in {reply, Completed(d)}
    /\ GoTo(d, "FAIL")
    /\ UNCHANGED <<conversation, question, told, overlapped>>

\* Mutant: an error is told and not stored.
StoreFailureTold(d) ==
    /\ At(d, "FAIL")
    /\ Tell(d, "ERROR")
    /\ End(d)
    /\ UNCHANGED <<conversation, question, reply, overlapped, spent>>

StoreFailure(d) ==
    /\ At(d, "FAIL")
    /\ reply' = Updated(d, "FAILED")
    /\ Tell(d, IF reply[d].status = "NONE" THEN "BROKEN" ELSE "ERROR")
    /\ End(d)
    /\ UNCHANGED <<conversation, question, overlapped, spent>>

StoreFailureFails(d) ==
    /\ At(d, "FAIL")
    /\ Spend("ERROR")
    /\ reply' \in {reply, Updated(d, "FAILED")}
    /\ Tell(d, "BROKEN")
    /\ End(d)
    /\ UNCHANGED <<conversation, question, overlapped>>

\* The client goes away.  Suspended at a yield the generator is closed and
\* only its finally clause runs; at an await of the try block it is cancelled;
\* an except branch that is cancelled in turn ends, before or after its commit.
Disconnect(d) ==
    /\ delivery[d].step \in Streaming \ {"CANCEL"}
    /\ Spend("DISCONNECT")
    /\ CASE At(d, "CONTEXT") \/ At(d, "GENERATE") ->
                /\ End(d) \/ GoTo(d, "CANCEL")
                /\ UNCHANGED reply
         [] At(d, "STORE") ->
                /\ GoTo(d, "CANCEL")
                /\ reply' \in {reply, Completed(d)}
         [] At(d, "FAIL") ->
                /\ End(d)
                /\ reply' \in {reply, Updated(d, "FAILED")}
    /\ Tell(d, "BROKEN")
    /\ UNCHANGED <<conversation, question, overlapped>>

\* The update in the CancelledError branch: a cancelled scope may cancel it too.
StoreCancelled(d) ==
    /\ At(d, "CANCEL")
    /\ reply' \in {reply, Updated(d, "FAILED")}
    /\ End(d)
    /\ UNCHANGED <<conversation, question, told, overlapped, spent>>

\* The API process dies, and with it every handler.
Crash ==
    /\ \E d \in Deliveries : Live(d)
    /\ Spend("CRASH")
    /\ delivery' = [d \in Deliveries |->
                        IF Live(d) THEN Ended(d) ELSE delivery[d]]
    /\ told' = [d \in Deliveries |-> IF Live(d) THEN "BROKEN" ELSE told[d]]
    /\ UNCHANGED <<conversation, question, reply, overlapped>>

-----------------------------------------------------------------------------

\* What a request handler does by itself.
Handle(d) ==
    \/ FindQuestion(d) \/ Replay(d) \/ ReadNumber(d)
    \/ StoreQuestion(d) \/ StoreReply(d) \/ ReadHistory(d)
    \/ BuildContext(d) \/ Delta(d) \/ EndStream(d)
    \/ StoreAnswer(d) \/ StoreFailure(d) \/ StoreCancelled(d)

Faults(d) ==
    \/ PreparationBreaks(d) \/ StoreAnswerFails(d) \/ StoreFailureFails(d)
    \/ Disconnect(d)

Next ==
    \/ CreateConversation \/ FinishConversation \/ DeleteConversation \/ DeleteSources
    \/ \E d \in Deliveries : Arrive(d) \/ Handle(d) \/ Faults(d)
    \/ Crash

Spec == Init /\ [][Next]_vars

\* The event loop runs every handler on; a model call answers or times out.
FairSpec == Spec /\ \A d \in Deliveries : WF_vars(Handle(d))

-----------------------------------------------------------------------------
(* Properties.                                                             *)

\* However requests interleave, an answer stands directly behind the message it
\* answers and no number is used twice: what the unique constraint makes of the
\* unlocked read of next_sequence, which two deliveries may both have done.
ReplyFollowsItsQuestion ==
    /\ \A d \in Stored(reply) : /\ d \in Stored(question)
                                /\ reply[d].sequence = question[d].sequence + 1
    /\ \A d, e \in Stored(question) : d # e => question[d].sequence # question[e].sequence
    /\ \A d \in Stored(question), e \in Stored(reply) :
            question[d].sequence # reply[e].sequence

\* A client that saw the complete event of its stream finds the whole answer in
\* the history as long as the conversation is there: no late error, cancellation
\* or deletion turns it into a failure any more.  Its citations are there as long
\* as the cited chunks are, and go with them: an answer that was told as complete
\* was stored with all of them, or had none.
ShownIsStored ==
    \A d \in Deliveries :
        told[d] = "COMPLETE" /\ conversation # "DELETED" =>
            /\ reply[d].status = "COMPLETED"
            /\ reply[d].content # "PART"
            /\ reply[d].cited <=> delivery[d].cites = "LIVE"

\* A repeated request is not generated again, also after an error, a lost
\* client or a crash, unless two deliveries of it were handled at one time.
RepeatIsReplayed ==
    \A r \in Requests \ overlapped : Cardinality(OfRequest(question, r)) <= 1

\* An answer under way is settled, by the answer or by a failure, unless its own
\* stream was cut: errors of the model, the retrieval or the first update are
\* all caught.  Nothing ever repairs the message of a stream that was cut.
AnswerSettles ==
    \A d \in Deliveries :
        reply[d].status = "PENDING" ~>
            (reply[d].status # "PENDING" \/ told[d] = "BROKEN")

=============================================================================
