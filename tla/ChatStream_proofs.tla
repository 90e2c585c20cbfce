-------------------------- MODULE ChatStream_proofs --------------------------
(***************************************************************************)
(* Theorems about ChatStream for any number of deliveries, request ids and *)
(* faults.  ChatInv is the inductive invariant: it says how far the rows   *)
(* of a delivery are when its handler stands at a given await, and that    *)
(* two rows of one request can only come from handlers that overlapped.    *)
(* TypedInv, which rests on it, says that the messages are numbered        *)
(* without a gap, and so how large a number can be.                        *)
(***************************************************************************)
EXTENDS ChatStream, FiniteSetTheorems, TLAPS

-----------------------------------------------------------------------------
(* The invariant.                                                          *)

MessageFields == {"status", "sequence", "content", "cited"}
DeliveryFields == {"step", "request", "number", "content", "cites"}

\* The part of TypeOK that the proof needs: it does not say how large the
\* sequence numbers are.
ShapeInv ==
    /\ DOMAIN question = Deliveries /\ DOMAIN reply = Deliveries
    /\ DOMAIN delivery = Deliveries /\ DOMAIN told = Deliveries
    /\ \A d \in Deliveries :
        /\ DOMAIN question[d] = MessageFields /\ DOMAIN reply[d] = MessageFields
        /\ reply[d].cited \in BOOLEAN
        /\ DOMAIN delivery[d] = DeliveryFields
        /\ delivery[d].step \in DeliveryStep
        /\ delivery[d].cites \in Chunks

\* Awaits before the first insert, and from the second one to the update.
Early == {"IDLE", "FIND", "FINDREPLY", "NUMBER", "QUESTION"}
Answering == {"HISTORY", "CONTEXT", "GENERATE", "STORE"}

RowsInv ==
    \A d \in Deliveries :
        /\ delivery[d].step \in Early => d \notin Stored(question)
        /\ delivery[d].step \in Early \union {"REPLY"} => d \notin Stored(reply)
        /\ delivery[d].step = "REPLY" =>
             \/ conversation = "DELETED"
             \/ d \in Stored(question) /\ question[d].sequence = delivery[d].number

AnswerInv ==
    \A d \in Deliveries :
        /\ delivery[d].step \in Answering => reply[d].cited = FALSE
        /\ delivery[d].step = "STORE" => delivery[d].content # "PART"
        /\ told[d] = "COMPLETE" => delivery[d].step = "OVER"

\* Handlers of one request that overlap, or that both stored a question.
OverlapInv ==
    \A d, e \in Deliveries :
        /\ d # e
        /\ delivery[d].request = delivery[e].request
        /\ \/ Live(d) /\ Live(e)
           \/ delivery[d].step \in {"NUMBER", "QUESTION"} /\ e \in Stored(question)
           \/ d \in Stored(question) /\ e \in Stored(question)
        => delivery[d].request \in overlapped

ChatInv ==
    /\ ShapeInv
    /\ RowsInv
    /\ AnswerInv
    /\ OverlapInv
    /\ ReplyFollowsItsQuestion
    /\ ShownIsStored

-----------------------------------------------------------------------------
(* Steps.                                                                  *)

\* A step of one handler that touches no message.
LEMMA LocalStepKeepsInvariant ==
    ASSUME ChatInv, NEW d \in Deliveries, NEW r,
           delivery' = [delivery EXCEPT ![d] = r],
           DOMAIN r = DeliveryFields, r.step \in DeliveryStep, r.cites \in Chunks,
           UNCHANGED <<conversation, question, reply>>,
           DOMAIN told' = Deliveries, told'[d] # "COMPLETE",
           \A e \in Deliveries \ {d} : told'[e] = told[e],
           overlapped \in SUBSET overlapped',
           r.request = delivery[d].request \/ delivery[d].step = "IDLE",
           r.step \in Early => delivery[d].step \in Early,
           r.step # "REPLY",
           r.step \in Answering => delivery[d].step \in Answering,
           r.step = "STORE" => r.content # "PART",
           r.step \in Preparing \union Streaming =>
             \/ Live(d)
             \/ \A e \in Deliveries : Live(e) /\ delivery[e].request = r.request =>
                    r.request \in overlapped',
           r.step \in {"NUMBER", "QUESTION"} =>
             \/ delivery[d].step \in {"NUMBER", "QUESTION"}
             \/ OfRequest(question, r.request) = {}
    PROVE  ChatInv'
  <1> USE DEF ChatInv
  <1>1. /\ delivery'[d] = r /\ DOMAIN delivery' = Deliveries
        /\ \A e \in Deliveries \ {d} : delivery'[e] = delivery[e]
    BY DEF ShapeInv
  <1>2. Stored(question)' = Stored(question) /\ Stored(reply)' = Stored(reply)
    BY DEF Stored
  <1>3. ShapeInv'
    BY <1>1 DEF ShapeInv
  <1>4. RowsInv'
    BY <1>1, <1>2 DEF RowsInv
  <1>5. AnswerInv'
    BY <1>1 DEF AnswerInv, Answering
  <1>6. OverlapInv'
    <2> SUFFICES ASSUME NEW x \in Deliveries, NEW y \in Deliveries, x # y,
                        delivery'[x].request = delivery'[y].request,
                        \/ Live(x)' /\ Live(y)'
                        \/ delivery'[x].step \in {"NUMBER", "QUESTION"} /\ y \in Stored(question)
                        \/ x \in Stored(question) /\ y \in Stored(question)
                 PROVE  delivery'[x].request \in overlapped'
      BY <1>2 DEF OverlapInv
    <2>1. CASE x # d /\ y # d
      BY <1>1, <2>1 DEF OverlapInv, Live
    <2>2. \A e \in Stored(question) : e # d => delivery[e].request = delivery'[e].request
      BY <1>1 DEF Stored
    <2>3. d \in Stored(question) => r.request = delivery[d].request /\ delivery[d].step \notin Early
      BY DEF RowsInv, Early
    <2>4. CASE x = d
      <3>1. CASE Live(x)' /\ Live(y)'
        BY <1>1, <2>4, <3>1 DEF OverlapInv, Live, Preparing, Streaming
      <3>2. CASE delivery'[x].step \in {"NUMBER", "QUESTION"} /\ y \in Stored(question)
        BY <1>1, <2>4, <3>2 DEF OverlapInv, OfRequest
      <3>3. CASE x \in Stored(question) /\ y \in Stored(question)
        BY <1>1, <2>3, <2>4, <3>3 DEF OverlapInv
      <3>4. QED  BY <3>1, <3>2, <3>3
    <2>5. CASE y = d
      <3>1. CASE Live(x)' /\ Live(y)'
        BY <1>1, <2>5, <3>1 DEF OverlapInv, Live, Preparing, Streaming
      <3>2. CASE delivery'[x].step \in {"NUMBER", "QUESTION"} /\ y \in Stored(question)
        BY <1>1, <2>3, <2>5, <3>2 DEF OverlapInv
      <3>3. CASE x \in Stored(question) /\ y \in Stored(question)
        BY <1>1, <2>3, <2>5, <3>3 DEF OverlapInv
      <3>4. QED  BY <3>1, <3>2, <3>3
    <2>6. QED  BY <2>1, <2>4, <2>5
  <1>7. ReplyFollowsItsQuestion'
    BY <1>2 DEF ReplyFollowsItsQuestion
  <1>8. ShownIsStored'
    BY <1>1 DEF ShownIsStored
  <1>9. QED  BY <1>3, <1>4, <1>5, <1>6, <1>7, <1>8

\* A handler that is over without touching a message.
LEMMA EndKeepsInvariant ==
    ASSUME ChatInv, NEW d \in Deliveries, Live(d), End(d),
           NEW event \in Event \ {"COMPLETE"}, Tell(d, event),
           UNCHANGED <<conversation, question, reply, overlapped>>
    PROVE  ChatInv'
  <1> DEFINE r == Ended(d)
  <1>1. /\ delivery' = [delivery EXCEPT ![d] = r]
        /\ DOMAIN r = DeliveryFields /\ r.step = "OVER" /\ r.cites \in Chunks
        /\ r.request = delivery[d].request
    BY DEF End, Ended, ChatInv, ShapeInv, DeliveryFields
  <1>2. /\ DOMAIN told' = Deliveries /\ told'[d] # "COMPLETE"
        /\ \A e \in Deliveries \ {d} : told'[e] = told[e]
    BY DEF Tell, ChatInv, ShapeInv
  <1> HIDE DEF r
  <1>3. QED
    BY <1>1, <1>2, LocalStepKeepsInvariant DEF DeliveryStep, Early, Answering, Preparing, Streaming

\* A handler that goes on to another await without touching a message.
LEMMA GoToKeepsInvariant ==
    ASSUME ChatInv, NEW d \in Deliveries, Live(d), NEW step \in Preparing \union Streaming,
           GoTo(d, step), step # "REPLY", step # "STORE",
           step \in Early => delivery[d].step \in Early,
           step \in Answering => delivery[d].step \in Answering,
           step \in {"NUMBER", "QUESTION"} =>
             \/ delivery[d].step \in {"NUMBER", "QUESTION"}
             \/ OfRequest(question, delivery[d].request) = {},
           told' = told \/ \E event \in Event \ {"COMPLETE"} : Tell(d, event),
           UNCHANGED <<conversation, question, reply, overlapped>>
    PROVE  ChatInv'
  <1> DEFINE r == [delivery[d] EXCEPT !.step = step]
  <1>1. /\ delivery' = [delivery EXCEPT ![d] = r]
        /\ DOMAIN r = DeliveryFields /\ r.step = step /\ r.cites \in Chunks
        /\ r.request = delivery[d].request
    BY DEF GoTo, ChatInv, ShapeInv, DeliveryFields
  <1>2. told[d] # "COMPLETE"
    BY DEF ChatInv, AnswerInv, Live, Preparing, Streaming
  <1>3. /\ DOMAIN told' = Deliveries /\ told'[d] # "COMPLETE"
        /\ \A e \in Deliveries \ {d} : told'[e] = told[e]
    BY <1>2 DEF Tell, ChatInv, ShapeInv
  <1> HIDE DEF r
  <1>4. QED
    BY <1>1, <1>3, LocalStepKeepsInvariant DEF DeliveryStep

LEMMA ArriveKeepsInvariant ==
    ASSUME ChatInv, NEW d \in Deliveries, Arrive(d)
    PROVE  ChatInv'
  <1> USE DEF ChatInv, ShapeInv
  <1>1. At(d, "IDLE") /\ told[d] # "COMPLETE"
    BY DEF Arrive, At, AnswerInv
  <1>2. PICK r \in Requests :
          IF conversation = "ACTIVE"
          THEN /\ delivery' = [delivery EXCEPT ![d].step = "FIND", ![d].request = r]
               /\ overlapped' = IF \E e \in Deliveries : Live(e) /\ delivery[e].request = r
                                THEN overlapped \union {r} ELSE overlapped
               /\ UNCHANGED told
          ELSE /\ delivery' = [delivery EXCEPT ![d].step = "OVER", ![d].request = r]
               /\ Tell(d, "REFUSED")
               /\ UNCHANGED overlapped
    BY DEF Arrive
  <1>3. UNCHANGED <<conversation, question, reply>>
    BY DEF Arrive
  <1>4. CASE conversation = "ACTIVE"
    <2> DEFINE row == [delivery[d] EXCEPT !.step = "FIND", !.request = r]
    <2>1. /\ delivery' = [delivery EXCEPT ![d] = row]
          /\ DOMAIN row = DeliveryFields /\ row.step = "FIND" /\ row.cites \in Chunks
          /\ row.request = r
      BY <1>2, <1>4 DEF DeliveryFields
    <2> HIDE DEF row
    <2>2. \A e \in Deliveries : Live(e) /\ delivery[e].request = r => r \in overlapped'
      BY <1>2, <1>4
    <2>3. overlapped \in SUBSET overlapped' /\ told' = told
      BY <1>2, <1>4
    <2>4. QED
      BY <1>1, <1>3, <2>1, <2>2, <2>3, LocalStepKeepsInvariant
      DEF At, DeliveryStep, Preparing, Early, Answering
  <1>5. CASE conversation # "ACTIVE"
    <2> DEFINE row == [delivery[d] EXCEPT !.step = "OVER", !.request = r]
    <2>1. /\ delivery' = [delivery EXCEPT ![d] = row]
          /\ DOMAIN row = DeliveryFields /\ row.step = "OVER" /\ row.cites \in Chunks
      BY <1>2, <1>5 DEF DeliveryFields
    <2>2. /\ DOMAIN told' = Deliveries /\ told'[d] # "COMPLETE"
          /\ \A e \in Deliveries \ {d} : told'[e] = told[e]
          /\ UNCHANGED overlapped
      BY <1>2, <1>5 DEF Tell
    <2> HIDE DEF row
    <2>3. QED
      BY <1>1, <1>3, <2>1, <2>2, LocalStepKeepsInvariant
      DEF At, DeliveryStep, Preparing, Streaming, Early, Answering
  <1>6. QED  BY <1>4, <1>5

\* Everything up to the first insert, and the history behind the second.
LEMMA PreparingKeepsInvariant ==
    ASSUME ChatInv, NEW d \in Deliveries,
           \/ FindQuestion(d) \/ Replay(d) \/ ReadNumber(d) \/ ReadHistory(d)
           \/ PreparationBreaks(d)
    PROVE  ChatInv'
  <1>1. told[d] = "COMPLETE" => At(d, "OVER")
    BY DEF ChatInv, AnswerInv, At
  <1>2. CASE FindQuestion(d)
    <2>1. /\ delivery[d].step = "FIND" /\ Live(d)
          /\ UNCHANGED <<conversation, question, reply, overlapped>>
      BY <1>2 DEF FindQuestion, At, Live, Preparing
    <2> DEFINE found == OfRequest(question, delivery[d].request)
    <2>2. CASE found = {}
      <3>1. GoTo(d, "NUMBER") /\ UNCHANGED told
        BY <1>2, <2>2, FS_EmptySet DEF FindQuestion
      <3>2. QED  BY <2>1, <2>2, <3>1, GoToKeepsInvariant DEF Preparing, Early, Answering
    <2>3. CASE found # {} /\ Cardinality(found) = 1
      <3>1. GoTo(d, "FINDREPLY") /\ UNCHANGED told
        BY <1>2, <2>3 DEF FindQuestion
      <3>2. QED  BY <2>1, <3>1, GoToKeepsInvariant DEF Preparing, Early, Answering
    <2>4. CASE found # {} /\ Cardinality(found) # 1
      <3>1. End(d) /\ Tell(d, "BROKEN")
        BY <1>2, <2>4 DEF FindQuestion
      <3>2. QED  BY <2>1, <3>1, EndKeepsInvariant DEF Event
    <2>5. QED  BY <2>2, <2>3, <2>4
  <1>3. CASE Replay(d)
    <2>1. /\ Live(d) /\ End(d)
          /\ UNCHANGED <<conversation, question, reply, overlapped>>
      BY <1>3 DEF Replay, At, Live, Preparing
    <2>2. \E event \in Event \ {"COMPLETE"} : Tell(d, event)
      <3> DEFINE found == OfRequest(reply, delivery[d].request)
      <3>1. CASE found = {}
        BY <1>3, <3>1 DEF Replay, Event
      <3>2. CASE found # {} /\ Cardinality(found) = 1
        BY <1>3, <3>2 DEF Replay, Replayed, Event
      <3>3. CASE found # {} /\ Cardinality(found) # 1
        BY <1>3, <3>3 DEF Replay, Event
      <3>4. QED  BY <3>1, <3>2, <3>3
    <2>3. QED  BY <2>1, <2>2, EndKeepsInvariant
  <1>4. CASE ReadNumber(d)
    <2> DEFINE row == [delivery[d] EXCEPT !.step = "QUESTION", !.number = NextSequence]
    <2>1. /\ delivery[d].step = "NUMBER" /\ Live(d)
          /\ UNCHANGED <<conversation, question, reply, told, overlapped>>
      BY <1>4 DEF ReadNumber, At, Live, Preparing
    <2>2. /\ delivery' = [delivery EXCEPT ![d] = row]
          /\ DOMAIN row = DeliveryFields /\ row.step = "QUESTION" /\ row.cites \in Chunks
          /\ row.request = delivery[d].request
      BY <1>4 DEF ReadNumber, ChatInv, ShapeInv, DeliveryFields
    <2> HIDE DEF row
    <2>3. DOMAIN told = Deliveries
      BY DEF ChatInv, ShapeInv
    <2>4. QED
      BY <1>1, <2>1, <2>2, <2>3, LocalStepKeepsInvariant
      DEF At, DeliveryStep, Preparing, Early, Answering
  <1>5. CASE ReadHistory(d)
    <2>1. PICK step \in {"CONTEXT", "GENERATE"} : GoTo(d, step)
      BY <1>5 DEF ReadHistory
    <2>2. QED
      BY <1>5, <2>1, GoToKeepsInvariant
      DEF ReadHistory, At, Live, Preparing, Streaming, Early, Answering, Event
  <1>6. CASE PreparationBreaks(d)
    BY <1>6, EndKeepsInvariant DEF PreparationBreaks, Live, Event
  <1>7. QED  BY <1>2, <1>3, <1>4, <1>5, <1>6

\* The stream of the model.
LEMMA StreamingKeepsInvariant ==
    ASSUME ChatInv, NEW d \in Deliveries, BuildContext(d) \/ Delta(d) \/ EndStream(d)
    PROVE  ChatInv'
  <1>1. /\ delivery[d].step \in {"CONTEXT", "GENERATE"} /\ Live(d)
        /\ UNCHANGED <<conversation, question, reply, overlapped>>
        /\ told' = told \/ Tell(d, "DELTA")
    BY DEF BuildContext, Delta, EndStream, At, Live, Streaming
  <1>2. /\ DOMAIN told' = Deliveries /\ told'[d] # "COMPLETE"
        /\ \A e \in Deliveries \ {d} : told'[e] = told[e]
    BY <1>1 DEF Tell, ChatInv, ShapeInv, AnswerInv
  <1>3. CASE GoTo(d, "FAIL")
    BY <1>1, <1>3, GoToKeepsInvariant DEF Streaming, Early, Answering, Event
  <1>4. ASSUME NEW row, delivery' = [delivery EXCEPT ![d] = row],
               DOMAIN row = DeliveryFields, row.step \in {"GENERATE", "STORE"},
               row.cites \in Chunks, row.request = delivery[d].request,
               row.step = "STORE" => row.content # "PART"
        PROVE  ChatInv'
    BY <1>1, <1>2, <1>4, LocalStepKeepsInvariant
    DEF DeliveryStep, Streaming, Early, Answering
  <1> USE DEF ChatInv, ShapeInv, DeliveryFields
  <1>5. CASE BuildContext(d) /\ ~GoTo(d, "FAIL")
    <2>1. PICK cites \in {"NONE", "LIVE"} :
            delivery' = [delivery EXCEPT ![d].step = "GENERATE", ![d].cites = cites]
      BY <1>5 DEF BuildContext
    <2> DEFINE row == [delivery[d] EXCEPT !.step = "GENERATE", !.cites = cites]
    <2>2. /\ delivery' = [delivery EXCEPT ![d] = row] /\ DOMAIN row = DeliveryFields
          /\ row.step = "GENERATE" /\ row.cites \in Chunks
          /\ row.request = delivery[d].request
      BY <2>1 DEF Chunks
    <2> HIDE DEF row
    <2>3. QED  BY <1>4, <2>2
  <1>6. CASE Delta(d)
    <2> DEFINE row == [delivery[d] EXCEPT !.content = "PART"]
    <2>1. /\ delivery' = [delivery EXCEPT ![d] = row] /\ DOMAIN row = DeliveryFields
          /\ row.step = "GENERATE" /\ row.cites \in Chunks
          /\ row.request = delivery[d].request
      BY <1>6 DEF Delta, At
    <2> HIDE DEF row
    <2>2. QED  BY <1>4, <2>1
  <1>7. CASE EndStream(d) /\ ~GoTo(d, "FAIL")
    <2> DEFINE row == [delivery[d] EXCEPT !.step = "STORE", !.content = Whole(delivery[d].content)]
    <2>1. /\ delivery' = [delivery EXCEPT ![d] = row] /\ DOMAIN row = DeliveryFields
          /\ row.step = "STORE" /\ row.cites \in Chunks
          /\ row.request = delivery[d].request
          /\ row.content = Whole(delivery[d].content)
      BY <1>7 DEF EndStream
    <2>2. row.content # "PART"
      BY <2>1 DEF Whole
    <2> HIDE DEF row
    <2>3. QED  BY <1>4, <2>1, <2>2
  <1>8. QED  BY <1>3, <1>5, <1>6, <1>7

\* The two inserts.
LEMMA StoreQuestionKeepsInvariant ==
    ASSUME ChatInv, NEW d \in Deliveries, StoreQuestion(d)
    PROVE  ChatInv'
  <1>1. /\ delivery[d].step = "QUESTION" /\ Live(d) /\ told[d] # "COMPLETE"
        /\ UNCHANGED <<conversation, reply, overlapped>>
    BY DEF StoreQuestion, At, Live, Preparing, ChatInv, AnswerInv
  <1>2. CASE ~MayInsert(delivery[d].number)
    <2>1. End(d) /\ Tell(d, "BROKEN") /\ UNCHANGED question
      BY <1>2 DEF StoreQuestion
    <2>2. QED  BY <1>1, <2>1, EndKeepsInvariant DEF Event
  <1>3. CASE MayInsert(delivery[d].number)
    <2> USE DEF ChatInv
    <2> DEFINE row == [NoMessage EXCEPT !.status = "COMPLETED", !.content = "FULL",
                                        !.sequence = delivery[d].number]
    <2>1. question' = [question EXCEPT ![d] = row] /\ GoTo(d, "REPLY") /\ UNCHANGED told
      BY <1>3 DEF StoreQuestion
    <2>2. /\ row.status = "COMPLETED" /\ row.sequence = delivery[d].number
          /\ DOMAIN row = MessageFields
      BY DEF NoMessage, MessageFields
    <2> HIDE DEF row
    <2>3. /\ question'[d] = row /\ DOMAIN question' = Deliveries
          /\ \A e \in Deliveries \ {d} : question'[e] = question[e]
          /\ Stored(question)' = Stored(question) \union {d}
          /\ Stored(reply)' = Stored(reply)
      BY <1>1, <2>1, <2>2 DEF ShapeInv, Stored
    <2>4. /\ DOMAIN delivery' = Deliveries
          /\ \A e \in Deliveries \ {d} : delivery'[e] = delivery[e]
          /\ DOMAIN delivery'[d] = DeliveryFields
          /\ delivery'[d].step = "REPLY" /\ delivery'[d].cites = delivery[d].cites
          /\ delivery'[d].request = delivery[d].request
          /\ delivery'[d].number = delivery[d].number
      BY <2>1 DEF GoTo, ShapeInv, DeliveryFields
    <2>5. ShapeInv'
      BY <1>1, <2>1, <2>2, <2>3, <2>4 DEF ShapeInv, DeliveryStep, Preparing
    <2>6. RowsInv'
      BY <1>1, <2>2, <2>3, <2>4 DEF RowsInv, Early
    <2>7. AnswerInv'
      BY <1>1, <2>1, <2>4 DEF AnswerInv, Answering
    <2>8. OverlapInv'
      <3>1. \A e \in Deliveries : Live(e)' => Live(e)
        BY <1>1, <2>4 DEF Live, Preparing
      <3>2. \A e \in Deliveries : delivery'[e].request = delivery[e].request
        BY <2>4
      <3>3. \A e \in Deliveries : delivery'[e].step \in {"NUMBER", "QUESTION"} =>
              delivery[e].step \in {"NUMBER", "QUESTION"} /\ Live(e)
        BY <2>4 DEF Live, Preparing
      <3>4. QED
        BY <1>1, <2>3, <3>1, <3>2, <3>3 DEF OverlapInv
    <2>9. ReplyFollowsItsQuestion'
      <3>1. delivery[d].number \notin Numbers /\ d \notin Stored(question) /\ d \notin Stored(reply)
        BY <1>1, <1>3 DEF MayInsert, RowsInv, Early
      <3>2. /\ \A e \in Stored(question) : question[e].sequence # delivery[d].number
            /\ \A e \in Stored(reply) : reply[e].sequence # delivery[d].number
        BY <3>1 DEF Numbers
      <3>3. \A e \in Stored(question) : question'[e] = question[e]
        BY <2>3, <3>1 DEF Stored
      <3>4. QED
        BY <1>1, <2>2, <2>3, <3>1, <3>2, <3>3 DEF ReplyFollowsItsQuestion
    <2>10. ShownIsStored'
      BY <1>1, <2>1, <2>4 DEF ShownIsStored
    <2>11. QED  BY <2>5, <2>6, <2>7, <2>8, <2>9, <2>10
  <1>4. QED  BY <1>2, <1>3

LEMMA StoreReplyKeepsInvariant ==
    ASSUME ChatInv, NEW d \in Deliveries, StoreReply(d)
    PROVE  ChatInv'
  <1>1. /\ delivery[d].step = "REPLY" /\ Live(d) /\ told[d] # "COMPLETE"
        /\ UNCHANGED <<conversation, question, overlapped>>
    BY DEF StoreReply, At, Live, Preparing, ChatInv, AnswerInv
  <1>2. CASE ~MayInsert(delivery[d].number + 1)
    <2>1. End(d) /\ Tell(d, "BROKEN") /\ UNCHANGED reply
      BY <1>2 DEF StoreReply
    <2>2. QED  BY <1>1, <2>1, EndKeepsInvariant DEF Event
  <1>3. CASE MayInsert(delivery[d].number + 1)
    <2> USE DEF ChatInv
    <2> DEFINE row == [NoMessage EXCEPT !.status = "PENDING", !.sequence = delivery[d].number + 1]
    <2>1. reply' = [reply EXCEPT ![d] = row] /\ GoTo(d, "HISTORY") /\ UNCHANGED told
      BY <1>3 DEF StoreReply
    <2>2. /\ row.status = "PENDING" /\ row.sequence = delivery[d].number + 1
          /\ row.cited = FALSE /\ DOMAIN row = MessageFields
      BY DEF NoMessage, MessageFields
    <2> HIDE DEF row
    <2>3. /\ reply'[d] = row /\ DOMAIN reply' = Deliveries
          /\ \A e \in Deliveries \ {d} : reply'[e] = reply[e]
          /\ Stored(reply)' = Stored(reply) \union {d}
          /\ Stored(question)' = Stored(question)
      BY <1>1, <2>1, <2>2 DEF ShapeInv, Stored
    <2>4. /\ DOMAIN delivery' = Deliveries
          /\ \A e \in Deliveries \ {d} : delivery'[e] = delivery[e]
          /\ DOMAIN delivery'[d] = DeliveryFields
          /\ delivery'[d].step = "HISTORY" /\ delivery'[d].cites = delivery[d].cites
          /\ delivery'[d].request = delivery[d].request
      BY <2>1 DEF GoTo, ShapeInv, DeliveryFields
    <2>5. ShapeInv'
      BY <1>1, <2>1, <2>2, <2>3, <2>4 DEF ShapeInv, DeliveryStep, Preparing
    <2>6. RowsInv'
      BY <1>1, <2>3, <2>4 DEF RowsInv, Early
    <2>7. AnswerInv'
      BY <1>1, <2>1, <2>2, <2>3, <2>4 DEF AnswerInv, Answering
    <2>8. OverlapInv'
      BY <1>1, <2>3, <2>4 DEF OverlapInv, Live, Preparing
    <2>9. ReplyFollowsItsQuestion'
      <3>1. /\ d \in Stored(question) /\ question[d].sequence = delivery[d].number
            /\ d \notin Stored(reply)
        BY <1>1, <1>3 DEF MayInsert, RowsInv
      <3>2. \A e \in Stored(question) : question[e].sequence # delivery[d].number + 1
        BY <1>3 DEF MayInsert, Numbers
      <3>3. \A e \in Stored(reply) : reply'[e] = reply[e]
        BY <2>3, <3>1 DEF Stored
      <3>4. QED
        BY <1>1, <2>2, <2>3, <3>1, <3>2, <3>3 DEF ReplyFollowsItsQuestion
    <2>10. ShownIsStored'
      BY <1>1, <2>1, <2>3, <2>4 DEF ShownIsStored
    <2>11. QED  BY <2>5, <2>6, <2>7, <2>8, <2>9, <2>10
  <1>4. QED  BY <1>2, <1>3

\* The updates of a reply: what Updated leaves as it was.
LEMMA UpdateKeepsRows ==
    ASSUME ChatInv, NEW d \in Deliveries, NEW status \in {"COMPLETED", "FAILED"},
           reply' \in {reply, Updated(d, status)}, UNCHANGED question
    PROVE  /\ DOMAIN reply' = Deliveries
           /\ \A e \in Deliveries : /\ DOMAIN reply'[e] = MessageFields
                                   /\ reply'[e].cited \in BOOLEAN
                                   /\ reply'[e].sequence = reply[e].sequence
           /\ \A e \in Deliveries \ {d} : reply'[e] = reply[e]
           /\ Stored(reply)' = Stored(reply) /\ Stored(question)' = Stored(question)
           /\ ReplyFollowsItsQuestion'
  <1> USE DEF ChatInv
  <1>1. CASE reply' = reply
    BY <1>1 DEF ShapeInv, Stored, ReplyFollowsItsQuestion
  <1>2. CASE reply' # reply
    <2> DEFINE row == [reply[d] EXCEPT !.status = status, !.content = delivery[d].content,
                       !.cited = @ \/ (status = "COMPLETED" /\ delivery[d].cites = "LIVE")]
    <2>1. reply' = [reply EXCEPT ![d] = row] /\ reply[d].status # "NONE"
      BY <1>2 DEF Updated, ShapeInv
    <2>2. /\ DOMAIN row = MessageFields /\ row.sequence = reply[d].sequence
          /\ row.status = status
          /\ row.cited = (reply[d].cited \/ (status = "COMPLETED" /\ delivery[d].cites = "LIVE"))
      BY DEF ShapeInv, MessageFields
    <2>3. row.cited \in BOOLEAN
      BY <2>2
    <2> HIDE DEF row
    <2>4. /\ DOMAIN reply' = Deliveries /\ reply'[d] = row
          /\ \A e \in Deliveries \ {d} : reply'[e] = reply[e]
      BY <2>1 DEF ShapeInv
    <2>5. Stored(reply)' = Stored(reply) /\ Stored(question)' = Stored(question)
      BY <2>1, <2>2, <2>4 DEF Stored
    <2>6. ReplyFollowsItsQuestion'
      BY <2>2, <2>4, <2>5 DEF ReplyFollowsItsQuestion, Stored
    <2>7. QED  BY <2>2, <2>3, <2>4, <2>5, <2>6 DEF ShapeInv
  <1>3. QED  BY <1>1, <1>2

\* A handler that has updated its reply, or failed to, and does not answer.
LEMMA UpdateKeepsInvariant ==
    ASSUME ChatInv, NEW d \in Deliveries, delivery[d].step \in Streaming,
           NEW status \in {"COMPLETED", "FAILED"},
           reply' \in {reply, Updated(d, status)},
           End(d) \/ GoTo(d, "FAIL") \/ GoTo(d, "CANCEL"),
           told' = told \/ \E event \in Event \ {"COMPLETE"} : Tell(d, event),
           UNCHANGED <<conversation, question, overlapped>>
    PROVE  ChatInv'
  <1> USE DEF ChatInv
  <1>1. /\ DOMAIN reply' = Deliveries
        /\ \A e \in Deliveries : /\ DOMAIN reply'[e] = MessageFields
                                /\ reply'[e].cited \in BOOLEAN
        /\ \A e \in Deliveries \ {d} : reply'[e] = reply[e]
        /\ Stored(reply)' = Stored(reply) /\ Stored(question)' = Stored(question)
        /\ ReplyFollowsItsQuestion'
    BY UpdateKeepsRows
  <1>2. /\ DOMAIN delivery' = Deliveries
        /\ \A e \in Deliveries \ {d} : delivery'[e] = delivery[e]
        /\ DOMAIN delivery'[d] = DeliveryFields
        /\ delivery'[d].step \in {"OVER", "FAIL", "CANCEL"}
        /\ delivery'[d].cites \in Chunks
        /\ delivery'[d].request = delivery[d].request
    BY DEF End, Ended, GoTo, ShapeInv, DeliveryFields
  <1>3. /\ DOMAIN told' = Deliveries /\ told'[d] # "COMPLETE"
        /\ \A e \in Deliveries \ {d} : told'[e] = told[e]
    BY DEF Tell, ShapeInv, AnswerInv, Streaming
  <1>4. ShapeInv'
    BY <1>1, <1>2, <1>3 DEF ShapeInv, DeliveryStep, Streaming
  <1>5. RowsInv'
    BY <1>1, <1>2 DEF RowsInv, Early
  <1>6. AnswerInv'
    BY <1>1, <1>2, <1>3 DEF AnswerInv, Answering
  <1>7. OverlapInv'
    <2>1. \A e \in Deliveries : Live(e)' => Live(e)
      BY <1>2 DEF Live
    <2>2. \A e \in Deliveries : delivery'[e].request = delivery[e].request
      BY <1>2
    <2>3. \A e \in Deliveries : delivery'[e].step \in {"NUMBER", "QUESTION"} =>
            delivery[e].step \in {"NUMBER", "QUESTION"}
      BY <1>2
    <2>4. QED  BY <1>1, <2>1, <2>2, <2>3 DEF OverlapInv
  <1>8. ShownIsStored'
    BY <1>1, <1>2, <1>3 DEF ShownIsStored
  <1>9. QED  BY <1>1, <1>4, <1>5, <1>6, <1>7, <1>8

LEMMA StoreAnswerKeepsInvariant ==
    ASSUME ChatInv, NEW d \in Deliveries, StoreAnswer(d)
    PROVE  ChatInv'
  <1>1. /\ delivery[d].step = "STORE" /\ reply' = Completed(d)
        /\ UNCHANGED <<conversation, question, overlapped>>
    BY DEF StoreAnswer, At
  <1>2. CASE reply[d].status = "NONE" \/ delivery[d].cites = "GONE"
    <2>1. GoTo(d, "FAIL") /\ UNCHANGED told
      BY <1>2 DEF StoreAnswer
    <2>2. reply' \in {reply, Updated(d, "COMPLETED")}
      BY <1>1 DEF Completed
    <2>3. QED  BY <1>1, <2>1, <2>2, UpdateKeepsInvariant DEF Streaming
  <1>3. CASE reply[d].status # "NONE" /\ delivery[d].cites # "GONE"
    <2> USE DEF ChatInv
    <2>1. /\ DOMAIN reply' = Deliveries
          /\ \A e \in Deliveries : /\ DOMAIN reply'[e] = MessageFields
                                  /\ reply'[e].cited \in BOOLEAN
          /\ \A e \in Deliveries \ {d} : reply'[e] = reply[e]
          /\ Stored(reply)' = Stored(reply) /\ Stored(question)' = Stored(question)
          /\ ReplyFollowsItsQuestion'
      BY <1>1, UpdateKeepsRows DEF Completed
    <2>2. End(d) /\ Tell(d, "COMPLETE")
      BY <1>3 DEF StoreAnswer
    <2>3. /\ DOMAIN delivery' = Deliveries
          /\ \A e \in Deliveries \ {d} : delivery'[e] = delivery[e]
          /\ DOMAIN delivery'[d] = DeliveryFields
          /\ delivery'[d].step = "OVER"
          /\ delivery'[d].cites = delivery[d].cites /\ delivery[d].cites \in Chunks
          /\ delivery'[d].request = delivery[d].request
      BY <2>2 DEF End, Ended, ShapeInv, DeliveryFields
    <2>4. /\ DOMAIN told' = Deliveries
          /\ \A e \in Deliveries \ {d} : told'[e] = told[e]
      BY <2>2 DEF Tell, ShapeInv
    <2>5. ShapeInv'
      BY <1>1, <2>1, <2>3, <2>4 DEF ShapeInv, DeliveryStep
    <2>6. RowsInv'
      BY <1>1, <2>1, <2>3 DEF RowsInv, Early
    <2>7. AnswerInv'
      BY <2>1, <2>3, <2>4 DEF AnswerInv, Answering
    <2>8. OverlapInv'
      <3>1. \A e \in Deliveries : Live(e)' => Live(e)
        BY <2>3 DEF Live, Preparing, Streaming
      <3>2. \A e \in Deliveries : delivery'[e].request = delivery[e].request
        BY <2>3
      <3>3. \A e \in Deliveries : delivery'[e].step \in {"NUMBER", "QUESTION"} =>
              delivery[e].step \in {"NUMBER", "QUESTION"}
        BY <2>3
      <3>4. QED  BY <1>1, <2>1, <3>1, <3>2, <3>3 DEF OverlapInv
    <2>9. ShownIsStored'
      <3> DEFINE row == [reply[d] EXCEPT !.status = "COMPLETED", !.content = delivery[d].content,
                         !.cited = @ \/ ("COMPLETED" = "COMPLETED" /\ delivery[d].cites = "LIVE")]
      <3>1. reply' = [reply EXCEPT ![d] = row]
        BY <1>1, <1>3 DEF Completed, Updated
      <3>2. /\ row.status = "COMPLETED" /\ row.content = delivery[d].content
            /\ row.cited = (reply[d].cited \/ delivery[d].cites = "LIVE")
        BY DEF ShapeInv, MessageFields
      <3> HIDE DEF row
      <3>3. reply[d].cited = FALSE /\ delivery[d].content # "PART"
        BY <1>1 DEF AnswerInv, Answering
      <3>4. reply'[d] = row
        BY <3>1 DEF ShapeInv
      <3>5. row.cited <=> delivery[d].cites = "LIVE"
        BY <2>3, <3>2, <3>3
      <3>6. QED  BY <1>1, <2>1, <2>3, <2>4, <3>2, <3>3, <3>4, <3>5 DEF ShownIsStored
    <2>10. QED  BY <2>1, <2>5, <2>6, <2>7, <2>8, <2>9
  <1>4. QED  BY <1>2, <1>3

LEMMA EndingKeepsInvariant ==
    ASSUME ChatInv, NEW d \in Deliveries,
           \/ StoreAnswerFails(d) \/ StoreFailure(d) \/ StoreFailureFails(d)
           \/ StoreCancelled(d) \/ Disconnect(d)
    PROVE  ChatInv'
  <1>1. CASE StoreAnswerFails(d)
    BY <1>1, UpdateKeepsInvariant DEF StoreAnswerFails, At, Streaming, Completed
  <1>2. CASE StoreFailure(d)
    <2>1. \E event \in Event \ {"COMPLETE"} : Tell(d, event)
      BY <1>2 DEF StoreFailure, Event
    <2>2. QED  BY <1>2, <2>1, UpdateKeepsInvariant DEF StoreFailure, At, Streaming
  <1>3. CASE StoreFailureFails(d)
    BY <1>3, UpdateKeepsInvariant DEF StoreFailureFails, At, Streaming, Event
  <1>4. CASE StoreCancelled(d)
    BY <1>4, UpdateKeepsInvariant DEF StoreCancelled, At, Streaming
  <1>5. CASE Disconnect(d)
    <2>1. /\ delivery[d].step \in Streaming /\ delivery[d].step # "CANCEL"
          /\ Tell(d, "BROKEN") /\ UNCHANGED <<conversation, question, overlapped>>
      BY <1>5 DEF Disconnect
    <2>2. CASE delivery[d].step \in {"CONTEXT", "GENERATE"}
      <3>1. (End(d) \/ GoTo(d, "CANCEL")) /\ UNCHANGED reply
        BY <1>5, <2>2 DEF Disconnect, At
      <3>2. QED  BY <2>1, <3>1, UpdateKeepsInvariant DEF Event
    <2>3. CASE delivery[d].step = "STORE"
      <3>1. GoTo(d, "CANCEL") /\ reply' \in {reply, Updated(d, "COMPLETED")}
        BY <1>5, <2>3 DEF Disconnect, At, Completed
      <3>2. QED  BY <2>1, <3>1, UpdateKeepsInvariant DEF Event
    <2>4. CASE delivery[d].step = "FAIL"
      <3>1. End(d) /\ reply' \in {reply, Updated(d, "FAILED")}
        BY <1>5, <2>4 DEF Disconnect, At
      <3>2. QED  BY <2>1, <3>1, UpdateKeepsInvariant DEF Event
    <2>5. QED  BY <2>1, <2>2, <2>3, <2>4 DEF Streaming
  <1>6. QED  BY <1>1, <1>2, <1>3, <1>4, <1>5

\* The conversation is created or finished, or goes with its messages.
LEMMA ConversationKeepsInvariant ==
    ASSUME ChatInv, CreateConversation \/ FinishConversation \/ DeleteConversation
    PROVE  ChatInv'
  <1> USE DEF ChatInv
  <1>1. UNCHANGED <<delivery, told, overlapped>>
    BY DEF CreateConversation, FinishConversation, DeleteConversation
  <1>2. CASE CreateConversation \/ FinishConversation
    <2>1. conversation # "DELETED" /\ UNCHANGED <<question, reply>>
      BY <1>2 DEF CreateConversation, FinishConversation
    <2>2. QED
      BY <1>1, <2>1
      DEF ShapeInv, RowsInv, AnswerInv, OverlapInv, Live, Stored, ReplyFollowsItsQuestion,
          ShownIsStored
  <1>3. CASE DeleteConversation
    <2>1. /\ conversation' = "DELETED"
          /\ question' = [d \in Deliveries |-> NoMessage]
          /\ reply' = [d \in Deliveries |-> NoMessage]
      BY <1>3 DEF DeleteConversation
    <2>2. /\ DOMAIN NoMessage = MessageFields /\ NoMessage.status = "NONE"
          /\ NoMessage.cited = FALSE
      BY DEF NoMessage, MessageFields
    <2>3. Stored(question)' = {} /\ Stored(reply)' = {}
      BY <2>1, <2>2 DEF Stored
    <2>4. ShapeInv'
      BY <1>1, <2>1, <2>2 DEF ShapeInv
    <2>5. AnswerInv'
      BY <1>1, <2>1, <2>2 DEF AnswerInv
    <2>6. QED
      BY <1>1, <2>1, <2>3, <2>4, <2>5
      DEF RowsInv, OverlapInv, Live, ReplyFollowsItsQuestion, ShownIsStored
  <1>4. QED  BY <1>2, <1>3

\* Cited chunks go: of the rows only the citations change.
LEMMA DeletionChanges ==
    ASSUME DOMAIN delivery = Deliveries, DOMAIN reply = Deliveries, DeleteSources
    PROVE  \E citing \in SUBSET Deliveries :
             /\ DOMAIN delivery' = Deliveries /\ DOMAIN reply' = Deliveries
             /\ \A d \in citing :
                  /\ delivery[d].cites = "LIVE"
                  /\ delivery'[d] = [delivery[d] EXCEPT !.cites = "GONE"]
                  /\ reply'[d] = [reply[d] EXCEPT !.cited = FALSE]
             /\ \A d \in Deliveries \ citing :
                  delivery'[d] = delivery[d] /\ reply'[d] = reply[d]
             /\ UNCHANGED <<conversation, question, told, overlapped, spent>>
  BY DEF DeleteSources

LEMMA DeletionKeepsInvariant ==
    ASSUME ChatInv, DeleteSources
    PROVE  ChatInv'
  <1> USE DEF ChatInv
  <1>1. PICK citing \in SUBSET Deliveries :
          /\ DOMAIN delivery' = Deliveries /\ DOMAIN reply' = Deliveries
          /\ \A d \in citing :
               /\ delivery[d].cites = "LIVE"
               /\ delivery'[d] = [delivery[d] EXCEPT !.cites = "GONE"]
               /\ reply'[d] = [reply[d] EXCEPT !.cited = FALSE]
          /\ \A d \in Deliveries \ citing :
               delivery'[d] = delivery[d] /\ reply'[d] = reply[d]
          /\ UNCHANGED <<conversation, question, told, overlapped, spent>>
    BY DeletionChanges DEF ShapeInv
  <1>2. \A d \in Deliveries :
          /\ DOMAIN delivery'[d] = DeliveryFields /\ DOMAIN reply'[d] = MessageFields
          /\ delivery'[d].step = delivery[d].step
          /\ delivery'[d].request = delivery[d].request
          /\ delivery'[d].number = delivery[d].number
          /\ delivery'[d].content = delivery[d].content
          /\ reply'[d].status = reply[d].status
          /\ reply'[d].sequence = reply[d].sequence
          /\ reply'[d].content = reply[d].content
    <2> SUFFICES ASSUME NEW d \in Deliveries
                 PROVE  /\ DOMAIN delivery'[d] = DeliveryFields
                        /\ DOMAIN reply'[d] = MessageFields
                        /\ delivery'[d].step = delivery[d].step
                        /\ delivery'[d].request = delivery[d].request
                        /\ delivery'[d].number = delivery[d].number
                        /\ delivery'[d].content = delivery[d].content
                        /\ reply'[d].status = reply[d].status
                        /\ reply'[d].sequence = reply[d].sequence
                        /\ reply'[d].content = reply[d].content
      OBVIOUS
    <2>1. DOMAIN delivery[d] = DeliveryFields /\ DOMAIN reply[d] = MessageFields
      BY DEF ShapeInv
    <2>2. CASE d \in citing
      <3>1. /\ delivery'[d] = [delivery[d] EXCEPT !.cites = "GONE"]
            /\ reply'[d] = [reply[d] EXCEPT !.cited = FALSE]
        BY <1>1, <2>2
      <3>2. QED  BY <2>1, <3>1 DEF DeliveryFields, MessageFields
    <2>3. CASE d \notin citing
      BY <1>1, <2>1, <2>3
    <2>4. QED  BY <2>2, <2>3
  <1>3. \A d \in citing : delivery'[d].cites = "GONE" /\ reply'[d].cited = FALSE
    BY <1>1 DEF ShapeInv, DeliveryFields, MessageFields
  <1>4. Stored(question)' = Stored(question) /\ Stored(reply)' = Stored(reply)
    BY <1>1, <1>2 DEF Stored
  <1>5. ShapeInv'
    BY <1>1, <1>2, <1>3 DEF ShapeInv, Chunks
  <1>6. RowsInv'
    BY <1>1, <1>2, <1>4 DEF RowsInv
  <1>7. AnswerInv'
    BY <1>1, <1>2, <1>3 DEF AnswerInv
  <1>8. OverlapInv'
    BY <1>1, <1>2, <1>4 DEF OverlapInv, Live
  <1>9. ReplyFollowsItsQuestion'
    BY <1>1, <1>2, <1>4 DEF ReplyFollowsItsQuestion, Stored
  <1>10. ShownIsStored'
    BY <1>1, <1>2, <1>3 DEF ShownIsStored
  <1>11. QED  BY <1>5, <1>6, <1>7, <1>8, <1>9, <1>10

LEMMA CrashKeepsInvariant ==
    ASSUME ChatInv, Crash
    PROVE  ChatInv'
  <1> USE DEF ChatInv
  <1>1. /\ delivery' = [d \in Deliveries |-> IF Live(d) THEN Ended(d) ELSE delivery[d]]
        /\ told' = [d \in Deliveries |-> IF Live(d) THEN "BROKEN" ELSE told[d]]
        /\ UNCHANGED <<conversation, question, reply, overlapped>>
    BY DEF Crash
  <1>2. \A d \in Deliveries :
          /\ DOMAIN delivery'[d] = DeliveryFields
          /\ delivery'[d].request = delivery[d].request
          /\ delivery'[d].cites = delivery[d].cites
          /\ delivery'[d].step = IF Live(d) THEN "OVER" ELSE delivery[d].step
          /\ ~Live(d) => delivery'[d] = delivery[d]
    BY <1>1 DEF Ended, ShapeInv, DeliveryFields
  <1>3. Stored(question)' = Stored(question) /\ Stored(reply)' = Stored(reply)
    BY <1>1 DEF Stored
  <1>4. ShapeInv'
    BY <1>1, <1>2 DEF ShapeInv, DeliveryStep
  <1>5. RowsInv'
    BY <1>1, <1>2, <1>3 DEF RowsInv, Early
  <1>6. AnswerInv'
    BY <1>1, <1>2 DEF AnswerInv, Answering, Live, Streaming
  <1>7. OverlapInv'
    BY <1>1, <1>2, <1>3 DEF OverlapInv, Live, Preparing, Streaming
  <1>8. ReplyFollowsItsQuestion' /\ ShownIsStored'
    BY <1>1, <1>2, <1>3 DEF ReplyFollowsItsQuestion, ShownIsStored
  <1>9. QED  BY <1>4, <1>5, <1>6, <1>7, <1>8

-----------------------------------------------------------------------------
(* Theorems.                                                               *)

\* The invariant holds in every behaviour of ChatStream.
THEOREM ChatInvariant == Spec => []ChatInv
<1>1. Init => ChatInv
  <2> SUFFICES ASSUME Init PROVE ChatInv
    OBVIOUS
  <2>1. /\ DOMAIN NoMessage = MessageFields /\ NoMessage.status = "NONE"
        /\ NoMessage.cited = FALSE
        /\ DOMAIN NoDelivery = DeliveryFields /\ NoDelivery.step = "IDLE"
        /\ NoDelivery.cites \in Chunks
    BY DEF NoMessage, NoDelivery, MessageFields, DeliveryFields, Chunks
  <2>2. Stored(question) = {} /\ Stored(reply) = {}
    BY <2>1 DEF Init, Stored
  <2>3. QED
    BY <2>1, <2>2
    DEF Init, ChatInv, ShapeInv, RowsInv, AnswerInv, OverlapInv, Live, Preparing, Streaming,
        Answering, DeliveryStep, ReplyFollowsItsQuestion, ShownIsStored
<1>2. ChatInv /\ [Next]_vars => ChatInv'
  <2> SUFFICES ASSUME ChatInv, [Next]_vars PROVE ChatInv'
    OBVIOUS
  <2>1. ASSUME NEW d \in Deliveries, Arrive(d) PROVE ChatInv'
    BY <2>1, ArriveKeepsInvariant
  <2>2. ASSUME NEW d \in Deliveries, Handle(d) PROVE ChatInv'
    BY <2>2, PreparingKeepsInvariant, StreamingKeepsInvariant, StoreQuestionKeepsInvariant,
       StoreReplyKeepsInvariant, StoreAnswerKeepsInvariant, EndingKeepsInvariant DEF Handle
  <2>3. ASSUME NEW d \in Deliveries, Faults(d) PROVE ChatInv'
    BY <2>3, PreparingKeepsInvariant, EndingKeepsInvariant DEF Faults
  <2>4. CASE CreateConversation \/ FinishConversation \/ DeleteConversation
    BY <2>4, ConversationKeepsInvariant
  <2>5. CASE Crash
    BY <2>5, CrashKeepsInvariant
  <2>6. CASE DeleteSources
    BY <2>6, DeletionKeepsInvariant
  <2>7. CASE UNCHANGED vars
    BY <2>7
    DEF vars, ChatInv, ShapeInv, RowsInv, AnswerInv, OverlapInv, Live, Stored,
        ReplyFollowsItsQuestion, ShownIsStored
  <2>8. QED  BY <2>1, <2>2, <2>3, <2>4, <2>5, <2>6, <2>7 DEF Next
<1>3. QED  BY <1>1, <1>2, PTL DEF Spec

\* However many requests interleave, an answer stands behind its question and
\* no number is used twice.
THEOREM RepliesAlwaysFollow == Spec => []ReplyFollowsItsQuestion
  BY ChatInvariant, PTL DEF ChatInv

\* What a client was shown as complete stays stored, and is cited exactly as long
\* as every chunk it was built from is there.
THEOREM ShownIsAlwaysStored == Spec => []ShownIsStored
  BY ChatInvariant, PTL DEF ChatInv

\* A request is generated once, unless two handlers of it overlapped.
THEOREM RepeatsAreAlwaysReplayed == Spec => []RepeatIsReplayed
<1>1. ChatInv => RepeatIsReplayed
  <2> SUFFICES ASSUME ChatInv, NEW r \in Requests \ overlapped
               PROVE  Cardinality(OfRequest(question, r)) <= 1
    BY DEF RepeatIsReplayed
  <2> DEFINE found == OfRequest(question, r)
  <2>1. \A d, e \in found : d = e
    BY DEF ChatInv, OverlapInv, OfRequest, Stored
  <2>2. found = {} \/ \E d : found = {d}
    BY <2>1
  <2>3. Cardinality(found) \in {0, 1}
    <3> HIDE DEF found
    <3>1. QED  BY <2>2, FS_EmptySet, FS_Singleton
  <2>4. QED  BY <2>3
<1>2. QED  BY <1>1, ChatInvariant, PTL

-----------------------------------------------------------------------------
(* How large the numbers are.                                              *)

\* The messages are numbered without a gap, and what a handler has read as the
\* next number is at most one more, unless it goes on after a deletion.
NumberInv ==
    \E m \in Nat :
        /\ Numbers = 1 .. m
        /\ conversation # "DELETED" => \A d \in Deliveries : delivery[d].number <= m + 1
        /\ \A d \in Deliveries : delivery[d].step = "QUESTION" => delivery[d].number # 0

TypedInv == TypeOK /\ NumberInv

\* A handler stores at most one message of each kind.
LEMMA NumbersAreFew ==
    ASSUME TypeOK, NEW m \in Nat, Numbers = 1 .. m
    PROVE  m <= MaxSequence
<1>1. IsFiniteSet(Deliveries) /\ Cardinality(Deliveries) \in Nat
  BY ChatAssumption, FS_CardinalityType
<1>2. ASSUME NEW message \in [Deliveries -> Message]
      PROVE  LET numbers == {message[d].sequence : d \in Stored(message)}
             IN  IsFiniteSet(numbers) /\ Cardinality(numbers) <= Cardinality(Deliveries)
  <2> DEFINE numbers == {message[d].sequence : d \in Stored(message)}
             f == [d \in Stored(message) |-> message[d].sequence]
  <2>1. Stored(message) \subseteq Deliveries
    BY DEF Stored
  <2>2. IsFiniteSet(Stored(message)) /\ Cardinality(Stored(message)) <= Cardinality(Deliveries)
        /\ Cardinality(Stored(message)) \in Nat
    BY <1>1, <2>1, FS_Subset, FS_CardinalityType
  <2>3. f \in Surjection(Stored(message), numbers)
    BY DEF Surjection
  <2> HIDE DEF f, numbers
  <2>4. IsFiniteSet(numbers) /\ Cardinality(numbers) <= Cardinality(Stored(message))
        /\ Cardinality(numbers) \in Nat
    BY <2>2, <2>3, FS_Surjection, FS_CardinalityType
  <2>5. IsFiniteSet(numbers) /\ Cardinality(numbers) <= Cardinality(Deliveries)
    BY <1>1, <2>2, <2>4
  <2>6. QED  BY <2>5 DEF numbers
<1> DEFINE Q == {question[d].sequence : d \in Stored(question)}
           R == {reply[d].sequence : d \in Stored(reply)}
<1>3. question \in [Deliveries -> Message] /\ reply \in [Deliveries -> Message]
  BY DEF TypeOK
<1>4. /\ IsFiniteSet(Q) /\ Cardinality(Q) <= Cardinality(Deliveries)
      /\ IsFiniteSet(R) /\ Cardinality(R) <= Cardinality(Deliveries)
  BY <1>2, <1>3
<1>5. Q \union R = 1 .. m
  BY DEF Numbers
<1> HIDE DEF Q, R
<1>6. /\ Cardinality(Q) \in Nat /\ Cardinality(R) \in Nat /\ Cardinality(Q \cap R) \in Nat
      /\ Cardinality(Q \union R) = Cardinality(Q) + Cardinality(R) - Cardinality(Q \cap R)
  <2>1. IsFiniteSet(Q \cap R)
    BY <1>4, FS_Intersection
  <2>2. Cardinality(Q) \in Nat /\ Cardinality(R) \in Nat /\ Cardinality(Q \cap R) \in Nat
    BY <1>4, <2>1, FS_CardinalityType
  <2>3. Cardinality(Q \union R) = Cardinality(Q) + Cardinality(R) - Cardinality(Q \cap R)
    BY <1>4, FS_Union
  <2>4. QED  BY <2>2, <2>3
<1>7. Cardinality(1 .. m) = m
  BY FS_Interval
<1>8. Cardinality(Q \union R) = m
  BY <1>5, <1>7, Zenon
<1> DEFINE q == Cardinality(Q)
           r == Cardinality(R)
           both == Cardinality(Q \cap R)
           all == Cardinality(Q \union R)
<1>9. q \in Nat /\ r \in Nat /\ both \in Nat /\ all = m /\ all = q + r - both
      /\ q <= Cardinality(Deliveries) /\ r <= Cardinality(Deliveries)
  BY <1>4, <1>6, <1>8
<1> HIDE DEF q, r, both, all
<1>10. QED  BY <1>1, <1>9 DEF MaxSequence

LEMMA MaxSequenceIsNatural == MaxSequence \in Nat
<1>1. Cardinality(Deliveries) \in Nat
  BY ChatAssumption, FS_CardinalityType
<1>2. QED  BY <1>1 DEF MaxSequence

\* Repository next_sequence, when there is no gap.
LEMMA NextIsOneMore ==
    ASSUME TypeOK, NEW m \in Nat, Numbers = 1 .. m
    PROVE  NextSequence = m + 1 /\ m + 1 \in Sequence
<1>1. m <= MaxSequence /\ MaxSequence \in Nat
  BY NumbersAreFew, MaxSequenceIsNatural
<1>2. /\ m + 1 \in 1 .. MaxSequence + 1
      /\ (m + 1) - 1 \in Numbers \union {0}
      /\ \A k \in Numbers : k < m + 1
  BY <1>1
<1>3. ASSUME NEW n \in 1 .. MaxSequence + 1, n - 1 \in Numbers \union {0},
             \A k \in Numbers : k < n
      PROVE  n = m + 1
  <2>1. n - 1 <= m
    BY <1>3
  <2>2. n > m
    BY <1>1, <1>3
  <2>3. QED  BY <1>1, <2>1, <2>2
<1>4. QED  BY <1>1, <1>2, <1>3 DEF NextSequence, Sequence

-----------------------------------------------------------------------------
(* The steps keep the types and the numbers.                               *)

LEMMA NumberType ==
    /\ \A n \in Nat : n <= MaxSequence + 1 => n \in Sequence
    /\ Sequence \subseteq Nat
  BY MaxSequenceIsNatural DEF Sequence

\* A handler that goes on with a number it had, or with the next one.
Moves(d) ==
    \E r \in Delivery :
        /\ delivery' = [delivery EXCEPT ![d] = r]
        /\ r.number \in {delivery[d].number, 0, NextSequence}
        /\ r.step = "QUESTION" => r.number = NextSequence

\* The local state of one handler, what its client is told, and a fault.
LEMMA HandlerKeepsType ==
    ASSUME TypeOK, NEW d \in Deliveries, Moves(d),
           told' = told \/ \E event \in Event : Tell(d, event),
           spent' = spent \/ \E kind \in BoundedEvent : Spend(kind)
    PROVE  /\ delivery' \in [Deliveries -> Delivery]
           /\ told' \in [Deliveries -> Event]
           /\ spent' \in [BoundedEvent -> Nat]
<1>1. delivery' \in [Deliveries -> Delivery]
  BY DEF TypeOK, Moves
<1>2. told' \in [Deliveries -> Event]
  BY DEF TypeOK, Tell
<1>3. spent' \in [BoundedEvent -> Nat]
  <2>1. CASE spent' = spent
    BY <2>1 DEF TypeOK
  <2>2. CASE \E kind \in BoundedEvent : Spend(kind)
    <3>1. PICK kind \in BoundedEvent : spent' = [spent EXCEPT ![kind] = @ + 1]
      BY <2>2 DEF Spend
    <3>2. spent[kind] + 1 \in Nat
      BY DEF TypeOK
    <3>3. QED  BY <3>1, <3>2 DEF TypeOK
  <2>3. QED  BY <2>1, <2>2
<1>4. QED  BY <1>1, <1>2, <1>3

\* The numbers of the messages stay, and a handler reads no larger one.
LEMMA HandlerKeepsNumbers ==
    ASSUME TypedInv, Numbers' = Numbers, conversation' # "DELETED" => conversation # "DELETED",
           \A d \in Deliveries :
               /\ delivery'[d].number \in {delivery[d].number, 0, NextSequence}
               /\ delivery'[d].step = "QUESTION" =>
                    delivery'[d].number = NextSequence \/ delivery'[d] = delivery[d]
    PROVE  NumberInv'
<1>1. PICK m \in Nat :
        /\ Numbers = 1 .. m
        /\ conversation # "DELETED" => \A d \in Deliveries : delivery[d].number <= m + 1
        /\ \A d \in Deliveries : delivery[d].step = "QUESTION" => delivery[d].number # 0
  BY DEF TypedInv, NumberInv
<1>2. NextSequence = m + 1
  BY <1>1, NextIsOneMore DEF TypedInv
<1>3. ASSUME conversation' # "DELETED", NEW d \in Deliveries PROVE delivery'[d].number <= m + 1
  BY <1>1, <1>2, <1>3
<1>4. ASSUME NEW d \in Deliveries, delivery'[d].step = "QUESTION" PROVE delivery'[d].number # 0
  <2>1. m + 1 # 0
    BY <1>1
  <2>2. QED  BY <1>1, <1>2, <1>4, <2>1
<1>5. QED  BY <1>1, <1>3, <1>4 DEF NumberInv

\* The update of a reply does not touch its number.
LEMMA UpdateKeepsNumbers ==
    ASSUME TypeOK, NEW d \in Deliveries, NEW status \in {"COMPLETED", "FAILED"},
           reply' \in {reply, Updated(d, status)}, UNCHANGED question
    PROVE  reply' \in [Deliveries -> Message] /\ Numbers' = Numbers
<1>1. CASE reply' = reply
  BY <1>1 DEF TypeOK, Numbers, Stored
<1>2. CASE reply' # reply
  <2> DEFINE row == [reply[d] EXCEPT !.status = status, !.content = delivery[d].content,
                     !.cited = @ \/ (status = "COMPLETED" /\ delivery[d].cites = "LIVE")]
  <2>1. reply' = [reply EXCEPT ![d] = row] /\ reply[d].status # "NONE"
    BY <1>2 DEF Updated, TypeOK
  <2>2. reply[d] \in Message /\ delivery[d] \in Delivery
    BY DEF TypeOK
  <2>3. row.cited \in BOOLEAN /\ row.sequence = reply[d].sequence /\ row.status = status
    BY <2>2, Zenon DEF Message, Delivery
  <2>4. row \in Message
    BY <2>2, <2>3 DEF Message, Delivery, MessageStatus
  <2> HIDE DEF row
  <2>5. reply' \in [Deliveries -> Message]
    BY <2>1, <2>4 DEF TypeOK
  <2>6. \A e \in Deliveries :
          /\ reply'[e].sequence = reply[e].sequence
          /\ reply'[e].status # "NONE" <=> reply[e].status # "NONE"
    BY <2>1, <2>3 DEF TypeOK
  <2>7. Stored(reply)' = Stored(reply) /\ Stored(question)' = Stored(question)
    BY <2>6 DEF Stored
  <2>8. Numbers' = Numbers
    BY <2>6, <2>7 DEF Numbers, Stored
  <2>9. QED  BY <2>5, <2>8
<1>3. QED  BY <1>1, <1>2

\* A step of a handler that numbers no message.
LEMMA HandlerKeepsInv ==
    ASSUME TypedInv, NEW d \in Deliveries, Moves(d),
           told' = told \/ \E event \in Event : Tell(d, event),
           spent' = spent \/ \E kind \in BoundedEvent : Spend(kind),
           reply' = reply \/ \E status \in {"COMPLETED", "FAILED"} : reply' = Updated(d, status),
           overlapped' \in SUBSET Requests,
           UNCHANGED <<conversation, question>>
    PROVE  TypedInv'
<1>1. reply' \in [Deliveries -> Message] /\ Numbers' = Numbers
  <2>1. \E status \in {"COMPLETED", "FAILED"} : reply' \in {reply, Updated(d, status)}
    OBVIOUS
  <2>2. QED  BY <2>1, UpdateKeepsNumbers DEF TypedInv
<1>2. TypeOK'
  BY <1>1, HandlerKeepsType DEF TypedInv, TypeOK
<1>3. \A e \in Deliveries :
        /\ delivery'[e].number \in {delivery[e].number, 0, NextSequence}
        /\ delivery'[e].step = "QUESTION" =>
             delivery'[e].number = NextSequence \/ delivery'[e] = delivery[e]
  BY DEF Moves, TypedInv, TypeOK
<1>4. NumberInv'
  BY <1>1, <1>3, HandlerKeepsNumbers
<1>5. QED  BY <1>2, <1>4 DEF TypedInv

LEMMA GoingOnMoves ==
    ASSUME TypeOK, NEW d \in Deliveries,
           End(d) \/ \E step \in DeliveryStep \ {"QUESTION"} : GoTo(d, step)
    PROVE  Moves(d)
<1>1. delivery[d] \in Delivery
  BY DEF TypeOK
<1>2. CASE End(d)
  <2>1. 0 \in Sequence
    BY MaxSequenceIsNatural DEF Sequence
  <2>2. Ended(d) \in Delivery /\ Ended(d).number = 0 /\ Ended(d).step = "OVER"
    BY <1>1, <2>1 DEF Ended, Delivery, DeliveryStep, Content
  <2>3. QED  BY <1>2, <2>2 DEF End, Moves
<1>3. CASE \E step \in DeliveryStep \ {"QUESTION"} : GoTo(d, step)
  <2>1. PICK step \in DeliveryStep \ {"QUESTION"} : GoTo(d, step)
    BY <1>3
  <2> DEFINE r == [delivery[d] EXCEPT !.step = step]
  <2>2. r \in Delivery /\ r.number = delivery[d].number /\ delivery' = [delivery EXCEPT ![d] = r]
          /\ r.step # "QUESTION"
    BY <1>1, <2>1 DEF GoTo, Delivery, TypeOK
  <2>3. QED  BY <2>2 DEF Moves
<1>4. QED  BY <1>2, <1>3

LEMMA ArriveKeepsNumbers ==
    ASSUME TypedInv, NEW d \in Deliveries, Arrive(d)
    PROVE  TypedInv'
<1>1. PICK q \in Requests :
        IF conversation = "ACTIVE"
        THEN /\ delivery' = [delivery EXCEPT ![d].step = "FIND", ![d].request = q]
             /\ overlapped' = IF \E e \in Deliveries : Live(e) /\ delivery[e].request = q
                              THEN overlapped \union {q} ELSE overlapped
             /\ UNCHANGED told
        ELSE /\ delivery' = [delivery EXCEPT ![d].step = "OVER", ![d].request = q]
             /\ Tell(d, "REFUSED")
             /\ UNCHANGED overlapped
  BY DEF Arrive
<1>2. delivery[d] \in Delivery
  BY DEF TypedInv, TypeOK
<1>3. ASSUME NEW step \in {"FIND", "OVER"},
             delivery' = [delivery EXCEPT ![d].step = step, ![d].request = q]
      PROVE  Moves(d)
  <2> DEFINE r == [delivery[d] EXCEPT !.step = step, !.request = q]
  <2>1. r \in Delivery /\ r.number = delivery[d].number /\ r.step # "QUESTION"
    BY <1>2 DEF Delivery, DeliveryStep, Preparing
  <2>2. delivery' = [delivery EXCEPT ![d] = r]
    BY <1>3 DEF TypedInv, TypeOK
  <2>3. QED  BY <2>1, <2>2 DEF Moves
<1>4. Moves(d)
  BY <1>1, <1>3
<1>5. /\ told' = told \/ \E event \in Event : Tell(d, event)
      /\ overlapped' \in SUBSET Requests
  BY <1>1 DEF Event, TypedInv, TypeOK
<1>6. UNCHANGED <<conversation, question, reply, spent>>
  BY DEF Arrive
<1>7. QED  BY <1>4, <1>5, <1>6, HandlerKeepsInv

\* A step that touches what a handler may touch, but numbers no message.
Ordinary(d) ==
    /\ End(d) \/ \E step \in DeliveryStep \ {"QUESTION"} : GoTo(d, step)
    /\ told' = told \/ \E event \in Event : Tell(d, event)
    /\ spent' = spent \/ \E kind \in BoundedEvent : Spend(kind)
    /\ reply' = reply \/ \E status \in {"COMPLETED", "FAILED"} : reply' = Updated(d, status)
    /\ UNCHANGED <<conversation, question, overlapped>>

LEMMA OrdinaryKeepsInv ==
    ASSUME TypedInv, NEW d \in Deliveries, Ordinary(d)
    PROVE  TypedInv'
<1>1. Moves(d)
  BY GoingOnMoves DEF TypedInv, Ordinary
<1>2. overlapped' \in SUBSET Requests
  BY DEF Ordinary, TypedInv, TypeOK
<1>3. QED  BY <1>1, <1>2, HandlerKeepsInv DEF Ordinary

\* Every step of a handler but its arrival, its reads and its two inserts.
LEMMA MostStepsAreOrdinary ==
    ASSUME NEW d \in Deliveries,
           \/ FindQuestion(d) \/ Replay(d) \/ ReadHistory(d) \/ PreparationBreaks(d)
           \/ StoreAnswer(d) \/ StoreAnswerFails(d) \/ StoreFailure(d) \/ StoreFailureFails(d)
           \/ Disconnect(d) \/ StoreCancelled(d)
    PROVE  Ordinary(d)
<1> USE DEF Ordinary, Event, DeliveryStep, Preparing, Streaming, BoundedEvent
<1>1. CASE FindQuestion(d)
  BY <1>1 DEF FindQuestion
<1>2. CASE Replay(d)
  <2>1. \A message : Replayed(message) \in Event
    BY DEF Replayed
  <2>2. QED  BY <1>2, <2>1 DEF Replay
<1>3. CASE ReadHistory(d)
  BY <1>3 DEF ReadHistory
<1>4. CASE PreparationBreaks(d)
  BY <1>4 DEF PreparationBreaks
<1>5. CASE StoreAnswer(d)
  BY <1>5 DEF StoreAnswer, Completed
<1>6. CASE StoreAnswerFails(d)
  BY <1>6 DEF StoreAnswerFails, Completed
<1>7. CASE StoreFailure(d)
  BY <1>7 DEF StoreFailure
<1>8. CASE StoreFailureFails(d)
  BY <1>8 DEF StoreFailureFails
<1>9. CASE Disconnect(d)
  <2>1. At(d, "CONTEXT") \/ At(d, "GENERATE") \/ At(d, "STORE") \/ At(d, "FAIL")
    BY <1>9 DEF Disconnect, At
  <2>2. /\ Spend("DISCONNECT") /\ Tell(d, "BROKEN")
        /\ UNCHANGED <<conversation, question, overlapped>>
    BY <1>9 DEF Disconnect
  <2>3. End(d) \/ GoTo(d, "CANCEL")
    BY <1>9, <2>1 DEF Disconnect
  <2>4. reply' = reply \/ \E status \in {"COMPLETED", "FAILED"} : reply' = Updated(d, status)
    BY <1>9, <2>1 DEF Disconnect, Completed
  <2>5. QED  BY <2>2, <2>3, <2>4
<1>10. CASE StoreCancelled(d)
  BY <1>10 DEF StoreCancelled
<1>11. QED
  BY <1>1, <1>2, <1>3, <1>4, <1>5, <1>6, <1>7, <1>8, <1>9, <1>10

\* The steps that read the next number or take in some of the answer.
LEMMA ReadingKeepsNumbers ==
    ASSUME TypedInv, NEW d \in Deliveries,
           ReadNumber(d) \/ BuildContext(d) \/ Delta(d) \/ EndStream(d)
    PROVE  TypedInv'
<1>1. delivery[d] \in Delivery /\ DOMAIN delivery = Deliveries
  BY DEF TypedInv, TypeOK
<1>2. NextSequence \in Sequence
  <2>1. PICK m \in Nat : Numbers = 1 .. m
    BY DEF TypedInv, NumberInv
  <2>2. QED  BY <2>1, NextIsOneMore DEF TypedInv
<1>3. CASE ReadNumber(d)
  <2> DEFINE r == [delivery[d] EXCEPT !.step = "QUESTION", !.number = NextSequence]
  <2>1. r \in Delivery /\ r.number = NextSequence /\ delivery' = [delivery EXCEPT ![d] = r]
    BY <1>1, <1>2, <1>3 DEF ReadNumber, Delivery, DeliveryStep, Preparing
  <2>2. QED  BY <1>3, <2>1, HandlerKeepsInv DEF Moves, ReadNumber, TypedInv, TypeOK
<1>4. ASSUME NEW r \in Delivery, delivery' = [delivery EXCEPT ![d] = r],
             r.number = delivery[d].number, r.step # "QUESTION"
      PROVE  Moves(d)
  BY <1>4 DEF Moves
<1>5. CASE BuildContext(d)
  <2>1. CASE GoTo(d, "FAIL")
    BY <1>5, <2>1, GoingOnMoves, HandlerKeepsInv
    DEF BuildContext, TypedInv, TypeOK, DeliveryStep, Streaming
  <2>2. ASSUME NEW cites \in {"NONE", "LIVE"},
               delivery' = [delivery EXCEPT ![d].step = "GENERATE", ![d].cites = cites]
        PROVE  TypedInv'
    <3> DEFINE r == [delivery[d] EXCEPT !.step = "GENERATE", !.cites = cites]
    <3>1. r \in Delivery /\ r.number = delivery[d].number /\ delivery' = [delivery EXCEPT ![d] = r]
          /\ r.step # "QUESTION"
      BY <1>1, <2>2 DEF Delivery, DeliveryStep, Streaming, Chunks
    <3> HIDE DEF r
    <3>2. QED  BY <1>4, <1>5, <3>1, HandlerKeepsInv DEF BuildContext, TypedInv, TypeOK
  <2>3. QED  BY <1>5, <2>1, <2>2 DEF BuildContext
<1>6. CASE Delta(d)
  <2> DEFINE r == [delivery[d] EXCEPT !.content = "PART"]
  <2>1. r \in Delivery /\ r.number = delivery[d].number /\ delivery' = [delivery EXCEPT ![d] = r]
          /\ r.step # "QUESTION"
    BY <1>1, <1>6 DEF Delta, At, Delivery, Content
  <2> HIDE DEF r
  <2>2. QED  BY <1>4, <1>6, <2>1, HandlerKeepsInv DEF Delta, TypedInv, TypeOK, Event
<1>7. CASE EndStream(d)
  <2>1. CASE GoTo(d, "FAIL")
    BY <1>7, <2>1, GoingOnMoves, HandlerKeepsInv
    DEF EndStream, TypedInv, TypeOK, DeliveryStep, Streaming
  <2>2. ASSUME delivery' = [delivery EXCEPT ![d].step = "STORE", ![d].content = Whole(@)]
        PROVE  TypedInv'
    <3> DEFINE r == [delivery[d] EXCEPT !.step = "STORE", !.content = Whole(delivery[d].content)]
    <3>1. r \in Delivery /\ r.number = delivery[d].number /\ delivery' = [delivery EXCEPT ![d] = r]
          /\ r.step # "QUESTION"
      BY <1>1, <2>2 DEF Delivery, DeliveryStep, Streaming, Content, Whole
    <3> HIDE DEF r
    <3>2. QED  BY <1>4, <1>7, <3>1, HandlerKeepsInv DEF EndStream, TypedInv, TypeOK
  <2>3. QED  BY <1>7, <2>1, <2>2 DEF EndStream
<1>8. QED  BY <1>3, <1>5, <1>6, <1>7

\* The two inserts: a number no message has can only be the next one.
LEMMA InsertKeepsNumbers ==
    ASSUME TypedInv, ChatInv, NEW d \in Deliveries, StoreQuestion(d) \/ StoreReply(d)
    PROVE  TypedInv'
<1>1. PICK m \in Nat :
        /\ Numbers = 1 .. m
        /\ conversation # "DELETED" => \A e \in Deliveries : delivery[e].number <= m + 1
        /\ \A e \in Deliveries : delivery[e].step = "QUESTION" => delivery[e].number # 0
  BY DEF TypedInv, NumberInv
<1>2. m <= MaxSequence /\ MaxSequence \in Nat /\ m + 1 \in Sequence
  BY <1>1, NumbersAreFew, NextIsOneMore, MaxSequenceIsNatural DEF TypedInv
<1>3. delivery[d] \in Delivery /\ delivery[d].number \in Nat
  BY NumberType DEF TypedInv, TypeOK, Delivery
<1>4. ASSUME End(d), Tell(d, "BROKEN"), UNCHANGED <<conversation, question, reply, overlapped, spent>>
      PROVE  TypedInv'
  BY <1>4, GoingOnMoves, HandlerKeepsInv DEF TypedInv, TypeOK, Event
\* What an insert of the next number leaves.
<1>5. ASSUME Numbers' = Numbers \union {m + 1}, conversation # "DELETED", UNCHANGED conversation,
             question' \in [Deliveries -> Message], reply' \in [Deliveries -> Message],
             GoTo(d, "REPLY") \/ GoTo(d, "HISTORY"),
             UNCHANGED <<told, overlapped, spent>>
      PROVE  TypedInv'
  <2>1. Moves(d)
    BY <1>5, GoingOnMoves DEF TypedInv, DeliveryStep, Preparing
  <2>2. TypeOK'
    BY <1>5, <2>1, HandlerKeepsType DEF TypedInv, TypeOK
  <2>3. Numbers' = 1 .. m + 1
    BY <1>1, <1>5
  <2>4. \A e \in Deliveries :
          /\ delivery'[e].number = delivery[e].number
          /\ delivery'[e].step \in {delivery[e].step, "REPLY", "HISTORY"}
    <3>1. PICK step \in {"REPLY", "HISTORY"} : delivery' = [delivery EXCEPT ![d].step = step]
      BY <1>5 DEF GoTo
    <3>2. delivery \in [Deliveries -> Delivery]
      BY DEF TypedInv, TypeOK
    <3>3. QED  BY <3>1, <3>2 DEF Delivery
  <2>5. ASSUME NEW e \in Deliveries PROVE delivery'[e].number <= (m + 1) + 1
    <3>1. delivery[e].number \in Nat /\ delivery[e].number <= m + 1
      BY <1>1, <1>5, NumberType DEF TypedInv, TypeOK, Delivery
    <3>2. QED  BY <2>4, <3>1
  <2>6. NumberInv'
    BY <1>1, <2>3, <2>4, <2>5 DEF NumberInv
  <2>7. QED  BY <2>2, <2>6 DEF TypedInv
<1>6. NoMessage \in Message
  BY <1>2 DEF NoMessage, Message, MessageStatus, Content, Sequence
<1>7. CASE StoreQuestion(d)
  <2>1. At(d, "QUESTION") /\ UNCHANGED <<conversation, reply, overlapped, spent>>
    BY <1>7 DEF StoreQuestion
  <2>2. CASE ~MayInsert(delivery[d].number)
    BY <1>4, <1>7, <2>1, <2>2 DEF StoreQuestion
  <2>3. CASE MayInsert(delivery[d].number)
    <3> DEFINE row == [NoMessage EXCEPT !.status = "COMPLETED", !.content = "FULL",
                                        !.sequence = delivery[d].number]
    <3>1. question' = [question EXCEPT ![d] = row] /\ GoTo(d, "REPLY") /\ UNCHANGED told
      BY <1>7, <2>3 DEF StoreQuestion
    <3>2. conversation # "DELETED" /\ delivery[d].number \notin Numbers
      BY <2>3 DEF MayInsert
    <3>3. delivery[d].number = m + 1
      BY <1>1, <1>3, <2>1, <3>2 DEF At
    <3>4. row \in Message /\ row.sequence = delivery[d].number /\ row.status = "COMPLETED"
      BY <1>3, <1>6 DEF NoMessage, Message, MessageStatus, Content, Delivery
    <3> HIDE DEF row
    <3>5. question' \in [Deliveries -> Message] /\ reply' \in [Deliveries -> Message]
      BY <2>1, <3>1, <3>4 DEF TypedInv, TypeOK
    <3>6. d \notin Stored(question)
      BY <2>1 DEF ChatInv, RowsInv, At, Early
    <3>7. Numbers' = Numbers \union {m + 1}
      BY <2>1, <3>1, <3>2, <3>3, <3>4, <3>6 DEF Numbers, Stored, TypedInv, TypeOK
    <3>8. QED  BY <1>5, <2>1, <3>1, <3>2, <3>3, <3>5, <3>7
  <2>4. QED  BY <2>2, <2>3
<1>8. CASE StoreReply(d)
  <2>1. At(d, "REPLY") /\ UNCHANGED <<conversation, question, overlapped, spent>>
    BY <1>8 DEF StoreReply
  <2>2. CASE ~MayInsert(delivery[d].number + 1)
    BY <1>4, <1>8, <2>1, <2>2 DEF StoreReply
  <2>3. CASE MayInsert(delivery[d].number + 1)
    <3> DEFINE row == [NoMessage EXCEPT !.status = "PENDING",
                                        !.sequence = delivery[d].number + 1]
    <3>1. reply' = [reply EXCEPT ![d] = row] /\ GoTo(d, "HISTORY") /\ UNCHANGED told
      BY <1>8, <2>3 DEF StoreReply
    <3>2. conversation # "DELETED"
      BY <2>3 DEF MayInsert
    <3>3. delivery[d].number \in Numbers
      BY <2>1, <3>2 DEF ChatInv, RowsInv, At, Numbers
    <3>4. delivery[d].number = m
      BY <1>1, <1>3, <2>3, <3>3 DEF MayInsert
    <3>5. row \in Message /\ row.sequence = m + 1 /\ row.status = "PENDING"
      BY <1>2, <1>6, <3>4 DEF NoMessage, Message, MessageStatus, Content
    <3> HIDE DEF row
    <3>6. question' \in [Deliveries -> Message] /\ reply' \in [Deliveries -> Message]
      BY <2>1, <3>1, <3>5 DEF TypedInv, TypeOK
    <3>7. d \notin Stored(reply)
      BY <2>1 DEF ChatInv, RowsInv, At, Early
    <3>8. Numbers' = Numbers \union {m + 1}
      BY <2>1, <3>1, <3>5, <3>7 DEF Numbers, Stored, TypedInv, TypeOK
    <3>9. QED  BY <1>5, <2>1, <3>1, <3>2, <3>6, <3>8
  <2>4. QED  BY <2>2, <2>3
<1>9. QED  BY <1>7, <1>8

LEMMA ConversationKeepsNumbers ==
    ASSUME TypedInv, CreateConversation \/ FinishConversation \/ DeleteConversation
    PROVE  TypedInv'
<1>1. UNCHANGED <<delivery, told, overlapped, spent>>
  BY DEF CreateConversation, FinishConversation, DeleteConversation
<1>2. CASE CreateConversation \/ FinishConversation
  <2>1. /\ UNCHANGED <<question, reply>> /\ conversation # "DELETED"
        /\ conversation' \in {"ACTIVE", "FINISHED"}
    BY <1>2 DEF CreateConversation, FinishConversation
  <2>2. TypeOK'
    BY <1>1, <2>1 DEF TypedInv, TypeOK, ConversationStatus
  <2>3. NumberInv'
    BY <1>1, <2>1 DEF TypedInv, NumberInv, Numbers, Stored
  <2>4. QED  BY <2>2, <2>3 DEF TypedInv
<1>3. CASE DeleteConversation
  <2>1. /\ conversation' = "DELETED"
        /\ question' = [d \in Deliveries |-> NoMessage] /\ reply' = [d \in Deliveries |-> NoMessage]
    BY <1>3 DEF DeleteConversation
  <2>2. NoMessage \in Message /\ NoMessage.status = "NONE"
    BY MaxSequenceIsNatural DEF NoMessage, Message, MessageStatus, Content, Sequence
  <2>3. TypeOK'
    BY <1>1, <2>1, <2>2 DEF TypedInv, TypeOK, ConversationStatus
  <2>4. Numbers' = 1 .. 0
    BY <2>1, <2>2 DEF Numbers, Stored
  <2>5. NumberInv'
    BY <1>1, <2>1, <2>4 DEF TypedInv, NumberInv
  <2>6. QED  BY <2>3, <2>5 DEF TypedInv
<1>4. QED  BY <1>2, <1>3

LEMMA DeletionKeepsNumbers ==
    ASSUME TypedInv, DeleteSources
    PROVE  TypedInv'
<1>1. delivery \in [Deliveries -> Delivery] /\ reply \in [Deliveries -> Message]
  BY DEF TypedInv, TypeOK
<1>2. PICK citing \in SUBSET Deliveries :
        /\ DOMAIN delivery' = Deliveries /\ DOMAIN reply' = Deliveries
        /\ \A d \in citing :
             /\ delivery[d].cites = "LIVE"
             /\ delivery'[d] = [delivery[d] EXCEPT !.cites = "GONE"]
             /\ reply'[d] = [reply[d] EXCEPT !.cited = FALSE]
        /\ \A d \in Deliveries \ citing :
             delivery'[d] = delivery[d] /\ reply'[d] = reply[d]
        /\ UNCHANGED <<conversation, question, told, overlapped, spent>>
  BY <1>1, DeletionChanges
<1>3. ASSUME NEW d \in Deliveries
      PROVE  /\ delivery'[d] \in Delivery /\ reply'[d] \in Message
             /\ delivery'[d].step = delivery[d].step
             /\ delivery'[d].number = delivery[d].number
             /\ reply'[d].status = reply[d].status
             /\ reply'[d].sequence = reply[d].sequence
  <2>1. delivery[d] \in Delivery /\ reply[d] \in Message
    BY <1>1
  <2>2. CASE d \in citing
    BY <1>2, <2>1, <2>2 DEF Delivery, Message, Chunks
  <2>3. CASE d \notin citing
    BY <1>2, <2>1, <2>3
  <2>4. QED  BY <2>2, <2>3
<1>4. delivery' = [d \in Deliveries |-> delivery'[d]] /\ reply' = [d \in Deliveries |-> reply'[d]]
  BY DEF DeleteSources
<1>5. TypeOK'
  BY <1>2, <1>3, <1>4 DEF TypedInv, TypeOK
<1>6. Numbers' = Numbers
  BY <1>2, <1>3 DEF Numbers, Stored
<1>7. NumberInv'
  BY <1>2, <1>3, <1>6 DEF TypedInv, NumberInv
<1>8. QED  BY <1>5, <1>7 DEF TypedInv

LEMMA CrashKeepsNumbers ==
    ASSUME TypedInv, Crash
    PROVE  TypedInv'
<1>1. /\ Spend("CRASH") /\ UNCHANGED <<conversation, question, reply, overlapped>>
      /\ delivery' = [d \in Deliveries |-> IF Live(d) THEN Ended(d) ELSE delivery[d]]
      /\ told' = [d \in Deliveries |-> IF Live(d) THEN "BROKEN" ELSE told[d]]
  BY DEF Crash
<1>2. 0 \in Sequence
  BY MaxSequenceIsNatural DEF Sequence
<1>3. ASSUME NEW d \in Deliveries
      PROVE  /\ Ended(d) \in Delivery /\ Ended(d).number = 0 /\ Ended(d).step = "OVER"
             /\ delivery[d] \in Delivery
  <2>1. delivery[d] \in Delivery
    BY DEF TypedInv, TypeOK
  <2>2. QED  BY <1>2, <2>1 DEF Ended, Delivery, DeliveryStep, Content
<1>4. delivery' \in [Deliveries -> Delivery] /\ told' \in [Deliveries -> Event]
  BY <1>1, <1>3 DEF TypedInv, TypeOK, Event
<1>5. spent' \in [BoundedEvent -> Nat]
  <2>1. spent["CRASH"] + 1 \in Nat /\ spent' = [spent EXCEPT !["CRASH"] = spent["CRASH"] + 1]
    BY <1>1 DEF Spend, TypedInv, TypeOK, BoundedEvent
  <2>2. QED  BY <2>1 DEF TypedInv, TypeOK
<1>6. TypeOK'
  BY <1>1, <1>4, <1>5 DEF TypedInv, TypeOK
<1>7. Numbers' = Numbers
  BY <1>1 DEF Numbers, Stored
<1>8. \A d \in Deliveries :
        /\ delivery'[d].number \in {delivery[d].number, 0, NextSequence}
        /\ delivery'[d].step = "QUESTION" =>
             delivery'[d].number = NextSequence \/ delivery'[d] = delivery[d]
  BY <1>1, <1>3
<1>9. NumberInv'
  BY <1>1, <1>7, <1>8, HandlerKeepsNumbers
<1>10. QED  BY <1>6, <1>9 DEF TypedInv

-----------------------------------------------------------------------------
(* Theorems about types and numbers.                                       *)

\* Every variable has its type, and the messages are numbered without a gap.
THEOREM TypedInvariant == Spec => []TypedInv
<1>1. Init => TypedInv
  <2> SUFFICES ASSUME Init PROVE TypedInv
    OBVIOUS
  <2>1. NoMessage \in Message /\ NoMessage.status = "NONE"
        /\ NoDelivery \in Delivery /\ NoDelivery.number = 0 /\ NoDelivery.step = "IDLE"
    BY MaxSequenceIsNatural
    DEF NoMessage, Message, MessageStatus, Content, Sequence, NoDelivery, Delivery, DeliveryStep,
        Chunks
  <2>2. TypeOK
    BY <2>1 DEF Init, TypeOK, ConversationStatus, Event
  <2>3. Numbers = 1 .. 0
    BY <2>1 DEF Init, Numbers, Stored
  <2>4. NumberInv
    BY <2>1, <2>3 DEF Init, NumberInv
  <2>5. QED  BY <2>2, <2>4 DEF TypedInv
<1>2. TypedInv /\ ChatInv /\ [Next]_vars => TypedInv'
  <2> SUFFICES ASSUME TypedInv, ChatInv, [Next]_vars PROVE TypedInv'
    OBVIOUS
  <2>1. ASSUME NEW d \in Deliveries, Arrive(d) PROVE TypedInv'
    BY <2>1, ArriveKeepsNumbers
  <2>2. ASSUME NEW d \in Deliveries, Handle(d) PROVE TypedInv'
    <3>1. CASE ReadNumber(d) \/ BuildContext(d) \/ Delta(d) \/ EndStream(d)
      BY <3>1, ReadingKeepsNumbers
    <3>2. CASE StoreQuestion(d) \/ StoreReply(d)
      BY <3>2, InsertKeepsNumbers
    <3>3. CASE \/ FindQuestion(d) \/ Replay(d) \/ ReadHistory(d)
               \/ StoreAnswer(d) \/ StoreFailure(d) \/ StoreCancelled(d)
      BY <3>3, MostStepsAreOrdinary, OrdinaryKeepsInv
    <3>4. QED  BY <2>2, <3>1, <3>2, <3>3 DEF Handle
  <2>3. ASSUME NEW d \in Deliveries, Faults(d) PROVE TypedInv'
    BY <2>3, MostStepsAreOrdinary, OrdinaryKeepsInv DEF Faults
  <2>4. CASE CreateConversation \/ FinishConversation \/ DeleteConversation
    BY <2>4, ConversationKeepsNumbers
  <2>5. CASE Crash
    BY <2>5, CrashKeepsNumbers
  <2>6. CASE UNCHANGED vars
    BY <2>6 DEF vars, TypedInv, TypeOK, NumberInv, Numbers, Stored
  <2>7. CASE DeleteSources
    BY <2>7, DeletionKeepsNumbers
  <2>8. QED  BY <2>1, <2>2, <2>3, <2>4, <2>5, <2>6, <2>7 DEF Next
<1>3. QED  BY <1>1, <1>2, ChatInvariant, PTL DEF Spec

\* Every variable keeps its type; the sequence numbers, each the highest one plus
\* one or that plus one, stay within two for each delivery.
THEOREM ChatTypeCorrect == Spec => []TypeOK
  BY TypedInvariant, PTL DEF TypedInv

\* The messages of a conversation are numbered from 1 without a gap: neither a
\* refused insert nor a number read long before it leaves one.
THEOREM NumbersHaveNoGap == Spec => [](\E m \in 0 .. MaxSequence : Numbers = 1 .. m)
<1>1. TypedInv => \E m \in 0 .. MaxSequence : Numbers = 1 .. m
  <2> SUFFICES ASSUME TypedInv PROVE \E m \in 0 .. MaxSequence : Numbers = 1 .. m
    OBVIOUS
  <2>1. PICK m \in Nat : Numbers = 1 .. m
    BY DEF TypedInv, NumberInv
  <2>2. m \in 0 .. MaxSequence
    BY <2>1, NumbersAreFew, MaxSequenceIsNatural DEF TypedInv
  <2>3. QED  BY <2>1, <2>2
<1>2. QED  BY <1>1, TypedInvariant, PTL

=============================================================================
