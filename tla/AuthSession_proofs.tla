------------------------- MODULE AuthSession_proofs -------------------------
(***************************************************************************)
(* Theorems about AuthSession for any number of tabs, calls and faults.    *)
(* SessionInv is the inductive invariant: it says which call issued a      *)
(* token, which call used it up, and that a tab only uses tokens whose     *)
(* answer it has handled.                                                  *)
(***************************************************************************)
EXTENDS AuthSession, FiniteSetTheorems, TLAPS

-----------------------------------------------------------------------------
(* The invariant.                                                          *)

Issued == DOMAIN login

\* A token is issued by a call that is answered or failed after it.
IssuedInv ==
    /\ \A t \in Issued : /\ t \in DOMAIN calls
                         /\ calls[t].server \in {"OK", "ERROR"}
                         /\ calls[t].kind # "LOGOUT"
                         /\ login[t] \in Issued
    /\ \A c \in DOMAIN calls :
        calls[c].server = "OK" /\ calls[c].kind # "LOGOUT" => c \in Issued

\* A refresh and a logout send a token, and only a refresh consumes it.
CallsInv ==
    \A c \in DOMAIN calls :
        /\ IF calls[c].kind = "LOGIN" THEN calls[c].token = NoToken
                                      ELSE calls[c].token \in Issued
        /\ calls[c].server = "CONSUMED" => calls[c].kind = "REFRESH"
        /\ calls[c].server \in {"SENT", "CONSUMED"} => calls[c].client # "HANDLED"

\* The parts of OneLiveTokenPerLogin.
LiveInv ==
    /\ \A t, u \in active : login[t] = login[u] => t = u
    /\ \A c, d \in DOMAIN calls :
        /\ calls[c].server = "CONSUMED" /\ calls[d].server = "CONSUMED"
        /\ login[calls[c].token] = login[calls[d].token]
        => c = d
    /\ \A c \in DOMAIN calls, t \in active :
        calls[c].server = "CONSUMED" => login[calls[c].token] # login[t]

\* A token that left Redis before its time was used up by a call.
SpentInv ==
    \A t \in Issued \ (active \union expired) :
        \E c \in DOMAIN calls : calls[c].token = t /\ calls[c].server # "SENT"

\* The tabs send and store tokens whose answer one of them has handled.
HandledInv ==
    /\ \A c \in DOMAIN calls :
        calls[c].kind # "LOGIN" => calls[calls[c].token].client = "HANDLED"
    /\ storage # NoToken => calls[storage].client = "HANDLED"

SessionInv ==
    /\ TypeOK
    /\ IssuedInv
    /\ CallsInv
    /\ LiveInv
    /\ SpentInv
    /\ HandledInv
    /\ RefusalHasCause
    /\ StoredTokenWorks

-----------------------------------------------------------------------------
(* Steps.                                                                  *)

LEMMA TokensAreCalls ==
    ASSUME SessionInv
    PROVE  /\ NoToken \notin Issued
           /\ Issued \in SUBSET Token
           /\ active \in SUBSET Issued /\ expired \in SUBSET Issued
           /\ DOMAIN calls \in SUBSET Token
           /\ \A c \in DOMAIN calls : calls[c] \in Call
           /\ Issued \in SUBSET DOMAIN calls
           /\ storage # NoToken => storage \in Issued
  <1>1. calls \in Seq(Call) /\ Len(calls) <= MaxCalls /\ Len(calls) \in Nat
    BY DEF SessionInv, TypeOK
  <1>2. DOMAIN calls \in SUBSET Token /\ \A c \in DOMAIN calls : calls[c] \in Call
    BY <1>1, SessionAssumption DEF Token
  <1>3. QED  BY <1>2 DEF SessionInv, TypeOK, IssuedInv, Issued, Token, NoToken

\* One call changes its step on the server and nothing else.
LEMMA AnswerUpdates ==
    ASSUME SessionInv, NEW c \in DOMAIN calls, NEW s \in ServerStep, Answer(c, s)
    PROVE  /\ calls' \in Seq(Call) /\ Len(calls') = Len(calls)
           /\ DOMAIN calls' = DOMAIN calls
           /\ \A d \in DOMAIN calls : /\ calls'[d].kind = calls[d].kind
                                      /\ calls'[d].token = calls[d].token
                                      /\ calls'[d].client = calls[d].client
                                      /\ calls'[d].server = IF d = c THEN s ELSE calls[d].server
  <1>1. calls \in Seq(Call) /\ \A d \in DOMAIN calls : calls[d] \in Call
    BY TokensAreCalls DEF SessionInv, TypeOK
  <1> DEFINE r == [calls[c] EXCEPT !.server = s]
  <1>2. r \in Call /\ calls' = [calls EXCEPT ![c] = r]
    BY <1>1 DEF Answer, Call
  <1>3. /\ r.kind = calls[c].kind /\ r.token = calls[c].token
        /\ r.client = calls[c].client /\ r.server = s
    BY <1>1 DEF Call
  <1> HIDE DEF r
  <1>4. calls' \in Seq(Call) /\ Len(calls') = Len(calls) /\ DOMAIN calls' = DOMAIN calls
    BY <1>1, <1>2
  <1>5. \A d \in DOMAIN calls : calls'[d] = IF d = c THEN r ELSE calls[d]
    BY <1>1, <1>2
  <1>6. QED  BY <1>3, <1>4, <1>5

\* A token which a call whose answer nobody has handled may have issued is
\* still in Redis, or expired there.
LEMMA UnhandledIsUnspent ==
    ASSUME SessionInv, NEW t \in Issued, calls[t].client # "HANDLED"
    PROVE  t \in active \union expired
  <1> SUFFICES ASSUME t \notin active \union expired PROVE FALSE
    OBVIOUS
  <1>1. PICK c \in DOMAIN calls : calls[c].token = t
    BY DEF SessionInv, SpentInv
  <1>2. calls[c].kind # "LOGIN"
    BY <1>1, TokensAreCalls DEF SessionInv, CallsInv
  <1>3. QED  BY <1>1, <1>2 DEF SessionInv, HandledInv

\* What a step that takes a call's answer or token has to show of the typing.
LEMMA AnswerKeepsTypes ==
    ASSUME SessionInv, NEW c \in DOMAIN calls, NEW s \in ServerStep, Answer(c, s),
           DOMAIN login' \in SUBSET Token, login' \in [DOMAIN login' -> Token],
           Issued \in SUBSET Issued',
           active' \in SUBSET Issued', expired' \in SUBSET Issued',
           UNCHANGED <<enabled, storage>>, faults' \in 0 .. MaxFaults
    PROVE  TypeOK'
  <1>1. calls' \in Seq(Call) /\ Len(calls') <= MaxCalls
    BY AnswerUpdates DEF SessionInv, TypeOK
  <1>2. QED  BY <1>1 DEF SessionInv, TypeOK, Issued

\* An answer that leaves the tokens as they are.
LEMMA AnswerKeepsInvariant ==
    ASSUME SessionInv, NEW c \in DOMAIN calls, NEW s \in {"REFUSED", "ERROR"},
           calls[c].server \in {"SENT", "CONSUMED"}, Answer(c, s),
           s = "REFUSED" => calls[c].kind = "LOGIN" \/ ~enabled,
           UNCHANGED <<active, expired, login, enabled, storage>>, faults' \in 0 .. MaxFaults
    PROVE  SessionInv'
  <1> USE DEF SessionInv
  <1>1. s \in ServerStep
    BY DEF ServerStep
  <1>2. /\ DOMAIN calls' = DOMAIN calls
        /\ \A d \in DOMAIN calls : /\ calls'[d].kind = calls[d].kind
                                   /\ calls'[d].token = calls[d].token
                                   /\ calls'[d].client = calls[d].client
                                   /\ calls'[d].server = IF d = c THEN s ELSE calls[d].server
    BY <1>1, AnswerUpdates
  <1>3. TypeOK'
    BY <1>1, AnswerKeepsTypes DEF TypeOK, Issued
  <1>4. IssuedInv'
    BY <1>2 DEF IssuedInv, Issued
  <1>5. CallsInv'
    BY <1>2 DEF CallsInv, Issued
  <1>6. LiveInv'
    BY <1>2 DEF LiveInv
  <1>7. SpentInv'
    BY <1>2 DEF SpentInv, Issued
  <1>8. HandledInv'
    BY <1>2, TokensAreCalls DEF HandledInv, CallsInv
  <1>9. RefusalHasCause'
    BY <1>2 DEF RefusalHasCause
  <1>10. StoredTokenWorks'
    BY <1>2 DEF StoredTokenWorks
  <1>11. QED  BY <1>3, <1>4, <1>5, <1>6, <1>7, <1>8, <1>9, <1>10

\* A refresh or a logout takes its token out of Redis.
LEMMA SpendKeepsInvariant ==
    ASSUME SessionInv, NEW c \in DOMAIN calls, NEW s \in ServerStep \ {"SENT"},
           calls[c].kind # "LOGIN", calls[c].server = "SENT", Answer(c, s),
           active' = active \ {calls[c].token},
           s = "CONSUMED" => calls[c].kind = "REFRESH" /\ calls[c].token \in active,
           s = "REFUSED" => calls[c].token \notin active,
           s = "OK" => calls[c].kind = "LOGOUT",
           UNCHANGED <<expired, login, enabled, storage>>, faults' \in 0 .. MaxFaults
    PROVE  SessionInv'
  <1> USE DEF SessionInv
  <1>1. s \in ServerStep
    OBVIOUS
  <1>2. /\ DOMAIN calls' = DOMAIN calls
        /\ \A d \in DOMAIN calls : /\ calls'[d].kind = calls[d].kind
                                   /\ calls'[d].token = calls[d].token
                                   /\ calls'[d].client = calls[d].client
                                   /\ calls'[d].server = IF d = c THEN s ELSE calls[d].server
    BY <1>1, AnswerUpdates
  <1>3. TypeOK'
    BY <1>1, AnswerKeepsTypes DEF TypeOK, Issued
  <1>4. IssuedInv'
    BY <1>2 DEF IssuedInv, Issued
  <1>5. CallsInv' /\ calls[c].token \in Issued
    BY <1>2 DEF CallsInv, Issued
  <1>6. LiveInv'
    BY <1>2 DEF LiveInv
  <1>7. SpentInv'
    BY <1>2 DEF SpentInv, Issued
  <1>8. HandledInv'
    BY <1>2, TokensAreCalls DEF HandledInv, CallsInv
  <1>9. RefusalHasCause'
    <2>1. ASSUME s = "REFUSED", calls[c].token \notin expired
          PROVE  \E other \in DOMAIN calls \ {c} : calls[other].token = calls[c].token
      BY <1>5, <2>1 DEF SpentInv
    <2>2. QED  BY <1>2, <2>1 DEF RefusalHasCause
  <1>10. StoredTokenWorks'
    BY <1>2 DEF StoredTokenWorks, CallsInv
  <1>11. QED  BY <1>3, <1>4, <1>5, <1>6, <1>7, <1>8, <1>9, <1>10

\* A login, or a refresh that has consumed its token, issues a new one.
LEMMA IssueKeepsInvariant ==
    ASSUME SessionInv, NEW c \in DOMAIN calls, NEW s \in {"OK", "ERROR"},
           \/ calls[c].kind = "LOGIN" /\ calls[c].server = "SENT"
           \/ calls[c].server = "CONSUMED",
           Issue(c), Answer(c, s),
           UNCHANGED <<expired, enabled, storage>>, faults' \in 0 .. MaxFaults
    PROVE  SessionInv'
  <1> USE DEF SessionInv
  <1>1. s \in ServerStep
    BY DEF ServerStep
  <1>2. /\ DOMAIN calls' = DOMAIN calls
        /\ \A d \in DOMAIN calls : /\ calls'[d].kind = calls[d].kind
                                   /\ calls'[d].token = calls[d].token
                                   /\ calls'[d].client = calls[d].client
                                   /\ calls'[d].server = IF d = c THEN s ELSE calls[d].server
    BY <1>1, AnswerUpdates
  <1>3. c \notin Issued /\ calls[c].kind # "LOGOUT"
    BY DEF IssuedInv, CallsInv
  <1>4. /\ LoginOf(c) \in Issued \union {c}
        /\ LoginOf(c) = c <=> calls[c].kind = "LOGIN"
    BY <1>3 DEF LoginOf, CallsInv, IssuedInv, Issued
  <1>5. /\ Issued' = Issued \union {c}
        /\ login' \in [Issued' -> Issued']
        /\ login'[c] = LoginOf(c)
        /\ \A t \in Issued : login'[t] = login[t]
        /\ active' = active \union {c}
    BY <1>3, <1>4 DEF Issue, Registered, Issued, IssuedInv
  <1>6. Issued \union {c} \in SUBSET Token
    BY TokensAreCalls
  <1>7. TypeOK'
    <2>1. login' \in [DOMAIN login' -> Token]
      BY <1>5, <1>6 DEF Issued
    <2>2. active' \in SUBSET Issued' /\ expired' \in SUBSET Issued'
      BY <1>5, TokensAreCalls
    <2>3. QED  BY <1>1, <1>5, <1>6, <2>1, <2>2, AnswerKeepsTypes DEF Issued
  <1>8. IssuedInv'
    BY <1>2, <1>3, <1>4, <1>5 DEF IssuedInv
  <1>9. CallsInv'
    BY <1>2, <1>5 DEF CallsInv
  <1>10. LiveInv'
    <2>1. ASSUME NEW t \in active PROVE login'[t] # login'[c]
      <3>1. t \in Issued /\ login'[t] = login[t] /\ login[t] # c
        BY <1>3, <1>5, TokensAreCalls DEF IssuedInv
      <3>2. CASE calls[c].kind = "LOGIN"
        BY <1>4, <1>5, <3>1, <3>2
      <3>3. CASE calls[c].kind # "LOGIN"
        BY <1>5, <3>1, <3>3 DEF LoginOf, LiveInv
      <3>4. QED  BY <3>2, <3>3
    <2>2. ASSUME NEW d \in DOMAIN calls', calls'[d].server = "CONSUMED"
          PROVE  /\ calls[d].server = "CONSUMED" /\ d # c /\ calls[d].token \in Issued
                 /\ calls'[d].token = calls[d].token
                 /\ login'[calls[d].token] = login[calls[d].token]
                 /\ login[calls[d].token] # login'[c]
      <3>1. d \in DOMAIN calls /\ calls[d].server = "CONSUMED" /\ d # c
        BY <1>2, <2>2
      <3>2. calls[d].token \in Issued /\ login[calls[d].token] # c
        BY <1>3, <3>1 DEF CallsInv, IssuedInv
      <3>3. login[calls[d].token] # LoginOf(c)
        <4>1. CASE calls[c].kind = "LOGIN"
          BY <3>2, <4>1 DEF LoginOf
        <4>2. CASE calls[c].kind # "LOGIN"
          BY <3>1, <4>2 DEF LoginOf, LiveInv
        <4>3. QED  BY <4>1, <4>2
      <3>4. QED  BY <1>2, <1>5, <3>1, <3>2, <3>3
    <2>3. \A t \in active : t \in Issued /\ login'[t] = login[t]
      BY <1>5, TokensAreCalls
    <2>4. \A t, u \in active' : login'[t] = login'[u] => t = u
      BY <1>5, <2>1, <2>3 DEF LiveInv
    <2>5. \A d, e \in DOMAIN calls' :
            /\ calls'[d].server = "CONSUMED" /\ calls'[e].server = "CONSUMED"
            /\ login'[calls'[d].token] = login'[calls'[e].token]
            => d = e
      BY <1>2, <2>2 DEF LiveInv
    <2>6. \A d \in DOMAIN calls', t \in active' :
            calls'[d].server = "CONSUMED" => login'[calls'[d].token] # login'[t]
      BY <1>2, <1>5, <2>2, <2>3 DEF LiveInv
    <2>7. QED  BY <2>4, <2>5, <2>6 DEF LiveInv
  <1>11. SpentInv'
    BY <1>2, <1>5 DEF SpentInv
  <1>12. HandledInv'
    BY <1>2, TokensAreCalls DEF HandledInv, CallsInv
  <1>13. RefusalHasCause'
    BY <1>2 DEF RefusalHasCause
  <1>14. StoredTokenWorks'
    BY <1>2, <1>5 DEF StoredTokenWorks
  <1>15. QED  BY <1>7, <1>8, <1>9, <1>10, <1>11, <1>12, <1>13, <1>14

\* A request is sent with the stored token, or with none.
LEMMA SendKeepsInvariant ==
    ASSUME SessionInv, NEW kind \in CallKind, NEW tab \in Tabs, NEW token,
           IF kind = "LOGIN" THEN token = NoToken ELSE token = storage /\ storage # NoToken,
           Send(kind, tab, token)
    PROVE  SessionInv'
  <1> USE DEF SessionInv
  <1> DEFINE n == Len(calls) + 1
             r == [kind |-> kind, tab |-> tab, token |-> token,
                   server |-> "SENT", client |-> "WAITING"]
  <1>1. calls \in Seq(Call) /\ Len(calls) \in Nat /\ Len(calls) < MaxCalls
        /\ calls' = Append(calls, r)
        /\ UNCHANGED <<active, expired, login, enabled, storage, faults>>
    BY DEF Send, TypeOK
  <1>2. r \in Call
    <2>1. token \in Token \union {NoToken}
      BY TokensAreCalls
    <2>2. QED  BY <2>1 DEF Call, ServerStep, ClientStep
  <1>3. /\ r.kind = kind /\ r.token = token /\ r.server = "SENT" /\ r.client = "WAITING"
    OBVIOUS
  <1> HIDE DEF r
  <1>4. /\ calls' \in Seq(Call) /\ Len(calls') <= MaxCalls
        /\ DOMAIN calls' = DOMAIN calls \union {n} /\ n \notin DOMAIN calls
        /\ \A d \in DOMAIN calls : calls'[d] = calls[d]
        /\ calls'[n] = r
    BY <1>1, <1>2, SessionAssumption
  <1> HIDE DEF n
  <1>5. TypeOK'
    BY <1>1, <1>4 DEF TypeOK
  <1>6. IssuedInv'
    BY <1>1, <1>3, <1>4 DEF IssuedInv, Issued
  <1>7. CallsInv'
    BY <1>1, <1>3, <1>4, TokensAreCalls DEF CallsInv, Issued
  <1>8. LiveInv'
    BY <1>1, <1>3, <1>4 DEF LiveInv
  <1>9. SpentInv'
    BY <1>1, <1>4 DEF SpentInv, Issued
  <1>10. HandledInv'
    BY <1>1, <1>3, <1>4, TokensAreCalls DEF HandledInv, CallsInv
  <1>11. RefusalHasCause'
    BY <1>1, <1>3, <1>4 DEF RefusalHasCause
  <1>12. StoredTokenWorks'
    BY <1>1, <1>4 DEF StoredTokenWorks
  <1>13. QED  BY <1>5, <1>6, <1>7, <1>8, <1>9, <1>10, <1>11, <1>12

\* What the tabs do with an answer, or without one, changes no token.
LEMMA ClientStepKeeps ==
    ASSUME SessionInv, calls' \in Seq(Call), Len(calls') = Len(calls),
           DOMAIN calls' = DOMAIN calls,
           \A d \in DOMAIN calls :
               /\ calls'[d].kind = calls[d].kind
               /\ calls'[d].token = calls[d].token
               /\ calls'[d].server = calls[d].server
               /\ calls[d].client = "HANDLED" => calls'[d].client = "HANDLED"
               /\ calls'[d].client = "HANDLED" /\ calls[d].client # "HANDLED" =>
                    calls[d].server \notin {"SENT", "CONSUMED"},
           UNCHANGED <<active, expired, login, enabled>>,
           storage' \in Issued \union {NoToken}, faults' \in 0 .. MaxFaults,
           storage' # NoToken => calls'[storage'].client = "HANDLED",
           StoredTokenWorks'
    PROVE  SessionInv'
  <1> USE DEF SessionInv
  <1>1. TypeOK'
    BY DEF TypeOK, Issued
  <1>2. IssuedInv'
    BY DEF IssuedInv, Issued
  <1>3. CallsInv'
    BY DEF CallsInv, Issued
  <1>4. LiveInv' /\ SpentInv'
    BY DEF LiveInv, SpentInv, Issued
  <1>5. HandledInv'
    BY TokensAreCalls DEF HandledInv, CallsInv
  <1>6. RefusalHasCause'
    BY DEF RefusalHasCause
  <1>7. QED  BY <1>1, <1>2, <1>3, <1>4, <1>5, <1>6

LEMMA ClientUpdates ==
    ASSUME SessionInv, NEW c \in DOMAIN calls, NEW s \in ClientStep,
           calls' = [calls EXCEPT ![c].client = s]
    PROVE  /\ calls' \in Seq(Call) /\ Len(calls') = Len(calls)
           /\ DOMAIN calls' = DOMAIN calls
           /\ \A d \in DOMAIN calls : /\ calls'[d].kind = calls[d].kind
                                      /\ calls'[d].token = calls[d].token
                                      /\ calls'[d].server = calls[d].server
                                      /\ calls'[d].client = IF d = c THEN s ELSE calls[d].client
  <1>1. calls \in Seq(Call) /\ \A d \in DOMAIN calls : calls[d] \in Call
    BY TokensAreCalls DEF SessionInv, TypeOK
  <1> DEFINE r == [calls[c] EXCEPT !.client = s]
  <1>2. r \in Call /\ calls' = [calls EXCEPT ![c] = r]
    BY <1>1 DEF Call
  <1>3. /\ r.kind = calls[c].kind /\ r.token = calls[c].token
        /\ r.client = s /\ r.server = calls[c].server
    BY <1>1 DEF Call
  <1> HIDE DEF r
  <1>4. calls' \in Seq(Call) /\ Len(calls') = Len(calls) /\ DOMAIN calls' = DOMAIN calls
    BY <1>1, <1>2
  <1>5. \A d \in DOMAIN calls : calls'[d] = IF d = c THEN r ELSE calls[d]
    BY <1>1, <1>2
  <1>6. QED  BY <1>3, <1>4, <1>5

LEMMA ReceiveKeepsInvariant ==
    ASSUME SessionInv, NEW c \in DOMAIN calls, Receive(c)
    PROVE  SessionInv'
  <1> USE DEF SessionInv
  <1>1. /\ calls[c].client = "WAITING" /\ calls[c].server \in {"OK", "REFUSED", "ERROR"}
        /\ storage' = StorageAfter(c, calls[c].server)
        /\ calls' = [calls EXCEPT ![c].client = "HANDLED"]
        /\ UNCHANGED <<active, expired, login, enabled, faults>>
    BY DEF Receive
  <1>2. /\ calls' \in Seq(Call) /\ Len(calls') = Len(calls)
        /\ DOMAIN calls' = DOMAIN calls
        /\ \A d \in DOMAIN calls :
            /\ calls'[d].kind = calls[d].kind
            /\ calls'[d].token = calls[d].token
            /\ calls'[d].server = calls[d].server
            /\ calls'[d].client = IF d = c THEN "HANDLED" ELSE calls[d].client
    BY <1>1, ClientUpdates DEF ClientStep
  <1>3. \/ storage' = c /\ c \in Issued /\ c \in active \union expired
        \/ storage' = storage /\ calls[c].kind = "LOGIN"
        \/ storage' = NoToken
    BY <1>1, UnhandledIsUnspent DEF StorageAfter, IssuedInv
  <1>4. StoredTokenWorks'
    BY <1>1, <1>2, <1>3 DEF StoredTokenWorks, CallsInv
  <1>5. storage' \in Issued \union {NoToken} /\ faults' \in 0 .. MaxFaults
    BY <1>1, <1>3 DEF TypeOK, Issued
  <1>6. storage' # NoToken => calls'[storage'].client = "HANDLED"
    BY <1>2, <1>3, TokensAreCalls DEF HandledInv
  <1>7. QED  BY <1>1, <1>2, <1>4, <1>5, <1>6, ClientStepKeeps

LEMMA FaultIsBounded ==
    ASSUME SessionInv, Fault
    PROVE  faults' \in 0 .. MaxFaults
  BY SessionAssumption DEF SessionInv, TypeOK, Fault

LEMMA GiveUpKeepsInvariant ==
    ASSUME SessionInv, NEW c \in DOMAIN calls, GiveUp(c)
    PROVE  SessionInv'
  <1> USE DEF SessionInv
  <1>1. /\ calls[c].client = "WAITING"
        /\ storage' \in {storage, NoToken}
        /\ calls' = [calls EXCEPT ![c].client = "GONE"]
        /\ UNCHANGED <<active, expired, login, enabled>>
    BY DEF GiveUp, StorageAfter
  <1>2. /\ calls' \in Seq(Call) /\ Len(calls') = Len(calls)
        /\ DOMAIN calls' = DOMAIN calls
        /\ \A d \in DOMAIN calls :
            /\ calls'[d].kind = calls[d].kind
            /\ calls'[d].token = calls[d].token
            /\ calls'[d].server = calls[d].server
            /\ calls'[d].client = IF d = c THEN "GONE" ELSE calls[d].client
    BY <1>1, ClientUpdates DEF ClientStep
  <1>3. StoredTokenWorks'
    BY <1>1, <1>2 DEF StoredTokenWorks
  <1>4. storage' \in Issued \union {NoToken}
    BY <1>1 DEF TypeOK, Issued
  <1>5. storage' # NoToken => calls'[storage'].client = "HANDLED"
    BY <1>1, <1>2, TokensAreCalls DEF HandledInv
  <1>6. faults' \in 0 .. MaxFaults
    BY FaultIsBounded DEF GiveUp
  <1>7. QED  BY <1>1, <1>2, <1>3, <1>4, <1>5, <1>6, ClientStepKeeps

LEMMA ReloadKeepsInvariant ==
    ASSUME SessionInv, NEW tab \in Tabs, Reload(tab)
    PROVE  SessionInv'
  <1> USE DEF SessionInv
  <1> DEFINE Gone(c) == [calls[c] EXCEPT !.client = "GONE"]
             Left(c) == calls[c].tab = tab /\ calls[c].client = "WAITING"
  <1>1. /\ calls' = [c \in DOMAIN calls |-> IF Left(c) THEN Gone(c) ELSE calls[c]]
        /\ UNCHANGED <<active, expired, login, enabled, storage>>
    BY DEF Reload
  <1>2. calls \in Seq(Call) /\ \A d \in DOMAIN calls : calls[d] \in Call
    BY TokensAreCalls DEF TypeOK
  <1>3. \A d \in DOMAIN calls : /\ Gone(d) \in Call
                                /\ Gone(d).kind = calls[d].kind
                                /\ Gone(d).token = calls[d].token
                                /\ Gone(d).server = calls[d].server
                                /\ Gone(d).client = "GONE"
    BY <1>2 DEF Call, ClientStep
  <1> HIDE DEF Gone
  <1>4. DOMAIN calls = 1 .. Len(calls) /\ Len(calls) \in Nat
    BY <1>2
  <1>5. \A d \in 1 .. Len(calls) : (IF Left(d) THEN Gone(d) ELSE calls[d]) \in Call
    BY <1>2, <1>3, <1>4
  <1>6. calls' \in Seq(Call) /\ Len(calls') = Len(calls) /\ DOMAIN calls' = DOMAIN calls
    BY <1>1, <1>4, <1>5
  <1>7. \A d \in DOMAIN calls :
            /\ calls'[d].kind = calls[d].kind
            /\ calls'[d].token = calls[d].token
            /\ calls'[d].server = calls[d].server
            /\ calls[d].client = "HANDLED" => calls'[d].client = "HANDLED"
            /\ calls[d].client # "HANDLED" => calls'[d].client # "HANDLED"
    BY <1>1, <1>3
  <1>8. StoredTokenWorks'
    BY <1>1, <1>6, <1>7 DEF StoredTokenWorks
  <1>9. storage' \in Issued \union {NoToken}
    BY <1>1 DEF TypeOK, Issued
  <1>10. storage' # NoToken => calls'[storage'].client = "HANDLED"
    BY <1>1, <1>7, TokensAreCalls DEF HandledInv
  <1>11. faults' \in 0 .. MaxFaults
    BY FaultIsBounded DEF Reload
  <1>12. QED  BY <1>1, <1>6, <1>7, <1>8, <1>9, <1>10, <1>11, ClientStepKeeps

LEMMA EnvironmentKeepsInvariant ==
    ASSUME SessionInv, (\E t \in active : Expire(t)) \/ DisableUser
    PROVE  SessionInv'
  <1> USE DEF SessionInv
  <1>1. /\ active' \in SUBSET active /\ expired \in SUBSET expired'
        /\ active \union expired = active' \union expired'
        /\ enabled' \in {enabled, FALSE}
        /\ faults' \in 0 .. MaxFaults
        /\ UNCHANGED <<login, storage, calls>>
    BY FaultIsBounded DEF Expire, DisableUser
  <1>2. TypeOK'
    BY <1>1 DEF TypeOK
  <1>3. IssuedInv' /\ CallsInv'
    BY <1>1 DEF IssuedInv, CallsInv, Issued
  <1>4. LiveInv'
    BY <1>1 DEF LiveInv
  <1>5. SpentInv' /\ HandledInv'
    BY <1>1 DEF SpentInv, HandledInv, Issued
  <1>6. RefusalHasCause'
    BY <1>1 DEF RefusalHasCause
  <1>7. StoredTokenWorks'
    BY <1>1 DEF StoredTokenWorks
  <1>8. QED  BY <1>2, <1>3, <1>4, <1>5, <1>6, <1>7

-----------------------------------------------------------------------------
(* The handlers, by what they do with a token.                             *)

LEMMA HandlerKeepsInvariant ==
    ASSUME SessionInv, NEW c \in DOMAIN calls,
           HandleLogin(c) \/ Consume(c) \/ Rotate(c) \/ HandleLogout(c)
    PROVE  SessionInv'
  <1>1. faults' = faults => faults' \in 0 .. MaxFaults
    BY DEF SessionInv, TypeOK
  <1>2. CASE HandleLogin(c)
    <2>1. CASE Issue(c) /\ Answer(c, "OK")
      BY <1>1, <1>2, <2>1, IssueKeepsInvariant DEF HandleLogin
    <2>2. CASE Answer(c, "REFUSED") /\ UNCHANGED <<login, active>>
      BY <1>1, <1>2, <2>2, AnswerKeepsInvariant DEF HandleLogin
    <2>3. QED  BY <1>2, <2>1, <2>2 DEF HandleLogin
  <1>3. CASE Consume(c)
    <2>1. CASE calls[c].token \in active
      BY <1>1, <1>3, <2>1, SpendKeepsInvariant DEF Consume, ServerStep
    <2>2. CASE calls[c].token \notin active
      BY <1>1, <1>3, <2>2, SpendKeepsInvariant DEF Consume, ServerStep
    <2>3. QED  BY <2>1, <2>2
  <1>4. CASE Rotate(c)
    <2>1. CASE enabled
      BY <1>1, <1>4, <2>1, IssueKeepsInvariant DEF Rotate
    <2>2. CASE ~enabled
      BY <1>1, <1>4, <2>2, AnswerKeepsInvariant DEF Rotate
    <2>3. QED  BY <2>1, <2>2
  <1>5. CASE HandleLogout(c)
    BY <1>1, <1>5, SpendKeepsInvariant DEF HandleLogout, ServerStep
  <1>6. QED  BY <1>2, <1>3, <1>4, <1>5

LEMMA FailureKeepsInvariant ==
    ASSUME SessionInv, NEW c \in DOMAIN calls, HandlerFails(c)
    PROVE  SessionInv'
  <1>1. faults' \in 0 .. MaxFaults
    BY FaultIsBounded DEF HandlerFails
  <1>2. CASE UNCHANGED <<active, login>>
    BY <1>1, <1>2, AnswerKeepsInvariant DEF HandlerFails
  <1>3. CASE /\ calls[c].kind # "LOGIN" /\ calls[c].server = "SENT"
             /\ active' = active \ {calls[c].token}
             /\ UNCHANGED login
    BY <1>1, <1>3, SpendKeepsInvariant DEF HandlerFails, ServerStep
  <1>4. CASE /\ calls[c].kind = "LOGIN" \/ calls[c].server = "CONSUMED"
             /\ Issue(c)
    BY <1>1, <1>4, IssueKeepsInvariant DEF HandlerFails
  <1>5. QED  BY <1>2, <1>3, <1>4 DEF HandlerFails

-----------------------------------------------------------------------------
(* Theorems.                                                               *)

\* The invariant holds in every behaviour of AuthSession.
THEOREM SessionInvariant == Spec => []SessionInv
<1>1. Init => SessionInv
  BY SessionAssumption
  DEF Init, SessionInv, TypeOK, IssuedInv, CallsInv, LiveInv, SpentInv, HandledInv, Issued,
      RefusalHasCause, StoredTokenWorks, Token, NoToken
<1>2. SessionInv /\ [Next]_vars => SessionInv'
  <2> SUFFICES ASSUME SessionInv, [Next]_vars PROVE SessionInv'
    OBVIOUS
  <2>1. ASSUME NEW tab \in Tabs, Login(tab) PROVE SessionInv'
    BY <2>1, SendKeepsInvariant DEF Login, CallKind
  <2>2. ASSUME NEW tab \in Tabs, Refresh(tab) \/ Logout(tab) PROVE SessionInv'
    BY <2>2, SendKeepsInvariant DEF Refresh, Logout, CallKind
  <2>3. ASSUME NEW tab \in Tabs, Reload(tab) PROVE SessionInv'
    BY <2>3, ReloadKeepsInvariant
  <2>4. ASSUME NEW c \in DOMAIN calls, Receive(c) \/ GiveUp(c) PROVE SessionInv'
    BY <2>4, ReceiveKeepsInvariant, GiveUpKeepsInvariant
  <2>5. ASSUME NEW c \in DOMAIN calls,
               HandleLogin(c) \/ Consume(c) \/ Rotate(c) \/ HandleLogout(c)
        PROVE  SessionInv'
    BY <2>5, HandlerKeepsInvariant
  <2>6. ASSUME NEW c \in DOMAIN calls, HandlerFails(c) PROVE SessionInv'
    BY <2>6, FailureKeepsInvariant
  <2>7. CASE (\E t \in active : Expire(t)) \/ DisableUser
    BY <2>7, EnvironmentKeepsInvariant
  <2>8. CASE UNCHANGED vars
    BY <2>8 DEF vars, SessionInv, TypeOK, IssuedInv, CallsInv, LiveInv, SpentInv, HandledInv,
                Issued, RefusalHasCause, StoredTokenWorks
  <2>9. QED
    BY <2>1, <2>2, <2>3, <2>4, <2>5, <2>6, <2>7, <2>8 DEF Next
<1>3. QED  BY <1>1, <1>2, PTL DEF Spec

\* Every variable keeps its type.
THEOREM SessionTypeCorrect == Spec => []TypeOK
  BY SessionInvariant, PTL DEF SessionInv

\* However many tabs refresh, repeat and log out at the same time, a login has
\* at most one refresh token in Redis or one exchange under way.
THEOREM AlwaysOneLiveToken == Spec => []OneLiveTokenPerLogin
<1>1. SessionInv => OneLiveTokenPerLogin
  <2> SUFFICES ASSUME SessionInv, NEW root \in Token
               PROVE  Cardinality({t \in active : login[t] = root})
                        + Cardinality(Exchanges(root)) <= 1
    BY DEF OneLiveTokenPerLogin
  <2> DEFINE L == {t \in active : login[t] = root}
             E == Exchanges(root)
  <2>1. \A t, u \in L : t = u
    BY DEF SessionInv, LiveInv
  <2>2. \A c, d \in E : c = d
    BY DEF SessionInv, LiveInv, Exchanges
  <2>3. L = {} \/ E = {}
    BY DEF SessionInv, LiveInv, Exchanges
  <2>4. ASSUME NEW S, \A x, y \in S : x = y
        PROVE  S = {} \/ \E x : S = {x}
    BY <2>4
  <2>5. /\ L = {} => Cardinality(L) = 0
        /\ L # {} => Cardinality(L) = 1
    BY <2>1, <2>4, FS_EmptySet, FS_Singleton
  <2>6. /\ E = {} => Cardinality(E) = 0
        /\ E # {} => Cardinality(E) = 1
    BY <2>2, <2>4, FS_EmptySet, FS_Singleton
  <2>7. QED  BY <2>3, <2>5, <2>6
<1>2. QED  BY <1>1, SessionInvariant, PTL

\* No refresh is refused without a cause.
THEOREM RefusalsAlwaysHaveCause == Spec => []RefusalHasCause
  BY SessionInvariant, PTL DEF SessionInv

\* The stored token never stays dead without a call that explains it.
THEOREM StoredTokenAlwaysWorks == Spec => []StoredTokenWorks
  BY SessionInvariant, PTL DEF SessionInv

=============================================================================
