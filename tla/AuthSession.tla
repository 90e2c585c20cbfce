---------------------------- MODULE AuthSession ----------------------------
(***************************************************************************)
(* The refresh tokens of one user: AuthService and its Redis session store *)
(* on one side, the tabs of one browser, which share one localStorage, on  *)
(* the other.  A refresh takes the old token out of Redis with GETDEL and  *)
(* later stores a new one; between the two, and between an answer and its  *)
(* arrival, anything else may happen.                                      *)
(*                                                                         *)
(* A call issues at most one token, which is known by the number of the    *)
(* call.  The access token that comes with it is left out: at any time a   *)
(* tab's request may have been refused with status 401.  The revocation    *)
(* marker is left out too: it is written and never read.                   *)
(***************************************************************************)
EXTENDS Integers, Sequences, FiniteSets

CONSTANTS
    Tabs,         \* pages of the application in one browser
    MaxCalls,     \* bound: logins, refreshes and logouts sent
    MaxFaults     \* bound: tokens that live out their TTL, users disabled,
                  \* handlers that fail or die, calls that time out, reloads

ASSUME SessionAssumption ==
    MaxCalls \in Nat /\ MaxFaults \in Nat

VARIABLES
    active,    \* tokens with a key auth:refresh:{jti} in Redis
    expired,   \* tokens whose TTL, and with it their exp claim, has run out
    login,     \* which login a token descends from; its domain: tokens issued
    enabled,   \* users.is_active
    storage,   \* refresh token in localStorage, or NoToken
    calls,     \* requests to /auth/login, /auth/refresh and /auth/logout
    faults     \* how many faults have happened

vars == <<active, expired, login, enabled, storage, calls, faults>>

-----------------------------------------------------------------------------

Token == 1 .. MaxCalls
NoToken == 0

CallKind == {"LOGIN", "REFRESH", "LOGOUT"}
\* On the server: CONSUMED between the GETDEL and the SET of a refresh, then
\* the answer: OK, REFUSED (status 401) or ERROR.
ServerStep == {"SENT", "CONSUMED", "OK", "REFUSED", "ERROR"}
\* In the tab: GONE after a timeout of the client or a reload of the page.
ClientStep == {"WAITING", "HANDLED", "GONE"}

Call == [kind : CallKind, tab : Tabs, token : Token \union {NoToken},
         server : ServerStep, client : ClientStep]

Fault == /\ faults < MaxFaults
         /\ faults' = faults + 1

TypeOK ==
    /\ DOMAIN login \in SUBSET Token
    /\ login \in [DOMAIN login -> Token]
    /\ active \in SUBSET DOMAIN login
    /\ expired \in SUBSET DOMAIN login
    /\ enabled \in BOOLEAN
    /\ storage \in DOMAIN login \union {NoToken}
    /\ calls \in Seq(Call)
    /\ Len(calls) <= MaxCalls
    /\ faults \in 0 .. MaxFaults

Init ==
    /\ active = {}
    /\ expired = {}
    /\ login = [t \in {} |-> NoToken]
    /\ enabled = TRUE
    /\ storage = NoToken
    /\ calls = <<>>
    /\ faults = 0

-----------------------------------------------------------------------------
(* The browser: authService.login, logout and refreshAccessToken.          *)

Send(kind, tab, token) ==
    /\ Len(calls) < MaxCalls
    /\ calls' = Append(calls, [kind |-> kind, tab |-> tab, token |-> token,
                               server |-> "SENT", client |-> "WAITING"])
    /\ UNCHANGED <<active, expired, login, enabled, storage, faults>>

Login(tab) == Send("LOGIN", tab, NoToken)

\* One refreshPromise per tab, however many of its requests got a 401.
Refreshing(tab) == \E c \in DOMAIN calls : /\ calls[c].kind = "REFRESH"
                                           /\ calls[c].tab = tab
                                           /\ calls[c].client = "WAITING"

Refresh(tab) ==
    /\ storage # NoToken
    /\ ~Refreshing(tab)
    /\ Send("REFRESH", tab, storage)

Logout(tab) ==
    /\ storage # NoToken
    /\ Send("LOGOUT", tab, storage)

\* Mutant: the tokens are kept when a refresh fails.
StorageKept(c, answer) ==
    IF answer = "OK" /\ calls[c].kind # "LOGOUT" THEN c
    ELSE IF calls[c].kind = "LOGOUT" THEN NoToken ELSE storage

\* clearAuthToken after a refresh that failed and after every logout.
StorageAfter(c, answer) ==
    IF answer = "OK" /\ calls[c].kind # "LOGOUT" THEN c
    ELSE IF calls[c].kind = "LOGIN" THEN storage ELSE NoToken

Receive(c) ==
    /\ calls[c].client = "WAITING"
    /\ calls[c].server \in {"OK", "REFUSED", "ERROR"}
    /\ storage' = StorageAfter(c, calls[c].server)
    /\ calls' = [calls EXCEPT ![c].client = "HANDLED"]
    /\ UNCHANGED <<active, expired, login, enabled, faults>>

\* The client's timeout, or an answer that is lost; the handler may go on.
GiveUp(c) ==
    /\ calls[c].client = "WAITING"
    /\ Fault
    /\ storage' = StorageAfter(c, "ERROR")
    /\ calls' = [calls EXCEPT ![c].client = "GONE"]
    /\ UNCHANGED <<active, expired, login, enabled>>

Reload(tab) ==
    /\ \E c \in DOMAIN calls : calls[c].tab = tab /\ calls[c].client = "WAITING"
    /\ Fault
    /\ calls' = [c \in DOMAIN calls |->
                    IF calls[c].tab = tab /\ calls[c].client = "WAITING"
                    THEN [calls[c] EXCEPT !.client = "GONE"] ELSE calls[c]]
    /\ UNCHANGED <<active, expired, login, enabled, storage>>

-----------------------------------------------------------------------------
(* The server: AuthService and RedisSessionStore.                          *)

Answer(c, server) == calls' = [calls EXCEPT ![c].server = server]

\* The login that the token of a call belongs to: a new one, or that of the token
\* which the call has consumed.
LoginOf(c) == IF calls[c].kind = "LOGIN" THEN c ELSE login[calls[c].token]

Registered(c) == [t \in DOMAIN login \union {c} |-> IF t = c THEN LoginOf(c) ELSE login[t]]

\* _issue_tokens
Issue(c) ==
    /\ login' = Registered(c)
    /\ active' = active \union {c}

HandleLogin(c) ==
    /\ calls[c].kind = "LOGIN" /\ calls[c].server = "SENT"
    /\ \/ /\ enabled
          /\ Issue(c)
          /\ Answer(c, "OK")
       \/ Answer(c, "REFUSED") /\ UNCHANGED <<login, active>>
    /\ UNCHANGED <<expired, enabled, storage, faults>>

\* Mutant: GET instead of GETDEL.
ConsumeByGet(c) ==
    /\ calls[c].kind = "REFRESH" /\ calls[c].server = "SENT"
    /\ Answer(c, IF calls[c].token \in active THEN "CONSUMED" ELSE "REFUSED")
    /\ UNCHANGED <<active, expired, login, enabled, storage, faults>>

\* decode_refresh refuses an expired token; then the GETDEL.
Consume(c) ==
    /\ calls[c].kind = "REFRESH" /\ calls[c].server = "SENT"
    /\ Answer(c, IF calls[c].token \in active THEN "CONSUMED" ELSE "REFUSED")
    /\ active' = active \ {calls[c].token}
    /\ UNCHANGED <<expired, login, enabled, storage, faults>>

\* Mutant: the session of the new token is not saved.
RotateUnsaved(c) ==
    /\ calls[c].kind = "REFRESH" /\ calls[c].server = "CONSUMED"
    /\ login' = Registered(c)
    /\ Answer(c, "OK")
    /\ UNCHANGED <<active, expired, enabled, storage, faults>>

\* The user is read, the new pair issued and its session saved.
Rotate(c) ==
    /\ calls[c].kind = "REFRESH" /\ calls[c].server = "CONSUMED"
    /\ IF enabled
       THEN Issue(c) /\ Answer(c, "OK")
       ELSE Answer(c, "REFUSED") /\ UNCHANGED <<login, active>>
    /\ UNCHANGED <<expired, enabled, storage, faults>>

\* logout also accepts an expired token.
HandleLogout(c) ==
    /\ calls[c].kind = "LOGOUT" /\ calls[c].server = "SENT"
    /\ Answer(c, "OK")
    /\ active' = active \ {calls[c].token}
    /\ UNCHANGED <<expired, login, enabled, storage, faults>>

\* Redis, the database or the process fails: before its command or after it.
HandlerFails(c) ==
    /\ calls[c].server \in {"SENT", "CONSUMED"}
    /\ Fault
    /\ Answer(c, "ERROR")
    /\ \/ UNCHANGED <<active, login>>
       \/ /\ calls[c].kind # "LOGIN" /\ calls[c].server = "SENT"
          /\ active' = active \ {calls[c].token}
          /\ UNCHANGED login
       \/ /\ calls[c].kind = "LOGIN" \/ calls[c].server = "CONSUMED"
          /\ Issue(c)
    /\ UNCHANGED <<expired, enabled, storage>>

Expire(t) ==
    /\ t \in active
    /\ Fault
    /\ active' = active \ {t}
    /\ expired' = expired \union {t}
    /\ UNCHANGED <<login, enabled, storage, calls>>

\* No operation of the API does it: the row is edited by hand.
DisableUser ==
    /\ enabled
    /\ Fault
    /\ enabled' = FALSE
    /\ UNCHANGED <<active, expired, login, storage, calls>>

-----------------------------------------------------------------------------

Next ==
    \/ \E tab \in Tabs : Login(tab) \/ Refresh(tab) \/ Logout(tab) \/ Reload(tab)
    \/ \E c \in DOMAIN calls :
        \/ Receive(c) \/ GiveUp(c)
        \/ HandleLogin(c) \/ Consume(c) \/ Rotate(c) \/ HandleLogout(c)
        \/ HandlerFails(c)
    \/ \E t \in active : Expire(t)
    \/ DisableUser

Spec == Init /\ [][Next]_vars

-----------------------------------------------------------------------------
(* Properties.                                                             *)

\* Exchanges between their GETDEL and their SET.
Exchanges(root) ==
    {c \in DOMAIN calls : calls[c].server = "CONSUMED" /\ login[calls[c].token] = root}

\* A login has one refresh token that works, or one exchange under way, and
\* never both or two: tabs that send the same token at the same time, repeat a
\* refresh whose answer was lost, or log out beside it do not multiply a session.
OneLiveTokenPerLogin ==
    \A root \in Token :
        Cardinality({t \in active : login[t] = root}) + Cardinality(Exchanges(root)) <= 1

\* A refresh is refused only for a reason: the same token was sent in another
\* refresh or logout, it expired, or the user was disabled.  A lone tab whose
\* calls are answered is never logged out.
RefusalHasCause ==
    \A c \in DOMAIN calls :
        calls[c].kind = "REFRESH" /\ calls[c].server = "REFUSED" =>
            \/ calls[c].token \in expired
            \/ ~enabled
            \/ \E other \in DOMAIN calls \ {c} : calls[other].token = calls[c].token

\* The token in localStorage works, unless it expired or a call that used it up
\* is still unanswered or was abandoned with its page: whichever answers arrive
\* late, out of order or after a logout, none leaves the tabs with a dead token.
StoredTokenWorks ==
    storage # NoToken =>
        \/ storage \in active \union expired
        \/ \E c \in DOMAIN calls : calls[c].token = storage /\ calls[c].client # "HANDLED"

=============================================================================
