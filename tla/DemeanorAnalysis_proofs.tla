----------------------- MODULE DemeanorAnalysis_proofs -----------------------
(***************************************************************************)
(* Theorems about DemeanorAnalysis for any number of requests, crashes and *)
(* errors, and every interval and timeout.  SlotInv is the heart of the    *)
(* inductive invariant: an analysis whose key nobody has deleted, and that *)
(* is late by less than the interval, still holds the key, which outlasts  *)
(* what is left of the analysis.                                           *)
(***************************************************************************)
EXTENDS DemeanorAnalysis, TLAPS

-----------------------------------------------------------------------------
(* The invariant.                                                          *)

\* From the moment Redis sets the key to the end of the analysis.
Holding == {"TAKEN", "ANALYZE"}

Undisturbed(r) ==
    request[r].step \in Holding /\ ~request[r].undercut /\ ~TooLate(r)

SlotInv ==
    \A r \in Requests : Undisturbed(r) =>
        /\ flight.by = r
        /\ flight.left >= LockTtl - (request[r].age + request[r].late)

DemeanorInv == TypeOK /\ SlotInv

-----------------------------------------------------------------------------
(* Records and keys.                                                       *)

LEMMA LockOutlastsAnalysis ==
    LockTtl \in Nat /\ LockTtl >= Timeout + Interval /\ LockTtl > Timeout
    /\ Interval \in Nat /\ Interval > 0 /\ Timeout \in Nat
  BY DemeanorAssumption DEF LockTtl

\* What the actions make of one request has the type of a request.
LEMMA RequestKeepsType ==
    ASSUME TypeOK, NEW r \in Requests
    PROVE  /\ request[r] \in Request
           /\ \A s \in Step, o \in Outcome :
                 [NewRequest EXCEPT !.step = s, !.outcome = o] \in Request
           /\ \A s \in Step :
                 /\ [NewRequest EXCEPT !.step = s] \in Request
                 /\ [request[r] EXCEPT !.step = s] \in Request
           /\ [request[r] EXCEPT !.undercut = TRUE] \in Request
           /\ [request[r] EXCEPT !.step = "DONE", !.outcome = "REFUSED"] \in Request
           /\ Older(r) \in Request
<1>1. 0 \in 0 .. Timeout /\ 0 \in 0 .. Interval /\ request[r] \in Request
  BY DemeanorAssumption DEF TypeOK
<1>2. NewRequest \in Request
  BY <1>1 DEF NewRequest, Request, Step, Outcome
<1>3. request[r].age < Timeout => request[r].age + 1 \in 0 .. Timeout
  BY <1>1, DemeanorAssumption DEF Request
<1>4. "DONE" \in Step /\ "REFUSED" \in Outcome
  BY DEF Step, Outcome
<1>5. request[r].late < Interval => request[r].late + 1 \in 0 .. Interval
  BY <1>1, DemeanorAssumption DEF Request
<1>6. Older(r) \in Request
  BY <1>1, <1>3, <1>5 DEF Older, Request
<1>7. QED  BY <1>1, <1>2, <1>4, <1>6 DEF Request

\* Only a tick and a release look at all requests; the rest write one.
LEMMA OneRequest ==
    ASSUME DemeanorInv, NEW r \in Requests, Handler(r) \/ Fault(r),
           ~Release(r), ~ReleaseError(r)
    PROVE  \E n \in Request :
              /\ request' = [request EXCEPT ![r] = n]
              /\ n.step \in Holding =>
                    /\ n = [request[r] EXCEPT !.step = n.step]
                    /\ \/ TakeFlight(r)
                       \/ request[r].step = "TAKEN" /\ UNCHANGED flight
<1>0. /\ request[r] \in Request /\ request \in [Requests -> Request]
      /\ {"RATE", "FLIGHT", "STORE", "RELEASE", "DONE", "TAKEN", "ANALYZE"} \subseteq Step
      /\ {"LIMITED", "CONFLICT", "FAILED", "UNAVAILABLE", "SAVED"} \subseteq Outcome
  BY DEF DemeanorInv, TypeOK, Step, Outcome
<1>1. \A s \in Step \ Holding : Goto(r, s) =>
        \E n \in Request : request' = [request EXCEPT ![r] = n] /\ n.step \notin Holding
  <2> SUFFICES ASSUME NEW s \in Step \ Holding, Goto(r, s)
               PROVE  \E n \in Request : request' = [request EXCEPT ![r] = n] /\ n.step \notin Holding
    OBVIOUS
  <2> DEFINE n == [request[r] EXCEPT !.step = s]
  <2>1. n \in Request /\ n.step = s
    BY <1>0, RequestKeepsType DEF DemeanorInv, Request
  <2>2. request' = [request EXCEPT ![r] = n]
    BY DEF Goto
  <2>3. QED  BY <2>1, <2>2
<1>2. \A o \in Outcome : Settle(r, o) =>
        \E n \in Request : request' = [request EXCEPT ![r] = n] /\ n.step \notin Holding
  <2> SUFFICES ASSUME NEW o \in Outcome, Settle(r, o)
               PROVE  \E n \in Request : request' = [request EXCEPT ![r] = n] /\ n.step \notin Holding
    OBVIOUS
  <2> DEFINE n == [NewRequest EXCEPT !.step = "RELEASE", !.outcome = o]
  <2>1. n \in Request
    BY <1>0, RequestKeepsType DEF DemeanorInv
  <2>2. n.step \notin Holding
    BY DEF NewRequest, Holding
  <2>3. QED  BY <2>1, <2>2 DEF Settle
<1>3. CASE TakeFlight(r) \/ StartAnalysis(r)
  <2>1. PICK s \in Holding : Goto(r, s)
    BY <1>3 DEF TakeFlight, StartAnalysis, Holding
  <2> DEFINE n == [request[r] EXCEPT !.step = s]
  <2>2. n \in Request /\ n.step = s
    BY <1>0, RequestKeepsType DEF DemeanorInv, Request, Holding
  <2>3. request' = [request EXCEPT ![r] = n] /\ n = [request[r] EXCEPT !.step = n.step]
    BY <2>1, <2>2 DEF Goto
  <2>4. TakeFlight(r) \/ (request[r].step = "TAKEN" /\ UNCHANGED flight)
    BY <1>3 DEF StartAnalysis
  <2>5. QED  BY <2>2, <2>3, <2>4
<1>4. CASE Begin(r) \/ TakeRate(r)
  <2>1. \E s \in {"RATE", "FLIGHT"} : Goto(r, s)
    BY <1>4 DEF Begin, TakeRate
  <2>2. QED  BY <2>1, <1>0, <1>1 DEF Holding
<1>5. CASE Refuse(r)
  <2>1. request' = [request EXCEPT ![r] = [request[r] EXCEPT !.step = "DONE", !.outcome = "REFUSED"]]
    BY <1>0, <1>5 DEF Refuse, Request
  <2>2. QED  BY <2>1, <1>0, RequestKeepsType DEF DemeanorInv, Request, Holding
<1>6. CASE \/ Limit(r) \/ Conflict(r) \/ ProviderFails(r) \/ TimesOut(r) \/ StoreSample(r)
           \/ RateError(r) \/ FlightError(r) \/ StoreError(r)
  <2>1. \E o \in {"LIMITED", "CONFLICT", "FAILED", "UNAVAILABLE", "SAVED"} : Settle(r, o)
    BY <1>6 DEF Limit, Conflict, ProviderFails, TimesOut, StoreSample, RateError, FlightError,
         StoreError
  <2>2. QED  BY <2>1, <1>0, <1>2
<1>7. CASE ProviderAnswers(r) \/ Crash(r)
  <2>1. PICK s \in {"STORE", "DONE"} :
             request' = [request EXCEPT ![r] = [NewRequest EXCEPT !.step = s]]
    BY <1>7 DEF ProviderAnswers, Crash
  <2> DEFINE n == [NewRequest EXCEPT !.step = s]
  <2>2. n \in Request
    BY <1>0, RequestKeepsType DEF DemeanorInv
  <2>3. n.step \notin Holding
    BY DEF NewRequest, Holding
  <2>4. QED  BY <2>1, <2>2, <2>3
<1>8. QED
  BY <1>3, <1>4, <1>5, <1>6, <1>7 DEF Handler, Fault

LEMMA SpendCounts ==
    ASSUME TypeOK, NEW kind \in {"CRASH", "ERROR"}, Spend(kind)
    PROVE  spent' \in [{"CRASH", "ERROR"} -> Nat]
  BY DEF Spend, TypeOK

LEMMA KeysKeepTheirTypes ==
    ASSUME TypeOK
    PROVE  /\ NoFlight \in [left : 0 .. LockTtl, by : Requests \union {"NONE"}]
           /\ \A r \in Requests : FlightOf(r) \in [left : 0 .. LockTtl, by : Requests \union {"NONE"}]
           /\ FlightLater \in [left : 0 .. LockTtl, by : Requests \union {"NONE"}]
           /\ Down(rate) \in 0 .. Interval /\ Interval \in 0 .. Interval
<1>1. LockTtl \in 0 .. LockTtl /\ 0 \in 0 .. LockTtl
  BY LockOutlastsAnalysis
<1>2. flight.left > 1 => flight.left - 1 \in 0 .. LockTtl
  BY LockOutlastsAnalysis DEF TypeOK
<1>3. FlightLater \in [left : 0 .. LockTtl, by : Requests \union {"NONE"}]
  <2>1. CASE flight.left <= 1
    BY <2>1, <1>1 DEF FlightLater, NoFlight
  <2>2. CASE ~(flight.left <= 1)
    <3>1. FlightLater = [flight EXCEPT !.left = flight.left - 1]
      BY <2>2 DEF FlightLater
    <3>2. flight.left - 1 \in 0 .. LockTtl
      BY <2>2, LockOutlastsAnalysis DEF TypeOK
    <3>3. QED  BY <3>1, <3>2 DEF TypeOK
  <2>3. QED  BY <2>1, <2>2
<1>4. Down(rate) \in 0 .. Interval /\ Interval \in 0 .. Interval
  BY LockOutlastsAnalysis DEF Down, TypeOK
<1>5. QED  BY <1>1, <1>3, <1>4 DEF NoFlight, FlightOf

-----------------------------------------------------------------------------
(* Steps of one request.                                                   *)

\* The key is set for longer than an analysis that is not too late can last.
LEMMA SpareTime ==
    ASSUME TypeOK, NEW r \in Requests, Undisturbed(r)
    PROVE  /\ request[r].age \in 0 .. Timeout /\ request[r].late \in 0 .. Interval
           /\ LockTtl - (request[r].age + request[r].late) >= 1
<1>1. request[r] \in Request /\ request[r].late # Interval
  BY DEF TypeOK, Undisturbed, TooLate
<1>2. request[r].age \in 0 .. Timeout /\ request[r].late \in 0 .. Interval
  BY <1>1 DEF Request
<1>3. QED  BY <1>1, <1>2, LockOutlastsAnalysis

LEMMA RequestStep ==
    ASSUME DemeanorInv, NEW r \in Requests, Handler(r) \/ Fault(r),
           ~Release(r), ~ReleaseError(r)
    PROVE  DemeanorInv'
<1>0. TypeOK /\ SlotInv /\ LockTtl \in Nat
  BY LockOutlastsAnalysis DEF DemeanorInv
<1>1. PICK n \in Request :
        /\ request' = [request EXCEPT ![r] = n]
        /\ n.step \in Holding =>
              /\ n = [request[r] EXCEPT !.step = n.step]
              /\ TakeFlight(r) \/ (request[r].step = "TAKEN" /\ UNCHANGED flight)
  BY OneRequest
<1>2. /\ interview' = interview
      /\ rate' \in {rate, Interval}
      /\ flight' = flight \/ (flight.left = 0 /\ flight' = FlightOf(r))
      /\ samples' \in {samples, samples \union {r}}
      /\ spent' = spent \/ \E kind \in {"CRASH", "ERROR"} : Spend(kind)
  BY DEF Handler, Fault, Begin, Refuse, TakeRate, Limit, RateError, TakeFlight, Conflict,
       FlightError, StartAnalysis, ProviderAnswers, ProviderFails, TimesOut, StoreSample,
       StoreError, Crash
<1>3. TypeOK'
  BY <1>0, <1>1, <1>2, SpendCounts, KeysKeepTheirTypes DEF TypeOK
<1>4. SlotInv'
  <2> SUFFICES ASSUME NEW q \in Requests, Undisturbed(q)'
               PROVE  /\ flight'.by = q
                      /\ flight'.left >= LockTtl - (request'[q].age + request'[q].late)
    BY DEF SlotInv, LockTtl
  <2>1. CASE q = r
    <3>1. /\ n.step \in Holding /\ request'[r] = n /\ request[r] \in Request
          /\ ~n.undercut /\ n.late # Interval
      BY <1>0, <1>1, <2>1 DEF Undisturbed, TypeOK, TooLate
    <3>2. n = [request[r] EXCEPT !.step = n.step]
      BY <1>1, <3>1
    <3>3. /\ n.age = request[r].age /\ n.late = request[r].late
          /\ n.undercut = request[r].undercut
          /\ request[r].age \in Nat /\ request[r].late \in Nat
      BY <3>1, <3>2 DEF Request
    <3>4. CASE TakeFlight(r)
      <4>1. flight' = FlightOf(r)
        BY <3>4 DEF TakeFlight
      <4>2. QED  BY <1>0, <2>1, <3>1, <3>3, <4>1 DEF FlightOf
    <3>5. CASE request[r].step = "TAKEN" /\ UNCHANGED flight
      <4>1. Undisturbed(r)
        BY <3>1, <3>3, <3>5 DEF Undisturbed, Holding, TooLate
      <4>2. QED  BY <1>0, <2>1, <3>1, <3>3, <3>5, <4>1 DEF SlotInv
    <3>6. QED  BY <1>1, <3>1, <3>4, <3>5
  <2>2. CASE q # r
    <3>1. request'[q] = request[q] /\ Undisturbed(q)
      BY <1>0, <1>1, <2>2 DEF Undisturbed, TooLate, TypeOK
    <3>2. flight.by = q /\ flight.left >= LockTtl - (request[q].age + request[q].late)
      BY <1>0, <3>1 DEF SlotInv
    <3>3. flight.left # 0
      BY <1>0, <3>1, <3>2, SpareTime
    <3>4. QED  BY <1>2, <3>1, <3>2, <3>3
  <2>3. QED  BY <2>1, <2>2
<1>5. QED  BY <1>3, <1>4 DEF DemeanorInv

\* A release leaves no analysis undisturbed that has lost its key.
LEMMA ReleaseStep ==
    ASSUME DemeanorInv, NEW r \in Requests, Release(r) \/ ReleaseError(r)
    PROVE  DemeanorInv'
<1>0. TypeOK /\ SlotInv
  BY DEF DemeanorInv
<1>1. /\ UNCHANGED <<interview, rate, samples>>
      /\ spent' = spent \/ \E kind \in {"CRASH", "ERROR"} : Spend(kind)
      /\ \/ flight' = flight /\ Goto(r, "DONE")
         \/ flight' = NoFlight /\ request' = Undercut(r)
  BY DEF Release, ReleaseError
<1>2. \A q \in Requests :
        /\ [request[q] EXCEPT !.step = "DONE"] \in Request
        /\ [request[q] EXCEPT !.step = "DONE"].step = "DONE"
        /\ [request[q] EXCEPT !.undercut = TRUE] \in Request
        /\ [request[q] EXCEPT !.undercut = TRUE].undercut = TRUE
        /\ request[q] \in Request
  <2> TAKE q \in Requests
  <2>1. request[q] \in Request /\ "DONE" \in Step
    BY <1>0 DEF TypeOK, Step
  <2>2. QED  BY <2>1 DEF Request
<1>3. CASE flight' = flight /\ Goto(r, "DONE")
  <2>1. request' = [request EXCEPT ![r] = [request[r] EXCEPT !.step = "DONE"]]
    BY <1>3 DEF Goto
  <2>2. TypeOK'
    BY <1>0, <1>1, <1>2, <1>3, <2>1, SpendCounts DEF TypeOK
  <2>3. \A q \in Requests : Undisturbed(q)' => request'[q] = request[q] /\ Undisturbed(q)
    BY <1>0, <1>2, <2>1 DEF Undisturbed, Holding, TooLate, TypeOK
  <2>4. SlotInv'
    BY <1>0, <1>3, <2>3 DEF SlotInv, LockTtl
  <2>5. QED  BY <2>2, <2>4 DEF DemeanorInv
<1>4. CASE flight' = NoFlight /\ request' = Undercut(r)
  <2>1. request' \in [Requests -> Request]
    BY <1>2, <1>4 DEF Undercut
  <2>2. TypeOK'
    BY <1>0, <1>1, <1>4, <2>1, SpendCounts, KeysKeepTheirTypes DEF TypeOK
  <2>3. \A q \in Requests : ~Undisturbed(q)'
    <3> SUFFICES ASSUME NEW q \in Requests, Undisturbed(q)' PROVE FALSE
      OBVIOUS
    <3>1. q # r
      BY <1>2, <1>4 DEF Undercut, Undisturbed, Holding
    <3>2. CASE q = flight.by /\ request[q].step \in Holding
      BY <1>2, <1>4, <3>1, <3>2 DEF Undercut, Undisturbed, Holding
    <3>3. CASE ~(q = flight.by /\ request[q].step \in Holding)
      <4>1. request'[q] = request[q]
        BY <1>4, <3>1, <3>3 DEF Undercut, Holding
      <4>2. Undisturbed(q)
        BY <4>1 DEF Undisturbed, TooLate
      <4>3. QED  BY <1>0, <3>3, <4>2 DEF SlotInv, Undisturbed
    <3>4. QED  BY <3>2, <3>3
  <2>4. SlotInv'
    BY <2>3 DEF SlotInv
  <2>5. QED  BY <2>2, <2>4 DEF DemeanorInv
<1>5. QED  BY <1>1, <1>3, <1>4

\* A key that is not deleted loses one tick, or is at its last one.
LEMMA KeyLosesOneTick ==
    ASSUME TypeOK, SlotInv, NEW q \in Requests, Undisturbed(q), flight' = FlightLater,
           request'[q].age \in Nat, request'[q].late \in Nat,
           request'[q].age + request'[q].late = request[q].age + request[q].late + 1,
           Undisturbed(q)', TypeOK'
    PROVE  /\ flight'.by = q
           /\ flight'.left >= LockTtl - (request'[q].age + request'[q].late)
<1>1. /\ flight.by = q /\ flight.left \in Nat /\ LockTtl \in Nat
      /\ flight.left >= LockTtl - (request[q].age + request[q].late)
  BY LockOutlastsAnalysis DEF SlotInv, TypeOK
<1>2. LockTtl - (request'[q].age + request'[q].late) >= 1
  <2>1. request'[q] \in Request /\ request'[q].late # Interval
    BY DEF TypeOK, Undisturbed, TooLate
  <2>2. request'[q].age <= Timeout /\ request'[q].late <= Interval
    BY <2>1, DemeanorAssumption DEF Request
  <2>3. request'[q].late <= Interval - 1
    BY <2>1, <2>2, LockOutlastsAnalysis
  <2>4. QED  BY <2>2, <2>3, LockOutlastsAnalysis
<1>3. request[q].age \in Nat /\ request[q].late \in Nat
  BY SpareTime
<1>4. flight.left > 1
  BY <1>1, <1>2, <1>3
<1>5. flight'.by = flight.by /\ flight'.left = flight.left - 1
  BY <1>1, <1>4 DEF FlightLater, TypeOK
<1>6. QED  BY <1>1, <1>3, <1>5

\* The key loses a tick, and the analysis ages or is late by one.
LEMMA TickStep ==
    ASSUME DemeanorInv, Tick
    PROVE  DemeanorInv'
<1>0. TypeOK /\ SlotInv /\ LockTtl \in Nat
  BY LockOutlastsAnalysis DEF DemeanorInv
<1>1. /\ rate' = Down(rate) /\ flight' = FlightLater
      /\ UNCHANGED <<interview, samples, spent>>
      /\ request' = [r \in Requests |-> Older(r)]
  BY DEF Tick
<1>2. request' \in [Requests -> Request]
  BY <1>0, <1>1, RequestKeepsType
<1>3. TypeOK'
  BY <1>0, <1>1, <1>2, KeysKeepTheirTypes DEF TypeOK
<1>4. SlotInv'
  <2> SUFFICES ASSUME NEW q \in Requests, Undisturbed(q)'
               PROVE  /\ flight'.by = q
                      /\ flight'.left >= LockTtl - (request'[q].age + request'[q].late)
    BY DEF SlotInv, LockTtl
  <2>1. /\ request[q] \in Request /\ request[q].age \in Nat /\ request[q].late \in Nat
        /\ request[q].age <= Timeout /\ request[q].late <= Interval
        /\ Timeout \in Nat /\ Interval \in Nat
    BY <1>0, DemeanorAssumption DEF TypeOK, Request
  <2>2. /\ request'[q] = Older(q)
        /\ request'[q].step \in Holding /\ ~request'[q].undercut /\ request'[q].late # Interval
    BY <1>1 DEF Undisturbed, TooLate
  <2>3. request[q].step \in Holding /\ ~request[q].undercut
    BY <2>1, <2>2 DEF Older, Request
  <2>4. CASE request[q].step = "ANALYZE" /\ request[q].age < Timeout
    <3>1. request'[q].age = request[q].age + 1 /\ request'[q].late = request[q].late
      BY <2>1, <2>2, <2>4 DEF Older, Request
    <3>2. Undisturbed(q)
      BY <2>2, <2>3, <3>1 DEF Undisturbed, TooLate
    <3>3. /\ request'[q].age \in Nat /\ request'[q].late \in Nat
          /\ request'[q].age + request'[q].late = request[q].age + request[q].late + 1
      BY <2>1, <3>1
    <3>4. QED  BY <1>0, <1>1, <1>3, <3>2, <3>3, KeyLosesOneTick
  <2>5. CASE ~(request[q].step = "ANALYZE" /\ request[q].age < Timeout)
    <3>1. request[q].late < Interval
      BY <2>1, <2>2, <2>3, <2>5 DEF Older, Holding
    <3>2. Older(q) = [request[q] EXCEPT !.late = request[q].late + 1]
      BY <2>3, <2>5, <3>1 DEF Older, Holding
    <3>3. request'[q].age = request[q].age /\ request'[q].late = request[q].late + 1
      BY <2>1, <2>2, <3>2 DEF Request
    <3>4. Undisturbed(q)
      BY <2>1, <2>3, <3>1 DEF Undisturbed, TooLate
    <3>5. /\ request'[q].age \in Nat /\ request'[q].late \in Nat
          /\ request'[q].age + request'[q].late = request[q].age + request[q].late + 1
      BY <2>1, <3>3
    <3>6. QED  BY <1>0, <1>1, <1>3, <3>4, <3>5, KeyLosesOneTick
  <2>6. QED  BY <2>4, <2>5
<1>5. QED  BY <1>3, <1>4 DEF DemeanorInv

-----------------------------------------------------------------------------
(* The theorems.                                                           *)

LEMMA InitHolds == Init => DemeanorInv
<1> SUFFICES ASSUME Init PROVE DemeanorInv
  OBVIOUS
<1>1. NewRequest \in Request /\ NewRequest.step = "IDLE"
  BY DemeanorAssumption DEF NewRequest, Request, Step, Outcome
<1>2. NoFlight \in [left : 0 .. LockTtl, by : Requests \union {"NONE"}] /\ 0 \in 0 .. Interval
  BY LockOutlastsAnalysis DEF NoFlight
<1>3. TypeOK
  BY <1>1, <1>2 DEF Init, TypeOK
<1>4. SlotInv
  BY <1>1 DEF Init, SlotInv, Undisturbed, Holding
<1>5. QED  BY <1>3, <1>4 DEF DemeanorInv

\* The invariant holds in every reachable state, for every set of requests, every
\* interval and every timeout.
THEOREM DemeanorInvariant == Spec => []DemeanorInv
<1>1. ASSUME DemeanorInv, [Next]_vars PROVE DemeanorInv'
  <2>1. CASE \E r \in Requests : Handler(r) \/ Fault(r)
    <3>1. PICK r \in Requests : Handler(r) \/ Fault(r)
      BY <2>1
    <3>2. QED  BY <1>1, <3>1, RequestStep, ReleaseStep
  <2>2. CASE Tick
    BY <1>1, <2>2, TickStep
  <2>3. CASE EndInterview \/ UNCHANGED vars
    BY <1>1, <2>3 DEF EndInterview, vars, DemeanorInv, TypeOK, SlotInv, Undisturbed, TooLate,
                         LockTtl
  <2>4. QED  BY <1>1, <2>1, <2>2, <2>3 DEF Next
<1>2. QED  BY InitHolds, <1>1, PTL DEF Spec

\* Every variable keeps its type.
THEOREM DemeanorTypeCorrect == Spec => []TypeOK
<1>1. DemeanorInv => TypeOK
  BY DEF DemeanorInv
<1>2. QED  BY DemeanorInvariant, <1>1, PTL

\* Whatever the timeout and the interval, two analyses run at a time only after
\* another request has deleted the key of one of them, or once a reply of Redis
\* or the end of an analysis has come late by the whole interval.
THEOREM OverlapAlwaysHasCause == Spec => []OverlapHasCause
<1>1. DemeanorInv => OverlapHasCause
  BY DEF DemeanorInv, SlotInv, Undisturbed, Holding, OverlapHasCause, At
<1>2. QED  BY DemeanorInvariant, <1>1, PTL
=============================================================================
