-------------------------- MODULE DemeanorAnalysis --------------------------
(***************************************************************************)
(* DemeanorAnalysisService for one user and one interview: camera frames   *)
(* that several requests, of the poller of one tab or of several tabs,     *)
(* send to the vision provider.                                            *)
(*                                                                         *)
(* get_demeanor_analysis_service builds a new service for every request:   *)
(* _local_in_flight and _local_last_request are empty whenever they are    *)
(* read and protect nothing.  What requests share are two keys in Redis,   *)
(* demeanor:rate and demeanor:inflight, both SET NX EX.                    *)
(*                                                                         *)
(* Time passes in ticks, whatever the requests do: a call to Redis or to   *)
(* the database may take any time, and a stalled event loop notices the    *)
(* timeout of an analysis late.  Scores and texts are left out: an         *)
(* analysis succeeds or fails.                                             *)
(***************************************************************************)
EXTENDS Integers, FiniteSets

CONSTANTS
    Requests,   \* POST .../demeanor-evaluation requests
    Interval,   \* max(1, int(demeanor_analysis_min_interval_seconds))
    Timeout,    \* demeanor_analysis_request_timeout_seconds
    MaxCrashes, \* bound: requests whose process dies
    MaxErrors   \* bound: errors of Redis or of the database

ASSUME DemeanorAssumption ==
    /\ "NONE" \notin Requests
    /\ Interval \in Nat \ {0} /\ Timeout \in Nat
    /\ MaxCrashes \in Nat /\ MaxErrors \in Nat

VARIABLES
    interview,  \* is the interview IN_PROGRESS?
    request,    \* local state of each request handler
    rate,       \* ticks the rate key has left, 0 without the key
    flight,     \* the in-flight key: ticks left, and the request that set it
    samples,    \* requests whose sample is in interview_demeanor_evaluations
    spent       \* how often each bounded event has happened

vars == <<interview, request, rate, flight, samples, spent>>

-----------------------------------------------------------------------------

\* TAKEN: Redis has set the in-flight key, its reply is under way.
Step == {"IDLE", "RATE", "FLIGHT", "TAKEN", "ANALYZE", "STORE", "RELEASE", "DONE"}
Outcome == {"NONE", "REFUSED", "LIMITED", "CONFLICT", "FAILED", "UNAVAILABLE", "SAVED"}

\* age counts the ticks of the analysis up to its timeout, and late those in which
\* its key was running and its timeout was not: before the reply of Redis, and
\* after the timeout.  The bound of late is Interval, which is what the key has to
\* spare.  undercut records that another request deleted the key.
Request == [step : Step, outcome : Outcome, age : 0 .. Timeout, late : 0 .. Interval,
            undercut : BOOLEAN]
NewRequest == [step |-> "IDLE", outcome |-> "NONE", age |-> 0, late |-> 0,
               undercut |-> FALSE]

\* Mutant: the in-flight key lives for the interval only.
LockTtlOfInterval == Interval

LockTtl == IF Timeout = 0 THEN Interval + 1 ELSE Timeout + Interval

NoFlight == [left |-> 0, by |-> "NONE"]
FlightOf(r) == [left |-> LockTtl, by |-> r]

Bound == [CRASH |-> MaxCrashes, ERROR |-> MaxErrors]
Spend(kind) == /\ spent[kind] < Bound[kind]
               /\ spent' = [spent EXCEPT ![kind] = @ + 1]

At(step) == {r \in Requests : request[r].step = step}

Goto(r, step) == request' = [request EXCEPT ![r].step = step]
Settle(r, outcome) ==
    request' = [request EXCEPT ![r] = [NewRequest EXCEPT !.step = "RELEASE",
                                                         !.outcome = outcome]]

Init ==
    /\ interview = "IN_PROGRESS"
    /\ request = [r \in Requests |-> NewRequest]
    /\ rate = 0
    /\ flight = NoFlight
    /\ samples = {}
    /\ spent = [k \in {"CRASH", "ERROR"} |-> 0]

-----------------------------------------------------------------------------
(* analyze: the checks before the slot.                                    *)

\* The interview is read once; the image is valid and a provider configured.
Begin(r) ==
    /\ request[r].step = "IDLE"
    /\ interview = "IN_PROGRESS"
    /\ Goto(r, "RATE")
    /\ UNCHANGED <<interview, rate, flight, samples, spent>>

\* No interview of this user in progress, an unacceptable image, no provider.
Refuse(r) ==
    /\ request[r].step = "IDLE"
    /\ request' = [request EXCEPT ![r].step = "DONE", ![r].outcome = "REFUSED"]
    /\ UNCHANGED <<interview, rate, flight, samples, spent>>

-----------------------------------------------------------------------------
(* _acquire_request_slot.                                                  *)

TakeRate(r) ==
    /\ request[r].step = "RATE"
    /\ rate = 0
    /\ rate' = Interval
    /\ Goto(r, "FLIGHT")
    /\ UNCHANGED <<interview, flight, samples, spent>>

\* The refused request runs _release_request_slot all the same.
Limit(r) ==
    /\ request[r].step = "RATE"
    /\ rate > 0
    /\ Settle(r, "LIMITED")
    /\ UNCHANGED <<interview, rate, flight, samples, spent>>

\* Redis raises, before or after it has set the key.
RateError(r) ==
    /\ request[r].step = "RATE"
    /\ Spend("ERROR")
    /\ rate' \in {rate, IF rate = 0 THEN Interval ELSE rate}
    /\ Settle(r, "UNAVAILABLE")
    /\ UNCHANGED <<interview, flight, samples>>

TakeFlight(r) ==
    /\ request[r].step = "FLIGHT"
    /\ flight.left = 0
    /\ flight' = FlightOf(r)
    /\ Goto(r, "TAKEN")
    /\ UNCHANGED <<interview, rate, samples, spent>>

\* And so does this one: what it deletes is the key of the analysis under way.
Conflict(r) ==
    /\ request[r].step = "FLIGHT"
    /\ flight.left > 0
    /\ Settle(r, "CONFLICT")
    /\ UNCHANGED <<interview, rate, flight, samples, spent>>

\* Redis raises, before or after it has set the key.
FlightError(r) ==
    /\ request[r].step \in {"FLIGHT", "TAKEN"}
    /\ Spend("ERROR")
    /\ Settle(r, "UNAVAILABLE")
    /\ UNCHANGED <<interview, rate, flight, samples>>

-----------------------------------------------------------------------------
(* analyze: the provider under wait_for, and the sample.                   *)

\* The reply has come: the provider is called and the timeout starts.
StartAnalysis(r) ==
    /\ request[r].step = "TAKEN"
    /\ Goto(r, "ANALYZE")
    /\ UNCHANGED <<interview, rate, flight, samples, spent>>

ProviderAnswers(r) ==
    /\ request[r].step = "ANALYZE"
    /\ request' = [request EXCEPT ![r] = [NewRequest EXCEPT !.step = "STORE"]]
    /\ UNCHANGED <<interview, rate, flight, samples, spent>>

\* An exception, or an answer that StructuredDemeanorEvaluation rejects.
ProviderFails(r) ==
    /\ request[r].step = "ANALYZE"
    /\ Settle(r, "FAILED")
    /\ UNCHANGED <<interview, rate, flight, samples, spent>>

TimesOut(r) ==
    /\ request[r].step = "ANALYZE"
    /\ request[r].age = Timeout
    /\ Settle(r, "UNAVAILABLE")
    /\ UNCHANGED <<interview, rate, flight, samples, spent>>

\* repository.create commits the sample, without another look at the interview.
StoreSample(r) ==
    /\ request[r].step = "STORE"
    /\ samples' = samples \union {r}
    /\ Settle(r, "SAVED")
    /\ UNCHANGED <<interview, rate, flight, spent>>

\* The insert or the commit raises, or the read after the commit does.
StoreError(r) ==
    /\ request[r].step = "STORE"
    /\ Spend("ERROR")
    /\ samples' \in {samples, samples \union {r}}
    /\ Settle(r, "FAILED")
    /\ UNCHANGED <<interview, rate, flight>>

-----------------------------------------------------------------------------
(* _release_request_slot, after a refusal and after an analysis.           *)

\* The requests once r is done and the in-flight key is gone.
Undercut(r) ==
    [q \in Requests |->
        IF q = r THEN [request[q] EXCEPT !.step = "DONE"]
        ELSE IF q = flight.by /\ request[q].step \in {"TAKEN", "ANALYZE"}
        THEN [request[q] EXCEPT !.undercut = TRUE]
        ELSE request[q]]

Release(r) ==
    /\ request[r].step = "RELEASE"
    /\ flight' = NoFlight
    /\ request' = Undercut(r)
    /\ UNCHANGED <<interview, rate, samples, spent>>

\* An error of the DELETE is suppressed; the key may be gone or not.
ReleaseError(r) ==
    /\ request[r].step = "RELEASE"
    /\ Spend("ERROR")
    /\ \/ Goto(r, "DONE") /\ UNCHANGED flight
       \/ request' = Undercut(r) /\ flight' = NoFlight
    /\ UNCHANGED <<interview, rate, samples>>

\* The process dies: nothing is released.
Crash(r) ==
    /\ request[r].step \notin {"IDLE", "DONE"}
    /\ Spend("CRASH")
    /\ request' = [request EXCEPT ![r] = [NewRequest EXCEPT !.step = "DONE"]]
    /\ UNCHANGED <<interview, rate, flight, samples>>

-----------------------------------------------------------------------------

\* The last answer, or the user, ends the interview.
EndInterview ==
    /\ interview = "IN_PROGRESS"
    /\ interview' = "ENDED"
    /\ UNCHANGED <<request, rate, flight, samples, spent>>

Down(n) == IF n = 0 THEN 0 ELSE n - 1

\* Mutant: the in-flight key is set without an expiry.
FlightKept == flight

FlightLater ==
    IF flight.left <= 1 THEN NoFlight ELSE [flight EXCEPT !.left = @ - 1]

\* What a tick makes of one request.
Older(r) ==
    IF request[r].step = "ANALYZE" /\ request[r].age < Timeout
    THEN [request[r] EXCEPT !.age = @ + 1]
    ELSE IF request[r].step \in {"TAKEN", "ANALYZE"} /\ request[r].late < Interval
    THEN [request[r] EXCEPT !.late = @ + 1]
    ELSE request[r]

Tick ==
    /\ rate' = Down(rate)
    /\ flight' = FlightLater
    /\ request' = [r \in Requests |-> Older(r)]
    /\ UNCHANGED <<interview, samples, spent>>

Handler(r) ==
    \/ Begin(r)
    \/ Refuse(r)
    \/ TakeRate(r)
    \/ Limit(r)
    \/ TakeFlight(r)
    \/ Conflict(r)
    \/ StartAnalysis(r)
    \/ ProviderAnswers(r)
    \/ ProviderFails(r)
    \/ TimesOut(r)
    \/ StoreSample(r)
    \/ Release(r)

Fault(r) ==
    \/ RateError(r)
    \/ FlightError(r)
    \/ StoreError(r)
    \/ ReleaseError(r)
    \/ Crash(r)

Next ==
    \/ \E r \in Requests : Handler(r) \/ Fault(r)
    \/ EndInterview
    \/ Tick

Spec == Init /\ [][Next]_vars

\* A request that was received goes on, an analysis ends at or after its timeout,
\* and time passes.
Fairness ==
    /\ \A r \in Requests : WF_vars(request[r].step # "IDLE" /\ Handler(r))
    /\ WF_vars(Tick)

FairSpec == Spec /\ Fairness

-----------------------------------------------------------------------------
(* Properties.                                                             *)

\* Every variable has its type.
TypeOK ==
    /\ interview \in {"IN_PROGRESS", "ENDED"}
    /\ request \in [Requests -> Request]
    /\ rate \in 0 .. Interval
    /\ flight \in [left : 0 .. LockTtl, by : Requests \union {"NONE"}]
    /\ samples \subseteq Requests
    /\ spent \in [{"CRASH", "ERROR"} -> Nat]

\* The lateness that the key has to spare is used up: a reply of Redis or the end
\* of the analysis came later by the whole interval.
TooLate(r) == request[r].late = Interval

\* Two analyses are under way at a time only if one of them has had its key
\* deleted by the release of another request, or is late by the whole interval:
\* up to there the key outlives the longest analysis, and no expiry, failed
\* release or dead process lets a second one in.
OverlapHasCause ==
    \A r, q \in At("ANALYZE") : r # q =>
        \E o \in {r, q} : request[o].undercut \/ TooLate(o)

\* Expected to fail.  A request that comes while an analysis is under way is
\* refused: as long as nothing is late there is one analysis at a time.
DuplicatesAreBlocked ==
    \A r, q \in At("ANALYZE") : r # q => TooLate(r) \/ TooLate(q)

\* Whatever crashes or fails, the slot of the interview comes free again.
SlotComesFree == []<>(flight.left = 0)
=============================================================================
