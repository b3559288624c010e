--------------------------- MODULE CircuitBreaker ---------------------------
(***************************************************************************)
(* The admission control of the HTTP gateway: CircuitBreakerManager        *)
(* (internal/gateway/circuit_breaker.go) as proxyControlMiddleware         *)
(* (gateway.go) drives it for concurrent HTTP calls.  A call adds itself   *)
(* to the in-flight counter and is refused above the limit; it then asks   *)
(* gobreaker's two-step breaker, is served, reports its outcome, latches   *)
(* the first success, and gives its slot back.                             *)
(*                                                                         *)
(* gobreaker is a library: its state machine is modelled from the settings *)
(* NewCircuitBreakerManager gives it.  It counts within a generation; a    *)
(* generation ends when the state changes or when the one-minute interval  *)
(* of the closed state is over, and an outcome that belongs to an earlier  *)
(* generation is ignored.  Both timers are looked at lazily, by the next   *)
(* call, so "expired" says that the timer of the current state has run out *)
(* and nobody has looked yet.                                              *)
(***************************************************************************)
EXTENDS Integers, FiniteSetsExt

CONSTANTS
    Calls,           \* the HTTP calls that may be in progress at one time
    MaxConcurrent,   \* the limit NewCircuitBreakerManager is given
    Trip,            \* ConsecutiveFailures that open the breaker (5)
    MaxFlips,        \* bound: changes of the backend's health
    MaxRollovers     \* bound: ends of the one-minute interval

ASSUME CallsAssumption == IsFiniteSet(Calls)
ASSUME LimitAssumption == MaxConcurrent \in Nat /\ Trip \in Nat \ {0}
ASSUME BoundAssumption == MaxFlips \in Nat /\ MaxRollovers \in Nat

VARIABLES
    call,        \* the calls: where they are and what they came out with
    inflight,    \* the atomic in-flight counter
    cb,          \* the breaker: state, counts of its generation, timer
    sawSuccess,  \* the cold-start latch
    healthy,     \* whether the backend answers
    noise,       \* history: the failures in a row include one that was
                 \* reported before any success was
    first,       \* history: how the first success was reported
    count        \* flips and rollovers so far

vars == <<call, inflight, cb, sawSuccess, healthy, noise, first, count>>

\* halfOpenProbes: a tenth of the limit, at least one.
HalfOpenProbes == Max({1, MaxConcurrent \div 10})

\* maxConcurrent <= 0 is read as 1.
Limit == Max({1, MaxConcurrent})

Idle == [pc |-> "idle", cur |-> FALSE, ok |-> FALSE]

Generation(state) ==
    [state |-> state, requests |-> 0, successes |-> 0, failures |-> 0, expired |-> FALSE]

-----------------------------------------------------------------------------
(* gobreaker *)

\* currentState: a closed breaker whose interval is over starts a new
\* generation, an open one whose timeout is over becomes half-open.
Rolled == cb.expired
Current ==
    IF ~Rolled THEN cb
    ELSE Generation(IF cb.state = "open" THEN "half-open" ELSE "closed")

\* The new generation makes every outcome still to come one of the past.
Outdated == [d \in Calls |-> [call[d] EXCEPT !.cur = FALSE]]

Aged == IF Rolled THEN Outdated ELSE call

\* beforeRequest: nothing while open, a few probes while half-open.
Allowed ==
    /\ Current.state # "open"
    /\ Current.state = "half-open" => Current.requests < HalfOpenProbes

\* onRequest: requests are told apart only up to the number of probes.
Counted == [Current EXCEPT !.requests = Min({@ + 1, HalfOpenProbes})]

\* onSuccess; enough of them in a row close a half-open breaker.
Succeeded ==
    IF Current.state = "half-open" /\ Current.successes + 1 >= HalfOpenProbes
    THEN Generation("closed")
    ELSE [Current EXCEPT !.successes = Min({@ + 1, HalfOpenProbes}), !.failures = 0]

\* ReadyToTrip: nothing trips before the latch; failures are told apart only
\* up to the threshold.
ReadyToTrip(failures) == sawSuccess /\ failures >= Trip

\* onFailure
Failed ==
    LET failures == Min({Current.failures + 1, Trip}) IN
    IF Current.state = "half-open" \/ ReadyToTrip(failures)
    THEN Generation("open")
    ELSE [Current EXCEPT !.failures = failures, !.successes = 0]

\* A state change or a rollover is a new generation.
Renewed(next) == next.state # Current.state

-----------------------------------------------------------------------------
(* Begin: the counter, then the breaker. *)

\* Mutant of Begin: the limit is compared with the counter before the add.
BeginOffByOne(c) ==
    /\ call[c].pc = "idle"
    /\ inflight' = inflight + 1
    /\ call' = [call EXCEPT ![c].pc = IF inflight > Limit THEN "refused" ELSE "counted"]
    /\ UNCHANGED <<cb, sawSuccess, healthy, noise, first, count>>

\* inflight.Add(1) returns the new value; above the limit the call undoes it.
Begin(c) ==
    /\ call[c].pc = "idle"
    /\ inflight' = inflight + 1
    /\ call' = [call EXCEPT ![c].pc = IF inflight + 1 > Limit THEN "refused" ELSE "counted"]
    /\ UNCHANGED <<cb, sawSuccess, healthy, noise, first, count>>

\* The call asks the breaker; Allow may first move the breaker on.
Allow(c) ==
    /\ call[c].pc = "counted"
    /\ IF Allowed
       THEN /\ cb' = Counted
            /\ call' = [Aged EXCEPT ![c] = [pc |-> "serving", cur |-> TRUE, ok |-> FALSE]]
       ELSE /\ cb' = Current
            /\ call' = [Aged EXCEPT ![c].pc = "refused"]
    /\ noise' = (noise /\ ~Rolled)
    /\ UNCHANGED <<inflight, sawSuccess, healthy, first, count>>

\* inflight.Add(-1), and 429 with a Retry-After.
Refuse(c) ==
    /\ call[c].pc = "refused"
    /\ inflight' = inflight - 1
    /\ call' = [call EXCEPT ![c] = Idle]
    /\ UNCHANGED <<cb, sawSuccess, healthy, noise, first, count>>

\* Mutant of Serve: the success is latched before the breaker hears of it.
ServeAndLatch(c) ==
    /\ call[c].pc = "serving"
    /\ \E ok \in (IF healthy THEN {TRUE} ELSE BOOLEAN) :
        /\ call' = [call EXCEPT ![c].pc = "answered", ![c].ok = ok]
        /\ sawSuccess' = (sawSuccess \/ ok)
    /\ UNCHANGED <<inflight, cb, healthy, noise, first, count>>

\* Mutant of Serve: a handler that panics gives its slot back and reports
\* nothing.
ServeAndPanic(c) ==
    /\ call[c].pc = "serving"
    /\ \/ call' = [call EXCEPT ![c].pc = "answered", ![c].ok = TRUE]
       \/ ~healthy /\ call' = [call EXCEPT ![c].pc = "answered"]
       \/ ~healthy /\ call' = [call EXCEPT ![c].pc = "leaving"]
    /\ UNCHANGED <<inflight, cb, sawSuccess, healthy, noise, first, count>>

\* next.ServeHTTP: 502, 503, 504 and a panic are failures, everything else a
\* success; a backend that is down still lets a client error through.
Serve(c) ==
    /\ call[c].pc = "serving"
    /\ \E ok \in (IF healthy THEN {TRUE} ELSE BOOLEAN) :
        call' = [call EXCEPT ![c].pc = "answered", ![c].ok = ok]
    /\ UNCHANGED <<inflight, cb, sawSuccess, healthy, noise, first, count>>

\* done(success): an outcome of the current generation is counted.
Done(c) ==
    /\ call[c].pc = "answered"
    /\ LET counts == call[c].cur /\ ~Rolled
           ok == call[c].ok
           next == IF ~counts THEN Current ELSE IF ok THEN Succeeded ELSE Failed IN
        /\ cb' = next
        /\ call' = [(IF Rolled \/ Renewed(next) THEN Outdated ELSE call)
                     EXCEPT ![c].pc = IF ok THEN "latching" ELSE "leaving"]
        /\ noise' = /\ ~Rolled /\ ~Renewed(next)
                    /\ IF counts THEN ~ok /\ (noise \/ first = "none") ELSE noise
        /\ first' = IF first = "none" /\ ok
                    THEN IF counts THEN "counted" ELSE "ignored"
                    ELSE first
    /\ UNCHANGED <<inflight, sawSuccess, healthy, count>>

\* doneWrapper stores the latch after the breaker's bookkeeping.
Latch(c) ==
    /\ call[c].pc = "latching"
    /\ sawSuccess' = TRUE
    /\ call' = [call EXCEPT ![c].pc = "leaving"]
    /\ UNCHANGED <<inflight, cb, healthy, noise, first, count>>

\* The deferred release.
Release(c) ==
    /\ call[c].pc = "leaving"
    /\ inflight' = inflight - 1
    /\ call' = [call EXCEPT ![c] = Idle]
    /\ UNCHANGED <<cb, sawSuccess, healthy, noise, first, count>>

-----------------------------------------------------------------------------
(* The environment: the breaker's timers and the backend. *)

OpenTimeout ==
    /\ cb.state = "open" /\ ~cb.expired
    /\ cb' = [cb EXCEPT !.expired = TRUE]
    /\ UNCHANGED <<call, inflight, sawSuccess, healthy, noise, first, count>>

IntervalEnds ==
    /\ cb.state = "closed" /\ ~cb.expired
    /\ count.rollovers < MaxRollovers
    /\ count' = [count EXCEPT !.rollovers = @ + 1]
    /\ cb' = [cb EXCEPT !.expired = TRUE]
    /\ UNCHANGED <<call, inflight, sawSuccess, healthy, noise, first>>

BackendChanges ==
    /\ count.flips < MaxFlips
    /\ count' = [count EXCEPT !.flips = @ + 1]
    /\ healthy' = ~healthy
    /\ UNCHANGED <<call, inflight, cb, sawSuccess, noise, first>>

\* NewCircuitBreakerManager; the backend may still be dialling.
Init ==
    /\ call = [c \in Calls |-> Idle]
    /\ inflight = 0
    /\ cb = Generation("closed")
    /\ sawSuccess = FALSE
    /\ healthy \in BOOLEAN
    /\ noise = FALSE
    /\ first = "none"
    /\ count = [flips |-> 0, rollovers |-> 0]

CallStep(c) ==
    \/ Begin(c)
    \/ Allow(c)
    \/ Refuse(c)
    \/ Serve(c)
    \/ Done(c)
    \/ Latch(c)
    \/ Release(c)

Next ==
    \/ \E c \in Calls : CallStep(c)
    \/ OpenTimeout
    \/ IntervalEnds
    \/ BackendChanges

Spec == Init /\ [][Next]_vars

\* A call in progress goes on (goroutines are scheduled, and unaryDeadline
\* bounds how long a call is served), new calls keep coming, and time passes.
\* The backend's health and the interval are under no fairness.
FairSpec ==
    /\ Spec
    /\ \A c \in Calls : WF_vars(CallStep(c))
    /\ WF_vars(OpenTimeout)

-----------------------------------------------------------------------------
(* Properties *)

\* The calls that have added themselves to the counter.
Busy == {c \in Calls : call[c].pc # "idle"}

\* The calls that were let past the counter.
Admitted == {c \in Calls : call[c].pc \notin {"idle", "refused"}}

\* The counter is neither leaked nor given back twice on any path through the
\* middleware: it is the number of calls that have added themselves and not
\* yet left, and of those at most the limit are past Begin's comparison,
\* whatever refused calls are still counted in between (gateway.go,
\* `defer release()`, and the two refusals of Begin).
SlotsAccountedFor ==
    /\ inflight = Cardinality(Busy)
    /\ Cardinality(Admitted) <= Limit

\* "startup failures before any success ... must not open the breaker": no
\* failure reported before the first success is among those in a row that
\* open it.  The one way in is a first success of an earlier generation: it
\* is ignored by the breaker's counters but latches all the same, so the
\* failures before it still count.
ColdStartNeverTrips ==
    [][cb.state = "closed" /\ cb'.state = "open" => ~noise \/ first = "ignored"]_vars

\* Once the backend stays healthy the breaker closes for good, from every
\* state: no half-open probe is lost and no slot stays taken.  A call that is
\* refused is counted for a moment all the same, and calls whose moments
\* overlap for ever could refuse one another with nothing in flight; the
\* property is about traffic that leaves a gap now and then.
Recovers ==
    /\ <>[]healthy
    /\ []<>(\A c \in Calls : call[c].pc # "refused")
    => <>[](cb.state = "closed")
=============================================================================
