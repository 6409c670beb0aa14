---------------------------- MODULE Backpressure ----------------------------
(***************************************************************************)
(* The surge and outage policy of observe.Backpressure, in the loop it is   *)
(* part of: POST /jobs asks whether the intake is ready, accepted jobs are  *)
(* worked on, and every outcome is recorded.  The loop is closed: what is   *)
(* recorded depends on what was accepted.                                   *)
(*                                                                          *)
(* Other replicas that share the queue run the same intake in front of the  *)
(* same provider.  Of their gates only whether one is open is kept: it may  *)
(* close when a job fails there and open when one succeeds.                 *)
(*                                                                          *)
(* Time is the age of the recorded outcomes, up to the window.  The two     *)
(* counters of consecutive outcomes stop at the number they are compared    *)
(* with.                                                                    *)
(***************************************************************************)
EXTENDS Naturals, Sequences

CONSTANTS
    N,            \* backpressure.consecutive_errors; zero acts as one
    M,            \* backpressure.recovery_successes; zero acts as one
    RatePct,      \* backpressure.error_rate_pct
    Window,       \* backpressure.window, in ticks
    MinSamples,   \* minWindowSamples
    Workers,      \* queue.workers
    QueueCap,     \* queue.buffer
    Clients,      \* concurrent requests
    Shared,       \* other replicas feed the same queue and work on it
    MaxOutages,   \* bound: outages of the provider
    MaxBad,       \* bound: jobs that fail although the provider is healthy
    MaxRetrying,  \* bound: jobs that wait for their retry
    MaxOutcomes   \* bound: outcomes within one window

ASSUME BackpressureAssumption ==
    /\ {N, M, Window, MinSamples, Workers, QueueCap, Clients, MaxOutcomes} \subseteq Nat \ {0}
    /\ RatePct \in Nat
    /\ Shared \in BOOLEAN
    /\ MaxOutages \in Nat /\ MaxBad \in Nat /\ MaxRetrying \in Nat

VARIABLES
    consecErr, consecOK, tripped, outcomes,  \* Backpressure
    paused,                                  \* intakeSwitch
    asking,                                  \* requests that were let through the gate
    queued, running, retrying,               \* jobs in the queue, with a worker, delayed
    othersReady,                             \* the gate of another replica is open
    healthy,                                 \* the provider answers
    hist,                                    \* history: the last outcomes
    sinceFlip,                               \* history: outcomes since tripped changed
    outages, bad

gate == <<consecErr, consecOK, tripped, outcomes, hist, sinceFlip>>
jobs == <<asking, queued, running, retrying>>
vars == <<gate, paused, jobs, othersReady, healthy, outages, bad>>

Least(a, b) == IF a <= b THEN a ELSE b
Most(a, b) == IF a >= b THEN a ELSE b

Init ==
    /\ consecErr = 0 /\ consecOK = 0 /\ tripped = FALSE /\ outcomes = <<>>
    /\ paused = FALSE /\ asking = 0 /\ queued = 0 /\ running = 0 /\ retrying = 0
    /\ othersReady = Shared /\ healthy = TRUE
    /\ hist = <<>> /\ sinceFlip = 0
    /\ outages = 0 /\ bad = 0

-----------------------------------------------------------------------------
(* Backpressure.Record                                                      *)

InWindow(o) == o.age < Window

\* Oldest first: everything before the first outcome in the window goes.
First(os) ==
    CHOOSE k \in DOMAIN os : InWindow(os[k]) /\ \A l \in 1..(k - 1) : ~InWindow(os[l])
prune(os) ==
    IF \E k \in DOMAIN os : InWindow(os[k]) THEN SubSeq(os, First(os), Len(os)) ELSE <<>>

Fails(o) == ~o.ok
RateReached(os) ==
    LET errs == Len(SelectSeq(os, Fails))
    IN  Len(os) >= MinSamples /\ errs * 100 >= RatePct * Len(os)

\* What a restore leaves of the window.
KeptOutcomes(os) == os
Forgotten(os) == <<>>

ErrorsExceed(c) == c > N
ErrorsReach(c) == c >= N

Last(s, n) == IF Len(s) <= n THEN s ELSE SubSeq(s, Len(s) - n + 1, Len(s))

SuccessIgnored(os) ==
    IF tripped THEN outcomes' = os /\ UNCHANGED <<consecOK, consecErr, tripped>>
    ELSE /\ consecErr' = 0 /\ outcomes' = os
         /\ UNCHANGED <<consecOK, tripped>>

Succeeded(os) ==
    /\ consecOK' = Least(consecOK + 1, M)
    /\ consecErr' = 0
    /\ IF tripped /\ consecOK' >= M
       THEN tripped' = FALSE /\ outcomes' = Forgotten(os)
       ELSE tripped' = tripped /\ outcomes' = os

Failed(os) ==
    /\ consecErr' = Least(consecErr + 1, N)
    /\ consecOK' = 0
    /\ tripped' = (tripped \/ ErrorsReach(consecErr') \/ RateReached(os))
    /\ outcomes' = os

Record(success) ==
    /\ LET os == prune(Append(outcomes, [age |-> 0, ok |-> success]))
       IN  IF success THEN Succeeded(os) ELSE Failed(os)
    /\ hist' = Last(Append(hist, success), Most(M, N))
    /\ sinceFlip' = IF tripped' # tripped THEN 0 ELSE Least(sinceFlip + 1, Most(M, N) + MinSamples)

-----------------------------------------------------------------------------
(* The intake                                                               *)

Ready == ~tripped

\* POST /jobs passes the gate; its job is in the queue only later.
Ask ==
    /\ Ready /\ ~paused
    /\ asking < Clients
    /\ asking' = asking + 1
    /\ UNCHANGED <<gate, paused, queued, running, retrying, othersReady, healthy, outages, bad>>

\* Enqueue accepts it, or the queue is full and the client is told.
Submit ==
    /\ asking > 0
    /\ asking' = asking - 1
    /\ queued' = Least(queued + 1, QueueCap)
    /\ UNCHANGED <<gate, paused, running, retrying, othersReady, healthy, outages, bad>>

\* A job of another replica's intake, which has passed the gate there.
SubmittedElsewhere ==
    /\ othersReady
    /\ queued < QueueCap
    /\ queued' = queued + 1
    /\ UNCHANGED <<gate, paused, asking, running, retrying, othersReady, healthy, outages, bad>>

PauseIntake ==
    /\ paused' = TRUE
    /\ UNCHANGED <<gate, jobs, othersReady, healthy, outages, bad>>

ResumeIntake ==
    /\ paused' = FALSE
    /\ UNCHANGED <<gate, jobs, othersReady, healthy, outages, bad>>

-----------------------------------------------------------------------------
(* The workers                                                              *)

Dispositions == {"Ack", "Retry", "DeadLetter"}

FreeWorker == running < Workers

Take ==
    /\ queued > 0 /\ FreeWorker
    /\ queued' = queued - 1
    /\ running' = running + 1
    /\ UNCHANGED <<gate, paused, asking, retrying, othersReady, healthy, outages, bad>>

RoomInWindow == Len(prune(outcomes)) < MaxOutcomes

\* A job that fails: at once in an outage, now and then without one.
Trouble == IF healthy THEN bad < MaxBad /\ bad' = bad + 1 ELSE UNCHANGED bad

\* The handler records every disposition; only an ack is a success.  A retry
\* leaves the worker and waits.
Finish(disp) ==
    /\ running > 0
    /\ RoomInWindow
    /\ IF disp = "Ack" THEN healthy /\ UNCHANGED bad ELSE Trouble
    /\ Record(disp = "Ack")
    /\ running' = running - 1
    /\ IF disp = "Retry" THEN retrying < MaxRetrying /\ retrying' = retrying + 1
       ELSE UNCHANGED retrying
    /\ UNCHANGED <<paused, asking, queued, othersReady, healthy, outages>>

\* Another replica takes a job and records its outcome: its gate may close on a
\* failure, and open on a success only.
HandledElsewhere(disp) ==
    /\ Shared
    /\ queued > 0
    /\ queued' = queued - 1
    /\ IF disp = "Ack" THEN healthy /\ UNCHANGED bad ELSE Trouble
    /\ othersReady' \in {othersReady, disp = "Ack"}
    /\ IF disp = "Retry" THEN retrying < MaxRetrying /\ retrying' = retrying + 1
       ELSE UNCHANGED retrying
    /\ UNCHANGED <<gate, paused, asking, running, healthy, outages>>

\* A panic is recovered outside the handler: dead-lettered, nothing recorded.
Panic ==
    /\ running > 0
    /\ Trouble
    /\ running' = running - 1
    /\ UNCHANGED <<gate, paused, asking, queued, retrying, othersReady, healthy, outages>>

\* The delay of a retry is over and the queue has room for it.
RetryDue ==
    /\ retrying > 0 /\ queued < QueueCap
    /\ retrying' = retrying - 1
    /\ queued' = queued + 1
    /\ UNCHANGED <<gate, paused, asking, running, othersReady, healthy, outages, bad>>

-----------------------------------------------------------------------------
(* The environment                                                          *)

Outage ==
    /\ healthy /\ outages < MaxOutages
    /\ healthy' = FALSE
    /\ outages' = outages + 1
    /\ UNCHANGED <<gate, paused, jobs, othersReady, bad>>

Recovery ==
    /\ ~healthy
    /\ healthy' = TRUE
    /\ UNCHANGED <<gate, paused, jobs, othersReady, outages, bad>>

Tick ==
    /\ outcomes' = [k \in DOMAIN outcomes |->
                       [outcomes[k] EXCEPT !.age = Least(@ + 1, Window)]]
    /\ UNCHANGED <<consecErr, consecOK, tripped, hist, sinceFlip, paused, jobs, othersReady,
                   healthy, outages, bad>>

Next ==
    \/ Ask \/ Submit \/ SubmittedElsewhere \/ PauseIntake \/ ResumeIntake
    \/ Take \/ \E disp \in Dispositions : Finish(disp) \/ HandledElsewhere(disp)
    \/ Panic \/ RetryDue
    \/ Outage \/ Recovery \/ Tick

Spec == Init /\ [][Next]_vars

-----------------------------------------------------------------------------
(* Properties                                                               *)

AllLast(n, b) == Len(hist) >= n /\ \A k \in Len(hist) - n + 1..Len(hist) : hist[k] = b

\* "on sustained provider failure (>= N consecutive errors ...) readiness
\* flips not-ready", "Readiness restores only after M consecutive successes":
\* whatever came before, N failures in a row have closed the intake and M
\* successes in a row have opened it.
GateFollowsOutcomes ==
    /\ AllLast(N, FALSE) => tripped
    /\ AllLast(M, TRUE) => ~tripped

\* "a flapping provider must not flap readiness": the gate opens no sooner
\* than M outcomes after it closed, and closes no sooner than N or
\* minWindowSamples outcomes after it opened.
NoFlapping ==
    [][tripped' # tripped =>
          sinceFlip + 1 >= IF tripped THEN M ELSE Least(N, MinSamples)]_vars

-----------------------------------------------------------------------------
(* Progress: workers, requests and the clock go on, and clients try again at  *)
(* every intake that is open.  Outages and bad jobs are bounded.  That other *)
(* replicas take jobs is not assumed.                                       *)
Fairness ==
    /\ WF_vars(Ask) /\ WF_vars(Submit) /\ WF_vars(SubmittedElsewhere)
    /\ WF_vars(Take) /\ WF_vars(\E disp \in Dispositions : Finish(disp))
    /\ WF_vars(RetryDue) /\ WF_vars(Tick) /\ WF_vars(Recovery)

FairSpec == Spec /\ Fairness

\* All gates are closed and no job is left whose outcome could open one.
Standstill ==
    /\ ~Ready /\ ~othersReady
    /\ asking = 0 /\ queued = 0 /\ running = 0 /\ retrying = 0

\* Other replicas take all the jobs.
Outrun == []<><<\E disp \in Dispositions : HandledElsewhere(disp)>>_vars /\ <>[](running = 0)

\* "Readiness restores only after M consecutive successes": when the provider is
\* healthy for good, the gate opens again and again, or the fleet has come to a
\* standstill, or no job comes here any more because others take them.  Nothing
\* else keeps the gate closed: not the failures of the outage in the window, not
\* a stray failure, not the retries that come late.
ReopensUnlessStuck ==
    <>[]healthy => []<>Ready \/ <>[]Standstill \/ Outrun

-----------------------------------------------------------------------------
(* A statement of a document the code does not keep (a run shows how).      *)

\* A 503 is a signal to retry: when the provider is healthy again, the gate
\* does not stay closed for good.
GateReopens == <>[]healthy => []<>Ready
=============================================================================
