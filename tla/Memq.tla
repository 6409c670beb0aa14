-------------------------------- MODULE Memq --------------------------------
(***************************************************************************)
(* The in-memory queue driver (internal/queue/memq.go): a buffered channel, *)
(* a pool of workers, one goroutine per delayed retry, a states map for the *)
(* dashboard and a pending counter for the autoscaler.                      *)
(*                                                                          *)
(* A channel operation, an atomic add and a call of setState (which holds   *)
(* the mutex) are one step each; callers of Enqueue, workers, retry timers  *)
(* and Close interleave between them.                                       *)
(***************************************************************************)
EXTENDS Integers, FiniteSets, Sequences, SequencesExt

CONSTANTS
    Jobs,                \* the jobs the intake will enqueue, once each
    Workers,             \* cfg.Workers goroutines
    Buffers,             \* what cfg.Buffer may be
    MaxRetries,          \* cfg.MaxRetries
    DeadLetterMax,       \* cfg.DeadLetterMax
    MaxFinished,         \* maxFinishedStates
    Retrying             \* bound: the jobs whose handler may ask for a retry

ASSUME MemqAssumption ==
    /\ "none" \notin Jobs   \* an idle worker has no job
    /\ Buffers \subseteq Nat \ {0}
    /\ Retrying \subseteq Jobs
    /\ MaxRetries \in Nat
    /\ DeadLetterMax \in Nat \ {0}
    /\ MaxFinished \in Nat \ {0}

VARIABLES
    buffer,    \* cfg.Buffer, the capacity of the channel
    jobs,      \* the channel
    stop,      \* the stop channel is closed (and q.closed set)
    pending,   \* the atomic counter behind QueueDepth
    states,    \* job -> what the dashboard shows, "none" if no entry
    finished,  \* FIFO of the ids that reached a terminal state
    caller,    \* progress of each job's Enqueue
    pc, held,  \* the workers
    timers,    \* the retry goroutines
    closer,    \* progress of Close
    dlq,       \* MemDLQ: the entries, in order
    (* history, read by the properties only *)
    arrivals, taken, acked, warned, late

view    == <<states, finished>>
workers == <<pc, held>>
history == <<arrivals, taken, acked, warned, late>>
vars    == <<buffer, jobs, stop, pending, view, caller, workers, timers, closer, dlq, history>>

QueuedJobs == [job : Jobs, attempts : 0..MaxRetries]
Idle == [job |-> "none", attempts |-> 0]

isTerminalState(s) == s \in {"done", "dead"}

\* The states map once the finished FIFO has let its oldest id go.
AgeOut(st, id) == IF isTerminalState(st[id]) THEN [st EXCEPT ![id] = "none"] ELSE st

setState(id, s) ==
    LET put == [states EXCEPT ![id] = s]
        fin == Append(finished, id)
    IN  IF ~isTerminalState(s) \/ isTerminalState(states[id])
        THEN states' = put /\ UNCHANGED finished
        ELSE IF Len(fin) > MaxFinished
             THEN states' = AgeOut(put, Head(fin)) /\ finished' = Tail(fin)
             ELSE states' = put /\ finished' = fin

Init ==
    /\ buffer \in Buffers
    /\ jobs = <<>> /\ stop = FALSE /\ pending = 0
    /\ states = [j \in Jobs |-> "none"] /\ finished = <<>>
    /\ caller = [j \in Jobs |-> "new"]
    /\ pc = [w \in Workers |-> "select"] /\ held = [w \in Workers |-> Idle]
    /\ timers = {}
    /\ closer = "open"
    /\ dlq = <<>>
    /\ arrivals = <<>> /\ taken = {} /\ acked = {} /\ warned = {} /\ late = {}

-----------------------------------------------------------------------------
(* Enqueue: the closed flag and the depth are read, then the channel is     *)
(* tried without blocking, and only then are the job counted and shown.     *)

EnqueueCheck(j) ==
    /\ caller[j] = "new"
    /\ caller' = [caller EXCEPT ![j] = IF stop \/ Len(dlq) >= DeadLetterMax
                                       THEN "rejected" ELSE "checked"]
    /\ UNCHANGED <<buffer, jobs, stop, pending, view, workers, timers, closer, dlq,
                   history>>

\* A send puts the job behind everything that is buffered.
SentFirst(q, x) == <<x>> \o q
Sent(q, x) == Append(q, x)

EnqueueSend(j) ==
    /\ caller[j] = "checked"
    /\ IF Len(jobs) < buffer
       THEN /\ jobs' = Sent(jobs, [job |-> j, attempts |-> 0])
            /\ arrivals' = Append(arrivals, j)
            /\ caller' = [caller EXCEPT ![j] = "sent"]
       ELSE /\ caller' = [caller EXCEPT ![j] = "rejected"]
            /\ UNCHANGED <<jobs, arrivals>>
    /\ UNCHANGED <<buffer, stop, pending, view, workers, timers, closer, dlq, taken,
                   acked, warned, late>>

EnqueueCount(j) ==
    /\ caller[j] = "sent"
    /\ pending' = pending + 1
    /\ caller' = [caller EXCEPT ![j] = "counted"]
    /\ UNCHANGED <<buffer, jobs, stop, view, workers, timers, closer, dlq, history>>

EnqueueShow(j) ==
    /\ caller[j] = "counted"
    /\ setState(j, "queued")
    /\ caller' = [caller EXCEPT ![j] = "accepted"]
    /\ UNCHANGED <<buffer, jobs, stop, pending, workers, timers, closer, dlq, history>>

-----------------------------------------------------------------------------
(* worker and process                                                       *)

\* The select of worker: with several ready Go picks any, so a worker that is
\* told to stop may still take a job.
Receive(w) ==
    /\ pc[w] = "select"
    /\ jobs # <<>>
    /\ held' = [held EXCEPT ![w] = Head(jobs)]
    /\ jobs' = Tail(jobs)
    /\ taken' = taken \cup {Head(jobs).job}
    /\ pc' = [pc EXCEPT ![w] = "count"]
    /\ UNCHANGED <<buffer, stop, pending, view, caller, timers, closer, dlq, arrivals,
                   acked, warned, late>>

\* Start's context is cancelled, which serve does long before Close, or stop
\* is closed.
Quit(w) ==
    /\ pc[w] = "select"
    /\ closer # "open"
    /\ pc' = [pc EXCEPT ![w] = "gone"]
    /\ UNCHANGED <<buffer, jobs, stop, pending, view, caller, held, timers, closer, dlq,
                   history>>

NotUncounted == pending
Uncounted == pending - 1

CountDown(w) ==
    /\ pc[w] = "count"
    /\ pending' = Uncounted
    /\ pc' = [pc EXCEPT ![w] = "show"]
    /\ UNCHANGED <<buffer, jobs, stop, view, caller, held, timers, closer, dlq, history>>

ShowRunning(w) ==
    /\ pc[w] = "show"
    /\ setState(held[w].job, "running")
    /\ pc' = [pc EXCEPT ![w] = "handle"]
    /\ UNCHANGED <<buffer, jobs, stop, pending, caller, held, timers, closer, dlq, history>>

\* qj.attempts++ and the comparison with cfg.MaxRetries.
MayRetryOneMore(x) == x.attempts <= MaxRetries
MayRetry(x) == x.attempts + 1 <= MaxRetries

\* runHandler returns d; a panic is a DeadLetter.
Handle(w, d) ==
    /\ pc[w] = "handle"
    /\ d = "Retry" => held[w].job \in Retrying
    /\ pc' = [pc EXCEPT ![w] = CASE d = "Ack" -> "done"
                                 [] d = "Retry" /\ MayRetry(held[w]) -> "retrying"
                                 [] OTHER -> "dead"]
    /\ acked' = IF d = "Ack" THEN acked \cup {held[w].job} ELSE acked
    /\ UNCHANGED <<buffer, jobs, stop, pending, view, caller, held, timers, closer, dlq,
                   arrivals, taken, warned, late>>

\* The setState of each of the three outcomes, named as the state it shows.
ShowOutcome(w) ==
    /\ pc[w] \in {"done", "retrying", "dead"}
    /\ setState(held[w].job, pc[w])
    /\ pc' = [pc EXCEPT ![w] = CASE pc[w] = "done" -> "select"
                                 [] pc[w] = "retrying" -> "spawn"
                                 [] OTHER -> "bury"]
    /\ held' = IF pc[w] = "done" THEN [held EXCEPT ![w] = Idle] ELSE held
    /\ UNCHANGED <<buffer, jobs, stop, pending, caller, timers, closer, dlq, history>>

\* The job as the retry carries it, its completed run counted.
Uncharged(x) == x
Charged(x) == [x EXCEPT !.attempts = @ + 1]

\* scheduleRetry: count the retry and start its goroutine.
SpawnTimer(w) ==
    /\ pc[w] = "spawn"
    /\ pending' = pending + 1
    /\ timers' = timers \cup {[qj |-> Charged(held[w]), at |-> "wait"]}
    /\ pc' = [pc EXCEPT ![w] = "select"]
    /\ held' = [held EXCEPT ![w] = Idle]
    /\ UNCHANGED <<buffer, jobs, stop, view, caller, closer, dlq, history>>

\* deadLetter: MemDLQ.Write appends the entry and never fails.
NotWritten(d, j) == d
Write(d, j) == Append(d, j)

Bury(w) ==
    /\ pc[w] = "bury"
    /\ dlq' = Write(dlq, held[w].job)
    /\ pc' = [pc EXCEPT ![w] = "select"]
    /\ held' = [held EXCEPT ![w] = Idle]
    /\ UNCHANGED <<buffer, jobs, stop, pending, view, caller, timers, closer, history>>

-----------------------------------------------------------------------------
(* The goroutine of a delayed retry                                         *)

TimerFires(t) ==
    /\ t.at = "wait"
    /\ timers' = (timers \ {t}) \cup {[t EXCEPT !.at = "send"]}
    /\ UNCHANGED <<buffer, jobs, stop, pending, view, caller, workers, closer, dlq,
                   history>>

TimerSends(t) ==
    /\ t.at = "send"
    /\ Len(jobs) < buffer
    /\ jobs' = Sent(jobs, t.qj)
    /\ timers' = (timers \ {t}) \cup {[t EXCEPT !.at = "sent"]}
    /\ UNCHANGED <<buffer, stop, pending, view, caller, workers, closer, dlq, history>>

TimerShows(t) ==
    /\ t.at = "sent"
    /\ setState(t.qj.job, "queued")
    /\ timers' = timers \ {t}
    /\ UNCHANGED <<buffer, jobs, stop, pending, caller, workers, closer, dlq, history>>

\* Abandoned, with a WARN, in either of the two selects.
TimerAbandons(t) ==
    /\ t.at \in {"wait", "send"}
    /\ stop
    /\ pending' = pending - 1
    /\ warned' = warned \cup {t.qj.job}
    /\ timers' = timers \ {t}
    /\ UNCHANGED <<buffer, jobs, stop, view, caller, workers, closer, dlq, arrivals,
                   taken, acked, late>>

-----------------------------------------------------------------------------
(* Close.  serve is cancelled, and the workers with it; it then shuts the   *)
(* intake down, which takes jobs until then and waits for the requests      *)
(* in progress only as long as its own time limit allows: an Enqueue may    *)
(* still be past its check of the closed flag when Close begins, or ends.   *)

Cancel ==
    /\ closer = "open"
    /\ closer' = "cancelled"
    /\ UNCHANGED <<buffer, jobs, stop, pending, view, caller, workers, timers, dlq,
                   history>>

CloseStop ==
    /\ closer = "cancelled"
    /\ stop' = TRUE
    /\ closer' = "wait"
    /\ UNCHANGED <<buffer, jobs, pending, view, caller, workers, timers, dlq, history>>

\* workers.Wait and timers.Wait return, or the drain budget is spent: with
\* both ways out the wait may end in any state.
CloseWaited ==
    /\ closer = "wait"
    /\ closer' = "drain"
    /\ UNCHANGED <<buffer, jobs, stop, pending, view, caller, workers, timers, dlq,
                   history>>

\* One turn of the final loop: a buffered job is taken out, uncounted and
\* reported as lost, or the channel is empty and Close returns.
DrainOne ==
    /\ closer = "drain" /\ jobs # <<>>
    /\ jobs' = Tail(jobs)
    /\ pending' = pending - 1
    /\ warned' = warned \cup {Head(jobs).job}
    /\ UNCHANGED <<buffer, stop, view, caller, workers, timers, closer, dlq, arrivals,
                   taken, acked, late>>

\* What a goroutine has in its hands when Close returns.
StillHeld ==
    {j \in Jobs : caller[j] = "checked"}
    \cup {held[w].job : w \in {w \in Workers : held[w] # Idle}}
    \cup {t.qj.job : t \in timers}

\* The default case of the final loop.
AtOnce == TRUE
Emptied == jobs = <<>>

CloseReturn ==
    /\ closer = "drain" /\ Emptied
    /\ closer' = "closed"
    /\ late' = StillHeld
    /\ UNCHANGED <<buffer, jobs, stop, pending, view, caller, workers, timers, dlq,
                   arrivals, taken, acked, warned>>

-----------------------------------------------------------------------------
Dispositions == {"Ack", "Retry", "DeadLetter"}

Enqueue(j) == EnqueueCheck(j) \/ EnqueueSend(j) \/ EnqueueCount(j) \/ EnqueueShow(j)

Worker(w) ==
    \/ Receive(w) \/ Quit(w) \/ CountDown(w) \/ ShowRunning(w)
    \/ \E d \in Dispositions : Handle(w, d)
    \/ ShowOutcome(w) \/ SpawnTimer(w) \/ Bury(w)

Timer(t) == TimerFires(t) \/ TimerSends(t) \/ TimerShows(t) \/ TimerAbandons(t)

Close == Cancel \/ CloseStop \/ CloseWaited \/ DrainOne \/ CloseReturn

Next ==
    \/ \E j \in Jobs : Enqueue(j)
    \/ \E w \in Workers : Worker(w)
    \/ \E t \in timers : Timer(t)
    \/ Close

Spec == Init /\ [][Next]_vars

-----------------------------------------------------------------------------
(* Properties                                                               *)

\* The type of every variable.
TypeOK ==
    /\ buffer \in Buffers
    /\ jobs \in Seq(QueuedJobs) /\ Len(jobs) <= buffer
    /\ stop \in BOOLEAN
    /\ pending \in Int
    /\ states \in [Jobs -> {"none", "queued", "running", "retrying", "done", "dead"}]
    /\ finished \in Seq(Jobs) /\ Len(finished) <= MaxFinished
    /\ caller \in [Jobs -> {"new", "checked", "sent", "counted", "accepted", "rejected"}]
    /\ pc \in [Workers -> {"select", "count", "show", "handle", "done", "retrying",
                           "spawn", "dead", "bury", "gone"}]
    /\ held \in [Workers -> QueuedJobs \cup {Idle}]
    /\ timers \subseteq [qj : QueuedJobs, at : {"wait", "send", "sent"}]
    /\ closer \in {"open", "cancelled", "wait", "drain", "closed"}
    /\ dlq \in Seq(Jobs)
    /\ arrivals \in Seq(Jobs)
    /\ {taken, acked, warned, late} \subseteq SUBSET Jobs

\* Job j is somewhere from where a worker can still get it, or in a worker.
InFlight(j) ==
    \/ \E k \in DOMAIN jobs : jobs[k].job = j
    \/ \E w \in Workers : held[w].job = j
    \/ \E t \in timers : t.qj.job = j /\ t.at # "sent"

Accepted(j) == caller[j] \in {"sent", "counted", "accepted"}

-----------------------------------------------------------------------------
(* The contract of queue.go, as this driver keeps it.                       *)

Fate(j) ==
    IF j \in acked \/ (\E k \in DOMAIN dlq : dlq[k] = j) THEN "settled"
    ELSE IF j \in warned THEN "reported"
    ELSE IF InFlight(j) THEN "owed" ELSE "outside"

\* The workers that have job j, until its outcome is on record.
Hands(j) == {w \in Workers : held[w].job = j /\ pc[w] # "done"}

\* The attempts on the payloads of job j.
Counts(j) ==
    {jobs[k].attempts : k \in {k \in DOMAIN jobs : jobs[k].job = j}}
    \cup {held[w].attempts : w \in Hands(j)}
    \cup {t.qj.attempts : t \in {t \in timers : t.qj.job = j /\ t.at # "sent"}}

Contract == INSTANCE JobQueue WITH
    Slots      <- Workers,
    Redelivers <- FALSE,
    fate       <- [j \in Jobs |-> Fate(j)],
    tries      <- [j \in Jobs |-> IF Fate(j) = "owed" THEN Max(Counts(j)) ELSE 0],
    hands      <- [j \in Jobs |-> Hands(j)],
    closing    <- stop

\* Memq implements the contract of a queue that is not durable: it runs a
\* job once per attempt and in one worker at a time, "a dead-lettered job is
\* never silently dropped", an outcome is final, and what Close gives up is
\* "logged at WARN" and "never acked-done".
ImplementsQueue == Contract!Spec

\* Once Close has returned and the workers are gone nobody takes a job from
\* the channel any more.  Close has reported every job it found there: only
\* one that a goroutine had in its hands when Close gave up waiting may have
\* come in after it.
NothingLeftBehind ==
    closer = "closed" /\ (\A w \in Workers : pc[w] = "gone") =>
        \A k \in DOMAIN jobs : jobs[k].job \in late

\* "FIFO is a property of the queue: dequeue order = enqueue order", with
\* retries coming back, and Close taking jobs out, in between.
FirstClaimsInOrder ==
    \A a, b \in DOMAIN arrivals :
        a < b /\ arrivals[b] \in taken => arrivals[a] \in taken \cup warned

\* No goroutine is between a channel operation and the matching bookkeeping.
AtRest ==
    /\ \A j \in Jobs : caller[j] \in {"new", "accepted", "rejected"}
    /\ \A w \in Workers : pc[w] \in {"select", "handle", "gone"}
    /\ \A t \in timers : t.at # "sent"

\* QueueDepth, the autoscaling signal, is "buffered + scheduled-for-retry"
\* whenever nobody is in the middle of an operation: no path forgets to
\* count, or counts twice.  And "in-flight jobs (queued|running|retrying) are
\* always retained" in the dashboard's map, however many finished ones age
\* out of it meanwhile.
ReportsExact ==
    AtRest =>
        /\ pending = Len(jobs) + Cardinality(timers)
        /\ \A j \in Jobs : Accepted(j) /\ InFlight(j) => states[j] # "none"

-----------------------------------------------------------------------------
(* A statement of a comment that this code does not keep; no configuration  *)
(* checks it, the README tells how it fails.                                *)

\* "Only finished ones age out", to at most maxFinishedStates: at rest no
\* more jobs than that are finished and still in the map.
FinishedAgeOut ==
    AtRest => Cardinality({j \in Jobs : Accepted(j) /\ ~InFlight(j) /\ states[j] # "none"})
                 <= MaxFinished

-----------------------------------------------------------------------------
(* Progress: every goroutine that can take a step eventually does, and a    *)
(* handler returns because of JobTimeout.  Timers only have so many steps,  *)
(* so it is enough that one of them moves.  Nothing forces an Enqueue, also *)
(* not its bookkeeping after the send, or the cancellation that serve       *)
(* answers with a Close.                                                    *)
Fairness ==
    /\ \A w \in Workers : WF_vars(Worker(w))
    /\ WF_vars(\E t \in timers : Timer(t))
    /\ WF_vars(CloseStop \/ CloseWaited \/ DrainOne \/ CloseReturn)

FairSpec == Spec /\ Fairness

\* Every accepted job is eventually acked, dead-lettered or reported lost,
\* also when its retry meets a full channel, and also when Close gives up
\* waiting, except for the jobs in the hands of a goroutine at that moment.
EventuallySettled ==
    <>[](\A j \in Jobs : Accepted(j) => Fate(j) \in {"settled", "reported"} \/ j \in late)
=============================================================================
