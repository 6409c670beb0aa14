------------------------------- MODULE Server -------------------------------
(***************************************************************************)
(* The server from boot to shutdown: POST /jobs, the worker handler around  *)
(* ProcessJob, the result store behind the read side (an LRU list with a    *)
(* time to live), and the shutdown that stops the intake, drains the queue  *)
(* and closes what boot has opened.                                         *)
(*                                                                          *)
(* The queue is what its drivers promise (Memq, Redisq): it accepts, gives  *)
(* a job out one or more times, and settles it by the disposition.  When    *)
(* the gate is shut (Backpressure) a request is refused.  The override that *)
(* skips empty videos (Pipeline, Delivery) is off.                          *)
(***************************************************************************)
EXTENDS Boot

CONSTANTS
    MaxJobs,     \* submissions
    Requests,    \* bodies of POST /jobs
    MaxRequests, \* bound: requests in progress at a time
    MaxActive,   \* queue.workers
    MaxEntries,  \* intake.result_api.max_entries
    Repeated     \* bound: the jobs the queue may give out another time, once

\* Ids are the nanosecond clock: in the order of submission.
Jobs == 1..MaxJobs

ASSUME ServerAssumption ==
    /\ MaxJobs \in Nat
    /\ {MaxActive, MaxRequests, MaxEntries} \subseteq Nat \ {0}
    /\ Repeated \subseteq Jobs
    /\ \E c \in Configs : Accepted(c)

VARIABLES
    has,        \* the parts this server has: "api", "readers", "audit", "files"
    expired,    \* the time for draining is over
    req,        \* per submission: "new", "checked", "enqueued", "202" or "refused"
    job,        \* per submission: where the queue and its handler are with it
    again,      \* those it may still give out another time
    delivered,  \* jobs whose envelope every sink took
    audited,    \* jobs in the audit log
    lru,        \* the ids of the result store, the one touched last first
    doc,        \* their states
    byAge,      \* those that have not expired, the oldest first
    answer,     \* history: the final state last recorded, while the store must hold it
    since       \* history: jobs touched since it was, and still held

store == <<lru, doc, byAge, answer, since>>
vars == <<bootVars, has, expired, req, job, again, delivered, audited, store>>

Active == {j \in Jobs : job[j] \in {"analysing", "audit"}}
InProgress == {j \in Jobs : req[j] \in {"checked", "enqueued"}}

NoState == [j \in Jobs |-> "none"]

Init ==
    /\ BootInit
    /\ has = {} /\ expired = FALSE
    /\ req = [j \in Jobs |-> "new"]
    /\ job = NoState
    /\ again = Repeated
    /\ delivered = {} /\ audited = {}
    /\ lru = <<>> /\ byAge = <<>>
    /\ doc = NoState /\ answer = NoState /\ since = [j \in Jobs |-> {}]

-----------------------------------------------------------------------------
(* The result store.                                                        *)

stateRank(s) == CASE s = "queued" -> 0 [] s = "processing" -> 1 [] OTHER -> 2
Terminal(s) == s \in {"done", "dead_lettered"}

Held(j) == j \in ToSet(lru)
Live(j) == j \in ToSet(byAge)

Without(s, j) == RemoveFirst(s, j)
ToFront(s, j) == <<j>> \o Without(s, j)
Uncapped(s) == s

\* One record more than the store may hold: the one at the back goes.
Capped(s) == IF Len(s) > MaxEntries THEN SubSeq(s, 1, MaxEntries) ELSE s

\* A job is recorded or read: it is the last one touched.  Its answer, once it
\* has one, is owed until MaxEntries other jobs have been touched since.
Touched(j, final) ==
    LET now == [k \in Jobs |-> IF k = j \/ answer[k] = "none" THEN {} ELSE since[k] \cup {j}]
        owed == [k \in Jobs |->
                  IF Cardinality(now[k]) >= MaxEntries THEN "none"
                  ELSE IF k = j /\ answer[k] = "none" THEN final
                  ELSE answer[k]]
    IN  /\ answer' = owed
        /\ since' = [k \in Jobs |-> IF owed[k] = "none" THEN {} ELSE now[k]]

Always(j, s) == TRUE

\* A transition never moves a live record backwards.
Forward(j, s) == ~ Live(j) \/ stateRank(s) > stateRank(doc[j])

record(j, s) ==
    LET final == IF Terminal(s) THEN s ELSE "none"
        moved == ToFront(lru, j)
        front == Capped(moved)
        aged == Append(Without(byAge, j), j)
    IN
    IF "api" \notin has THEN UNCHANGED store
    ELSE IF Held(j) /\ ~ Forward(j, s)
    THEN UNCHANGED store
    ELSE /\ lru' = front
         /\ byAge' = IF front = moved THEN aged ELSE Without(aged, Last(moved))
         /\ doc' = [k \in Jobs |-> IF k \notin ToSet(front) THEN "none"
                                   ELSE IF k = j THEN s ELSE doc[k]]
         /\ Touched(j, final)

\* GET /jobs/{id}, and each id of POST /jobs/status in its turn: an expired
\* record is dropped, a live one moves to the front.
Get(j) ==
    /\ "readers" \in has /\ Held(j)
    /\ IF Live(j)
       THEN /\ lru' = ToFront(lru, j)
            /\ Touched(j, "none")
            /\ UNCHANGED <<doc, byAge>>
       ELSE /\ lru' = Without(lru, j)
            /\ doc' = [doc EXCEPT ![j] = "none"]
            /\ since' = [k \in Jobs |-> since[k] \ {j}]
            /\ UNCHANGED <<byAge, answer>>
    /\ UNCHANGED <<bootVars, has, expired, req, job, again, delivered, audited>>

\* The time to live of the oldest record is over; nothing is removed yet.
Expire ==
    /\ byAge # <<>>
    /\ byAge' = Tail(byAge)
    /\ answer' = [answer EXCEPT ![Head(byAge)] = "none"]
    /\ since' = [since EXCEPT ![Head(byAge)] = {}]
    /\ UNCHANGED <<bootVars, has, expired, req, job, again, delivered, audited, lru, doc>>

-----------------------------------------------------------------------------
(* POST /jobs.                                                              *)

\* The configuration the requests are checked against is that of the boot; what
\* it says of them is part of the request here.
RequestOk(r) ==
    /\ r.decodes /\ r.ref # ""
    /\ r.kind \in {"file", "url"}
    /\ r.kind = "url" => r.urlOk
    /\ validateWorkflowSelection(r.workflows, r.configured)
    /\ validateDedupThreshold(r.dedup, r.ceiling)
    /\ ValidateMetadata(r.metadata)

Answer(j, status) == req' = [req EXCEPT ![j] = status]

\* 503: the gate is shut, or the operator has paused the intake.  Or the request
\* is looked at, and 400.
Post(j) ==
    /\ phase = "serving" /\ req[j] = "new"
    /\ \A k \in 1..j - 1 : req[k] # "new"
    /\ Cardinality(InProgress) < MaxRequests
    /\ \/ Answer(j, "refused")
       \/ \E r \in Requests : Answer(j, IF RequestOk(r) THEN "checked" ELSE "refused")
    /\ UNCHANGED <<bootVars, has, expired, job, again, delivered, audited, store>>

QueueOpen == phase \in {"serving", "intake"}

Enqueue(j) ==
    /\ req[j] = "checked" /\ QueueOpen
    /\ Answer(j, "enqueued")
    /\ job' = [job EXCEPT ![j] = "ready"]
    /\ UNCHANGED <<bootVars, has, expired, again, delivered, audited, store>>

\* 503: full, dead letters full or closed; 500: anything else.
EnqueueFails(j) ==
    /\ req[j] = "checked"
    /\ Answer(j, "refused")
    /\ UNCHANGED <<bootVars, has, expired, job, again, delivered, audited, store>>

\* The record of a queued job is made after the queue has taken it.
Accepted202(j) ==
    /\ req[j] = "enqueued"
    /\ record(j, "queued")
    /\ Answer(j, "202")
    /\ UNCHANGED <<bootVars, has, expired, job, again, delivered, audited>>

-----------------------------------------------------------------------------
(* The worker handler.                                                      *)

MoveTo(j, s) == job' = [job EXCEPT ![j] = s]

\* A worker that is told to stop may find a job as well, and take either.
Pulling == phase \in {"serving", "intake", "drain", "close"}

Claim(j) ==
    /\ job[j] = "ready" /\ Pulling /\ Cardinality(Active) < MaxActive
    /\ MoveTo(j, "analysing")
    /\ record(j, "processing")
    /\ UNCHANGED <<bootVars, has, expired, req, again, delivered, audited>>

\* A closed file takes nothing; stdout and webhooks are never closed.  What they
\* have taken once they pass over without an error.
SinksTake(j) == "files" \in has => "sinks" \in open \/ j \in delivered
AuditTakes(j) == "audit" \in open \/ j \in audited

Deliver(j) ==
    /\ job[j] = "analysing" /\ SinksTake(j)
    /\ delivered' = delivered \cup {j}
    /\ MoveTo(j, "audit")
    /\ UNCHANGED <<bootVars, has, expired, req, again, audited, store>>

\* A sink fails: the run is retried, which is no answer, and nobody reports that
\* retries are exhausted.
DeliverFails(j) ==
    /\ job[j] = "analysing"
    /\ MoveTo(j, IF j \in again THEN "ready" ELSE "dead")
    /\ again' = again \ {j}
    /\ UNCHANGED <<bootVars, has, expired, req, delivered, audited, store>>

Shrug == {"dead", "acked"}

\* An audit record that cannot be written means a dead letter.
UnauditedFate == {"dead"}

\* The audit record, recordTerminalStatus and the disposition.  An envelope with
\* verdict error is audited too, and dead-lettered.
Finish(j) ==
    /\ job[j] = "audit"
    /\ \E fate \in {"acked", "dead"} :
        /\ \/ /\ "audit" \in has => AuditTakes(j)
              /\ audited' = IF "audit" \in has THEN audited \cup {j} ELSE audited
           \/ "audit" \in has /\ fate \in UnauditedFate /\ UNCHANGED audited
        /\ record(j, IF fate = "acked" THEN "done" ELSE "dead_lettered")
        /\ MoveTo(j, fate)
    /\ UNCHANGED <<bootVars, has, expired, req, again, delivered>>

\* At least once: the queue gives out again what it has not seen settled in time.
Redeliver(j) ==
    /\ job[j] \in {"acked", "dead"} /\ j \in again
    /\ phase = "serving"
    /\ again' = again \ {j}
    /\ MoveTo(j, "ready")
    /\ UNCHANGED <<bootVars, has, expired, req, delivered, audited, store>>

-----------------------------------------------------------------------------
(* Start and shutdown.                                                      *)

rest == <<req, job, again, delivered, audited, store>>

\* The read side has a store when it is enabled.
resultAPIRoutes(c) == c.resultApi
\* Basic auth without credentials answers 503 to everyone; with them, or without
\* auth, there are readers.
auth(c) == c.auth = "none" \/ c.readers

Parts(c) ==
    {p \in {"api", "readers", "audit", "files"} :
        \/ p = "api" /\ resultAPIRoutes(c)
        \/ p = "readers" /\ resultAPIRoutes(c) /\ auth(c)
        \/ p = "audit" /\ c.audit
        \/ p = "files" /\ "sinks" \in open}

\* Only read from here on, the configuration is forgotten but for these parts,
\* and so is the redis client, which nothing closes.
Run ==
    /\ phase = "booted"
    /\ phase' = "serving"
    /\ has' = Parts(cfg)
    /\ asked' = Null /\ cfg' = Null /\ built' = 0
    /\ open' = open \ {"redis"}
    /\ UNCHANGED <<expired, rest>>

\* Queue.Start fails (Redis is gone): run returns, and what boot opened is closed.
StartFails ==
    /\ phase = "booted" /\ cfg.driver = "redis"
    /\ phase' = "close"
    /\ asked' = Null /\ cfg' = Null /\ built' = 0
    /\ open' = open \ {"redis"}
    /\ UNCHANGED <<has, expired, rest>>

Cancel ==
    /\ phase = "serving"
    /\ phase' = "intake"
    /\ UNCHANGED <<asked, cfg, open, built, has, expired, rest>>

\* The context of the shutdown ends.
DrainTimeout ==
    /\ phase \in {"intake", "drain"} /\ ~ expired
    /\ expired' = TRUE
    /\ UNCHANGED <<bootVars, has, rest>>

Waits == FALSE
GivesUp == expired

\* http.Server.Shutdown waits for the requests in progress.  With the listener
\* gone nobody reads the store any more, and it is forgotten.
IntakeShutdown ==
    /\ phase = "intake"
    /\ InProgress = {} \/ GivesUp
    /\ phase' = "drain"
    /\ has' = has \ {"api", "readers"}
    /\ lru' = <<>> /\ byAge' = <<>>
    /\ doc' = NoState /\ answer' = NoState /\ since' = [j \in Jobs |-> {}]
    /\ UNCHANGED <<asked, cfg, open, built, expired, req, job, again, delivered, audited>>

\* Queue.Close waits for the handlers; run returns, perhaps with an error.
QueueClose ==
    /\ phase = "drain"
    /\ Active = {} \/ GivesUp
    /\ phase' = "close"
    /\ UNCHANGED <<asked, cfg, open, built, has, expired, rest>>

\* The deferred close: the moderator, the audit log, then the sinks, whatever
\* handlers are still doing.
Close ==
    /\ phase = "close"
    /\ IF "moderator" \in open
       THEN open' = open \ {"moderator", "audit"} /\ UNCHANGED phase
       ELSE open' = open \ {"sinks"} /\ phase' = "stopped"
    /\ UNCHANGED <<asked, cfg, built, has, expired, rest>>

Stopping == IntakeShutdown \/ QueueClose \/ Close

Next ==
    \/ BootStep /\ UNCHANGED <<has, expired, rest>>
    \/ Run \/ StartFails \/ Cancel \/ DrainTimeout \/ Stopping \/ Expire
    \/ \E j \in Jobs :
        \/ Get(j) \/ Post(j) \/ Enqueue(j) \/ EnqueueFails(j) \/ Accepted202(j)
        \/ Claim(j) \/ Deliver(j) \/ DeliverFails(j) \/ Finish(j) \/ Redeliver(j)

Spec == Init /\ [][Next]_vars

\* The goroutine that shuts down runs, and its timer fires.  Nothing is assumed
\* of clients, of handlers or of the signal.
FairSpec == Spec /\ WF_vars(Stopping) /\ WF_vars(DrainTimeout)

-----------------------------------------------------------------------------
\* Types, and the store in shape: within its bound, no id twice, only live ids
\* of held records.
TypeOK ==
    /\ phase \in BootSteps \cup {"booted", "refused", "serving", "intake", "drain", "close",
                                 "stopped"}
    /\ open \subseteq {"moderator", "audit", "sinks", "redis"}
    /\ req \in [Jobs -> {"new", "checked", "enqueued", "202", "refused"}]
    /\ job \in [Jobs -> {"none", "ready", "analysing", "audit", "acked", "dead"}]
    /\ again \subseteq Repeated
    /\ Len(lru) <= MaxEntries /\ IsInjective(lru) /\ IsInjective(byAge)
    /\ ToSet(byAge) \subseteq ToSet(lru)
    /\ \A j \in Jobs : Held(j) <=> doc[j] # "none"

\* A job that was answered is read as answered, and as the first answer, until
\* its record has expired or MaxEntries other jobs have been named since it was
\* last touched: neither the late record of its submission, nor another run of
\* it, nor any read of other jobs takes the answer back.
AnswerStays == \A j \in Jobs : answer[j] # "none" => Live(j) /\ doc[j] = answer[j]

\* What the read side shows as done, and what the queue has acknowledged, is
\* with every sink and in the audit log, even when the drain ran out of time and
\* the handler outlived both.
DoneIsOnRecord ==
    \A j \in Jobs : doc[j] = "done" \/ job[j] = "acked" =>
        j \in delivered /\ ("audit" \in has => j \in audited)

\* Cancelling the context ends the server, though a client may never finish its
\* request and a handler may never return.
EventuallyStopped == (phase = "intake") ~> (phase = "stopped")
=============================================================================
