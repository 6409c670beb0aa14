------------------------------ MODULE Delivery ------------------------------
(***************************************************************************)
(* One job's way out of a serve process: the handler of cli/serve.go around *)
(* Pipeline.ProcessJob, the MultiSink with its per-sink idempotency         *)
(* (internal/result), the audit record, and the status the result API       *)
(* shows.  Workers interleave between any two of these effects, the process *)
(* may die between them, and a job comes back: as a retry, after a restart, *)
(* or although it is still being handled (a reclaimed replica).             *)
(*                                                                          *)
(* The queue is what queue.Queue promises: a payload is given out, and      *)
(* comes back unless its disposition was carried out.  The analysis of the  *)
(* media is abstracted to the verdict it ends with, which may differ from   *)
(* one run to the next.                                                     *)
(***************************************************************************)
EXTENDS Naturals, FiniteSets, Sequences

CONSTANTS
    Jobs,
    Workers,
    Sinks,         \* output.sinks: a sequence of "file" and "webhook"
    Routes,        \* per sink the verdicts its predicate lets through
    Possible,      \* the verdicts the analysis may come to in this instance
    EmptyVideos,   \* the jobs that are videos without frames, with the override on
    MaxRetries,    \* queue.max_retries
    MaxAttempts,   \* max_attempts of a webhook
    LostReplies,   \* a POST may arrive and its answer not
    Overlap,       \* a job may be reclaimed while its handler still runs
    Forgetting,    \* dedupeRetention may pass
    MaxCrashes,    \* bound: restarts of the process
    MaxFaults,     \* bound: failing writes and POSTs
    MaxReclaims    \* bound: payloads reclaimed from a running handler

Verdicts == {"allow", "flag", "block", "error"}
Payloads == [job : Jobs, attempts : 0..MaxRetries]

ASSUME DeliveryAssumption ==
    /\ Sinks \in Seq({"file", "webhook"})
    /\ Routes \in [DOMAIN Sinks -> SUBSET Verdicts]
    /\ \E k \in DOMAIN Sinks : Routes[k] = Verdicts   \* buildSinks' last checkpoint
    /\ Possible \subseteq Verdicts
    /\ EmptyVideos \subseteq Jobs
    /\ MaxRetries \in Nat /\ MaxAttempts \in Nat \ {0}
    /\ {LostReplies, Overlap, Forgetting} \subseteq BOOLEAN
    /\ MaxCrashes \in Nat /\ MaxFaults \in Nat /\ MaxReclaims \in Nat

VARIABLES
    ready,              \* the payloads the queue may give out
    acked, dead,        \* the jobs acked, and dead-lettered
    pc, held, owns,     \* a worker, its payload, and whether the queue agrees
    env, sink, failed,  \* its envelope, its place in MultiSink.Write, firstErr
    tries, disp,        \* its POST attempts, its disposition
    written,            \* dedupe: per sink the jobs that are claimed
    received,           \* what each destination has got: [env, life]
    audit,              \* the envelopes of the audit log's verdict records
    seen,               \* audit.Log.seen
    posted,             \* the jobs whose POST /jobs has recorded "queued"
    shown,              \* the result store
    (* history and bounds *)
    runs, life, faults, reclaims

worker  == <<pc, held, owns, env, sink, failed, tries, disp>>
outside == <<written, received, audit, seen>>
bounds  == <<life, faults, reclaims>>
vars    == <<ready, acked, dead, worker, outside, posted, shown, runs, bounds>>

Nothing == [job |-> "none", attempts |-> 0]
NoEnv   == [job |-> "none", run |-> 0, verdict |-> "none"]

Init ==
    /\ ready = [job : Jobs, attempts : {0}]
    /\ acked = {} /\ dead = {}
    /\ pc = [w \in Workers |-> "idle"]
    /\ held = [w \in Workers |-> Nothing]
    /\ owns = [w \in Workers |-> FALSE]
    /\ env = [w \in Workers |-> NoEnv]
    /\ sink = [w \in Workers |-> 1]
    /\ failed = [w \in Workers |-> FALSE]
    /\ tries = [w \in Workers |-> 0]
    /\ disp = [w \in Workers |-> "none"]
    /\ written = [k \in DOMAIN Sinks |-> {}]
    /\ received = [k \in DOMAIN Sinks |-> {}]
    /\ audit = {} /\ seen = {}
    /\ posted = {}
    /\ shown = [j \in Jobs |-> [state |-> "none", env |-> NoEnv]]
    /\ runs = [j \in Jobs |-> 0]
    /\ life = 0 /\ faults = 0 /\ reclaims = 0

-----------------------------------------------------------------------------
(* resultStore.record: a transition only moves forward.  Eviction and       *)
(* expiry, which make a job unknown, are in Server.                         *)

stateRank(s) == CASE s = "none" -> 0 [] s = "queued" -> 1 [] s = "processing" -> 2
                  [] OTHER -> 3

Forward(old, new) == stateRank(new) > stateRank(old)

record(j, s, e) ==
    shown' = IF Forward(shown[j].state, s)
             THEN [shown EXCEPT ![j] = [state |-> s, env |-> e]] ELSE shown

\* The intake records "queued" after Enqueue has returned.
ShowQueued(j) ==
    /\ j \notin posted
    /\ posted' = posted \cup {j}
    /\ record(j, "queued", NoEnv)
    /\ UNCHANGED <<ready, acked, dead, worker, outside, runs, bounds>>

-----------------------------------------------------------------------------
(* The handler: a payload is given out, the media analysed.                 *)

Deliver(w, x) ==
    /\ pc[w] = "idle"
    /\ ready' = ready \ {x}
    /\ pc' = [pc EXCEPT ![w] = "analyse"]
    /\ held' = [held EXCEPT ![w] = x]
    /\ owns' = [owns EXCEPT ![w] = TRUE]
    /\ runs' = [runs EXCEPT ![x.job] = @ + 1]
    /\ record(x.job, "processing", NoEnv)
    /\ UNCHANGED <<acked, dead, env, sink, failed, tries, disp, outside, posted,
                   bounds>>

\* The handler's result: what is shown, and then what is returned.
Dispose(w, d) ==
    /\ pc' = [pc EXCEPT ![w] = "report"]
    /\ disp' = [disp EXCEPT ![w] = d]

Fault == faults < MaxFaults /\ faults' = faults + 1

\* ProcessJob up to the envelope, stamped with its own times.
Evaluate(w, v) ==
    /\ pc[w] = "analyse"
    /\ held[w].job \notin EmptyVideos
    /\ env' = [env EXCEPT ![w] = [job |-> held[w].job, run |-> runs[held[w].job],
                                  verdict |-> v]]
    /\ pc' = [pc EXCEPT ![w] = "sinks"]
    /\ sink' = [sink EXCEPT ![w] = 1]
    /\ failed' = [failed EXCEPT ![w] = FALSE]
    /\ UNCHANGED <<ready, acked, dead, held, owns, tries, disp, outside, posted, shown,
                   runs, bounds>>

\* The override for a video without frames: an event and no verdict.
SkipEmpty(w) ==
    /\ pc[w] = "analyse"
    /\ held[w].job \in EmptyVideos
    /\ env' = [env EXCEPT ![w] = [job |-> held[w].job, run |-> runs[held[w].job],
                                  verdict |-> "none"]]
    /\ \/ /\ seen' = seen \cup {held[w].job}
          /\ Dispose(w, "Ack")
          /\ UNCHANGED faults
       \/ /\ Fault
          /\ Dispose(w, "DeadLetter")
          /\ UNCHANGED seen
    /\ UNCHANGED <<ready, acked, dead, held, owns, sink, failed, tries, written, received,
                   audit, posted, shown, runs, life, reclaims>>

\* runHandler recovers a panic: a dead letter that nobody reports.
Panic(w) ==
    /\ pc[w] = "analyse"
    /\ Fault
    /\ disp' = [disp EXCEPT ![w] = "DeadLetter"]
    /\ pc' = [pc EXCEPT ![w] = "settle"]
    /\ UNCHANGED <<ready, acked, dead, held, owns, env, sink, failed, tries, outside,
                   posted, shown, runs, life, reclaims>>

-----------------------------------------------------------------------------
(* MultiSink.Write: every sink in turn, whatever became of the others.      *)

Current(w) == sink[w]
NextSink(w) == sink' = [sink EXCEPT ![w] = @ + 1]

\* dedupe.Claim: nobody else has this job, and nobody had it before.
Unclaimed(k, j) == TRUE
MayClaim(k, j) == j \notin written[k]

\* dedupe.Release, after a write that failed.
Kept(k, j) == written
Released(k, j) == [written EXCEPT ![k] = @ \ {j}]

\* RoutedSink and Claim; a sink that is not for this verdict, or has been
\* claimed for this job, is passed over without an error.
SinkClaim(w) ==
    /\ pc[w] = "sinks"
    /\ sink[w] <= Len(Sinks)
    /\ LET k == Current(w) IN
       IF env[w].verdict \in Routes[k] /\ MayClaim(k, held[w].job)
       THEN /\ written' = [written EXCEPT ![k] = @ \cup {held[w].job}]
            /\ pc' = [pc EXCEPT ![w] = "send"]
            /\ tries' = [tries EXCEPT ![w] = 1]
            /\ UNCHANGED sink
       ELSE NextSink(w) /\ UNCHANGED <<written, pc, tries>>
    /\ UNCHANGED <<ready, acked, dead, held, owns, env, failed, disp, received, audit,
                   seen, posted, shown, runs, bounds>>

Received(w) == [received EXCEPT ![Current(w)] = @ \cup {[env |-> env[w], life |-> life,
                                                         try |-> tries[w]]}]

\* The write or the POST is done.
SendOk(w) ==
    /\ pc[w] = "send"
    /\ received' = Received(w)
    /\ pc' = [pc EXCEPT ![w] = "sinks"]
    /\ NextSink(w)
    /\ UNCHANGED <<ready, acked, dead, held, owns, env, failed, tries, disp, written,
                   audit, seen, posted, shown, runs, bounds>>

\* DoJSON tries a POST again unless the receiver refused it for good or the
\* job's time is up, perhaps after the receiver has taken it; a file write is
\* not tried again.  Giving up releases the claim.
SendFails(w, final) ==
    /\ pc[w] = "send"
    /\ Fault
    /\ received' \in {received} \cup
          (IF Sinks[Current(w)] = "webhook" /\ LostReplies THEN {Received(w)}
           ELSE {})
    /\ IF Sinks[Current(w)] = "webhook" /\ tries[w] < MaxAttempts /\ ~final
       THEN /\ tries' = [tries EXCEPT ![w] = @ + 1]
            /\ UNCHANGED <<pc, sink, failed, written>>
       ELSE /\ written' = Released(Current(w), held[w].job)
            /\ failed' = [failed EXCEPT ![w] = TRUE]
            /\ pc' = [pc EXCEPT ![w] = "sinks"]
            /\ NextSink(w)
            /\ UNCHANGED tries
    /\ UNCHANGED <<ready, acked, dead, held, owns, env, disp, audit, seen, posted, shown,
                   runs, life, reclaims>>

\* After the last sink: an error of any of them ends the run before the audit.
SinksDone(w) ==
    /\ pc[w] = "sinks"
    /\ sink[w] > Len(Sinks)
    /\ IF failed[w] THEN Dispose(w, "Retry")
       ELSE pc' = [pc EXCEPT ![w] = "audit"] /\ UNCHANGED disp
    /\ UNCHANGED <<ready, acked, dead, held, owns, env, sink, failed, tries, outside,
                   posted, shown, runs, bounds>>

\* audit.Log.Record, and the disposition.
AuditRecord(w) ==
    /\ pc[w] = "audit"
    /\ \/ /\ audit' = IF held[w].job \in seen THEN audit ELSE audit \cup {env[w]}
          /\ seen' = seen \cup {held[w].job}
          /\ Dispose(w, IF env[w].verdict = "error" THEN "DeadLetter" ELSE "Ack")
          /\ UNCHANGED faults
       \/ /\ Fault
          /\ Dispose(w, "DeadLetter")
          /\ UNCHANGED <<audit, seen>>
    /\ UNCHANGED <<ready, acked, dead, held, owns, env, sink, failed, tries, written,
                   received, posted, shown, runs, life, reclaims>>

-----------------------------------------------------------------------------
(* The end of the handler, and the disposition in the queue.                *)

\* No result is attached to a dead-lettered job; a retry is no answer.
recordTerminalStatus(j, d, e) ==
    IF d = "Ack" THEN record(j, "done", e) ELSE record(j, "dead_lettered", NoEnv)

Report(w) ==
    /\ pc[w] = "report"
    /\ IF disp[w] # "Retry"
       THEN recordTerminalStatus(held[w].job, disp[w], env[w])
       ELSE UNCHANGED shown
    /\ pc' = [pc EXCEPT ![w] = "settle"]
    /\ UNCHANGED <<ready, acked, dead, held, owns, env, sink, failed, tries, disp, outside,
                   posted, runs, bounds>>

\* The queue counts the attempt and compares with max_retries.
MayRetryOneMore(x) == x.attempts <= MaxRetries
MayRetry(x) == x.attempts + 1 <= MaxRetries

Settle(w) ==
    /\ pc[w] = "settle"
    /\ LET x == held[w]
           again == disp[w] = "Retry" /\ MayRetry(x)
       IN  /\ ready' = IF again THEN ready \cup {[x EXCEPT !.attempts = @ + 1]} ELSE ready
           /\ acked' = IF disp[w] = "Ack" THEN acked \cup {x.job} ELSE acked
           /\ dead' = IF disp[w] # "Ack" /\ ~again THEN dead \cup {x.job} ELSE dead
    /\ pc' = [pc EXCEPT ![w] = "idle"]
    /\ held' = [held EXCEPT ![w] = Nothing]
    /\ owns' = [owns EXCEPT ![w] = FALSE]
    /\ UNCHANGED <<env, sink, failed, tries, disp, outside, posted, shown, runs,
                   bounds>>

-----------------------------------------------------------------------------
(* The environment                                                          *)

\* The queue takes the payload back and gives it out again, while the handler
\* goes on.
Reclaim(w) ==
    /\ Overlap
    /\ owns[w]
    /\ reclaims < MaxReclaims
    /\ reclaims' = reclaims + 1
    /\ owns' = [owns EXCEPT ![w] = FALSE]
    /\ ready' = ready \cup {held[w]}
    /\ UNCHANGED <<acked, dead, pc, held, env, sink, failed, tries, disp, outside, posted,
                   shown, runs, life, faults>>

\* dedupeRetention passes for a job that no run is working on.
Sweep(k, j) ==
    /\ Forgetting
    /\ j \in written[k]
    /\ \A w \in Workers : held[w].job # j
    /\ written' = [written EXCEPT ![k] = @ \ {j}]
    /\ UNCHANGED <<ready, acked, dead, worker, received, audit, seen, posted, shown, runs,
                   bounds>>

\* The payloads that died with their process: the reaper brings them back.
NoneUnacked == {}
Unacked == {held[w] : w \in {w \in Workers : owns[w]}}

\* The process dies and another takes its place: the claims and the result
\* store are gone, the audit log replays its file, the queue redelivers.
Crash ==
    /\ life < MaxCrashes
    /\ life' = life + 1
    /\ ready' = ready \cup Unacked
    /\ pc' = [w \in Workers |-> "idle"]
    /\ held' = [w \in Workers |-> Nothing]
    /\ owns' = [w \in Workers |-> FALSE]
    /\ env' = [w \in Workers |-> NoEnv]
    /\ disp' = [w \in Workers |-> "none"]
    /\ written' = [k \in DOMAIN Sinks |-> {}]
    /\ shown' = [j \in Jobs |-> [state |-> "none", env |-> NoEnv]]
    /\ posted' = Jobs
    /\ UNCHANGED <<acked, dead, sink, failed, tries, received, audit, seen, runs, faults,
                   reclaims>>

-----------------------------------------------------------------------------
Handler(w) ==
    \/ \E v \in Possible : Evaluate(w, v)
    \/ SkipEmpty(w) \/ Panic(w)
    \/ SinkClaim(w) \/ SendOk(w)
    \/ \E final \in BOOLEAN : SendFails(w, final)
    \/ SinksDone(w) \/ AuditRecord(w) \/ Report(w) \/ Settle(w)

Next ==
    \/ \E w \in Workers : (\E x \in ready : Deliver(w, x)) \/ Handler(w) \/ Reclaim(w)
    \/ \E j \in Jobs : ShowQueued(j) \/ \E k \in DOMAIN Sinks : Sweep(k, j)
    \/ Crash

Spec == Init /\ [][Next]_vars

-----------------------------------------------------------------------------
(* Properties                                                               *)

Envelopes == [job : Jobs, run : Nat, verdict : Verdicts \cup {"none"}]

\* The type of every variable.
TypeOK ==
    /\ ready \subseteq Payloads
    /\ acked \subseteq Jobs /\ dead \subseteq Jobs /\ seen \subseteq Jobs
    /\ posted \subseteq Jobs
    /\ pc \in [Workers -> {"idle", "analyse", "sinks", "send", "audit", "report", "settle"}]
    /\ held \in [Workers -> Payloads \cup {Nothing}]
    /\ owns \in [Workers -> BOOLEAN] /\ failed \in [Workers -> BOOLEAN]
    /\ env \in [Workers -> Envelopes \cup {NoEnv}]
    /\ sink \in [Workers -> 1..Len(Sinks) + 1]
    /\ tries \in [Workers -> 0..MaxAttempts]
    /\ disp \in [Workers -> {"none", "Ack", "Retry", "DeadLetter"}]
    /\ written \in [DOMAIN Sinks -> SUBSET Jobs]
    /\ \A k \in DOMAIN Sinks : \A r \in received[k] : r.env \in Envelopes
    /\ audit \subseteq Envelopes
    /\ shown \in [Jobs -> [state : {"none", "queued", "processing", "done", "dead_lettered"},
                           env : Envelopes \cup {NoEnv}]]
    /\ runs \in [Jobs -> Nat]

Got(k, j) == \E r \in received[k] : r.env.job = j

\* "The audit record is written after the sinks", and a job is acked after
\* both: a job that has an audit record, or was acked with a verdict, has an
\* envelope at every destination without a predicate, whatever failed,
\* crashed and was retried before ("without Release a failed send would mark
\* the job written and the redelivery would silently skip that sink").
SettledIsDelivered ==
    \A j \in Jobs :
        j \in (acked \ EmptyVideos) \cup {e.job : e \in audit} =>
            \A k \in DOMAIN Sinks : Routes[k] = Verdicts => Got(k, j)

\* "Every sink is idempotent per job_id within a process lifetime, so a
\* redelivery to a running worker never double-writes", also when the two
\* runs overlap.
OncePerLife ==
    \A k \in DOMAIN Sinks : \A r, s \in received[k] :
        r.env.job = s.env.job /\ r.life = s.life => r = s

-----------------------------------------------------------------------------
(* A statement of a comment or document that this code does not keep; no    *)
(* configuration checks it, the README tells how it fails.                  *)

\* "result is present only for done, and it is byte-identical to what the
\* configured sinks received for the same job_id".
ShownIsDelivered ==
    \A j \in Jobs \ EmptyVideos : shown[j].state = "done" =>
        \A k \in DOMAIN Sinks : \A r \in received[k] :
            r.env.job = j /\ r.life = life => r.env = shown[j].env

-----------------------------------------------------------------------------
(* Progress: workers go on (each job has a time limit), the queue gives out *)
(* what is ready.  Faults and crashes are bounded and never forced.         *)
Fairness ==
    \A w \in Workers :
        /\ WF_vars(Handler(w))
        /\ WF_vars(\E x \in ready : Deliver(w, x))

FairSpec == Spec /\ Fairness

\* Every job is eventually acked or dead-lettered: no failure of a sink, of
\* the audit log or of the process leaves it in between for good.
EventuallyAnswered == \A j \in Jobs : <>(j \in acked \/ j \in dead)
=============================================================================
