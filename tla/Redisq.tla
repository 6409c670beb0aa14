------------------------------- MODULE Redisq -------------------------------
(***************************************************************************)
(* The Redis queue driver (internal/queue/redisq.go): several replicas of   *)
(* the process share one Redis, and every job must survive whatever happens *)
(* to any of them.                                                          *)
(*                                                                          *)
(* Every Redis command is one atomic step and nothing else is: a replica    *)
(* may be overtaken, stall or die between any two of its commands.  A       *)
(* member of Instances is one life of a process: ids are random             *)
(* (newInstanceID), so a restart is another member.  A LIST is a sequence   *)
(* whose first element is the left end, the retry ZSET a set (its score,    *)
(* the ready-at time, is abstracted to "due whenever the mover says so"),   *)
(* the instances ZSET a map to the age of the last heartbeat.  The dead     *)
(* list is the set of its entries with its length, counted up to the only   *)
(* number the driver compares it with, DeadLetterMax.                       *)
(***************************************************************************)
EXTENDS Naturals, FiniteSets, Sequences, SequencesExt

CONSTANTS
    Jobs,                 \* the jobs this version's clients may enqueue
    Instances,            \* replica ids; each is one process life
    Legacy,               \* legacyInstance, the pre-upgrade shared key
    Workers,              \* worker goroutines of one replica
    MaxRetries,           \* cfg.MaxRetries
    DeadLetterMax,        \* cfg.DeadLetterMax
    Left,                 \* payloads an older version left in the shared key
    Undecodable,          \* the jobs of Left that json.Unmarshal rejects
    Unnamed,              \* the empty Job of a poison payload's DLQ entry
    MaxPending,           \* bound: length of pending up to which retries move
    MaxDepartures,        \* bound: replicas that close or crash
    MaxFaults,            \* bound: Redis commands that report an error
    MaxStalls,            \* bound: heartbeats a live replica misses for good
    DrainOutlivesReclaim  \* drain_timeout reaches instanceReclaimAfter

\* A redisPayload.  Attempts counts completed handler runs.
Payloads == [job : Jobs, attempts : 0..MaxRetries]

\* Everything that may own a processing list.
Owners == Instances \cup {Legacy}

\* One worker goroutine of one replica.
Procs == Instances \X Workers
Inst(p) == p[1]

ASSUME RedisqAssumption ==
    /\ Legacy \notin Instances
    /\ Instances \cap {"new", "accepted", "error"} = {}
    /\ Unnamed \notin Jobs
    /\ MaxRetries \in Nat
    /\ DeadLetterMax \in Nat \ {0}
    /\ Left \in Seq(Payloads)
    /\ Undecodable \subseteq {Left[k].job : k \in DOMAIN Left}
    /\ MaxPending \in Nat \ {0}
    /\ MaxDepartures \in Nat
    /\ MaxFaults \in Nat
    /\ MaxStalls \in Nat
    /\ DrainOutlivesReclaim \in BOOLEAN

VARIABLES
    (* Redis *)
    pending, processing, beat, retry, dead, depth,
    (* a replica's lifecycle, its workers, its retry mover, its keeper *)
    life, pc, held, due, pushed, sweep, target, drained,
    (* the enqueuing callers *)
    intake,
    (* history, read by the properties only *)
    arrivals, taken, settled,
    (* what the environment has spent *)
    faults, stalls

redis   == <<pending, processing, beat, retry, dead, depth>>
workers == <<pc, held>>
mover   == <<due, pushed>>
keeper  == <<sweep, target, drained>>
history == <<arrivals, taken, settled>>
vars    == <<redis, life, workers, mover, keeper, intake, history, faults, stalls>>

-----------------------------------------------------------------------------
(* A Redis command is applied and answered, refused, or applied with the    *)
(* answer lost (a broken connection, a cancelled context).                  *)
Outcomes == {"ok", "fail", "lost"}

Redis(o) ==
    \/ o = "ok" /\ UNCHANGED faults
    \/ o # "ok" /\ faults < MaxFaults /\ faults' = faults + 1

Applied(o) == o # "fail"

Alive(i) == life[i] \in {"scan", "mark", "orphans", "first", "boot", "up", "drain"}

\* Where a worker goes at its loop head: on to the next pull, or out.
Rest(p) == IF life[Inst(p)] = "up" THEN "poll" ELSE "gone"

\* LPUSH, with which jobs and retries arrive; LMOVE takes from the other end.
LPush(q, x) == <<x>> \o q

\* The processing lists once replica i has claimed x: LMOVE ... LEFT.
PopOnly(i, x) == processing
Claimed(i, x) == [processing EXCEPT ![i] = <<x>> \o @]

\* p.Attempts++ and the comparison with cfg.MaxRetries.
MayRetryOneMore(x) == x.attempts <= MaxRetries
MayRetry(x) == x.attempts + 1 <= MaxRetries

Init ==
    /\ pending = <<>>
    /\ processing = [i \in Owners |-> IF i = Legacy THEN Left ELSE <<>>]
    /\ beat = [i \in Owners |-> "none"]
    /\ retry = {}
    /\ dead = {}
    /\ depth = 0
    /\ life = [i \in Instances |-> "off"]
    /\ pc = [p \in Procs |-> "gone"]
    /\ held = [p \in Procs |-> {}]
    /\ due = [i \in Instances |-> {}]
    /\ pushed = [i \in Instances |-> {}]
    /\ sweep = [i \in Instances |-> {}]
    /\ target = [i \in Instances |-> {}]
    /\ drained = [i \in Instances |-> FALSE]
    /\ intake = [j \in Jobs |-> IF \E k \in DOMAIN Left : Left[k].job = j
                                THEN "accepted" ELSE "new"]
    /\ arrivals = <<>>
    /\ taken = {}
    /\ settled = {}
    /\ faults = 0
    /\ stalls = 0

-----------------------------------------------------------------------------
(* Enqueue, called in a replica that is up: the dead-letter depth is read   *)
(* first and the payload pushed in a second command, whatever became of the *)
(* depth, or of q.closed, in between.  A full dead-letter list refuses the  *)
(* job (no step).                                                           *)

EnqueueCheck(j, i, o) ==
    /\ intake[j] = "new"
    /\ life[i] = "up"
    /\ depth < DeadLetterMax
    /\ Redis(o)
    /\ intake' = [intake EXCEPT ![j] = IF o = "ok" THEN i ELSE "error"]
    /\ UNCHANGED <<redis, life, workers, mover, keeper, history, stalls>>

EnqueuePush(j, i, o) ==
    /\ intake[j] = i
    /\ Alive(i)
    /\ Redis(o)
    /\ intake' = [intake EXCEPT ![j] = IF o = "ok" THEN "accepted" ELSE "error"]
    /\ IF Applied(o)
       THEN /\ pending' = LPush(pending, [job |-> j, attempts |-> 0])
            /\ arrivals' = Append(arrivals, j)
       ELSE UNCHANGED <<pending, arrivals>>
    /\ UNCHANGED <<processing, beat, retry, dead, depth, life, workers, mover, keeper,
                   taken, settled, stalls>>

-----------------------------------------------------------------------------
(* Start.  Every error ends the process; the heartbeat it may have written  *)
(* stays and ages out.                                                      *)

\* heartbeat(ctx) at the top of Start: register before touching anything.
Register(i, o) ==
    /\ life[i] = "off"
    /\ Redis(o)
    /\ beat' = IF Applied(o) THEN [beat EXCEPT ![i] = "fresh"] ELSE beat
    /\ life' = [life EXCEPT ![i] = IF o = "ok" THEN "scan" ELSE "down"]
    /\ UNCHANGED <<pending, processing, retry, dead, depth, workers, mover, keeper,
                   intake, history, stalls>>

\* registerLegacyIfPresent, LLEN: is there anything under the shared key?
LegacyScan(i, o) ==
    /\ life[i] = "scan"
    /\ Redis(o)
    /\ life' = [life EXCEPT ![i] = IF o # "ok" THEN "down"
                                  ELSE IF processing[Legacy] # <<>> THEN "mark"
                                  ELSE "orphans"]
    /\ UNCHANGED <<redis, workers, mover, keeper, intake, history, stalls>>

\* registerLegacyIfPresent, ZADD NX: dated now, and only if not yet there.
LegacyMark(i, o) ==
    /\ life[i] = "mark"
    /\ Redis(o)
    /\ beat' = IF Applied(o) /\ beat[Legacy] = "none"
               THEN [beat EXCEPT ![Legacy] = "fresh"] ELSE beat
    /\ life' = [life EXCEPT ![i] = IF o = "ok" THEN "orphans" ELSE "down"]
    /\ UNCHANGED <<pending, processing, retry, dead, depth, workers, mover, keeper,
                   intake, history, stalls>>

\* The replicas whose heartbeat is too old, the scanning one excepted.
StaleOrFresh(i) == {t \in Owners : beat[t] # "none"} \ {i}
Stale(i) == {t \in Owners : beat[t] = "stale"} \ {i}

\* recoverOrphans: one LMOVE, which finds the key of this fresh id empty.
RecoverOrphans(i, o) ==
    /\ life[i] = "orphans"
    /\ processing[i] = <<>>
    /\ Redis(o)
    /\ life' = [life EXCEPT ![i] = IF o = "ok" THEN "first" ELSE "down"]
    /\ UNCHANGED <<redis, workers, mover, keeper, intake, history, stalls>>

\* The first reapDeadInstances takes its snapshot; without one it is over.
FirstReap(i, o) ==
    /\ life[i] = "first"
    /\ Redis(o)
    /\ life' = [life EXCEPT ![i] = "boot"]
    /\ sweep' = [sweep EXCEPT ![i] = IF o = "ok" THEN Stale(i) ELSE {}]
    /\ UNCHANGED <<redis, workers, mover, target, drained, intake, history, stalls>>

\* The first reap is over: the workers, the mover and the keeper start.
Launch(i) ==
    /\ life[i] = "boot"
    /\ sweep[i] = {}
    /\ life' = [life EXCEPT ![i] = "up"]
    /\ pc' = [p \in Procs |-> IF Inst(p) = i THEN "poll" ELSE pc[p]]
    /\ UNCHANGED <<redis, held, mover, keeper, intake, history, faults, stalls>>

-----------------------------------------------------------------------------
(* worker and process                                                       *)

\* LMOVE pending RIGHT -> processing LEFT.  A worker found at "poll" in a
\* closing replica is one that had already passed the stop check.
Claim(p, o) ==
    /\ pc[p] = "poll"
    /\ pending # <<>>
    /\ Redis(o)
    /\ LET x == Last(pending) IN
       /\ IF Applied(o)
          THEN /\ pending' = Front(pending)
               /\ processing' = Claimed(Inst(p), x)
               /\ taken' = taken \cup {x.job}
          ELSE UNCHANGED <<pending, processing, taken>>
       /\ held' = IF o = "ok" THEN [held EXCEPT ![p] = {x}] ELSE held
       /\ pc' = [pc EXCEPT ![p] = IF o # "ok" THEN Rest(p)
                                  ELSE IF x.job \in Undecodable THEN "bury"
                                  ELSE "handle"]
    /\ UNCHANGED <<beat, retry, dead, depth, life, mover, keeper, intake, arrivals,
                   settled, stalls>>

\* The loop head of a worker whose replica is stopping.
Quit(p) ==
    /\ pc[p] = "poll"
    /\ life[Inst(p)] = "drain"
    /\ pc' = [pc EXCEPT ![p] = "gone"]
    /\ UNCHANGED <<redis, life, held, mover, keeper, intake, history, faults, stalls>>

\* runHandler returns d (a panic is a DeadLetter) and Attempts is counted.
Dispositions == {"Ack", "Retry", "DeadLetter"}

Handle(p, x, d) ==
    /\ pc[p] = "handle"
    /\ x \in held[p]
    /\ pc' = [pc EXCEPT ![p] =
                 CASE d = "Ack" -> "ack"
                   [] d = "Retry" /\ MayRetry(x) -> "retry"
                   [] OTHER -> "bury"]
    /\ settled' = IF d = "Ack" THEN settled \cup {x.job} ELSE settled
    /\ UNCHANGED <<redis, life, held, mover, keeper, intake, arrivals, taken,
                   faults, stalls>>

\* finish: LPUSH dead; on an error the payload stays under processing.
Bury(p, x, o) ==
    /\ pc[p] = "bury"
    /\ x \in held[p]
    /\ Redis(o)
    /\ IF Applied(o)
       THEN /\ dead' = dead \cup {IF x.job \in Undecodable THEN Unnamed ELSE x.job}
            /\ depth' = IF depth < DeadLetterMax THEN depth + 1 ELSE depth
            /\ settled' = settled \cup {x.job}
       ELSE UNCHANGED <<dead, depth, settled>>
    /\ pc' = [pc EXCEPT ![p] = IF o = "ok" THEN "ack" ELSE Rest(p)]
    /\ held' = IF o = "ok" THEN held ELSE [held EXCEPT ![p] = {}]
    /\ UNCHANGED <<pending, processing, beat, retry, life, mover, keeper, intake,
                   arrivals, taken, stalls>>

\* scheduleRetry: ZADD the payload with one more attempt; on an error the
\* payload stays under processing.
Retried(x) == [x EXCEPT !.attempts = @ + 1]

ScheduleRetry(p, x, o) ==
    /\ pc[p] = "retry"
    /\ x \in held[p]
    /\ Redis(o)
    /\ retry' = IF Applied(o) THEN retry \cup {Retried(x)} ELSE retry
    /\ pc' = [pc EXCEPT ![p] = IF o = "ok" THEN "ack" ELSE Rest(p)]
    /\ held' = IF o = "ok" THEN held ELSE [held EXCEPT ![p] = {}]
    /\ UNCHANGED <<pending, processing, beat, dead, depth, life, mover, keeper, intake,
                   history, stalls>>

\* ack: LREM processing 1 raw, on this replica's own key.  An error is only
\* logged.
Ack(p, x, o) ==
    /\ pc[p] = "ack"
    /\ x \in held[p]
    /\ Redis(o)
    /\ processing' = IF Applied(o)
                     THEN [processing EXCEPT ![Inst(p)] = RemoveFirst(@, x)]
                     ELSE processing
    /\ pc' = [pc EXCEPT ![p] = Rest(p)]
    /\ held' = [held EXCEPT ![p] = {}]
    /\ UNCHANGED <<pending, beat, retry, dead, depth, life, mover, keeper, intake,
                   history, stalls>>

-----------------------------------------------------------------------------
(* retryMover: a snapshot of the due members, then for each one LPUSH       *)
(* pending and ZREM retry.                                                  *)

MoverScan(i, S) ==
    /\ life[i] = "up"
    /\ due[i] = {}
    /\ S # {}
    /\ due' = [due EXCEPT ![i] = S]
    /\ UNCHANGED <<redis, life, workers, pushed, keeper, intake, history, faults,
                   stalls>>

MoverPush(i, m, o) ==
    /\ m \in due[i]
    /\ pushed[i] = {}
    /\ Len(pending) < MaxPending
    /\ Redis(o)
    /\ pending' = IF Applied(o) THEN LPush(pending, m) ELSE pending
    /\ pushed' = IF o = "ok" THEN [pushed EXCEPT ![i] = {m}] ELSE pushed
    /\ due' = IF o = "ok" THEN due ELSE [due EXCEPT ![i] = @ \ {m}]
    /\ UNCHANGED <<processing, beat, retry, dead, depth, life, workers, keeper, intake,
                   history, stalls>>

ZRem(m) == retry \ {m}

MoverRem(i, m, o) ==
    /\ m \in pushed[i]
    /\ Redis(o)
    /\ retry' = IF Applied(o) THEN ZRem(m) ELSE retry
    /\ pushed' = [pushed EXCEPT ![i] = {}]
    /\ due' = [due EXCEPT ![i] = @ \ {m}]
    /\ UNCHANGED <<pending, processing, beat, dead, depth, life, workers, keeper, intake,
                   history, stalls>>

-----------------------------------------------------------------------------
(* instanceKeeper: one goroutine that either beats or reaps.                *)

\* A heartbeat that fails is only logged; the old one grows older.
Heartbeat(i, o) ==
    /\ life[i] = "up"
    /\ sweep[i] = {}
    /\ beat[i] # "fresh"
    /\ Redis(o)
    /\ beat' = IF Applied(o) THEN [beat EXCEPT ![i] = "fresh"] ELSE beat
    /\ UNCHANGED <<pending, processing, retry, dead, depth, life, workers, mover, keeper,
                   intake, history, stalls>>

StartReapsOnly(i) == FALSE
KeeperReaps(i) == life[i] = "up"

ReapScan(i) ==
    /\ KeeperReaps(i)
    /\ sweep[i] = {}
    /\ Stale(i) # {}
    /\ sweep' = [sweep EXCEPT ![i] = Stale(i)]
    /\ UNCHANGED <<redis, life, workers, mover, target, drained, intake, history,
                   faults, stalls>>

\* t is the replica being drained, or the next one if none is.
Current(i, t) == t \in sweep[i] /\ target[i] \subseteq {t} /\ ~drained[i]

\* The sweep moves on to the next stale replica.
SkipTarget(i, t) ==
    /\ sweep' = [sweep EXCEPT ![i] = @ \ {t}]
    /\ target' = [target EXCEPT ![i] = {}]
    /\ drained' = [drained EXCEPT ![i] = FALSE]

\* drainProcessing, one LMOVE RIGHT -> RIGHT; an error, also of the last one
\* that would have found the list empty, abandons this target.
ReapMove(i, t, o) ==
    /\ Current(i, t)
    /\ processing[t] # <<>>
    /\ Redis(o)
    /\ IF Applied(o)
       THEN /\ pending' = Append(pending, Last(processing[t]))
            /\ processing' = [processing EXCEPT ![t] = Front(@)]
       ELSE UNCHANGED <<pending, processing>>
    /\ IF o = "ok"
       THEN /\ target' = [target EXCEPT ![i] = {t}]
            /\ UNCHANGED <<sweep, drained>>
       ELSE SkipTarget(i, t)
    /\ UNCHANGED <<beat, retry, dead, depth, life, workers, mover, intake, history, stalls>>

\* drainProcessing is over when an LMOVE finds the list empty.
DoneAtOnce(t) == TRUE
DrainOver(t) == processing[t] = <<>>

ReapNil(i, t, o) ==
    /\ Current(i, t)
    /\ DrainOver(t)
    /\ Redis(o)
    /\ IF o = "ok"
       THEN /\ target' = [target EXCEPT ![i] = {t}]
            /\ drained' = [drained EXCEPT ![i] = TRUE]
            /\ UNCHANGED sweep
       ELSE SkipTarget(i, t)
    /\ UNCHANGED <<redis, life, workers, mover, intake, history, stalls>>

\* ZREM instances, after the drain and in a command of its own.
Deregister(i, t, o) ==
    /\ t \in target[i]
    /\ drained[i]
    /\ Redis(o)
    /\ beat' = IF Applied(o) THEN [beat EXCEPT ![t] = "none"] ELSE beat
    /\ SkipTarget(i, t)
    /\ UNCHANGED <<pending, processing, retry, dead, depth, life, workers, mover, intake,
                   history, stalls>>

-----------------------------------------------------------------------------
(* Shutdown, crashes and time                                               *)

Departed == {i \in Instances : life[i] \in {"drain", "down"}}

\* The keeper and the mover forget what they had read.
Forget(i) ==
    /\ due' = [due EXCEPT ![i] = {}]
    /\ pushed' = [pushed EXCEPT ![i] = {}]
    /\ sweep' = [sweep EXCEPT ![i] = {}]
    /\ target' = [target EXCEPT ![i] = {}]
    /\ drained' = [drained EXCEPT ![i] = FALSE]

\* Close, or the cancellation of Start's context: nothing in Redis changes.
\* The keeper and the mover stop, now (cancelled) or when their pass is over.
Close(i) ==
    /\ life[i] = "up"
    /\ Cardinality(Departed) < MaxDepartures
    /\ life' = [life EXCEPT ![i] = "drain"]
    /\ Forget(i) \/ UNCHANGED <<mover, keeper>>
    /\ UNCHANGED <<redis, workers, intake, history, faults, stalls>>

\* The process ends: killed at any point, or leaving once Close returns
\* (drained, or its drain budget spent with handlers still running).
Exit(i) ==
    /\ Alive(i)
    /\ life[i] = "drain" \/ Cardinality(Departed) < MaxDepartures
    /\ life' = [life EXCEPT ![i] = "down"]
    /\ pc' = [p \in Procs |-> IF Inst(p) = i THEN "gone" ELSE pc[p]]
    /\ held' = [p \in Procs |-> IF Inst(p) = i THEN {} ELSE held[p]]
    /\ Forget(i)
    /\ UNCHANGED <<redis, intake, history, faults, stalls>>

\* instanceReclaimAfter passes without a heartbeat.  It takes a replica that
\* is gone (Legacy's writers are), one that drains for that long, or one
\* whose keeper is held up while the rest of it may still run.
Expire(t) ==
    /\ beat[t] = "fresh"
    /\ beat' = [beat EXCEPT ![t] = "stale"]
    /\ \/ /\ \/ t = Legacy
             \/ t # Legacy /\ life[t] = "down"
             \/ t # Legacy /\ life[t] = "drain" /\ DrainOutlivesReclaim
          /\ UNCHANGED stalls
       \/ /\ t # Legacy /\ Alive(t)
          /\ stalls < MaxStalls
          /\ stalls' = stalls + 1
    /\ UNCHANGED <<pending, processing, retry, dead, depth, life, workers, mover, keeper,
                   intake, history, faults>>

-----------------------------------------------------------------------------
Enqueue == \E j \in Jobs, i \in Instances, o \in Outcomes :
    EnqueueCheck(j, i, o) \/ EnqueuePush(j, i, o)

Start(i) ==
    \/ \E o \in Outcomes :
           \/ Register(i, o) \/ LegacyScan(i, o) \/ LegacyMark(i, o)
           \/ RecoverOrphans(i, o) \/ FirstReap(i, o)
    \/ Launch(i)

Worker(p) ==
    \/ \E o \in Outcomes : Claim(p, o)
    \/ Quit(p)
    \/ \E x \in held[p], d \in Dispositions : Handle(p, x, d)
    \/ \E x \in held[p], o \in Outcomes :
           Bury(p, x, o) \/ ScheduleRetry(p, x, o) \/ Ack(p, x, o)

RetryMover(i) ==
    \/ \E S \in SUBSET retry : MoverScan(i, S)
    \/ \E m \in due[i], o \in Outcomes : MoverPush(i, m, o) \/ MoverRem(i, m, o)

Reap(i) == \E t \in sweep[i], o \in Outcomes :
    ReapMove(i, t, o) \/ ReapNil(i, t, o) \/ Deregister(i, t, o)

Keeper(i) == (\E o \in Outcomes : Heartbeat(i, o)) \/ ReapScan(i) \/ Reap(i)

Next ==
    \/ Enqueue
    \/ \E i \in Instances :
           Start(i) \/ RetryMover(i) \/ Keeper(i) \/ Close(i) \/ Exit(i)
    \/ \E p \in Procs : Worker(p)
    \/ \E t \in Owners : Expire(t)

Spec == Init /\ [][Next]_vars

-----------------------------------------------------------------------------
(* Properties                                                               *)

\* The type of every variable.
TypeOK ==
    /\ pending \in Seq(Payloads)
    /\ processing \in [Owners -> Seq(Payloads)]
    /\ beat \in [Owners -> {"none", "fresh", "stale"}]
    /\ retry \subseteq Payloads
    /\ dead \subseteq Jobs \cup {Unnamed}
    /\ depth \in 0..DeadLetterMax
    /\ life \in [Instances -> {"off", "scan", "mark", "orphans", "first", "boot",
                             "up", "drain", "down"}]
    /\ pc \in [Procs -> {"gone", "poll", "handle", "bury", "retry", "ack"}]
    /\ held \in [Procs -> SUBSET Payloads]
    /\ due \in [Instances -> SUBSET Payloads]
    /\ pushed \in [Instances -> SUBSET Payloads]
    /\ sweep \in [Instances -> SUBSET Owners]
    /\ target \in [Instances -> SUBSET Owners]
    /\ drained \in [Instances -> BOOLEAN]
    /\ intake \in [Jobs -> {"new", "accepted", "error"} \cup Instances]
    /\ arrivals \in Seq(Jobs)
    /\ taken \subseteq Jobs
    /\ settled \subseteq Jobs
    /\ faults \in 0..MaxFaults
    /\ stalls \in 0..MaxStalls

\* A worker holds one payload at most, and schedules a retry only for one
\* that has a retry left.
HeldOK ==
    \A p \in Procs : \A x \in held[p] :
        /\ held[p] = {x}
        /\ pc[p] = "retry" => MayRetry(x)

\* x is an element of the list s.
Has(s, x) == \E k \in DOMAIN s : s[k] = x

\* A copy of payload x that a worker may still be given.
Queued(x) == Has(pending, x) \/ \E i \in Owners : Has(processing[i], x)
Stored(x) == Queued(x) \/ x \in retry

\* Close's contract and the reason the driver exists ("Nothing is lost"): a
\* job whose Enqueue succeeded, and one the old version left behind, has a
\* payload in Redis until a handler acked it or a dead letter was written for
\* it, whatever crashes, stalls, reclaims and failed commands intervene.
NothingLost ==
    \A j \in Jobs : intake[j] = "accepted" =>
        j \in settled \/ \E x \in Payloads : x.job = j /\ Stored(x)

\* A later payload of x's job: what scheduleRetry made of it, or of that.
Ahead(x) == \E y \in Payloads :
    y.job = x.job /\ y.attempts > x.attempts /\ Stored(y)

\* What makes NothingLost hold step by step.  When a worker comes to LREM a
\* payload the job is settled or a later payload of it is in Redis ("ZADD,
\* then ack"); when a mover comes to ZREM a member that it pushed, the pushed
\* copy or a later payload is still there, or the job settled ("LPush before
\* ZRem"), although other replicas may have claimed, retried, reclaimed and
\* moved the same payload in between.
HandoverSafe ==
    /\ \A p \in Procs : \A x \in held[p] :
          pc[p] = "ack" => x.job \in settled \/ Ahead(x)
    /\ \A i \in Instances : \A m \in pushed[i] :
          m.job \in settled \/ Queued(m) \/ Ahead(m)

\* "A Redis LIST with LPUSH + LMOVE tail preserves arrival order": across
\* all replicas no job is claimed for the first time before one that arrived
\* earlier, whatever retries and reclaimed payloads are mixed in.
FirstClaimsInOrder ==
    \A a, b \in DOMAIN arrivals :
        a < b /\ arrivals[b] \in taken => arrivals[a] \in taken

\* The reaper reaches every claim: a replica that holds payloads is in the
\* instances ZSET, so its work is recovered when it dies (Start registers
\* before it claims; reapDeadInstances deregisters only after the drain).
ClaimsReapable ==
    \A i \in Instances : processing[i] # <<>> => beat[i] # "none"

-----------------------------------------------------------------------------
(* The contract of queue.go, as this driver keeps it.                       *)

\* The attempts on the payloads of job j that Redis holds.
Counts(j) == {n \in 0..MaxRetries : Stored([job |-> j, attempts |-> n])}

Fate(j) ==
    CASE j \in settled -> "settled"
      [] j \notin settled /\ Counts(j) # {} -> "owed"
      [] OTHER -> "outside"

Tries(j) ==
    LET C == Counts(j) IN IF j \in settled \/ C = {} THEN 0 ELSE Max(C)

\* The workers whose handler, or whose bookkeeping after it, has job j.
Hands(j) == {p \in Procs : /\ pc[p] \in {"handle", "retry", "bury"}
                           /\ \E x \in held[p] : x.job = j}

Contract == INSTANCE JobQueue WITH
    Slots      <- Procs,
    Redelivers <- TRUE,
    fate       <- [j \in Jobs |-> Fate(j)],
    tries      <- [j \in Jobs |-> Tries(j)],
    hands      <- [j \in Jobs |-> Hands(j)],
    closing    <- FALSE

\* The fleet implements the contract of a durable queue: a job is owed as
\* soon as its payload is pushed and until it settles, settled by a worker
\* that had it in hand, a settled job stays settled, and the attempts charged
\* to it never go back and end at MaxRetries, whichever of its copies (claimed,
\* retried, reclaimed, moved) each replica works on.  A handler run that a crash
\* cuts short is charged to nobody and may be repeated any number of times.
ImplementsQueue == Contract!Spec

\* Liveness is the heartbeat ("a replica keeps heartbeating while it holds a
\* job"): nobody takes a payload away from a replica that is still running.
LiveClaimsKept ==
    [][\A i \in Instances :
          Alive(i) /\ Alive(i)' =>
              \A x \in Payloads :
                  Has(processing[i], x) /\ ~Has(processing[i], x)' =>
                      \E p \in Procs : Inst(p) = i /\ x \in held[p] /\ pc[p] = "ack"]_vars

\* No job is in its first run twice at once: concurrent handlers of one job
\* would pay the vendor and post the webhook twice.  (Retried payloads may
\* be: two movers can both push the same one.)
NoOverlap ==
    \A p, q \in Procs :
        p # q /\ pc[p] = "handle" /\ pc[q] = "handle" =>
            \A x \in held[p], y \in held[q] :
                x.job = y.job => x.attempts > 0 \/ y.attempts > 0

-----------------------------------------------------------------------------
(* Statements of the code's comments and documents that this code does not  *)
(* keep; no configuration checks them, the README tells how each fails.     *)

\* drainProcessing "moves every payload in key back onto the tail of pending,
\* preserving arrival order": of two never-retried payloads in pending, the
\* one nearer to the claiming end arrived earlier.
ReclaimKeepsOrder ==
    \A k, l \in DOMAIN pending : \A a, b \in DOMAIN arrivals :
        /\ k < l /\ pending[k].attempts = 0 /\ pending[l].attempts = 0
        /\ pending[k].job = arrivals[a] /\ pending[l].job = arrivals[b]
        => b <= a

\* "Liveness is the heartbeat, NOT job duration: a replica keeps
\* heartbeating while it holds a job".
HoldersKeepBeating ==
    \A p \in Procs : pc[p] = "handle" => beat[Inst(p)] = "fresh"

\* "Jobs not finished stay in the processing list and are redelivered by
\* orphan recovery on the next Start": once a Start has returned, no replica
\* that had gone down before still holds a payload.
NextStartRecovers ==
    [][\A i, d \in Instances :
          life[i] = "boot" /\ life'[i] = "up" /\ life[d] = "down" =>
              processing'[d] = <<>>]_vars

\* ClaimsReapable for replicas that have stopped, whatever stalled before:
\* "crashing in between must leave the instance reapable, not forget it".
CrashedStayReapable ==
    \A i \in Instances :
        life[i] = "down" /\ processing[i] # <<>> => beat[i] # "none"

-----------------------------------------------------------------------------
(* Progress.  Weak fairness of what the goroutines do by themselves: a      *)
(* worker's next step (the handler returns because of JobTimeout), the      *)
(* mover's and the keeper's tickers, Start's next command, the passing of   *)
(* time.  Nothing forces an enqueue, a close or a crash; faults are not     *)
(* forced either because the bound on them is reached or never used up.     *)
Fairness ==
    /\ \A i \in Instances :
          WF_vars(Start(i)) /\ WF_vars(RetryMover(i)) /\ WF_vars(Keeper(i))
    /\ \A p \in Procs : WF_vars(Worker(p))
    /\ \A t \in Owners : WF_vars(Expire(t))

FairSpec == Spec /\ Fairness

\* Every accepted job is eventually settled, also one whose replica died
\* with it and one left behind by the old version, as long as one replica
\* stays: the reaper "is the only path that recovers a crashed replica's
\* jobs, so it must run".
EventuallySettled ==
    <>[](\A j \in Jobs : intake[j] = "accepted" => j \in settled)
=============================================================================
