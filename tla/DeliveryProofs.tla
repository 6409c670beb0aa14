--------------------------- MODULE DeliveryProofs ---------------------------
(***************************************************************************)
(* Proofs about Delivery, for every number of jobs, workers, sinks,         *)
(* retries, faults and crashes: what an ack and an audit record promise,    *)
(* and when a sink gets a job once.                                         *)
(***************************************************************************)
EXTENDS Delivery, TLAPS

Busy(w) == pc[w] # "idle"

Receipts == [env : Envelopes, life : Nat, try : Nat]

\* Where a worker is, its envelope is of the job in its hands, and its place
\* in MultiSink.Write is a sink.
WorkerInv ==
    /\ received \in [DOMAIN Sinks -> SUBSET Receipts] /\ life \in Nat /\ faults \in Nat
    /\ \A w \in Workers :
        /\ Busy(w) => held[w] \in Payloads
        /\ pc[w] \in {"sinks", "send", "audit"} =>
              env[w] \in Envelopes /\ env[w].job = held[w].job /\ env[w].verdict \in Verdicts
        /\ pc[w] = "send" => sink[w] <= Len(Sinks)
        /\ owns[w] => Busy(w)

\* Without reclaims the queue gives a job out to one worker at a time.
OneRun ==
    /\ \A w \in Workers : Busy(w) => owns[w]
    /\ \A w \in Workers, x \in ready : Busy(w) => x.job # held[w].job
    /\ \A w, u \in Workers : Busy(w) /\ Busy(u) /\ held[w].job = held[u].job => w = u
    /\ \A x, y \in ready : x.job = y.job => x = y

\* The destinations without a predicate.
Everything == {k \in DOMAIN Sinks : Routes[k] = Verdicts}

AllGot(j) == \A k \in Everything : Got(k, j)

\* Worker w is sending job j to sink k.
Sends(w, k, j) == pc[w] = "send" /\ sink[w] = k /\ held[w].job = j

\* A claim is backed by a delivery or by a worker that is about to make it.
Backed(k, j) == j \in written[k] => Got(k, j) \/ \E w \in Workers : Sends(w, k, j)

\* A sink that is behind a worker has the job, unless the worker knows of a
\* failure; after the last sink only a clean run goes on to audit and ack.
OnTrack(w) ==
    /\ pc[w] \in {"sinks", "send"} /\ ~failed[w] =>
          \A k \in Everything : k < sink[w] => Got(k, held[w].job)
    /\ pc[w] = "audit" => AllGot(held[w].job)
    /\ pc[w] \in {"report", "settle"} /\ disp[w] = "Ack" =>
          held[w].job \in EmptyVideos \/ AllGot(held[w].job)

\* What is acked or on record is delivered.
Settled ==
    /\ \A j \in acked : j \in EmptyVideos \/ AllGot(j)
    /\ \A e \in audit : AllGot(e.job)

DeliveredInv ==
    /\ \A k \in DOMAIN Sinks, j \in Jobs : Backed(k, j)
    /\ \A w \in Workers : OnTrack(w)
    /\ Settled

\* Who sends to a sink has the only claim on it, and nothing of this life is
\* there yet; what is there of this life is claimed.
Claimed(w) == pc[w] = "send" => held[w].job \in written[sink[w]]

FirstOfLife(w, k) == \A r \in received[k] : Sends(w, k, r.env.job) => r.life # life

InClaim(k, r) == r.life <= life /\ (r.life = life => r.env.job \in written[k])

OnceInv ==
    /\ \A w \in Workers : Claimed(w)
    /\ \A w, u \in Workers, k \in DOMAIN Sinks, j \in Jobs :
          Sends(w, k, j) /\ Sends(u, k, j) => w = u
    /\ \A w \in Workers, k \in DOMAIN Sinks : FirstOfLife(w, k)
    /\ \A k \in DOMAIN Sinks : \A r \in received[k] : InClaim(k, r)
    /\ OncePerLife

TInv == TypeOK /\ WorkerInv

-----------------------------------------------------------------------------
(* Types                                                                    *)

\* The number of sinks.
LEMMA SinkPlaces == Len(Sinks) \in Nat /\ DOMAIN Sinks = 1..Len(Sinks)
<1>1. Sinks \in Seq({"file", "webhook"})
  BY DeliveryAssumption
<1> QED
  BY <1>1

\* What the result store shows keeps its type.
LEMMA RecordTyped ==
  ASSUME TypeOK, NEW j \in Jobs, NEW s \in {"none", "queued", "processing", "done", "dead_lettered"},
         NEW e \in Envelopes \cup {NoEnv}, record(j, s, e)
  PROVE  shown' \in [Jobs -> [state : {"none", "queued", "processing", "done", "dead_lettered"},
                              env : Envelopes \cup {NoEnv}]]
  BY DEF TypeOK, record

\* The initial state is typed.
LEMMA InitTyped == Init => TInv
<1> SUFFICES ASSUME Init PROVE TInv
  OBVIOUS
<1>1. ready \subseteq Payloads
  BY DeliveryAssumption DEF Init, Payloads
<1>2. sink \in [Workers -> 1..Len(Sinks) + 1] /\ tries \in [Workers -> 0..MaxAttempts]
  BY DeliveryAssumption, SinkPlaces DEF Init
<1>3. written \in [DOMAIN Sinks -> SUBSET Jobs] /\ received \in [DOMAIN Sinks -> SUBSET Receipts]
  BY DEF Init
<1>4. \A k \in DOMAIN Sinks : received[k] = {}
  BY DEF Init
<1>5. runs \in [Jobs -> Nat] /\ life \in Nat /\ faults \in Nat
  BY DEF Init
<1>6. shown \in [Jobs -> [state : {"none", "queued", "processing", "done", "dead_lettered"},
                          env : Envelopes \cup {NoEnv}]]
  BY DEF Init
<1>7. TypeOK
  BY <1>1, <1>2, <1>3, <1>4, <1>5, <1>6 DEF Init, TypeOK
<1>8. WorkerInv
  BY <1>3, <1>5 DEF Init, WorkerInv, Busy
<1> QED
  BY <1>7, <1>8 DEF TInv

\* The steps of the handler keep the types.
LEMMA HandlerTyped ==
  ASSUME TypeOK, WorkerInv, NEW w \in Workers, Handler(w) \/ \E x \in ready : Deliver(w, x)
  PROVE  TInv'
<1>t. Len(Sinks) \in Nat /\ DOMAIN Sinks = 1..Len(Sinks) /\ MaxRetries \in Nat /\ MaxAttempts \in Nat
  BY SinkPlaces, DeliveryAssumption
<1>1. ASSUME NEW x \in ready, Deliver(w, x) PROVE TInv'
  <2>1. x \in Payloads /\ x.job \in Jobs
    BY DEF TypeOK, Payloads
  <2>2. shown' \in [Jobs -> [state : {"none", "queued", "processing", "done", "dead_lettered"},
                             env : Envelopes \cup {NoEnv}]]
    BY <1>1, <2>1, RecordTyped DEF Deliver
  <2>3. runs' \in [Jobs -> Nat]
    BY <1>1, <2>1 DEF Deliver, TypeOK
  <2>4. TypeOK'
    BY <1>1, <2>1, <2>2, <2>3 DEF Deliver, TypeOK, outside
  <2>5. WorkerInv'
    BY <1>1, <2>1 DEF Deliver, TypeOK, WorkerInv, Busy, outside, bounds
  <2> QED
    BY <2>4, <2>5 DEF TInv
<1>2. ASSUME NEW v \in Possible, Evaluate(w, v) PROVE TInv'
  <2>1. held[w] \in Payloads /\ held[w].job \in Jobs /\ v \in Verdicts
    BY <1>2, DeliveryAssumption DEF Evaluate, WorkerInv, Busy, Payloads
  <2>2. runs[held[w].job] \in Nat
    BY <2>1 DEF TypeOK
  <2> DEFINE e == [job |-> held[w].job, run |-> runs[held[w].job], verdict |-> v]
  <2>3. e \in Envelopes /\ e.job = held[w].job /\ e.verdict \in Verdicts
    BY <2>1, <2>2 DEF Envelopes
  <2>4. env' = [env EXCEPT ![w] = e]
    BY <1>2 DEF Evaluate
  <2> HIDE DEF e
  <2>5. TypeOK'
    BY <1>2, <1>t, <2>3, <2>4 DEF Evaluate, TypeOK, outside
  <2>6. WorkerInv'
    BY <1>2, <1>t, <2>1, <2>3, <2>4 DEF Evaluate, TypeOK, WorkerInv, Busy, outside, bounds
  <2> QED
    BY <2>5, <2>6 DEF TInv
<1>3. CASE SkipEmpty(w)
  <2>1. held[w] \in Payloads /\ held[w].job \in Jobs
    BY <1>3 DEF SkipEmpty, WorkerInv, Busy, Payloads
  <2>2. runs[held[w].job] \in Nat
    BY <2>1 DEF TypeOK
  <2> DEFINE e == [job |-> held[w].job, run |-> runs[held[w].job], verdict |-> "none"]
  <2>3. e \in Envelopes
    BY <2>1, <2>2 DEF Envelopes
  <2>4. env' = [env EXCEPT ![w] = e]
    BY <1>3 DEF SkipEmpty
  <2> HIDE DEF e
  <2>5. pc' = [pc EXCEPT ![w] = "report"] /\ seen' \subseteq Jobs /\ faults' \in Nat
    BY <1>3, <2>1 DEF SkipEmpty, Dispose, Fault, TypeOK, WorkerInv
  <2>6. disp' \in [Workers -> {"none", "Ack", "Retry", "DeadLetter"}]
    BY <1>3 DEF SkipEmpty, Dispose, TypeOK
  <2>u. UNCHANGED <<ready, acked, dead, held, owns, sink, failed, tries, written, received,
                    audit, posted, shown, runs>>
    BY <1>3 DEF SkipEmpty
  <2>7. TypeOK'
    BY <2>3, <2>4, <2>5, <2>6, <2>u DEF TypeOK
  <2>8. WorkerInv'
    BY <1>3, <2>1, <2>4, <2>5 DEF SkipEmpty, TypeOK, WorkerInv, Busy
  <2> QED
    BY <2>7, <2>8 DEF TInv
<1>4. CASE Panic(w)
  <2>1. faults' \in Nat
    BY <1>4 DEF Panic, Fault, WorkerInv
  <2>2. TypeOK'
    BY <1>4 DEF Panic, TypeOK, outside
  <2>3. WorkerInv'
    BY <1>4, <2>1 DEF Panic, TypeOK, WorkerInv, Busy, outside
  <2> QED
    BY <2>2, <2>3 DEF TInv
<1>5. CASE SinkClaim(w)
  <2>1. held[w].job \in Jobs /\ sink[w] \in DOMAIN Sinks
    BY <1>5, <1>t DEF SinkClaim, WorkerInv, TypeOK, Busy, Payloads
  <2>2. CASE /\ written' = [written EXCEPT ![sink[w]] = @ \cup {held[w].job}]
             /\ pc' = [pc EXCEPT ![w] = "send"]
             /\ tries' = [tries EXCEPT ![w] = 1]
             /\ sink' = sink
    <3>1. 1 \in 0..MaxAttempts
      BY DeliveryAssumption
    <3>2. TypeOK'
      BY <1>5, <2>1, <2>2, <3>1 DEF SinkClaim, TypeOK
    <3>3. WorkerInv'
      BY <1>5, <1>t, <2>1, <2>2 DEF SinkClaim, TypeOK, WorkerInv, Busy, bounds
    <3> QED
      BY <3>2, <3>3 DEF TInv
  <2>3. CASE NextSink(w) /\ UNCHANGED <<written, pc, tries>>
    <3>1. sink' \in [Workers -> 1..Len(Sinks) + 1] /\ \A u \in Workers : u # w => sink'[u] = sink[u]
      BY <1>t, <2>1, <2>3 DEF NextSink, TypeOK
    <3>2. TypeOK'
      BY <1>5, <2>3, <3>1 DEF SinkClaim, TypeOK
    <3>3. WorkerInv'
      BY <1>5, <2>3, <3>1 DEF SinkClaim, TypeOK, WorkerInv, Busy, bounds
    <3> QED
      BY <3>2, <3>3 DEF TInv
  <2> QED
    BY <1>5, <2>2, <2>3 DEF SinkClaim, Current
<1>r. ASSUME pc[w] = "send"
      PROVE  /\ sink[w] \in DOMAIN Sinks
             /\ Received(w) \in [DOMAIN Sinks -> SUBSET Receipts]
             /\ \A k \in DOMAIN Sinks : \A r \in Received(w)[k] : r.env \in Envelopes
  <2>1. sink[w] \in DOMAIN Sinks /\ env[w] \in Envelopes /\ life \in Nat /\ tries[w] \in Nat
    BY <1>t, <1>r DEF WorkerInv, TypeOK
  <2>2. [env |-> env[w], life |-> life, try |-> tries[w]] \in Receipts
    BY <2>1 DEF Receipts
  <2>3. Received(w) \in [DOMAIN Sinks -> SUBSET Receipts]
    BY <2>1, <2>2 DEF Received, Current, WorkerInv
  <2>4. \A r \in Receipts : r.env \in Envelopes
    BY DEF Receipts
  <2> QED
    BY <2>1, <2>3, <2>4
<1>s. pc[w] = "send" /\ NextSink(w) =>
         /\ sink' \in [Workers -> 1..Len(Sinks) + 1]
         /\ \A u \in Workers : u # w => sink'[u] = sink[u]
  BY <1>t DEF NextSink, TypeOK, WorkerInv
<1>6. CASE SendOk(w)
  <2>1. TypeOK'
    BY <1>6, <1>r, <1>s DEF SendOk, TypeOK
  <2>2. WorkerInv'
    BY <1>6, <1>r, <1>s DEF SendOk, TypeOK, WorkerInv, Busy, bounds
  <2> QED
    BY <2>1, <2>2 DEF TInv
<1>7. ASSUME NEW final \in BOOLEAN, SendFails(w, final) PROVE TInv'
  <2>1. pc[w] = "send" /\ faults' \in Nat
    BY <1>7 DEF SendFails, Fault, WorkerInv
  <2>2. /\ received' \in [DOMAIN Sinks -> SUBSET Receipts]
        /\ \A k \in DOMAIN Sinks : \A r \in received'[k] : r.env \in Envelopes
    BY <1>7, <1>r, <2>1 DEF SendFails, TypeOK, WorkerInv
  <2>3. CASE /\ tries[w] < MaxAttempts /\ tries' = [tries EXCEPT ![w] = @ + 1]
             /\ UNCHANGED <<pc, sink, failed, written>>
    <3>1. tries' \in [Workers -> 0..MaxAttempts]
      BY <1>t, <2>3 DEF TypeOK
    <3>2. TypeOK'
      BY <1>7, <2>2, <2>3, <3>1 DEF SendFails, TypeOK
    <3>3. WorkerInv'
      BY <1>7, <2>1, <2>2, <2>3 DEF SendFails, WorkerInv, Busy
    <3> QED
      BY <3>2, <3>3 DEF TInv
  <2>4. CASE /\ written' = Released(sink[w], held[w].job)
             /\ failed' = [failed EXCEPT ![w] = TRUE]
             /\ pc' = [pc EXCEPT ![w] = "sinks"]
             /\ NextSink(w)
             /\ tries' = tries
    <3>1. written' \in [DOMAIN Sinks -> SUBSET Jobs]
      BY <2>4 DEF Released, TypeOK
    <3>2. TypeOK'
      BY <1>7, <1>s, <2>1, <2>2, <2>4, <3>1 DEF SendFails, TypeOK
    <3>3. WorkerInv'
      BY <1>7, <1>s, <2>1, <2>2, <2>4 DEF SendFails, TypeOK, WorkerInv, Busy
    <3> QED
      BY <3>2, <3>3 DEF TInv
  <2> QED
    BY <1>7, <2>3, <2>4 DEF SendFails, Current
<1>8. CASE SinksDone(w)
  <2>1. TypeOK'
    BY <1>8 DEF SinksDone, Dispose, TypeOK, outside
  <2>2. WorkerInv'
    BY <1>8 DEF SinksDone, Dispose, TypeOK, WorkerInv, Busy, outside, bounds
  <2> QED
    BY <2>1, <2>2 DEF TInv
<1>9. CASE AuditRecord(w)
  <2>1. held[w].job \in Jobs /\ env[w] \in Envelopes
    BY <1>9 DEF AuditRecord, WorkerInv, Busy, Payloads
  <2>2. pc' = [pc EXCEPT ![w] = "report"] /\ seen' \subseteq Jobs /\ audit' \subseteq Envelopes
    BY <1>9, <2>1 DEF AuditRecord, Dispose, TypeOK
  <2>3. disp' \in [Workers -> {"none", "Ack", "Retry", "DeadLetter"}]
    BY <1>9 DEF AuditRecord, Dispose, TypeOK
  <2>4. faults' \in Nat
    BY <1>9 DEF AuditRecord, Fault, WorkerInv
  <2>5. TypeOK'
    BY <1>9, <2>2, <2>3 DEF AuditRecord, TypeOK
  <2>6. WorkerInv'
    BY <1>9, <2>2, <2>4 DEF AuditRecord, TypeOK, WorkerInv, Busy
  <2> QED
    BY <2>5, <2>6 DEF TInv
<1>10. CASE Report(w)
  <2>1. held[w].job \in Jobs /\ env[w] \in Envelopes \cup {NoEnv}
    BY <1>10 DEF Report, WorkerInv, TypeOK, Busy, Payloads
  <2>2. shown' \in [Jobs -> [state : {"none", "queued", "processing", "done", "dead_lettered"},
                             env : Envelopes \cup {NoEnv}]]
    <3>1. CASE shown' = shown
      BY <3>1 DEF TypeOK
    <3>2. CASE record(held[w].job, "done", env[w])
      BY <2>1, <3>2, RecordTyped
    <3>3. CASE record(held[w].job, "dead_lettered", NoEnv)
      BY <2>1, <3>3, RecordTyped
    <3> QED
      BY <1>10, <3>1, <3>2, <3>3 DEF Report, recordTerminalStatus
  <2>3. TypeOK'
    BY <1>10, <2>2 DEF Report, TypeOK, outside
  <2>4. WorkerInv'
    BY <1>10 DEF Report, TypeOK, WorkerInv, Busy, outside, bounds
  <2> QED
    BY <2>3, <2>4 DEF TInv
<1>11. CASE Settle(w)
  <2> DEFINE x == held[w]
  <2>1. x \in Payloads /\ x.job \in Jobs
    BY <1>11 DEF Settle, WorkerInv, Busy, Payloads
  <2>2. MayRetry(x) => [x EXCEPT !.attempts = @ + 1] \in Payloads
    BY <1>t, <2>1 DEF MayRetry, Payloads
  <2>3. ready' \subseteq Payloads /\ acked' \subseteq Jobs /\ dead' \subseteq Jobs
    BY <1>11, <2>1, <2>2 DEF Settle, TypeOK
  <2>4. TypeOK'
    BY <1>11, <2>3 DEF Settle, TypeOK, outside
  <2>5. WorkerInv'
    BY <1>11 DEF Settle, TypeOK, WorkerInv, Busy, outside, bounds
  <2> QED
    BY <2>4, <2>5 DEF TInv
<1> QED
  BY <1>1, <1>2, <1>3, <1>4, <1>5, <1>6, <1>7, <1>8, <1>9, <1>10, <1>11 DEF Handler

\* Every step keeps the types.
LEMMA StepTyped == TInv /\ [Next]_vars => TInv'
<1> SUFFICES ASSUME TypeOK, WorkerInv, [Next]_vars PROVE TInv'
  BY DEF TInv
<1>1. ASSUME NEW w \in Workers, Handler(w) \/ \E x \in ready : Deliver(w, x) PROVE TInv'
  BY <1>1, HandlerTyped
<1>2. ASSUME NEW w \in Workers, Reclaim(w) PROVE TInv'
  <2>1. held[w] \in Payloads
    BY <1>2 DEF Reclaim, WorkerInv
  <2>2. TypeOK'
    BY <1>2, <2>1 DEF Reclaim, TypeOK, outside
  <2>3. WorkerInv'
    BY <1>2 DEF Reclaim, TypeOK, WorkerInv, Busy, outside
  <2> QED
    BY <2>2, <2>3 DEF TInv
<1>3. ASSUME NEW j \in Jobs, ShowQueued(j) PROVE TInv'
  <2>1. shown' \in [Jobs -> [state : {"none", "queued", "processing", "done", "dead_lettered"},
                             env : Envelopes \cup {NoEnv}]]
    BY <1>3, RecordTyped DEF ShowQueued
  <2>2. TypeOK'
    BY <1>3, <2>1 DEF ShowQueued, TypeOK, worker, outside
  <2>3. WorkerInv'
    BY <1>3 DEF ShowQueued, WorkerInv, Busy, worker, outside, bounds
  <2> QED
    BY <2>2, <2>3 DEF TInv
<1>4. ASSUME NEW j \in Jobs, NEW k \in DOMAIN Sinks, Sweep(k, j) PROVE TInv'
  <2>1. TypeOK'
    BY <1>4 DEF Sweep, TypeOK, worker
  <2>2. WorkerInv'
    BY <1>4 DEF Sweep, WorkerInv, Busy, worker, bounds
  <2> QED
    BY <2>1, <2>2 DEF TInv
<1>5. CASE Crash
  <2>1. ready' \subseteq Payloads /\ life' \in Nat
    BY <1>5 DEF Crash, Unacked, TypeOK, WorkerInv
  <2>2. shown' \in [Jobs -> [state : {"none", "queued", "processing", "done", "dead_lettered"},
                             env : Envelopes \cup {NoEnv}]]
    BY <1>5 DEF Crash
  <2>3. TypeOK'
    BY <1>5, <2>1, <2>2 DEF Crash, TypeOK
  <2>4. WorkerInv'
    BY <1>5, <2>1 DEF Crash, WorkerInv, Busy
  <2> QED
    BY <2>3, <2>4 DEF TInv
<1>6. CASE UNCHANGED vars
  BY <1>6 DEF vars, worker, outside, bounds, TInv, TypeOK, WorkerInv, Busy
<1> QED
  BY <1>1, <1>2, <1>3, <1>4, <1>5, <1>6 DEF Next

\* Every variable keeps its type; no payload counts more than max_retries
\* attempts and no worker leaves the list of sinks.
THEOREM TypeCorrect == Spec => []TypeOK
<1>1. TInv => TypeOK
  BY DEF TInv
<1> QED
  BY <1>1, InitTyped, StepTyped, PTL DEF Spec

-----------------------------------------------------------------------------
(* An ack and an audit record promise a delivery                            *)

\* Without reclaims no step gives a job to two workers.
LEMMA StepOneRun ==
  ASSUME ~Overlap, TypeOK, WorkerInv, OneRun, [Next]_vars
  PROVE  OneRun'
<1>1. ASSUME NEW w \in Workers, NEW x \in ready, Deliver(w, x) PROVE OneRun'
  <2>1. ready' = ready \ {x} /\ ~Busy(w)
    BY <1>1 DEF Deliver, Busy
  <2>2. /\ pc'[w] = "analyse" /\ held'[w] = x /\ owns'[w]
        /\ \A u \in Workers \ {w} : pc'[u] = pc[u] /\ held'[u] = held[u] /\ owns'[u] = owns[u]
    BY <1>1 DEF Deliver, TypeOK
  <2>3. (\A u \in Workers : Busy(u) => owns[u])'
    BY <2>2 DEF OneRun, Busy
  <2>4. ASSUME NEW u \in Workers, NEW z \in ready', Busy(u)' PROVE z.job # held'[u].job
    <3>1. CASE u = w
      BY <2>1, <2>2, <3>1 DEF OneRun
    <3>2. CASE u # w
      <4>1. Busy(u) /\ held'[u] = held[u] /\ z \in ready
        BY <2>1, <2>2, <2>4, <3>2 DEF Busy
      <4> QED
        BY <4>1 DEF OneRun
    <3> QED
      BY <3>1, <3>2
  <2>5. ASSUME NEW u \in Workers, NEW v \in Workers, Busy(u)', Busy(v)', held'[u].job = held'[v].job
        PROVE  u = v
    <3>1. \A t \in Workers \ {w} : Busy(t)' => Busy(t) /\ held'[t].job = held[t].job /\ held[t].job # x.job
      BY <2>2 DEF OneRun, Busy
    <3>2. held'[w].job = x.job
      BY <2>2
    <3> QED
      BY <2>5, <3>1, <3>2 DEF OneRun
  <2>6. (\A y, z \in ready : y.job = z.job => y = z)'
    BY <2>1 DEF OneRun
  <2> QED
    BY <2>3, <2>4, <2>5, <2>6 DEF OneRun
<1>2. ASSUME NEW w \in Workers, Handler(w), ~Settle(w) PROVE OneRun'
  <2>1. UNCHANGED <<ready, held, owns>>
    BY <1>2 DEF Handler, Evaluate, SkipEmpty, Panic, SinkClaim, SendOk, SendFails, SinksDone,
                AuditRecord, Report
  <2>2. pc[w] # "idle" /\ (pc' = pc \/ \E s \in {"sinks", "send", "audit", "report", "settle"} :
                                          pc' = [pc EXCEPT ![w] = s])
    <3>1. CASE (\E v \in Possible : Evaluate(w, v)) \/ SkipEmpty(w) \/ Panic(w) \/ SinkClaim(w)
      BY <3>1 DEF Evaluate, SkipEmpty, Panic, SinkClaim, Dispose
    <3>2. CASE SendOk(w) \/ \E final \in BOOLEAN : SendFails(w, final)
      BY <3>2 DEF SendOk, SendFails
    <3>3. CASE SinksDone(w) \/ AuditRecord(w) \/ Report(w)
      BY <3>3 DEF SinksDone, AuditRecord, Report, Dispose
    <3> QED
      BY <1>2, <3>1, <3>2, <3>3 DEF Handler
  <2>3. \A u \in Workers : pc'[u] # "idle" <=> pc[u] # "idle"
    BY <2>2 DEF TypeOK
  <2> QED
    BY <2>1, <2>3 DEF OneRun, Busy
<1>3. ASSUME NEW w \in Workers, Settle(w) PROVE OneRun'
  <2> DEFINE y == [held[w] EXCEPT !.attempts = @ + 1]
  <2>1. Busy(w) /\ held[w] \in Payloads
    BY <1>3 DEF Settle, Busy, WorkerInv
  <2>2. y.job = held[w].job
    BY <2>1 DEF Payloads
  <2>3. ready' = ready \/ ready' = ready \cup {y}
    BY <1>3 DEF Settle
  <2> HIDE DEF y
  <2>4. \A u \in Workers : /\ pc'[u] = IF u = w THEN "idle" ELSE pc[u]
                           /\ u # w => held'[u] = held[u] /\ owns'[u] = owns[u]
    BY <1>3 DEF Settle, TypeOK
  <2>5. \A u \in Workers : Busy(u)' => Busy(u) /\ u # w /\ held[u].job # held[w].job
    BY <2>1, <2>4 DEF OneRun, Busy
  <2>6. \A x \in ready : x.job # held[w].job
    BY <2>1 DEF OneRun
  <2>7. (\A u \in Workers : Busy(u) => owns[u])'
    BY <2>4, <2>5 DEF OneRun
  <2>8. (\A u \in Workers, x \in ready : Busy(u) => x.job # held[u].job)'
    BY <2>2, <2>3, <2>4, <2>5 DEF OneRun
  <2>9. (\A u, v \in Workers : Busy(u) /\ Busy(v) /\ held[u].job = held[v].job => u = v)'
    BY <2>4, <2>5 DEF OneRun
  <2>10. (\A x, z \in ready : x.job = z.job => x = z)'
    BY <2>2, <2>3, <2>6 DEF OneRun
  <2> QED
    BY <2>7, <2>8, <2>9, <2>10 DEF OneRun
<1>4. ASSUME NEW w \in Workers, Reclaim(w) PROVE OneRun'
  BY <1>4 DEF Reclaim
<1>5. CASE Crash
  <2>1. \A u \in Workers : ~Busy(u)'
    BY <1>5 DEF Crash, Busy
  <2>2. ASSUME NEW x \in ready', NEW z \in ready', x.job = z.job PROVE x = z
    <3>1. \A v \in ready' : v \in ready \/ \E u \in Workers : Busy(u) /\ v = held[u]
      BY <1>5 DEF Crash, Unacked, WorkerInv
    <3> QED
      BY <2>2, <3>1 DEF OneRun
  <2> QED
    BY <2>1, <2>2 DEF OneRun
<1>6. CASE \/ UNCHANGED vars
           \/ \E j \in Jobs : ShowQueued(j) \/ \E k \in DOMAIN Sinks : Sweep(k, j)
  <2>1. UNCHANGED <<ready, pc, held, owns>>
    BY <1>6 DEF vars, worker, ShowQueued, Sweep
  <2> QED
    BY <2>1 DEF OneRun, Busy
<1> QED
  BY <1>1, <1>2, <1>3, <1>4, <1>5, <1>6 DEF Next

\* What a destination has got it keeps.
LEMMA Grows ==
  ASSUME TypeOK, WorkerInv, [Next]_vars, NEW k \in DOMAIN Sinks, NEW j
  PROVE  Got(k, j) => Got(k, j)'
<1>1. received[k] \subseteq received'[k]
  <2>1. ASSUME NEW w \in Workers PROVE received[k] \subseteq Received(w)[k]
    BY DEF Received, WorkerInv
  <2>2. CASE received' = received
    BY <2>2
  <2>3. ASSUME NEW w \in Workers, Handler(w) PROVE received' \in {received, Received(w)}
    BY <2>3 DEF Handler, Evaluate, SkipEmpty, Panic, SinkClaim, SendOk, SendFails, SinksDone,
                AuditRecord, Report, Settle, outside
  <2>4. ASSUME NEW w \in Workers, (\E x \in ready : Deliver(w, x)) \/ Reclaim(w)
        PROVE  received' = received
    BY <2>4 DEF Deliver, Reclaim, outside
  <2>5. CASE \/ UNCHANGED vars \/ Crash
             \/ \E i \in Jobs : ShowQueued(i) \/ \E n \in DOMAIN Sinks : Sweep(n, i)
    BY <2>5 DEF vars, ShowQueued, Sweep, Crash, outside
  <2> QED
    BY <2>1, <2>2, <2>3, <2>4, <2>5 DEF Next
<1> QED
  BY <1>1 DEF Got

\* A step of one worker leaves the others alone.
LEMMA OthersKeep ==
  ASSUME TypeOK, NEW w \in Workers, Handler(w) \/ \E x \in ready : Deliver(w, x),
         NEW u \in Workers, u # w
  PROVE  /\ pc'[u] = pc[u] /\ held'[u] = held[u] /\ sink'[u] = sink[u]
         /\ failed'[u] = failed[u] /\ disp'[u] = disp[u]
<1>1. CASE (\E x \in ready : Deliver(w, x)) \/ (\E v \in Possible : Evaluate(w, v)) \/ SkipEmpty(w)
  BY <1>1 DEF Deliver, Evaluate, SkipEmpty, Dispose, TypeOK
<1>2. CASE Panic(w) \/ SinkClaim(w)
  BY <1>2 DEF Panic, SinkClaim, NextSink, TypeOK
<1>3. CASE SendOk(w) \/ \E final \in BOOLEAN : SendFails(w, final)
  BY <1>3 DEF SendOk, SendFails, NextSink, TypeOK
<1>4. CASE SinksDone(w) \/ AuditRecord(w) \/ Report(w) \/ Settle(w)
  BY <1>4 DEF SinksDone, AuditRecord, Report, Settle, Dispose, TypeOK
<1> QED
  BY <1>1, <1>2, <1>3, <1>4 DEF Handler

\* After a step of another worker, or none, a worker is as far as it was.
LEMMA TrackKept ==
  ASSUME TypeOK, WorkerInv, [Next]_vars, NEW w \in Workers, OnTrack(w),
         /\ pc'[w] = pc[w] /\ held'[w] = held[w] /\ sink'[w] = sink[w]
         /\ failed'[w] = failed[w] /\ disp'[w] = disp[w]
  PROVE  OnTrack(w)'
<1>1. PICK j : j = held[w].job
  OBVIOUS
<1>2. \A k \in DOMAIN Sinks : Got(k, j) => Got(k, j)'
  BY Grows
<1>3. held'[w].job = j
  BY <1>1
<1> QED
  BY <1>1, <1>2, <1>3 DEF OnTrack, AllGot, Everything

\* Every worker stays on track.  A sink is passed over when it is not for the
\* verdict, which a destination without a predicate never is, or when the job
\* is claimed: without reclaims nobody else is sending it, so it was sent.
LEMMA StepOnTrack ==
  ASSUME ~Overlap, TypeOK, WorkerInv, OneRun, DeliveredInv, [Next]_vars, NEW w \in Workers
  PROVE  OnTrack(w)'
<1>t. Len(Sinks) \in Nat /\ DOMAIN Sinks = 1..Len(Sinks) /\ sink[w] \in 1..Len(Sinks) + 1
  BY SinkPlaces DEF TypeOK
<1>i. OnTrack(w)
  BY DEF DeliveredInv
<1>g. ASSUME NEW j, NEW k \in DOMAIN Sinks, Got(k, j) PROVE Got(k, j)'
  BY <1>g, Grows
<1>j. PICK j : j = held[w].job
  OBVIOUS
<1>1. ASSUME NEW u \in Workers, u # w, Handler(u) \/ \E x \in ready : Deliver(u, x) PROVE OnTrack(w)'
  BY <1>1, <1>i, OthersKeep, TrackKept
<1>2. CASE \/ UNCHANGED vars \/ \E u \in Workers : Reclaim(u)
           \/ \E i \in Jobs : ShowQueued(i) \/ \E n \in DOMAIN Sinks : Sweep(n, i)
  <2>1. UNCHANGED <<pc, held, sink, failed, disp>>
    BY <1>2 DEF vars, worker, Reclaim, ShowQueued, Sweep
  <2> QED
    BY <1>i, <2>1, TrackKept
<1>3. CASE Crash
  BY <1>3 DEF Crash, OnTrack
<1>4. ASSUME NEW x \in ready, Deliver(w, x) PROVE OnTrack(w)'
  <2>1. pc'[w] = "analyse"
    BY <1>4 DEF Deliver, TypeOK
  <2> QED
    BY <2>1 DEF OnTrack
<1>5. ASSUME NEW v \in Possible, Evaluate(w, v) PROVE OnTrack(w)'
  <2>1. pc'[w] = "sinks" /\ sink'[w] = 1
    BY <1>5 DEF Evaluate, TypeOK
  <2>2. \A k \in Everything : ~(k < 1)
    BY <1>t DEF Everything
  <2> QED
    BY <2>1, <2>2 DEF OnTrack
<1>6. CASE SkipEmpty(w)
  <2>1. pc'[w] = "report" /\ held' = held /\ held[w].job \in EmptyVideos
    BY <1>6 DEF SkipEmpty, Dispose, TypeOK
  <2> QED
    BY <2>1 DEF OnTrack
<1>7. CASE Panic(w)
  <2>1. pc'[w] = "settle" /\ disp'[w] = "DeadLetter"
    BY <1>7 DEF Panic, TypeOK
  <2> QED
    BY <2>1 DEF OnTrack
<1>8. CASE SinkClaim(w)
  <2>u. held' = held /\ failed' = failed /\ pc[w] = "sinks" /\ sink[w] <= Len(Sinks)
    BY <1>8 DEF SinkClaim
  <2>1. CASE pc' = [pc EXCEPT ![w] = "send"] /\ sink' = sink
    <3>1. pc'[w] = "send" /\ sink'[w] = sink[w] /\ failed'[w] = failed[w] /\ held'[w].job = j
      BY <1>j, <2>1, <2>u DEF TypeOK
    <3>2. ~failed[w] => \A k \in Everything : k < sink[w] => Got(k, j)
      BY <1>i, <1>j, <2>u DEF OnTrack
    <3>3. ~failed[w] => \A k \in Everything : k < sink[w] => Got(k, j)'
      BY <1>g, <3>2 DEF Everything
    <3> QED
      BY <3>1, <3>3 DEF OnTrack
  <2>2. CASE ~(env[w].verdict \in Routes[sink[w]] /\ MayClaim(sink[w], held[w].job)) /\ NextSink(w) /\ pc' = pc
    <3>1. pc'[w] = "sinks" /\ sink'[w] = sink[w] + 1 /\ failed'[w] = failed[w] /\ held'[w].job = j
      BY <1>j, <2>2, <2>u DEF TypeOK, NextSink
    <3>2. ~failed[w] => \A k \in Everything : k < sink[w] => Got(k, j)
      BY <1>i, <1>j, <2>u DEF OnTrack
    <3>3. PICK s \in DOMAIN Sinks : s = sink[w]
      BY <1>t, <2>u
    <3>4. s \in Everything => Got(s, j)
      <4> SUFFICES ASSUME s \in Everything PROVE Got(s, j)
        OBVIOUS
      <4>1. held[w].job \in Jobs /\ env[w].verdict \in Verdicts /\ Busy(w)
        BY <2>u DEF WorkerInv, Busy, Payloads
      <4>2. j \in written[s]
        BY <1>j, <2>2, <3>3, <4>1 DEF Everything, MayClaim
      <4>3. ASSUME NEW u \in Workers, Sends(u, s, j) PROVE FALSE
        <5>1. u = w
          BY <1>j, <4>1, <4>3 DEF Sends, OneRun, Busy
        <5> QED
          BY <2>u, <4>3, <5>1 DEF Sends
      <4> QED
        BY <1>j, <4>1, <4>2, <4>3 DEF DeliveredInv, Backed
    <3>5. \A k \in Everything : k < sink[w] + 1 => k < sink[w] \/ k = s
      BY <1>t, <3>3 DEF Everything
    <3>6. ~failed[w] => \A k \in Everything : k < sink[w] + 1 => Got(k, j)'
      BY <1>g, <3>2, <3>4, <3>5 DEF Everything
    <3> QED
      BY <3>1, <3>6 DEF OnTrack
  <2> QED
    BY <1>8, <2>1, <2>2 DEF SinkClaim, Current
<1>9. CASE SendOk(w)
  <2>1. pc'[w] = "sinks" /\ sink'[w] = sink[w] + 1 /\ failed' = failed /\ held'[w].job = j /\ pc[w] = "send"
    BY <1>9, <1>j DEF SendOk, NextSink, TypeOK
  <2>2. ~failed[w] => \A k \in Everything : k < sink[w] => Got(k, j)
    BY <1>i, <1>j, <2>1 DEF OnTrack
  <2>3. PICK s \in DOMAIN Sinks : s = sink[w]
    BY <1>t, <2>1 DEF WorkerInv
  <2>4. Got(s, j)'
    <3> DEFINE r == [env |-> env[w], life |-> life, try |-> tries[w]]
    <3>1. r.env.job = j
      BY <1>j, <2>1 DEF WorkerInv
    <3>2. r \in received'[s]
      BY <1>9, <2>3 DEF SendOk, Received, Current, WorkerInv
    <3> QED
      BY <3>1, <3>2 DEF Got
  <2>5. \A k \in Everything : k < sink[w] + 1 => k < sink[w] \/ k = s
    BY <1>t, <2>3 DEF Everything
  <2>6. ~failed[w] => \A k \in Everything : k < sink[w] + 1 => Got(k, j)'
    BY <1>g, <2>2, <2>4, <2>5 DEF Everything
  <2> QED
    BY <2>1, <2>6 DEF OnTrack
<1>10. ASSUME NEW final \in BOOLEAN, SendFails(w, final) PROVE OnTrack(w)'
  <2>1. CASE UNCHANGED <<pc, sink, failed>>
    <3>1. held' = held /\ disp' = disp
      BY <1>10 DEF SendFails
    <3> QED
      BY <1>i, <2>1, <3>1, TrackKept
  <2>2. CASE failed' = [failed EXCEPT ![w] = TRUE] /\ pc' = [pc EXCEPT ![w] = "sinks"]
    <3>1. failed'[w] /\ pc'[w] = "sinks"
      BY <2>2 DEF TypeOK
    <3> QED
      BY <3>1 DEF OnTrack
  <2> QED
    BY <1>10, <2>1, <2>2 DEF SendFails
<1>11. CASE SinksDone(w)
  <2>1. held'[w].job = j /\ pc[w] = "sinks" /\ sink[w] > Len(Sinks)
    BY <1>11, <1>j DEF SinksDone
  <2>2. CASE failed[w] /\ Dispose(w, "Retry")
    <3>1. pc'[w] = "report" /\ disp'[w] = "Retry"
      BY <2>2 DEF Dispose, TypeOK
    <3> QED
      BY <3>1 DEF OnTrack
  <2>3. CASE ~failed[w] /\ pc' = [pc EXCEPT ![w] = "audit"]
    <3>1. pc'[w] = "audit"
      BY <2>3 DEF TypeOK
    <3>2. \A k \in Everything : k < sink[w]
      BY <1>t, <2>1 DEF Everything
    <3>3. \A k \in Everything : Got(k, j)
      BY <1>i, <1>j, <2>1, <2>3, <3>2 DEF OnTrack
    <3>4. \A k \in Everything : Got(k, j)'
      BY <1>g, <3>3 DEF Everything
    <3> QED
      BY <2>1, <3>1, <3>4 DEF OnTrack, AllGot, Everything
  <2> QED
    BY <1>11, <2>2, <2>3 DEF SinksDone
<1>12. CASE AuditRecord(w)
  <2>1. held'[w].job = j /\ pc'[w] = "report" /\ pc[w] = "audit"
    BY <1>12, <1>j DEF AuditRecord, Dispose, TypeOK
  <2>2. \A k \in Everything : Got(k, j)
    BY <1>i, <1>j, <2>1 DEF OnTrack, AllGot
  <2>3. \A k \in Everything : Got(k, j)'
    BY <1>g, <2>2 DEF Everything
  <2> QED
    BY <2>1, <2>3 DEF OnTrack, AllGot, Everything
<1>13. CASE Report(w)
  <2>1. held'[w].job = j /\ pc'[w] = "settle" /\ pc[w] = "report" /\ disp'[w] = disp[w]
    BY <1>13, <1>j DEF Report, TypeOK
  <2>2. disp[w] = "Ack" => j \in EmptyVideos \/ \A k \in Everything : Got(k, j)
    BY <1>i, <1>j, <2>1 DEF OnTrack, AllGot
  <2>3. disp[w] = "Ack" => j \in EmptyVideos \/ \A k \in Everything : Got(k, j)'
    BY <1>g, <2>2 DEF Everything
  <2> QED
    BY <2>1, <2>3 DEF OnTrack, AllGot, Everything
<1>14. CASE Settle(w)
  <2>1. pc'[w] = "idle"
    BY <1>14 DEF Settle, TypeOK
  <2> QED
    BY <2>1 DEF OnTrack
<1>15. Handler(w) => OnTrack(w)'
  BY <1>5, <1>6, <1>7, <1>8, <1>9, <1>10, <1>11, <1>12, <1>13, <1>14 DEF Handler
<1> QED
  BY <1>1, <1>2, <1>3, <1>4, <1>15 DEF Next

\* The handler is sending only between SinkClaim and the end of the send.
LEMMA QuietSteps ==
  ASSUME TypeOK, [Next]_vars,
         \A w \in Workers : ~SinkClaim(w) /\ ~SendOk(w) /\ \A final \in BOOLEAN : ~SendFails(w, final),
         \A j \in Jobs, k \in DOMAIN Sinks : ~Sweep(k, j),
         ~Crash
  PROVE  /\ UNCHANGED <<written, received, life>>
         /\ \A u \in Workers : \A k, j : Sends(u, k, j)' <=> Sends(u, k, j)
<1>1. ASSUME NEW w \in Workers,
             (\E x \in ready : Deliver(w, x)) \/ (\E v \in Possible : Evaluate(w, v)) \/ SkipEmpty(w)
             \/ Panic(w) \/ SinksDone(w) \/ AuditRecord(w) \/ Report(w) \/ Settle(w)
      PROVE  /\ UNCHANGED <<written, received, life>>
             /\ \A u \in Workers : \A k, j : Sends(u, k, j)' <=> Sends(u, k, j)
  <2>1. UNCHANGED <<written, received, life>>
    BY <1>1 DEF Deliver, Evaluate, SkipEmpty, Panic, SinksDone, AuditRecord, Report, Settle, outside, bounds
  <2>2. Handler(w) \/ \E x \in ready : Deliver(w, x)
    BY <1>1 DEF Handler
  <2>3. pc[w] # "send" /\ pc'[w] # "send"
    <3>1. CASE (\E x \in ready : Deliver(w, x)) \/ (\E v \in Possible : Evaluate(w, v)) \/ SkipEmpty(w)
      BY <3>1 DEF Deliver, Evaluate, SkipEmpty, Dispose, TypeOK
    <3>2. CASE Panic(w) \/ SinksDone(w) \/ AuditRecord(w)
      BY <3>2 DEF Panic, SinksDone, AuditRecord, Dispose, TypeOK
    <3>3. CASE Report(w) \/ Settle(w)
      BY <3>3 DEF Report, Settle, TypeOK
    <3> QED
      BY <1>1, <3>1, <3>2, <3>3
  <2>4. ASSUME NEW u \in Workers, NEW k, NEW j PROVE Sends(u, k, j)' <=> Sends(u, k, j)
    <3>1. CASE u = w
      BY <2>3, <3>1 DEF Sends
    <3>2. CASE u # w
      <4>1. pc'[u] = pc[u] /\ held'[u] = held[u] /\ sink'[u] = sink[u]
        BY <2>2, <3>2, OthersKeep
      <4> QED
        BY <4>1 DEF Sends
    <3> QED
      BY <3>1, <3>2
  <2> QED
    BY <2>1, <2>4
<1>2. CASE \/ UNCHANGED vars \/ (\E u \in Workers : Reclaim(u)) \/ \E i \in Jobs : ShowQueued(i)
  <2>1. UNCHANGED <<written, received, life, pc, held, sink>>
    BY <1>2 DEF vars, worker, outside, bounds, Reclaim, ShowQueued
  <2> QED
    BY <2>1 DEF Sends
<1> QED
  BY <1>1, <1>2 DEF Next, Handler

\* A step leaves every claim with a delivery or a sender: whoever stops
\* sending has delivered or gives the claim back.
LEMMA StepBacked ==
  ASSUME TypeOK, WorkerInv, DeliveredInv, [Next]_vars, NEW k \in DOMAIN Sinks, NEW j \in Jobs
  PROVE  Backed(k, j)'
<1>t. written \in [DOMAIN Sinks -> SUBSET Jobs]
  BY DEF TypeOK
<1> SUFFICES ASSUME j \in written'[k], ~Got(k, j)' PROVE \E u \in Workers : Sends(u, k, j)'
  BY DEF Backed
<1>g. ~Got(k, j)
  BY Grows
<1>i. j \in written[k] => \E u \in Workers : Sends(u, k, j)
  BY <1>g DEF DeliveredInv, Backed
<1>o. ASSUME NEW w \in Workers, Handler(w), NEW u \in Workers, u # w, Sends(u, k, j)
      PROVE  Sends(u, k, j)'
  <2>1. pc'[u] = pc[u] /\ held'[u] = held[u] /\ sink'[u] = sink[u]
    BY <1>o, OthersKeep
  <2> QED
    BY <1>o, <2>1 DEF Sends
<1>1. ASSUME NEW w \in Workers, SinkClaim(w) PROVE \E u \in Workers : Sends(u, k, j)'
  <2>1. pc[w] = "sinks" /\ held' = held /\ Handler(w)
    BY <1>1 DEF SinkClaim, Handler
  <2>2. CASE j \in written[k]
    <3>1. PICK u \in Workers : Sends(u, k, j)
      BY <1>i, <2>2
    <3>2. u # w
      BY <2>1, <3>1 DEF Sends
    <3> QED
      BY <1>o, <2>1, <3>1, <3>2
  <2>3. CASE j \notin written[k]
    <3>1. /\ written' = [written EXCEPT ![sink[w]] = @ \cup {held[w].job}]
          /\ pc' = [pc EXCEPT ![w] = "send"] /\ sink' = sink
      BY <1>1, <2>3 DEF SinkClaim, Current
    <3>2. sink[w] = k /\ held[w].job = j
      BY <1>t, <2>3, <3>1
    <3>3. Sends(w, k, j)'
      BY <2>1, <3>1, <3>2 DEF Sends, TypeOK
    <3> QED
      BY <3>3
  <2> QED
    BY <2>2, <2>3
<1>2. ASSUME NEW w \in Workers, SendOk(w) PROVE \E u \in Workers : Sends(u, k, j)'
  <2>1. written' = written /\ Handler(w)
    BY <1>2 DEF SendOk, Handler
  <2>2. PICK u \in Workers : Sends(u, k, j)
    BY <1>i, <2>1
  <2>3. u # w
    <3> SUFFICES ASSUME u = w PROVE FALSE
      OBVIOUS
    <3> DEFINE r == [env |-> env[w], life |-> life, try |-> tries[w]]
    <3>1. r.env.job = j /\ sink[w] = k
      BY <2>2 DEF WorkerInv, Sends
    <3>2. r \in received'[k]
      BY <1>2, <3>1 DEF SendOk, Received, Current, WorkerInv
    <3> QED
      BY <3>1, <3>2 DEF Got
  <2> QED
    BY <1>o, <2>1, <2>2, <2>3
<1>3. ASSUME NEW w \in Workers, NEW final \in BOOLEAN, SendFails(w, final)
      PROVE  \E u \in Workers : Sends(u, k, j)'
  <2>1. Handler(w) /\ held' = held
    BY <1>3 DEF SendFails, Handler
  <2>2. CASE UNCHANGED <<pc, sink, written>>
    BY <1>i, <2>1, <2>2 DEF Sends
  <2>3. CASE written' = Released(sink[w], held[w].job)
    <3>1. j \in written[k] /\ ~(k = sink[w] /\ j = held[w].job)
      BY <1>t, <2>3 DEF Released
    <3>2. PICK u \in Workers : Sends(u, k, j)
      BY <1>i, <3>1
    <3>3. u # w
      BY <3>1, <3>2 DEF Sends
    <3> QED
      BY <1>o, <2>1, <3>2, <3>3
  <2> QED
    BY <1>3, <2>2, <2>3 DEF SendFails, Current
<1>4. ASSUME NEW i \in Jobs, NEW n \in DOMAIN Sinks, Sweep(n, i)
      PROVE  \E u \in Workers : Sends(u, k, j)'
  <2>1. j \in written[k] /\ UNCHANGED <<pc, sink, held>>
    BY <1>4, <1>t DEF Sweep, worker
  <2> QED
    BY <1>i, <2>1 DEF Sends
<1>5. CASE Crash
  BY <1>5 DEF Crash
<1>6. CASE /\ \A w \in Workers : ~SinkClaim(w) /\ ~SendOk(w) /\ \A final \in BOOLEAN : ~SendFails(w, final)
           /\ \A i \in Jobs, n \in DOMAIN Sinks : ~Sweep(n, i)
           /\ ~Crash
  <2>1. written' = written /\ \A u \in Workers : Sends(u, k, j)' <=> Sends(u, k, j)
    BY <1>6, QuietSteps
  <2> QED
    BY <1>i, <2>1
<1> QED
  BY <1>1, <1>2, <1>3, <1>4, <1>5, <1>6

\* What is acked or recorded in a step is delivered, and stays so.
LEMMA StepSettled ==
  ASSUME TypeOK, WorkerInv, DeliveredInv, [Next]_vars
  PROVE  Settled'
<1>g. ASSUME NEW j, AllGot(j) PROVE AllGot(j)'
  <2>1. \A k \in Everything : Got(k, j)'
    BY <1>g, Grows DEF AllGot, Everything
  <2> QED
    BY <2>1 DEF AllGot, Everything
<1>i. Settled
  BY DEF DeliveredInv
<1>1. ASSUME NEW j \in acked' PROVE j \in EmptyVideos \/ AllGot(j)
  <2>1. CASE j \in acked
    BY <1>i, <2>1 DEF Settled
  <2>2. ASSUME j \notin acked PROVE j \in EmptyVideos \/ AllGot(j)
    <3>1. ASSUME NEW w \in Workers, Handler(w), ~Settle(w) PROVE acked' = acked
      BY <3>1 DEF Handler, Evaluate, SkipEmpty, Panic, SinkClaim, SendOk, SendFails, SinksDone,
                  AuditRecord, Report
    <3>2. ASSUME NEW w \in Workers, (\E x \in ready : Deliver(w, x)) \/ Reclaim(w) PROVE acked' = acked
      BY <3>2 DEF Deliver, Reclaim
    <3>3. CASE \/ UNCHANGED vars \/ Crash
               \/ \E i \in Jobs : ShowQueued(i) \/ \E n \in DOMAIN Sinks : Sweep(n, i)
      BY <2>2, <3>3 DEF vars, ShowQueued, Sweep, Crash
    <3>4. ASSUME NEW w \in Workers, Settle(w) PROVE j \in EmptyVideos \/ AllGot(j)
      <4>1. pc[w] = "settle" /\ disp[w] = "Ack" /\ j = held[w].job
        BY <2>2, <3>4 DEF Settle
      <4> QED
        BY <4>1 DEF DeliveredInv, OnTrack
    <3> QED
      BY <2>2, <3>1, <3>2, <3>3, <3>4 DEF Next
  <2> QED
    BY <2>1, <2>2
<1>2. ASSUME NEW e \in audit' PROVE AllGot(e.job)
  <2>1. CASE e \in audit
    BY <1>i, <2>1 DEF Settled
  <2>2. ASSUME e \notin audit PROVE AllGot(e.job)
    <3>1. ASSUME NEW w \in Workers, Handler(w), ~AuditRecord(w) PROVE audit' = audit
      BY <3>1 DEF Handler, Evaluate, SkipEmpty, Panic, SinkClaim, SendOk, SendFails, SinksDone,
                  Settle, Report, outside
    <3>2. ASSUME NEW w \in Workers, (\E x \in ready : Deliver(w, x)) \/ Reclaim(w) PROVE audit' = audit
      BY <3>2 DEF Deliver, Reclaim, outside
    <3>3. CASE \/ UNCHANGED vars \/ Crash
               \/ \E i \in Jobs : ShowQueued(i) \/ \E n \in DOMAIN Sinks : Sweep(n, i)
      BY <2>2, <3>3 DEF vars, ShowQueued, Sweep, Crash, outside
    <3>4. ASSUME NEW w \in Workers, AuditRecord(w) PROVE AllGot(e.job)
      <4>1. pc[w] = "audit" /\ e = env[w]
        BY <2>2, <3>4 DEF AuditRecord
      <4>2. e.job = held[w].job
        BY <4>1 DEF WorkerInv
      <4> QED
        BY <4>1, <4>2 DEF DeliveredInv, OnTrack
    <3> QED
      BY <2>2, <3>1, <3>2, <3>3, <3>4 DEF Next
  <2> QED
    BY <2>1, <2>2
<1> QED
  BY <1>g, <1>1, <1>2 DEF Settled

\* As long as no payload is taken from a running handler, a job that is acked
\* with a verdict, or has an audit record, is at every destination without a
\* predicate: after any number of failed writes, retries, crashes and swept
\* claims.
THEOREM AckIsDelivered == Spec => [](~Overlap => SettledIsDelivered)
<1> DEFINE Inv == TInv /\ (~Overlap => OneRun /\ DeliveredInv)
<1>1. Init => Inv
  <2>1. Init => OneRun
    BY DEF Init, OneRun, Busy
  <2>2. Init => DeliveredInv
    BY DEF Init, DeliveredInv, Backed, OnTrack, Settled
  <2> QED
    BY <2>1, <2>2, InitTyped
<1>2. Inv /\ [Next]_vars => Inv'
  <2> SUFFICES ASSUME Inv, [Next]_vars PROVE Inv'
    OBVIOUS
  <2>1. TInv'
    BY StepTyped
  <2>2. ASSUME ~Overlap PROVE OneRun' /\ DeliveredInv'
    <3>1. OneRun'
      BY <2>2, StepOneRun DEF TInv
    <3>2. \A w \in Workers : OnTrack(w)'
      BY <2>2, StepOnTrack DEF TInv
    <3>3. \A k \in DOMAIN Sinks, j \in Jobs : Backed(k, j)'
      BY <2>2, StepBacked DEF TInv
    <3>4. Settled'
      BY <2>2, StepSettled DEF TInv
    <3> QED
      BY <3>1, <3>2, <3>3, <3>4 DEF DeliveredInv
  <2> QED
    BY <2>1, <2>2
<1>3. Inv => (~Overlap => SettledIsDelivered)
  BY DEF DeliveredInv, Settled, AllGot, Everything, SettledIsDelivered
<1> QED
  BY <1>1, <1>2, <1>3, PTL DEF Spec

-----------------------------------------------------------------------------
(* Once per process lifetime                                                *)

\* A sender has its claim, a job is claimed once, and what was received in
\* this life keeps its claim: no step sends a job twice.
LEMMA StepOnce ==
  ASSUME ~LostReplies, ~Forgetting, TypeOK, WorkerInv, OnceInv, [Next]_vars
  PROVE  OnceInv'
<1>t. /\ written \in [DOMAIN Sinks -> SUBSET Jobs] /\ received \in [DOMAIN Sinks -> SUBSET Receipts]
      /\ life \in Nat
      /\ \A k \in DOMAIN Sinks : \A r \in received[k] : r.life \in Nat /\ r.env.job \in Jobs
  BY DEF TypeOK, WorkerInv, Receipts, Envelopes
<1>s. ASSUME NEW w \in Workers, pc[w] = "send"
      PROVE  sink[w] \in DOMAIN Sinks /\ held[w].job \in Jobs /\ env[w].job = held[w].job
  BY <1>s, SinkPlaces DEF TypeOK, WorkerInv, Busy, Payloads
<1>o. ASSUME NEW w \in Workers, Handler(w), NEW u \in Workers, u # w
      PROVE  pc'[u] = pc[u] /\ held'[u] = held[u] /\ sink'[u] = sink[u]
  BY <1>o, OthersKeep
<1>q. ASSUME UNCHANGED <<written, received, life>>,
             \A u \in Workers : \A k, j : Sends(u, k, j)' => Sends(u, k, j)
      PROVE  OnceInv'
  <2>1. ASSUME NEW u \in Workers PROVE Claimed(u)'
    <3>1. pc'[u] = "send" => Sends(u, sink'[u], held'[u].job)
      BY <1>q DEF Sends
    <3>2. pc'[u] = "send" => pc[u] = "send" /\ sink'[u] = sink[u] /\ held'[u].job = held[u].job
      BY <3>1 DEF Sends
    <3>3. Claimed(u)
      BY DEF OnceInv
    <3> QED
      BY <1>q, <3>2, <3>3 DEF Claimed
  <2>2. (\A w, u \in Workers, k \in DOMAIN Sinks, j \in Jobs :
            Sends(w, k, j) /\ Sends(u, k, j) => w = u)'
    BY <1>q DEF OnceInv
  <2>3. (\A w \in Workers, k \in DOMAIN Sinks : FirstOfLife(w, k))'
    BY <1>q DEF OnceInv, FirstOfLife
  <2>4. (\A k \in DOMAIN Sinks : \A r \in received[k] : InClaim(k, r))'
    BY <1>q DEF OnceInv, InClaim
  <2>5. OncePerLife'
    BY <1>q DEF OnceInv, OncePerLife
  <2> QED
    BY <2>1, <2>2, <2>3, <2>4, <2>5 DEF OnceInv
<1>1. ASSUME NEW w \in Workers, SinkClaim(w) PROVE OnceInv'
  <2>u. UNCHANGED <<held, received, life>> /\ pc[w] = "sinks" /\ Handler(w)
    BY <1>1 DEF SinkClaim, bounds, Handler
  <2>1. CASE NextSink(w) /\ UNCHANGED <<written, pc>>
    <3>1. ASSUME NEW u \in Workers, NEW k, NEW j, Sends(u, k, j)' PROVE Sends(u, k, j)
      <4>1. u # w
        BY <2>u, <2>1, <3>1 DEF Sends
      <4> QED
        BY <1>o, <2>u, <3>1, <4>1 DEF Sends
    <3> QED
      BY <1>q, <2>u, <2>1, <3>1
  <2>2. CASE /\ held[w].job \notin written[sink[w]]
             /\ written' = [written EXCEPT ![sink[w]] = @ \cup {held[w].job}]
             /\ pc' = [pc EXCEPT ![w] = "send"] /\ sink' = sink
    <3>1. PICK s \in DOMAIN Sinks, i \in Jobs : s = sink[w] /\ i = held[w].job
      <4>1. sink[w] \in 1..Len(Sinks) + 1 /\ sink[w] <= Len(Sinks)
        BY <1>1 DEF SinkClaim, TypeOK
      <4>2. sink[w] \in DOMAIN Sinks
        BY <4>1, SinkPlaces
      <4>3. held[w].job \in Jobs
        BY <2>u DEF WorkerInv, Busy, Payloads
      <4> QED
        BY <4>2, <4>3
    <3>2. /\ i \notin written[s]
          /\ \A k \in DOMAIN Sinks : \A j : j \in written'[k] <=> j \in written[k] \/ (k = s /\ j = i)
      BY <1>t, <2>2, <3>1
    <3>3. ASSUME NEW u \in Workers, NEW k, NEW j
          PROVE  Sends(u, k, j)' <=> Sends(u, k, j) \/ (u = w /\ k = s /\ j = i)
      BY <2>u, <2>2, <3>1 DEF Sends, TypeOK
    <3>4. ASSUME NEW u \in Workers, Sends(u, s, i) PROVE FALSE
      <4>1. Claimed(u) /\ pc[u] = "send" /\ held[u].job = i /\ sink[u] = s
        BY <3>4 DEF OnceInv, Sends
      <4> QED
        BY <3>2, <4>1 DEF Claimed
    <3>5. ASSUME NEW u \in Workers PROVE Claimed(u)'
      <4>1. CASE u = w
        BY <2>u, <2>2, <3>1, <3>2, <4>1 DEF Claimed
      <4>2. CASE u # w
        <5>1. Claimed(u) /\ pc'[u] = pc[u] /\ held'[u] = held[u] /\ sink'[u] = sink[u]
          BY <1>o, <2>u, <4>2 DEF OnceInv
        <5>2. pc[u] = "send" => sink[u] \in DOMAIN Sinks
          BY <1>s
        <5> QED
          BY <3>2, <5>1, <5>2 DEF Claimed
      <4> QED
        BY <4>1, <4>2
    <3>6. (\A v, u \in Workers, k \in DOMAIN Sinks, j \in Jobs :
              Sends(v, k, j) /\ Sends(u, k, j) => v = u)'
      BY <3>3, <3>4 DEF OnceInv
    <3>7. ASSUME NEW u \in Workers, NEW k \in DOMAIN Sinks PROVE FirstOfLife(u, k)'
      <4> SUFFICES ASSUME NEW r \in received[k], Sends(u, k, r.env.job)' PROVE r.life # life
        BY <2>u DEF FirstOfLife
      <4>1. CASE Sends(u, k, r.env.job)
        BY <4>1 DEF OnceInv, FirstOfLife
      <4>2. CASE k = s /\ r.env.job = i
        <5>1. InClaim(k, r)
          BY DEF OnceInv
        <5> QED
          BY <3>2, <4>2, <5>1 DEF InClaim
      <4> QED
        BY <3>3, <4>1, <4>2
    <3>8. (\A k \in DOMAIN Sinks : \A r \in received[k] : InClaim(k, r))'
      BY <2>u, <3>2 DEF OnceInv, InClaim
    <3>9. OncePerLife'
      BY <2>u DEF OnceInv, OncePerLife
    <3> QED
      BY <3>5, <3>6, <3>7, <3>8, <3>9 DEF OnceInv
  <2> QED
    BY <1>1, <2>1, <2>2 DEF SinkClaim, Current, MayClaim
<1>2. ASSUME NEW w \in Workers, SendOk(w) PROVE OnceInv'
  <2>u. UNCHANGED <<held, written, life>> /\ pc[w] = "send" /\ Handler(w) /\ received' = Received(w)
    BY <1>2 DEF SendOk, bounds, Handler
  <2>1. PICK s \in DOMAIN Sinks, i \in Jobs : s = sink[w] /\ i = held[w].job
    BY <1>s, <2>u
  <2>2. PICK q : q = [env |-> env[w], life |-> life, try |-> tries[w]]
    OBVIOUS
  <2>3. q.env.job = i /\ q.life = life
    BY <1>s, <2>u, <2>1, <2>2
  <2>4. ASSUME NEW k \in DOMAIN Sinks, NEW r \in received'[k]
        PROVE  r \in received[k] \/ (k = s /\ r = q)
    BY <1>t, <2>u, <2>1, <2>2, <2>4 DEF Received, Current
  <2>5. pc'[w] = "sinks"
    BY <1>2 DEF SendOk, TypeOK
  <2>6. ASSUME NEW u \in Workers, NEW k, NEW j, Sends(u, k, j)' PROVE Sends(u, k, j) /\ u # w
    <3>1. u # w
      BY <2>5, <2>6 DEF Sends
    <3> QED
      BY <1>o, <2>u, <2>6, <3>1 DEF Sends
  <2>7. Sends(w, s, i)
    BY <2>u, <2>1 DEF Sends
  <2>8. ASSUME NEW u \in Workers PROVE Claimed(u)'
    <3>1. CASE u = w
      BY <2>5, <3>1 DEF Claimed
    <3>2. CASE u # w
      <4>1. Claimed(u) /\ pc'[u] = pc[u] /\ held'[u] = held[u] /\ sink'[u] = sink[u]
        BY <1>o, <2>u, <3>2 DEF OnceInv
      <4> QED
        BY <2>u, <4>1 DEF Claimed
    <3> QED
      BY <3>1, <3>2
  <2>9. (\A v, u \in Workers, k \in DOMAIN Sinks, j \in Jobs :
            Sends(v, k, j) /\ Sends(u, k, j) => v = u)'
    BY <2>6 DEF OnceInv
  <2>10. ASSUME NEW u \in Workers, NEW k \in DOMAIN Sinks PROVE FirstOfLife(u, k)'
    <3> SUFFICES ASSUME NEW r \in received'[k], Sends(u, k, r.env.job)' PROVE r.life # life
      BY <2>u DEF FirstOfLife
    <3>1. Sends(u, k, r.env.job) /\ u # w
      BY <2>6
    <3>2. CASE r \in received[k]
      BY <3>1, <3>2 DEF OnceInv, FirstOfLife
    <3>3. CASE k = s /\ r = q
      BY <2>3, <2>7, <3>1, <3>3 DEF OnceInv
    <3> QED
      BY <2>4, <3>2, <3>3
  <2>11. ASSUME NEW k \in DOMAIN Sinks, NEW r \in received'[k] PROVE InClaim(k, r)'
    <3>1. CASE r \in received[k]
      BY <2>u, <3>1 DEF OnceInv, InClaim
    <3>2. CASE k = s /\ r = q
      <4>1. i \in written[s]
        BY <2>u, <2>1 DEF OnceInv, Claimed
      <4> QED
        BY <1>t, <2>u, <2>3, <3>2, <4>1 DEF InClaim
    <3> QED
      BY <2>4, <3>1, <3>2
  <2>12. OncePerLife'
    <3> SUFFICES ASSUME NEW k \in DOMAIN Sinks, NEW r \in received'[k], NEW p \in received'[k],
                        r.env.job = p.env.job, r.life = p.life
                 PROVE  r = p
      BY DEF OncePerLife
    <3>1. ASSUME NEW x \in received[s], x.env.job = i, x.life = life PROVE FALSE
      BY <2>7, <3>1 DEF OnceInv, FirstOfLife
    <3> QED
      BY <2>3, <2>4, <3>1 DEF OnceInv, OncePerLife
  <2> QED
    BY <2>8, <2>9, <2>10, <2>11, <2>12 DEF OnceInv
<1>3. ASSUME NEW w \in Workers, NEW final \in BOOLEAN, SendFails(w, final) PROVE OnceInv'
  <2>u. UNCHANGED <<held, received, life>> /\ pc[w] = "send" /\ Handler(w)
    BY <1>3 DEF SendFails, Handler
  <2>1. CASE UNCHANGED <<pc, sink, written>>
    BY <1>q, <2>u, <2>1 DEF Sends
  <2>2. CASE written' = Released(sink[w], held[w].job) /\ pc' = [pc EXCEPT ![w] = "sinks"]
    <3>1. PICK s \in DOMAIN Sinks, i \in Jobs : s = sink[w] /\ i = held[w].job
      BY <1>s, <2>u
    <3>2. \A k \in DOMAIN Sinks : \A j : j \in written'[k] <=> j \in written[k] /\ ~(k = s /\ j = i)
      BY <1>t, <2>2, <3>1 DEF Released
    <3>3. pc'[w] = "sinks"
      BY <2>2 DEF TypeOK
    <3>4. ASSUME NEW u \in Workers, NEW k, NEW j, Sends(u, k, j)' PROVE Sends(u, k, j) /\ u # w
      <4>1. u # w
        BY <3>3, <3>4 DEF Sends
      <4> QED
        BY <1>o, <2>u, <3>4, <4>1 DEF Sends
    <3>5. Sends(w, s, i)
      BY <2>u, <3>1 DEF Sends
    <3>6. ASSUME NEW u \in Workers PROVE Claimed(u)'
      <4>1. CASE u = w
        BY <3>3, <4>1 DEF Claimed
      <4>2. ASSUME u # w, pc'[u] = "send" PROVE held'[u].job \in written'[sink'[u]]
        <5>1. Claimed(u) /\ pc[u] = "send" /\ held'[u] = held[u] /\ sink'[u] = sink[u]
          BY <1>o, <2>u, <4>2 DEF OnceInv
        <5>2. sink[u] \in DOMAIN Sinks /\ held[u].job \in Jobs
          BY <1>s, <5>1
        <5>3. ~(sink[u] = s /\ held[u].job = i)
          BY <3>5, <4>2, <5>1 DEF OnceInv, Sends
        <5> QED
          BY <3>2, <5>1, <5>2, <5>3 DEF Claimed
      <4> QED
        BY <4>1, <4>2 DEF Claimed
    <3>7. (\A v, u \in Workers, k \in DOMAIN Sinks, j \in Jobs :
              Sends(v, k, j) /\ Sends(u, k, j) => v = u)'
      BY <3>4 DEF OnceInv
    <3>8. ASSUME NEW u \in Workers, NEW k \in DOMAIN Sinks PROVE FirstOfLife(u, k)'
      BY <2>u, <3>4 DEF OnceInv, FirstOfLife
    <3>9. ASSUME NEW k \in DOMAIN Sinks, NEW r \in received'[k] PROVE InClaim(k, r)'
      <4>1. InClaim(k, r) /\ (k = s /\ r.env.job = i => r.life # life)
        BY <2>u, <3>5, <3>9 DEF OnceInv, FirstOfLife
      <4> QED
        BY <2>u, <3>2, <4>1 DEF InClaim
    <3>10. OncePerLife'
      BY <2>u DEF OnceInv, OncePerLife
    <3> QED
      BY <3>6, <3>7, <3>8, <3>9, <3>10 DEF OnceInv
  <2> QED
    BY <1>3, <2>1, <2>2 DEF SendFails, Current
<1>4. CASE Crash
  <2>1. received' = received /\ life' = life + 1 /\ \A u \in Workers : pc'[u] = "idle"
    BY <1>4 DEF Crash
  <2>2. ASSUME NEW k \in DOMAIN Sinks, NEW r \in received[k] PROVE r.life <= life /\ r.life # life + 1
    <3>1. r.life <= life /\ r.life \in Nat
      BY <1>t DEF OnceInv, InClaim
    <3> QED
      BY <1>t, <3>1
  <2>3. ASSUME NEW k \in DOMAIN Sinks, NEW r \in received'[k] PROVE InClaim(k, r)'
    <3>1. r.life \in Nat /\ r.life <= life /\ r.life # life + 1
      BY <1>t, <2>1, <2>2
    <3>2. r.life <= life' /\ r.life # life'
      BY <1>t, <2>1, <3>1
    <3> QED
      BY <3>2 DEF InClaim
  <2>4. OncePerLife'
    BY <2>1 DEF OnceInv, OncePerLife
  <2>5. \A u \in Workers : \A k, j : ~Sends(u, k, j)'
    BY <2>1 DEF Sends
  <2>6. \A u \in Workers : Claimed(u)'
    BY <2>1 DEF Claimed
  <2>7. (\A w \in Workers, k \in DOMAIN Sinks : FirstOfLife(w, k))'
    BY <2>5 DEF FirstOfLife
  <2> QED
    BY <2>3, <2>4, <2>5, <2>6, <2>7 DEF OnceInv
<1>5. \A j \in Jobs, k \in DOMAIN Sinks : ~Sweep(k, j)
  BY DEF Sweep
<1> QED
  BY <1>q, <1>1, <1>2, <1>3, <1>4, <1>5, QuietSteps

\* As long as no answer to a POST is lost and no claim expires, no destination
\* gets a job twice within one process lifetime: also when a reclaimed job
\* runs on two workers at once, and whatever fails and is retried.
THEOREM SentOncePerLife == Spec => [](~LostReplies /\ ~Forgetting => OncePerLife)
<1> DEFINE Inv == TInv /\ (~LostReplies /\ ~Forgetting => OnceInv)
<1>1. Init => Inv
  <2>1. Init => OnceInv
    BY DEF Init, OnceInv, Claimed, Sends, FirstOfLife, InClaim, OncePerLife
  <2> QED
    BY <2>1, InitTyped
<1>2. Inv /\ [Next]_vars => Inv'
  BY StepTyped, StepOnce DEF TInv
<1>3. Inv => (~LostReplies /\ ~Forgetting => OncePerLife)
  BY DEF OnceInv
<1> QED
  BY <1>1, <1>2, <1>3, PTL DEF Spec
=============================================================================
