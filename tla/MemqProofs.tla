----------------------------- MODULE MemqProofs -----------------------------
(***************************************************************************)
(* Proofs about Memq, for every number of jobs, workers, retries and buffer *)
(* sizes: every payload is in one place, so the queue keeps the contract of *)
(* JobQueue, jobs are first taken in the order they came, Close reports     *)
(* what it finds, and the depth and the dashboard agree with the queue.     *)
(***************************************************************************)
EXTENDS Memq, FiniteSetTheorems, TLAPS

Busy(w) == pc[w] \notin {"select", "gone"}

\* A worker holds a payload exactly while it is busy with it, and takes it to
\* a retry only if it has one left.
WorkerInv ==
    \A w \in Workers :
        /\ Busy(w) => held[w] \in QueuedJobs
        /\ ~Busy(w) => held[w] = Idle
        /\ pc[w] \in {"retrying", "spawn"} => held[w].attempts + 1 <= MaxRetries

TInv == TypeOK /\ WorkerInv

-----------------------------------------------------------------------------
(* Where the payloads are: in the channel q, with the workers h, in the     *)
(* retry timers T.                                                          *)

Carries(x, q, h, T) ==
    \/ \E k \in DOMAIN q : q[k] = x
    \/ \E w \in Workers : h[w] = x
    \/ \E t \in T : t.qj = x

Cargo(q, h, T) == {x \in QueuedJobs : Carries(x, q, h, T)}

Free(j, q, h, T) == \A x \in Cargo(q, h, T) : x.job # j

\* No job is in two places.
OnePlace(q, h, T) ==
    /\ \A k, l \in DOMAIN q : q[k].job = q[l].job => k = l
    /\ \A w, u \in Workers : h[w] # Idle /\ h[u] # Idle /\ h[w].job = h[u].job => w = u
    /\ \A t, s \in T : t.qj.job = s.qj.job => t = s
    /\ \A k \in DOMAIN q, w \in Workers : h[w] # Idle => h[w].job # q[k].job
    /\ \A k \in DOMAIN q, t \in T : t.qj.job # q[k].job
    /\ \A w \in Workers, t \in T : h[w] # Idle => t.qj.job # h[w].job

\* The payloads whose outcome is still open; a retry goroutine that has sent
\* its payload only has a line of the dashboard left to write.
Working == [w \in Workers |-> IF pc[w] = "done" THEN Idle ELSE held[w]]
Live == {t \in timers : t.at # "sent"}
Timers == [qj : QueuedJobs, at : {"wait", "send", "sent"}]

Aboard == Cargo(jobs, Working, Live)

\* The jobs whose outcome is final, and the jobs the channel has accepted.
Settled == acked \cup {dlq[k] : k \in DOMAIN dlq}
Final == Settled \cup warned
Admitted == {j \in Jobs : Accepted(j)}

\* A job is in the queue only between its acceptance and its outcome.
PlaceInv ==
    /\ OnePlace(jobs, Working, Live)
    /\ \A x \in Aboard : x.job \in Admitted /\ x.job \notin Final
    /\ Final \subseteq Admitted
    /\ \A w \in Workers : pc[w] = "done" => held[w].job \in acked

-----------------------------------------------------------------------------
(* The other inductive invariants                                           *)

\* What has not been taken or given up waits in the channel, in the order of
\* arrival; whoever has a payload has taken it, or a timer of it.
Known ==
    /\ \A a \in DOMAIN arrivals : arrivals[a] \in Admitted
    /\ \A k \in DOMAIN jobs : jobs[k].job \in Admitted
    /\ taken \subseteq Admitted
    /\ \A w \in Workers : Busy(w) => held[w].job \in taken
    /\ \A t \in timers : t.qj.job \in taken

Waiting ==
    \A a \in DOMAIN arrivals :
        arrivals[a] \in taken \cup warned \/ \E k \in DOMAIN jobs : jobs[k].job = arrivals[a]

Sorted ==
    \A a, b \in DOMAIN arrivals : \A k, l \in DOMAIN jobs :
        /\ a < b
        /\ jobs[k].job = arrivals[a] /\ arrivals[a] \notin taken \cup warned
        /\ jobs[l].job = arrivals[b] /\ arrivals[b] \notin taken
        => k < l

OrderInv == Known /\ Waiting /\ Sorted /\ FirstClaimsInOrder

\* After Close has returned, whatever is in the queue or in someone's hands
\* was in someone's hands then.
AllLate ==
    /\ \A j \in Jobs : caller[j] = "checked" => j \in late
    /\ \A w \in Workers : held[w] # Idle => held[w].job \in late
    /\ \A t \in timers : t.qj.job \in late
    /\ \A k \in DOMAIN jobs : jobs[k].job \in late

LateInv ==
    /\ closer \in {"wait", "drain", "closed"} => stop
    /\ closer = "closed" => AllLate

\* The counter is ahead of or behind the queue by the operations under way.
Counting == {w \in Workers : pc[w] = "count"}
Uncounting == {j \in Jobs : caller[j] = "sent"}

CountInv ==
    /\ IsFiniteSet(Live) /\ IsFiniteSet(Counting) /\ IsFiniteSet(Uncounting)
    /\ pending + Cardinality(Uncounting) = Len(jobs) + Cardinality(Live) + Cardinality(Counting)

\* The dashboard shows a job that is on its way, from the moment its Enqueue
\* or its first run has shown it, until it is about to be buried.
Flying == {"queued", "running", "retrying"}

ShownInv ==
    /\ \A x \in Aboard :
          x.attempts > 0 \/ caller[x.job] = "accepted" =>
              states[x.job] \in Flying \/ \E w \in Workers : pc[w] = "bury" /\ held[w] = x
    /\ \A w \in Workers : pc[w] = "spawn" => states[held[w].job] \in Flying

-----------------------------------------------------------------------------
(* Sequences                                                                *)

\* A send puts a value behind the others.
LEMMA AppendIs ==
  ASSUME NEW S, NEW q \in Seq(S), NEW x \in S
  PROVE  /\ Append(q, x) \in Seq(S) /\ Len(Append(q, x)) = Len(q) + 1
         /\ DOMAIN q = 1..Len(q) /\ DOMAIN Append(q, x) = 1..Len(q) + 1 /\ Len(q) \in Nat
         /\ \A k \in 1..Len(q) : Append(q, x)[k] = q[k]
         /\ Append(q, x)[Len(q) + 1] = x
  OBVIOUS

\* A receive takes the first value.
LEMMA TailIs ==
  ASSUME NEW S, NEW q \in Seq(S), q # <<>>
  PROVE  /\ Head(q) = q[1] /\ Head(q) \in S /\ Tail(q) \in Seq(S)
         /\ Len(q) \in Nat /\ Len(q) >= 1 /\ Len(Tail(q)) = Len(q) - 1
         /\ DOMAIN q = 1..Len(q) /\ DOMAIN Tail(q) = 1..Len(q) - 1
         /\ \A k \in 1..Len(q) - 1 : Tail(q)[k] = q[k + 1]
  OBVIOUS

-----------------------------------------------------------------------------
(* Types                                                                    *)

Shown == {"none", "queued", "running", "retrying", "done", "dead"}

\* setState shows the new state of its job and ages out a finished job only.
LEMMA SetStateIs ==
  ASSUME TypeOK, NEW id \in Jobs, NEW s \in Shown, setState(id, s)
  PROVE  /\ states' \in [Jobs -> Shown]
         /\ finished' \in Seq(Jobs) /\ Len(finished') <= MaxFinished
         /\ s \in Flying => states'[id] = s
         /\ \A j \in Jobs : j # id /\ states[j] \in Flying => states'[j] = states[j]
<1> DEFINE put == [states EXCEPT ![id] = s]
           fin == Append(finished, id)
<1>1. /\ put \in [Jobs -> Shown] /\ put[id] = s /\ \A j \in Jobs : j # id => put[j] = states[j]
  BY DEF TypeOK, Shown
<1>2. finished \in Seq(Jobs) /\ Len(finished) <= MaxFinished /\ MaxFinished \in Nat
  BY MemqAssumption DEF TypeOK
<1>3. /\ fin \in Seq(Jobs) /\ Len(fin) = Len(finished) + 1 /\ fin # <<>> /\ Head(fin) \in Jobs
      /\ Tail(fin) \in Seq(Jobs) /\ Len(Tail(fin)) = Len(finished)
  BY <1>2
<1>4. CASE states' = put /\ UNCHANGED finished
  BY <1>1, <1>2, <1>4
<1>5. CASE isTerminalState(s) /\ Len(fin) > MaxFinished /\ states' = AgeOut(put, Head(fin)) /\ finished' = Tail(fin)
  <2> HIDE DEF put, fin
  <2>1. states' \in [Jobs -> Shown]
    BY <1>1, <1>3, <1>5 DEF AgeOut, Shown
  <2>2. ASSUME NEW j \in Jobs, j # id, states[j] \in Flying PROVE states'[j] = states[j]
    BY <1>1, <1>3, <1>5, <2>2 DEF AgeOut, isTerminalState, Flying
  <2>3. s \notin Flying
    BY <1>5 DEF isTerminalState, Flying
  <2> QED
    BY <1>2, <1>3, <1>5, <2>1, <2>2, <2>3
<1>6. CASE isTerminalState(s) /\ ~(Len(fin) > MaxFinished) /\ states' = put /\ finished' = fin
  <2> HIDE DEF put, fin
  <2> QED
    BY <1>1, <1>2, <1>3, <1>6
<1> QED
  BY <1>4, <1>5, <1>6 DEF setState

\* The initial state is typed.
LEMMA InitTyped == Init => TInv
<1> SUFFICES ASSUME Init PROVE TInv
  OBVIOUS
<1>1. jobs \in Seq(QueuedJobs) /\ finished \in Seq(Jobs) /\ dlq \in Seq(Jobs) /\ arrivals \in Seq(Jobs)
  BY DEF Init
<1>2. Len(jobs) <= buffer /\ Len(finished) <= MaxFinished /\ pending \in Int
  BY MemqAssumption DEF Init
<1>3. TypeOK
  BY <1>1, <1>2 DEF Init, TypeOK
<1>4. WorkerInv
  BY DEF Init, WorkerInv, Busy
<1> QED
  BY <1>3, <1>4 DEF TInv

\* Enqueue keeps the types.
LEMMA EnqueueTyped ==
  ASSUME TypeOK, WorkerInv, NEW j \in Jobs, Enqueue(j)
  PROVE  TInv'
<1>1. CASE EnqueueCheck(j)
  BY <1>1 DEF EnqueueCheck, TInv, TypeOK, WorkerInv, Busy, view, workers, history
<1>2. CASE EnqueueSend(j)
  <2>1. CASE Len(jobs) < buffer /\ jobs' = Append(jobs, [job |-> j, attempts |-> 0])
             /\ arrivals' = Append(arrivals, j) /\ caller' = [caller EXCEPT ![j] = "sent"]
    <3>1. [job |-> j, attempts |-> 0] \in QueuedJobs
      BY MemqAssumption DEF QueuedJobs
    <3>2. jobs' \in Seq(QueuedJobs) /\ Len(jobs') = Len(jobs) + 1 /\ Len(jobs) \in Nat
      BY <2>1, <3>1 DEF TypeOK
    <3>3. Len(jobs') <= buffer' /\ buffer' = buffer /\ buffer \in Nat
      BY <1>2, <2>1, <3>2, MemqAssumption DEF EnqueueSend, TypeOK
    <3>4. arrivals' \in Seq(Jobs)
      BY <2>1 DEF TypeOK
    <3> QED
      BY <1>2, <2>1, <3>2, <3>3, <3>4 DEF EnqueueSend, TInv, TypeOK, WorkerInv, Busy, view, workers
  <2>2. CASE caller' = [caller EXCEPT ![j] = "rejected"] /\ UNCHANGED <<jobs, arrivals>>
    BY <1>2, <2>2 DEF EnqueueSend, TInv, TypeOK, WorkerInv, Busy, view, workers
  <2> QED
    BY <1>2, <2>1, <2>2 DEF EnqueueSend, Sent
<1>3. CASE EnqueueCount(j)
  BY <1>3 DEF EnqueueCount, TInv, TypeOK, WorkerInv, Busy, view, workers, history
<1>4. CASE EnqueueShow(j)
  <2>1. states' \in [Jobs -> Shown] /\ finished' \in Seq(Jobs) /\ Len(finished') <= MaxFinished
    BY <1>4, SetStateIs DEF EnqueueShow, Shown
  <2> QED
    BY <1>4, <2>1 DEF EnqueueShow, TInv, TypeOK, WorkerInv, Busy, workers, history, Shown
<1> QED
  BY <1>1, <1>2, <1>3, <1>4 DEF Enqueue

\* The workers keep the types.
LEMMA WorkerTyped ==
  ASSUME TypeOK, WorkerInv, NEW w \in Workers, Worker(w)
  PROVE  TInv'
<1>m. MaxRetries \in Nat
  BY MemqAssumption
<1>h. Busy(w) => held[w] \in QueuedJobs /\ held[w].job \in Jobs /\ held[w].attempts \in 0..MaxRetries
  BY DEF WorkerInv, QueuedJobs
<1>1. CASE Receive(w)
  <2>1. /\ Head(jobs) \in QueuedJobs /\ Tail(jobs) \in Seq(QueuedJobs)
        /\ Len(Tail(jobs)) = Len(jobs) - 1 /\ Len(jobs) \in Nat
    BY <1>1 DEF Receive, TypeOK
  <2>2. Len(jobs') <= buffer' /\ jobs' \in Seq(QueuedJobs) /\ buffer' = buffer
    BY <1>1, <2>1, MemqAssumption DEF Receive, TypeOK
  <2>3. Head(jobs).job \in Jobs
    BY <2>1 DEF QueuedJobs
  <2> QED
    BY <1>1, <2>1, <2>2, <2>3 DEF Receive, TInv, TypeOK, WorkerInv, Busy, view
<1>2. CASE Quit(w)
  BY <1>2 DEF Quit, TInv, TypeOK, WorkerInv, Busy, view, history
<1>3. CASE CountDown(w)
  BY <1>3 DEF CountDown, Uncounted, TInv, TypeOK, WorkerInv, Busy, view, history
<1>4. CASE ShowRunning(w)
  <2>1. held[w].job \in Jobs
    BY <1>4, <1>h DEF ShowRunning, Busy
  <2>2. states' \in [Jobs -> Shown] /\ finished' \in Seq(Jobs) /\ Len(finished') <= MaxFinished
    BY <1>4, <2>1, SetStateIs DEF ShowRunning, Shown
  <2> QED
    BY <1>4, <2>2 DEF ShowRunning, TInv, TypeOK, WorkerInv, Busy, history, Shown
<1>5. ASSUME NEW d \in Dispositions, Handle(w, d) PROVE TInv'
  <2>1. held[w].job \in Jobs /\ pc[w] = "handle"
    BY <1>5, <1>h DEF Handle, Busy
  <2>2. /\ pc' \in [Workers -> {"select", "count", "show", "handle", "done", "retrying",
                               "spawn", "dead", "bury", "gone"}]
        /\ \A u \in Workers : u # w => pc'[u] = pc[u]
        /\ pc'[w] \in {"done", "retrying", "dead"}
        /\ pc'[w] = "retrying" => MayRetry(held[w])
    BY <1>5 DEF Handle, TypeOK
  <2>3. acked' \in SUBSET Jobs
    BY <1>5, <2>1 DEF Handle, TypeOK
  <2>4. TypeOK'
    BY <1>5, <2>2, <2>3 DEF Handle, TypeOK, view
  <2>5. held' = held
    BY <1>5 DEF Handle
  <2>6. WorkerInv'
    BY <2>1, <2>2, <2>5 DEF WorkerInv, Busy, MayRetry
  <2> QED
    BY <2>4, <2>6 DEF TInv
<1>6. CASE ShowOutcome(w)
  <2>1. held[w].job \in Jobs /\ pc[w] \in {"done", "retrying", "dead"}
    BY <1>6, <1>h DEF ShowOutcome, Busy
  <2>2. states' \in [Jobs -> Shown] /\ finished' \in Seq(Jobs) /\ Len(finished') <= MaxFinished
    BY <1>6, <2>1, SetStateIs DEF ShowOutcome, Shown
  <2>3. /\ pc' \in [Workers -> {"select", "count", "show", "handle", "done", "retrying",
                               "spawn", "dead", "bury", "gone"}]
        /\ \A u \in Workers : u # w => pc'[u] = pc[u]
        /\ pc'[w] = "select" <=> pc[w] = "done"
        /\ pc'[w] \in {"select", "spawn", "bury"}
        /\ pc'[w] = "spawn" => pc[w] = "retrying"
    BY <1>6, <2>1 DEF ShowOutcome, TypeOK
  <2>4. /\ held' \in [Workers -> QueuedJobs \cup {Idle}]
        /\ \A u \in Workers : u # w => held'[u] = held[u]
        /\ held'[w] = IF pc[w] = "done" THEN Idle ELSE held[w]
    BY <1>6 DEF ShowOutcome, TypeOK
  <2>5. TypeOK'
    BY <1>6, <2>2, <2>3, <2>4 DEF ShowOutcome, TypeOK, history, Shown
  <2>6. WorkerInv'
    BY <2>1, <2>3, <2>4 DEF WorkerInv, Busy
  <2> QED
    BY <2>5, <2>6 DEF TInv
<1>7. CASE SpawnTimer(w)
  <2>1. Charged(held[w]) \in QueuedJobs
    <3>1. held[w] \in QueuedJobs /\ held[w].attempts + 1 <= MaxRetries
      BY <1>7 DEF SpawnTimer, WorkerInv, Busy
    <3> QED
      BY <1>m, <3>1 DEF Charged, QueuedJobs
  <2>2. timers' \subseteq [qj : QueuedJobs, at : {"wait", "send", "sent"}]
    BY <1>7, <2>1 DEF SpawnTimer, TypeOK
  <2>3. pending' \in Int
    BY <1>7 DEF SpawnTimer, TypeOK
  <2> QED
    BY <1>7, <2>2, <2>3 DEF SpawnTimer, TInv, TypeOK, WorkerInv, Busy, view, history
<1>8. CASE Bury(w)
  <2>1. held[w].job \in Jobs
    BY <1>8, <1>h DEF Bury, Busy
  <2>2. dlq' \in Seq(Jobs)
    BY <1>8, <2>1 DEF Bury, Write, TypeOK
  <2> QED
    BY <1>8, <2>2 DEF Bury, TInv, TypeOK, WorkerInv, Busy, view, history
<1> QED
  BY <1>1, <1>2, <1>3, <1>4, <1>5, <1>6, <1>7, <1>8 DEF Worker

\* The retry goroutines keep the types.
LEMMA TimerTyped ==
  ASSUME TypeOK, WorkerInv, NEW t \in timers, Timer(t)
  PROVE  TInv'
<1>t. t \in [qj : QueuedJobs, at : {"wait", "send", "sent"}] /\ t.qj \in QueuedJobs /\ t.qj.job \in Jobs
  BY DEF TypeOK, QueuedJobs
<1>1. CASE TimerFires(t)
  BY <1>1, <1>t DEF TimerFires, TInv, TypeOK, WorkerInv, Busy, view, workers, history
<1>2. CASE TimerSends(t)
  <2>1. jobs' \in Seq(QueuedJobs) /\ Len(jobs') = Len(jobs) + 1 /\ Len(jobs) \in Nat
    BY <1>2, <1>t DEF TimerSends, Sent, TypeOK
  <2>2. Len(jobs') <= buffer' /\ buffer' = buffer
    BY <1>2, <2>1, MemqAssumption DEF TimerSends, TypeOK
  <2>3. timers' \subseteq [qj : QueuedJobs, at : {"wait", "send", "sent"}]
    BY <1>2, <1>t DEF TimerSends, TypeOK
  <2> QED
    BY <1>2, <2>1, <2>2, <2>3 DEF TimerSends, TInv, TypeOK, WorkerInv, Busy, view, workers, history
<1>3. CASE TimerShows(t)
  <2>1. states' \in [Jobs -> Shown] /\ finished' \in Seq(Jobs) /\ Len(finished') <= MaxFinished
    BY <1>3, <1>t, SetStateIs DEF TimerShows, Shown
  <2> QED
    BY <1>3, <2>1 DEF TimerShows, TInv, TypeOK, WorkerInv, Busy, workers, history, Shown
<1>4. CASE TimerAbandons(t)
  BY <1>4, <1>t DEF TimerAbandons, TInv, TypeOK, WorkerInv, Busy, view, workers
<1> QED
  BY <1>1, <1>2, <1>3, <1>4 DEF Timer

\* Close keeps the types.
LEMMA CloseTyped ==
  ASSUME TypeOK, WorkerInv, Close
  PROVE  TInv'
<1>1. CASE Cancel \/ CloseStop \/ CloseWaited
  BY <1>1 DEF Cancel, CloseStop, CloseWaited, TInv, TypeOK, WorkerInv, Busy, view, workers, history
<1>2. CASE DrainOne
  <2>1. /\ Head(jobs) \in QueuedJobs /\ Tail(jobs) \in Seq(QueuedJobs)
        /\ Len(Tail(jobs)) = Len(jobs) - 1 /\ Len(jobs) \in Nat
    BY <1>2 DEF DrainOne, TypeOK
  <2>2. Len(jobs') <= buffer' /\ jobs' \in Seq(QueuedJobs) /\ buffer' = buffer
    BY <1>2, <2>1, MemqAssumption DEF DrainOne, TypeOK
  <2>3. Head(jobs).job \in Jobs
    BY <2>1 DEF QueuedJobs
  <2>4. pending' \in Int /\ warned' \in SUBSET Jobs
    BY <1>2, <2>3 DEF DrainOne, TypeOK
  <2> QED
    BY <1>2, <2>2, <2>4 DEF DrainOne, TInv, TypeOK, WorkerInv, Busy, view, workers
<1>3. CASE CloseReturn
  <2>1. StillHeld \subseteq Jobs
    BY DEF StillHeld, TypeOK, QueuedJobs
  <2> QED
    BY <1>3, <2>1 DEF CloseReturn, TInv, TypeOK, WorkerInv, Busy, view, workers
<1> QED
  BY <1>1, <1>2, <1>3 DEF Close

\* Every step keeps the types.
LEMMA StepTyped == TInv /\ [Next]_vars => TInv'
<1> SUFFICES ASSUME TypeOK, WorkerInv, [Next]_vars PROVE TInv'
  BY DEF TInv
<1>1. CASE UNCHANGED vars
  BY <1>1 DEF vars, view, workers, history, TInv, TypeOK, WorkerInv, Busy
<1> QED
  BY <1>1, EnqueueTyped, WorkerTyped, TimerTyped, CloseTyped DEF Next

\* Every variable keeps its type: the channel never exceeds its capacity, no
\* payload carries more than MaxRetries attempts, and the finished list is
\* never longer than maxFinishedStates.
THEOREM TypeCorrect == Spec => []TypeOK
<1>1. TInv => TypeOK
  BY DEF TInv
<1> QED
  BY <1>1, InitTyped, StepTyped, PTL DEF Spec

-----------------------------------------------------------------------------
(* Close                                                                    *)

\* Once Close has returned, a payload only moves between hands that had it:
\* the intake lets no new job pass the closed flag.
LEMMA StepLate == TypeOK /\ WorkerInv /\ LateInv /\ [Next]_vars => LateInv'
<1> SUFFICES ASSUME TypeOK, WorkerInv, LateInv, [Next]_vars PROVE LateInv'
  OBVIOUS
<1>1. ASSUME NEW j \in Jobs, Enqueue(j) PROVE LateInv'
  <2>1. UNCHANGED <<stop, closer, held, timers, late>>
    BY <1>1 DEF Enqueue, EnqueueCheck, EnqueueSend, EnqueueCount, EnqueueShow, workers, history
  <2> SUFFICES ASSUME closer = "closed" PROVE AllLate'
    BY <2>1 DEF LateInv
  <2>2. stop /\ AllLate
    BY DEF LateInv
  <2>3. \A i \in Jobs : caller'[i] = "checked" => caller[i] = "checked"
    BY <1>1, <2>2 DEF Enqueue, EnqueueCheck, EnqueueSend, EnqueueCount, EnqueueShow, TypeOK
  <2>4. \A k \in DOMAIN jobs' : jobs'[k].job \in late
    <3>1. CASE jobs' = jobs
      BY <2>2, <3>1 DEF AllLate
    <3>2. CASE caller[j] = "checked" /\ jobs' = Append(jobs, [job |-> j, attempts |-> 0])
      <4>1. [job |-> j, attempts |-> 0] \in QueuedJobs /\ [job |-> j, attempts |-> 0].job \in late
        BY <2>2, <3>2, MemqAssumption DEF QueuedJobs, AllLate
      <4>2. jobs \in Seq(QueuedJobs)
        BY DEF TypeOK
      <4> QED
        BY <2>2, <3>2, <4>1, <4>2, AppendIs DEF AllLate
    <3> QED
      BY <1>1, <3>1, <3>2 DEF Enqueue, EnqueueCheck, EnqueueSend, EnqueueCount, EnqueueShow, Sent
  <2> QED
    BY <2>1, <2>2, <2>3, <2>4 DEF AllLate
<1>2. ASSUME NEW w \in Workers, Worker(w) PROVE LateInv'
  <2>1. UNCHANGED <<stop, closer, caller, late>>
    BY <1>2 DEF Worker, Receive, Quit, CountDown, ShowRunning, Handle, ShowOutcome, SpawnTimer,
                Bury, history
  <2> SUFFICES ASSUME closer = "closed" PROVE AllLate'
    BY <2>1 DEF LateInv
  <2>2. AllLate
    BY DEF LateInv
  <2>3. CASE Receive(w)
    <3>1. jobs \in Seq(QueuedJobs) /\ jobs # <<>>
      BY <2>3 DEF Receive, TypeOK
    <3>2. Head(jobs).job \in late /\ \A k \in DOMAIN jobs' : jobs'[k].job \in late
      BY <2>2, <2>3, <3>1, TailIs DEF Receive, AllLate
    <3>3. timers' = timers /\ held' = [held EXCEPT ![w] = Head(jobs)]
      BY <2>3 DEF Receive
    <3> QED
      BY <2>1, <2>2, <3>2, <3>3 DEF AllLate, TypeOK
  <2>4. CASE SpawnTimer(w)
    <3>1. held[w] \in QueuedJobs /\ held[w] # Idle
      BY <2>4, MemqAssumption DEF SpawnTimer, WorkerInv, Busy, QueuedJobs, Idle
    <3>2. Charged(held[w]).job = held[w].job
      BY <3>1 DEF Charged, QueuedJobs
    <3>3. held[w].job \in late
      BY <2>2, <3>1 DEF AllLate
    <3>4. /\ timers' = timers \cup {[qj |-> Charged(held[w]), at |-> "wait"]}
          /\ held' = [held EXCEPT ![w] = Idle] /\ jobs' = jobs
      BY <2>4 DEF SpawnTimer
    <3> QED
      BY <2>1, <2>2, <3>2, <3>3, <3>4 DEF AllLate, TypeOK
  <2>5. CASE ~Receive(w) /\ ~SpawnTimer(w)
    <3>1. jobs' = jobs /\ timers' = timers
      BY <1>2, <2>5 DEF Worker, Quit, CountDown, ShowRunning, Handle, ShowOutcome, Bury
    <3>2. held' = held \/ held' = [held EXCEPT ![w] = Idle]
      BY <1>2, <2>5 DEF Worker, Quit, CountDown, ShowRunning, Handle, ShowOutcome, Bury
    <3> QED
      BY <2>1, <2>2, <3>1, <3>2 DEF AllLate, TypeOK
  <2> QED
    BY <2>3, <2>4, <2>5
<1>3. ASSUME NEW t \in timers, Timer(t) PROVE LateInv'
  <2>1. UNCHANGED <<stop, closer, caller, held, late>>
    BY <1>3 DEF Timer, TimerFires, TimerSends, TimerShows, TimerAbandons, workers, history
  <2> SUFFICES ASSUME closer = "closed" PROVE AllLate'
    BY <2>1 DEF LateInv
  <2>2. AllLate /\ t.qj.job \in late /\ t \in [qj : QueuedJobs, at : {"wait", "send", "sent"}]
    BY DEF LateInv, AllLate, TypeOK
  <2>3. \A s \in timers' : s.qj.job \in late
    BY <1>3, <2>2 DEF Timer, TimerFires, TimerSends, TimerShows, TimerAbandons, AllLate
  <2>4. \A k \in DOMAIN jobs' : jobs'[k].job \in late
    <3>1. CASE jobs' = jobs
      BY <2>2, <3>1 DEF AllLate
    <3>2. CASE jobs' = Append(jobs, t.qj)
      <4>1. t.qj \in QueuedJobs /\ jobs \in Seq(QueuedJobs)
        BY <2>2 DEF TypeOK
      <4> QED
        BY <2>2, <3>2, <4>1, AppendIs DEF AllLate
    <3> QED
      BY <1>3, <3>1, <3>2 DEF Timer, TimerFires, TimerSends, TimerShows, TimerAbandons, Sent
  <2> QED
    BY <2>1, <2>2, <2>3, <2>4 DEF AllLate
<1>4. CASE Cancel \/ CloseStop \/ CloseWaited
  BY <1>4 DEF Cancel, CloseStop, CloseWaited, LateInv
<1>5. CASE DrainOne
  BY <1>5 DEF DrainOne, LateInv
<1>6. CASE CloseReturn
  <2>1. UNCHANGED <<caller, held, timers, jobs, stop>> /\ late' = StillHeld /\ jobs = <<>> /\ stop
    BY <1>6 DEF CloseReturn, Emptied, LateInv, workers
  <2>2. AllLate'
    BY <2>1 DEF AllLate, StillHeld
  <2> QED
    BY <2>1, <2>2 DEF LateInv
<1>7. CASE UNCHANGED vars
  BY <1>7 DEF vars, workers, history, LateInv, AllLate
<1> QED
  BY <1>1, <1>2, <1>3, <1>4, <1>5, <1>6, <1>7 DEF Next, Close

\* Once Close has returned and the workers are gone, the channel holds only
\* payloads that a goroutine had in its hands when Close gave up waiting.
THEOREM CloseLeavesNothing == Spec => []NothingLeftBehind
<1>1. Init => LateInv
  BY DEF Init, LateInv
<1>2. LateInv => NothingLeftBehind
  BY DEF LateInv, AllLate, NothingLeftBehind
<1>3. TInv /\ LateInv /\ [Next]_vars => TInv' /\ LateInv'
  BY StepTyped, StepLate DEF TInv
<1> QED
  BY <1>1, <1>2, <1>3, InitTyped, PTL DEF Spec

-----------------------------------------------------------------------------
(* The order of first claims                                                *)

\* A step never takes an acceptance back; only a send makes a new one.
LEMMA AdmittedGrows ==
  ASSUME TypeOK, [Next]_vars
  PROVE  /\ Admitted \subseteq Admitted'
         /\ (\A j \in Jobs : ~EnqueueSend(j)) => Admitted' = Admitted
<1>1. ASSUME NEW j \in Jobs, Enqueue(j)
      PROVE  Admitted \subseteq Admitted' /\ (~EnqueueSend(j) => Admitted' = Admitted)
  <2>1. CASE EnqueueSend(j)
    BY <2>1 DEF EnqueueSend, TypeOK, Admitted, Accepted
  <2>2. CASE EnqueueCheck(j) \/ EnqueueCount(j) \/ EnqueueShow(j)
    <3>1. \A i \in Jobs : Accepted(i)' <=> Accepted(i)
      BY <2>2 DEF EnqueueCheck, EnqueueCount, EnqueueShow, TypeOK, Accepted
    <3> QED
      BY <3>1 DEF Admitted
  <2> QED
    BY <1>1, <2>1, <2>2 DEF Enqueue
<1>2. ASSUME ~\E j \in Jobs : Enqueue(j) PROVE caller' = caller
  <2>1. ASSUME NEW w \in Workers, Worker(w) PROVE caller' = caller
    BY <2>1 DEF Worker, Receive, Quit, CountDown, ShowRunning, Handle, ShowOutcome, SpawnTimer, Bury
  <2>2. ASSUME NEW t \in timers, Timer(t) PROVE caller' = caller
    BY <2>2 DEF Timer, TimerFires, TimerSends, TimerShows, TimerAbandons
  <2>3. CASE Close \/ UNCHANGED vars
    BY <2>3 DEF Close, Cancel, CloseStop, CloseWaited, DrainOne, CloseReturn, vars
  <2> QED
    BY <1>2, <2>1, <2>2, <2>3 DEF Next
<1> QED
  BY <1>1, <1>2 DEF Admitted, Accepted

\* A step that leaves the channel and what was taken alone keeps the order.
LEMMA OrderKept ==
  ASSUME TypeOK, OrderInv, [Next]_vars,
         UNCHANGED <<arrivals, jobs, taken>>, warned \subseteq warned',
         \A u \in Workers : Busy(u)' => held'[u].job \in taken,
         \A t \in timers' : t.qj.job \in taken
  PROVE  OrderInv'
<1>3. Known'
  BY AdmittedGrows DEF OrderInv, Known
<1>4. Waiting'
  BY DEF OrderInv, Waiting
<1>5. Sorted'
  BY DEF OrderInv, Sorted
<1>6. FirstClaimsInOrder'
  BY DEF OrderInv, FirstClaimsInOrder
<1> QED
  BY <1>3, <1>4, <1>5, <1>6 DEF OrderInv

\* Enqueue: a new job comes last, in the channel and in the arrivals.
LEMMA OrderEnqueue ==
  ASSUME TypeOK, WorkerInv, OrderInv, [Next]_vars, NEW j \in Jobs, Enqueue(j)
  PROVE  OrderInv'
<1>1. UNCHANGED <<taken, warned, pc, held, timers>>
  BY DEF Enqueue, EnqueueCheck, EnqueueSend, EnqueueCount, EnqueueShow, workers, history
<1>2. CASE UNCHANGED <<arrivals, jobs>>
  BY <1>1, <1>2, OrderKept DEF OrderInv, Known, Busy
<1>3. CASE EnqueueSend(j) /\ jobs' = Append(jobs, [job |-> j, attempts |-> 0])
           /\ arrivals' = Append(arrivals, j) /\ caller' = [caller EXCEPT ![j] = "sent"]
  <2> DEFINE x == [job |-> j, attempts |-> 0]
  <2>1. x \in QueuedJobs /\ x.job = j
    BY MemqAssumption DEF QueuedJobs
  <2>a. j \notin Admitted /\ j \in Admitted' /\ Admitted \subseteq Admitted'
    BY <1>3 DEF EnqueueSend, Admitted, Accepted, TypeOK
  <2> HIDE DEF x
  <2>2. /\ Len(jobs) \in Nat /\ DOMAIN jobs = 1..Len(jobs) /\ DOMAIN jobs' = 1..Len(jobs) + 1
        /\ jobs'[Len(jobs) + 1].job = j
        /\ \A k \in 1..Len(jobs) : jobs'[k] = jobs[k]
    BY <1>3, <2>1, AppendIs DEF TypeOK, x
  <2>3. /\ Len(arrivals) \in Nat /\ DOMAIN arrivals = 1..Len(arrivals)
        /\ DOMAIN arrivals' = 1..Len(arrivals) + 1 /\ arrivals'[Len(arrivals) + 1] = j
        /\ \A a \in 1..Len(arrivals) : arrivals'[a] = arrivals[a]
    BY <1>3, AppendIs DEF TypeOK
  <2>4. /\ \A a \in 1..Len(arrivals) : arrivals[a] # j /\ arrivals[a] \in Jobs
        /\ \A k \in 1..Len(jobs) : jobs[k].job # j /\ jobs[k].job \in Jobs
    <3>1. \A i \in Admitted : i # j /\ i \in Jobs
      BY <2>a DEF Admitted
    <3> QED
      BY <2>2, <2>3, <3>1 DEF OrderInv, Known
  <2>5. Known'
    <3>1. \A a \in DOMAIN arrivals' : arrivals'[a] \in Admitted'
      BY <2>a, <2>3 DEF OrderInv, Known
    <3>2. \A k \in DOMAIN jobs' : jobs'[k].job \in Admitted'
      BY <2>a, <2>2 DEF OrderInv, Known
    <3> QED
      BY <1>1, <2>a, <3>1, <3>2 DEF OrderInv, Known, Busy
  <2>6. Waiting'
    <3> SUFFICES ASSUME NEW a \in 1..Len(arrivals) + 1, arrivals'[a] \notin taken \cup warned
                 PROVE  \E k \in DOMAIN jobs' : jobs'[k].job = arrivals'[a]
      BY <1>1, <2>3 DEF Waiting
    <3>1. CASE a = Len(arrivals) + 1
      BY <2>2, <2>3, <3>1
    <3>2. CASE a \in 1..Len(arrivals)
      <4>1. PICK k \in 1..Len(jobs) : jobs[k].job = arrivals[a]
        BY <2>2, <2>3, <3>2 DEF OrderInv, Waiting
      <4> QED
        BY <2>2, <2>3, <3>2, <4>1
    <3> QED
      BY <2>3, <3>1, <3>2
  <2>7. Sorted'
    <3> SUFFICES ASSUME NEW a \in 1..Len(arrivals) + 1, NEW b \in 1..Len(arrivals) + 1, a < b,
                        NEW k \in 1..Len(jobs) + 1, NEW l \in 1..Len(jobs) + 1,
                        jobs'[k].job = arrivals'[a], arrivals'[a] \notin taken \cup warned,
                        jobs'[l].job = arrivals'[b], arrivals'[b] \notin taken
                 PROVE  k < l
      BY <1>1, <2>2, <2>3 DEF Sorted
    <3>1. a \in 1..Len(arrivals) /\ arrivals'[a] = arrivals[a] /\ arrivals[a] # j
      BY <2>3, <2>4
    <3>2. k \in 1..Len(jobs) /\ jobs[k].job = arrivals[a]
      BY <2>2, <3>1
    <3>3. CASE b = Len(arrivals) + 1
      <4>1. l = Len(jobs) + 1
        BY <2>2, <2>3, <2>4, <3>3
      <4> QED
        BY <2>2, <3>2, <4>1
    <3>4. CASE b \in 1..Len(arrivals)
      <4>1. l \in 1..Len(jobs) /\ jobs[l].job = arrivals[b] /\ arrivals[b] \notin taken
        BY <2>2, <2>3, <2>4, <3>4
      <4> QED
        BY <2>2, <2>3, <3>1, <3>2, <3>4, <4>1 DEF OrderInv, Sorted
    <3> QED
      BY <2>3, <3>3, <3>4
  <2>8. FirstClaimsInOrder'
    <3> SUFFICES ASSUME NEW a \in 1..Len(arrivals) + 1, NEW b \in 1..Len(arrivals) + 1, a < b,
                        arrivals'[b] \in taken
                 PROVE  arrivals'[a] \in taken \cup warned
      BY <1>1, <2>3 DEF FirstClaimsInOrder
    <3>1. a \in 1..Len(arrivals) /\ arrivals'[a] = arrivals[a]
      BY <2>3
    <3>2. CASE b = Len(arrivals) + 1
      <4>1. j \in taken
        BY <2>3, <3>2
      <4> QED
        BY <2>a, <4>1 DEF OrderInv, Known
    <3>3. CASE b \in 1..Len(arrivals)
      BY <2>3, <3>1, <3>3 DEF OrderInv, FirstClaimsInOrder
    <3> QED
      BY <2>3, <3>2, <3>3
  <2> QED
    BY <2>5, <2>6, <2>7, <2>8 DEF OrderInv
<1> QED
  BY <1>2, <1>3 DEF Enqueue, EnqueueCheck, EnqueueSend, EnqueueCount, EnqueueShow, Sent, history

\* Taking the first payload out of the channel leaves the rest in order, and
\* whoever came before it has been taken or given up.
LEMMA OrderHead ==
  ASSUME TypeOK, OrderInv, jobs # <<>>, NEW b \in DOMAIN arrivals, NEW a \in DOMAIN arrivals,
         a < b, arrivals[b] = Head(jobs).job
  PROVE  arrivals[a] \in taken \cup warned
<1>1. /\ Head(jobs) = jobs[1] /\ 1 \in DOMAIN jobs
      /\ DOMAIN jobs = 1..Len(jobs) /\ Len(jobs) \in Nat
  BY TailIs DEF TypeOK
<1>2. CASE arrivals[b] \in taken
  BY <1>2 DEF OrderInv, FirstClaimsInOrder
<1>3. CASE arrivals[b] \notin taken
  <2> SUFFICES ASSUME arrivals[a] \notin taken \cup warned PROVE FALSE
    OBVIOUS
  <2>1. PICK k \in DOMAIN jobs : jobs[k].job = arrivals[a]
    BY DEF OrderInv, Waiting
  <2>2. k < 1
    BY <1>1, <1>3, <2>1 DEF OrderInv, Sorted
  <2> QED
    BY <1>1, <2>2
<1> QED
  BY <1>2, <1>3

\* The same for what stays in the channel.
LEMMA OrderTail ==
  ASSUME TypeOK, OrderInv, jobs # <<>>, jobs' = Tail(jobs), arrivals' = arrivals,
         \/ taken' = taken \cup {Head(jobs).job} /\ warned' = warned
         \/ taken' = taken /\ warned' = warned \cup {Head(jobs).job}
  PROVE  Waiting' /\ Sorted'
<1>1. /\ Head(jobs) = jobs[1] /\ Len(jobs) \in Nat /\ Len(jobs) >= 1
      /\ DOMAIN jobs = 1..Len(jobs) /\ DOMAIN jobs' = 1..Len(jobs) - 1
      /\ \A k \in 1..Len(jobs) - 1 : jobs'[k] = jobs[k + 1]
  BY TailIs DEF TypeOK
<1>2. Waiting'
  <2> SUFFICES ASSUME NEW a \in DOMAIN arrivals, arrivals[a] \notin taken' \cup warned'
               PROVE  \E k \in DOMAIN jobs' : jobs'[k].job = arrivals[a]
    BY DEF Waiting
  <2>1. PICK k \in DOMAIN jobs : jobs[k].job = arrivals[a]
    BY DEF OrderInv, Waiting
  <2>2. k # 1
    BY <1>1, <2>1
  <2>3. k - 1 \in DOMAIN jobs' /\ jobs'[k - 1] = jobs[k]
    BY <1>1, <2>1, <2>2
  <2> QED
    BY <2>1, <2>3
<1>3. Sorted'
  <2> SUFFICES ASSUME NEW a \in DOMAIN arrivals, NEW b \in DOMAIN arrivals, a < b,
                      NEW k \in 1..Len(jobs) - 1, NEW l \in 1..Len(jobs) - 1,
                      jobs[k + 1].job = arrivals[a], arrivals[a] \notin taken \cup warned,
                      jobs[l + 1].job = arrivals[b], arrivals[b] \notin taken
               PROVE  k < l
    BY <1>1 DEF Sorted
  <2>1. k + 1 \in DOMAIN jobs /\ l + 1 \in DOMAIN jobs
    BY <1>1
  <2>2. k + 1 < l + 1
    BY <2>1 DEF OrderInv, Sorted
  <2> QED
    BY <1>1, <2>2
<1> QED
  BY <1>2, <1>3

\* Every step keeps the order.
LEMMA StepOrder == TypeOK /\ WorkerInv /\ OrderInv /\ [Next]_vars => OrderInv'
<1> SUFFICES ASSUME TypeOK, WorkerInv, OrderInv, [Next]_vars PROVE OrderInv'
  OBVIOUS
<1>a. Admitted \subseteq Admitted'
  BY AdmittedGrows
<1>1. ASSUME NEW j \in Jobs, Enqueue(j) PROVE OrderInv'
  BY <1>1, OrderEnqueue
<1>2. ASSUME NEW w \in Workers, Receive(w) PROVE OrderInv'
  <2>1. /\ jobs # <<>> /\ jobs' = Tail(jobs) /\ UNCHANGED <<arrivals, timers, warned>>
        /\ taken' = taken \cup {Head(jobs).job}
    BY <1>2 DEF Receive
  <2>2. /\ Head(jobs) = jobs[1] /\ 1 \in DOMAIN jobs /\ Len(jobs) \in Nat
        /\ DOMAIN jobs = 1..Len(jobs) /\ DOMAIN jobs' = 1..Len(jobs) - 1
        /\ \A k \in 1..Len(jobs) - 1 : jobs'[k] = jobs[k + 1]
    BY <2>1, TailIs DEF TypeOK
  <2>3. ASSUME NEW u \in Workers, Busy(u)' PROVE held'[u].job \in taken'
    <3>1. CASE u = w
      BY <1>2, <2>1, <3>1 DEF Receive, TypeOK
    <3>2. CASE u # w
      <4>1. Busy(u) /\ held'[u] = held[u]
        BY <1>2, <2>3, <3>2 DEF Receive, TypeOK, Busy
      <4> QED
        BY <2>1, <4>1 DEF OrderInv, Known
    <3> QED
      BY <3>1, <3>2
  <2>4. \A k \in DOMAIN jobs' : jobs'[k].job \in Admitted
    BY <2>2 DEF OrderInv, Known
  <2>5. Head(jobs).job \in Admitted
    BY <2>2 DEF OrderInv, Known
  <2>6. Known'
    BY <1>a, <2>1, <2>3, <2>4, <2>5 DEF OrderInv, Known
  <2>7. FirstClaimsInOrder'
    <3> SUFFICES ASSUME NEW a \in DOMAIN arrivals, NEW b \in DOMAIN arrivals, a < b,
                        arrivals[b] \in taken \/ arrivals[b] = Head(jobs).job
                 PROVE  arrivals[a] \in taken \cup warned
      BY <2>1 DEF FirstClaimsInOrder
    <3> QED
      BY <2>1, OrderHead DEF OrderInv, FirstClaimsInOrder
  <2> QED
    BY <2>1, <2>6, <2>7, OrderTail DEF OrderInv
<1>3. ASSUME NEW w \in Workers, Worker(w), ~Receive(w) PROVE OrderInv'
  <2>1. UNCHANGED <<arrivals, jobs, taken, warned>>
    BY <1>3 DEF Worker, Quit, CountDown, ShowRunning, Handle, ShowOutcome, SpawnTimer, Bury, history
  <2>2. /\ \A u \in Workers : Busy(u)' => Busy(u)
        /\ \A u \in Workers : Busy(u)' => held'[u] = held[u]
    <3>1. CASE Quit(w) \/ CountDown(w) \/ ShowRunning(w) \/ SpawnTimer(w) \/ Bury(w)
      BY <3>1 DEF Quit, CountDown, ShowRunning, SpawnTimer, Bury, TypeOK, Busy
    <3>2. CASE \E d \in Dispositions : Handle(w, d)
      BY <3>2 DEF Handle, TypeOK, Busy
    <3>3. CASE ShowOutcome(w)
      BY <3>3 DEF ShowOutcome, TypeOK, Busy
    <3> QED
      BY <1>3, <3>1, <3>2, <3>3 DEF Worker
  <2>3. \A t \in timers' : t.qj.job \in taken
    <3>1. CASE timers' = timers
      BY <3>1 DEF OrderInv, Known
    <3>2. CASE SpawnTimer(w)
      <4>1. Busy(w) /\ held[w] \in QueuedJobs
        BY <3>2 DEF SpawnTimer, WorkerInv, Busy
      <4>2. Charged(held[w]).job = held[w].job
        BY <4>1 DEF Charged, QueuedJobs
      <4> QED
        BY <3>2, <4>1, <4>2 DEF SpawnTimer, OrderInv, Known
    <3> QED
      BY <1>3, <3>1, <3>2 DEF Worker, Quit, CountDown, ShowRunning, Handle, ShowOutcome, Bury
  <2>4. \A u \in Workers : Busy(u)' => held'[u].job \in taken
    BY <2>2 DEF OrderInv, Known
  <2> QED
    BY <2>1, <2>3, <2>4, OrderKept
<1>4. ASSUME NEW t \in timers, TimerSends(t) PROVE OrderInv'
  <2>1. UNCHANGED <<arrivals, taken, warned, pc, held>> /\ jobs' = Append(jobs, t.qj)
    BY <1>4 DEF TimerSends, workers, history, Sent
  <2>2. t.qj \in QueuedJobs /\ t.qj.job \in taken
    BY DEF OrderInv, Known, TypeOK
  <2>3. /\ Len(jobs) \in Nat /\ DOMAIN jobs = 1..Len(jobs) /\ DOMAIN jobs' = 1..Len(jobs) + 1
        /\ jobs'[Len(jobs) + 1] = t.qj
        /\ \A k \in 1..Len(jobs) : jobs'[k] = jobs[k]
    BY <2>1, <2>2, AppendIs DEF TypeOK
  <2>4. \A s \in timers' : s.qj.job \in taken
    BY <1>4, <2>2 DEF TimerSends, OrderInv, Known, TypeOK
  <2>5. \A k \in DOMAIN jobs' : jobs'[k].job \in Admitted
    BY <2>2, <2>3 DEF OrderInv, Known
  <2>6. Known'
    BY <1>a, <2>1, <2>4, <2>5 DEF OrderInv, Known, Busy
  <2>7. Waiting'
    BY <2>1, <2>3 DEF OrderInv, Waiting
  <2>8. Sorted'
    <3> SUFFICES ASSUME NEW a \in DOMAIN arrivals, NEW b \in DOMAIN arrivals, a < b,
                        NEW k \in 1..Len(jobs) + 1, NEW l \in 1..Len(jobs) + 1,
                        jobs'[k].job = arrivals[a], arrivals[a] \notin taken \cup warned,
                        jobs'[l].job = arrivals[b], arrivals[b] \notin taken
                 PROVE  k < l
      BY <2>1, <2>3 DEF Sorted
    <3>1. k \in 1..Len(jobs) /\ l \in 1..Len(jobs)
      BY <2>2, <2>3
    <3> QED
      BY <2>3, <3>1 DEF OrderInv, Sorted
  <2>9. FirstClaimsInOrder'
    BY <2>1 DEF OrderInv, FirstClaimsInOrder
  <2> QED
    BY <2>6, <2>7, <2>8, <2>9 DEF OrderInv
<1>5. ASSUME NEW t \in timers, TimerFires(t) \/ TimerShows(t) \/ TimerAbandons(t) PROVE OrderInv'
  <2>1. UNCHANGED <<arrivals, jobs, taken, pc, held>> /\ warned \subseteq warned'
    BY <1>5 DEF TimerFires, TimerShows, TimerAbandons, workers, history
  <2>2. \A s \in timers' : s.qj.job \in taken
    BY <1>5 DEF TimerFires, TimerShows, TimerAbandons, OrderInv, Known, TypeOK
  <2>3. \A u \in Workers : Busy(u)' => held'[u].job \in taken
    BY <2>1 DEF OrderInv, Known, Busy
  <2> QED
    BY <2>1, <2>2, <2>3, OrderKept
<1>6. CASE DrainOne
  <2>1. /\ jobs # <<>> /\ jobs' = Tail(jobs) /\ UNCHANGED <<arrivals, timers, taken, pc, held>>
        /\ warned' = warned \cup {Head(jobs).job}
    BY <1>6 DEF DrainOne, workers
  <2>2. /\ Len(jobs) \in Nat
        /\ DOMAIN jobs = 1..Len(jobs) /\ DOMAIN jobs' = 1..Len(jobs) - 1
        /\ \A k \in 1..Len(jobs) - 1 : jobs'[k] = jobs[k + 1]
    BY <2>1, TailIs DEF TypeOK
  <2>3. \A k \in DOMAIN jobs' : jobs'[k].job \in Admitted
    BY <2>2 DEF OrderInv, Known
  <2>4. Known'
    BY <1>a, <2>1, <2>3 DEF OrderInv, Known, Busy
  <2>5. FirstClaimsInOrder'
    BY <2>1 DEF OrderInv, FirstClaimsInOrder
  <2> QED
    BY <2>1, <2>4, <2>5, OrderTail DEF OrderInv
<1>7. CASE Cancel \/ CloseStop \/ CloseWaited \/ CloseReturn \/ UNCHANGED vars
  <2>1. UNCHANGED <<arrivals, jobs, taken, warned, timers, pc, held>>
    BY <1>7 DEF Cancel, CloseStop, CloseWaited, CloseReturn, vars, workers, history
  <2> QED
    BY <2>1, OrderKept DEF OrderInv, Known, Busy
<1> QED
  BY <1>1, <1>2, <1>3, <1>4, <1>5, <1>6, <1>7 DEF Next, Worker, Timer, Close

\* Jobs are first taken in the order in which the channel accepted them,
\* whatever comes back for a retry and whatever Close takes out in between.
THEOREM FirstClaimsOrdered == Spec => []FirstClaimsInOrder
<1>1. Init => OrderInv
  BY DEF Init, OrderInv, Known, Waiting, Sorted, FirstClaimsInOrder, Busy
<1>2. OrderInv => FirstClaimsInOrder
  BY DEF OrderInv
<1>3. TInv /\ OrderInv /\ [Next]_vars => TInv' /\ OrderInv'
  BY StepTyped, StepOrder DEF TInv
<1> QED
  BY <1>1, <1>2, <1>3, InitTyped, PTL DEF Spec

-----------------------------------------------------------------------------
(* One place for every payload                                              *)

\* An idle worker has no payload.
LEMMA IdleIsNone == Idle \notin QueuedJobs
  BY MemqAssumption DEF Idle, QueuedJobs

\* A payload goes into the channel.
LEMMA PutChannel ==
  ASSUME NEW q \in Seq(QueuedJobs), NEW h \in [Workers -> QueuedJobs \cup {Idle}],
         NEW T \in SUBSET Timers, NEW x \in QueuedJobs
  PROVE  /\ Cargo(Append(q, x), h, T) = Cargo(q, h, T) \cup {x}
         /\ OnePlace(q, h, T) /\ Free(x.job, q, h, T) => OnePlace(Append(q, x), h, T)
<1>1. /\ DOMAIN q = 1..Len(q) /\ DOMAIN Append(q, x) = 1..Len(q) + 1 /\ Len(q) \in Nat
      /\ \A k \in 1..Len(q) : Append(q, x)[k] = q[k] /\ q[k] \in QueuedJobs
      /\ Append(q, x)[Len(q) + 1] = x
  BY AppendIs
<1> DEFINE r == Append(q, x)
<1> HIDE DEF r
<1>2. \A y : (\E k \in DOMAIN r : r[k] = y) <=> (\E k \in DOMAIN q : q[k] = y) \/ y = x
  BY <1>1 DEF r
<1>3. Cargo(r, h, T) = Cargo(q, h, T) \cup {x}
  BY <1>2 DEF Cargo, Carries
<1>4. ASSUME OnePlace(q, h, T), Free(x.job, q, h, T) PROVE OnePlace(r, h, T)
  <2>1. /\ \A k \in DOMAIN q : q[k].job # x.job
        /\ \A w \in Workers : h[w] # Idle => h[w].job # x.job
        /\ \A t \in T : t.qj.job # x.job
    BY <1>1, <1>4 DEF Free, Cargo, Carries, Timers
  <2>2. \A k, l \in DOMAIN r : r[k].job = r[l].job => k = l
    BY <1>1, <1>4, <2>1 DEF r, OnePlace
  <2>3. \A k \in DOMAIN r : r[k] = x \/ (k \in DOMAIN q /\ r[k] = q[k])
    BY <1>1 DEF r
  <2>4. \A k \in DOMAIN r, w \in Workers : h[w] # Idle => h[w].job # r[k].job
    BY <1>4, <2>1, <2>3 DEF OnePlace
  <2>5. \A k \in DOMAIN r, t \in T : t.qj.job # r[k].job
    BY <1>4, <2>1, <2>3 DEF OnePlace
  <2> QED
    BY <1>4, <2>2, <2>4, <2>5 DEF OnePlace
<1> QED
  BY <1>3, <1>4 DEF r

\* The first payload leaves the channel.
LEMMA TakeChannel ==
  ASSUME NEW q \in Seq(QueuedJobs), NEW h \in [Workers -> QueuedJobs \cup {Idle}],
         NEW T \in SUBSET Timers, q # <<>>
  PROVE  /\ Head(q) \in QueuedJobs /\ Tail(q) \in Seq(QueuedJobs)
         /\ Cargo(q, h, T) = Cargo(Tail(q), h, T) \cup {Head(q)}
         /\ OnePlace(q, h, T) => OnePlace(Tail(q), h, T) /\ Free(Head(q).job, Tail(q), h, T)
<1>1. /\ Head(q) = q[1] /\ Head(q) \in QueuedJobs /\ Tail(q) \in Seq(QueuedJobs)
      /\ Len(q) \in Nat /\ Len(q) >= 1
      /\ DOMAIN q = 1..Len(q) /\ DOMAIN Tail(q) = 1..Len(q) - 1
      /\ \A k \in 1..Len(q) - 1 : Tail(q)[k] = q[k + 1]
  BY TailIs
<1> DEFINE r == Tail(q)
           x == Head(q)
<1> HIDE DEF r, x
<1>2. \A k \in DOMAIN r : k + 1 \in DOMAIN q /\ k + 1 # 1 /\ r[k] = q[k + 1]
  BY <1>1 DEF r
<1>3. \A k \in DOMAIN q : k = 1 \/ (k - 1 \in DOMAIN r /\ r[k - 1] = q[k])
  BY <1>1 DEF r
<1>4. q[1] = x /\ 1 \in DOMAIN q /\ x \in QueuedJobs
  BY <1>1 DEF x
<1>5. \A y : (\E k \in DOMAIN q : q[k] = y) <=> (\E k \in DOMAIN r : r[k] = y) \/ y = x
  BY <1>2, <1>3, <1>4
<1>6. Cargo(q, h, T) = Cargo(r, h, T) \cup {x}
  BY <1>4, <1>5 DEF Cargo, Carries
<1>7. ASSUME OnePlace(q, h, T) PROVE OnePlace(r, h, T) /\ Free(x.job, r, h, T)
  <2>1. \A k, l \in DOMAIN r : r[k].job = r[l].job => k = l
    <3> SUFFICES ASSUME NEW k \in DOMAIN r, NEW l \in DOMAIN r, r[k].job = r[l].job PROVE k = l
      OBVIOUS
    <3>1. k + 1 = l + 1
      BY <1>2, <1>7 DEF OnePlace
    <3> QED
      BY <1>1, <3>1 DEF r
  <2>2. \A k \in DOMAIN r, w \in Workers : h[w] # Idle => h[w].job # r[k].job
    BY <1>2, <1>7 DEF OnePlace
  <2>3. \A k \in DOMAIN r, t \in T : t.qj.job # r[k].job
    BY <1>2, <1>7 DEF OnePlace
  <2>4. OnePlace(r, h, T)
    BY <1>7, <2>1, <2>2, <2>3 DEF OnePlace
  <2>5. \A k \in DOMAIN r : r[k].job # x.job
    BY <1>2, <1>4, <1>7 DEF OnePlace
  <2>6. \A w \in Workers : h[w] # Idle => h[w].job # x.job
    BY <1>4, <1>7 DEF OnePlace
  <2>7. \A t \in T : t.qj.job # x.job
    BY <1>4, <1>7 DEF OnePlace
  <2>8. Free(x.job, r, h, T)
    BY <2>5, <2>6, <2>7, IdleIsNone DEF Free, Cargo, Carries
  <2> QED
    BY <2>4, <2>8
<1> QED
  BY <1>1, <1>6, <1>7 DEF r, x

\* An idle worker gets a payload.
LEMMA PutWorker ==
  ASSUME NEW q \in Seq(QueuedJobs), NEW h \in [Workers -> QueuedJobs \cup {Idle}],
         NEW T \in SUBSET Timers, NEW x \in QueuedJobs, NEW w \in Workers, h[w] = Idle,
         NEW g \in [Workers -> QueuedJobs \cup {Idle}], g[w] = x, \A u \in Workers \ {w} : g[u] = h[u]
  PROVE  /\ Cargo(q, g, T) = Cargo(q, h, T) \cup {x}
         /\ OnePlace(q, h, T) /\ Free(x.job, q, h, T) => OnePlace(q, g, T)
<1>1. g[w] = x /\ x # Idle /\ \A u \in Workers : u # w => g[u] = h[u]
  BY IdleIsNone
<1>2. \A y \in QueuedJobs : (\E u \in Workers : g[u] = y) <=> (\E u \in Workers : h[u] = y) \/ y = x
  BY <1>1, IdleIsNone
<1>3. Cargo(q, g, T) = Cargo(q, h, T) \cup {x}
  BY <1>2 DEF Cargo, Carries
<1>4. ASSUME OnePlace(q, h, T), Free(x.job, q, h, T) PROVE OnePlace(q, g, T)
  <2>1. /\ \A k \in DOMAIN q : q[k].job # x.job
        /\ \A u \in Workers : h[u] # Idle => h[u].job # x.job
        /\ \A t \in T : t.qj.job # x.job
    <3>1. \A k \in DOMAIN q : q[k] \in QueuedJobs
      OBVIOUS
    <3> QED
      BY <1>4, <3>1 DEF Free, Cargo, Carries, Timers
  <2>2. \A u \in Workers : g[u] # Idle => (u = w /\ g[u] = x) \/ (u # w /\ h[u] # Idle /\ g[u] = h[u])
    BY <1>1
  <2>3. \A u, v \in Workers : g[u] # Idle /\ g[v] # Idle /\ g[u].job = g[v].job => u = v
    BY <1>4, <2>1, <2>2 DEF OnePlace
  <2>4. \A k \in DOMAIN q, u \in Workers : g[u] # Idle => g[u].job # q[k].job
    BY <1>4, <2>1, <2>2 DEF OnePlace
  <2>5. \A u \in Workers, t \in T : g[u] # Idle => t.qj.job # g[u].job
    BY <1>4, <2>1, <2>2 DEF OnePlace
  <2> QED
    BY <1>4, <2>3, <2>4, <2>5 DEF OnePlace
<1> QED
  BY <1>3, <1>4

\* A worker is rid of its payload.
LEMMA TakeWorker ==
  ASSUME NEW q \in Seq(QueuedJobs), NEW h \in [Workers -> QueuedJobs \cup {Idle}],
         NEW T \in SUBSET Timers, NEW w \in Workers, h[w] \in QueuedJobs,
         NEW g \in [Workers -> QueuedJobs \cup {Idle}], g[w] = Idle, \A u \in Workers \ {w} : g[u] = h[u]
  PROVE  /\ Cargo(q, h, T) = Cargo(q, g, T) \cup {h[w]}
         /\ OnePlace(q, h, T) => OnePlace(q, g, T) /\ Free(h[w].job, q, g, T)
<1> DEFINE x == h[w]
<1>1. g[w] = Idle /\ x # Idle /\ x \in QueuedJobs /\ \A u \in Workers : u # w => g[u] = h[u]
  BY IdleIsNone
<1>2. h[w] = x
  OBVIOUS
<1> HIDE DEF x
<1>3. \A y \in QueuedJobs : (\E u \in Workers : h[u] = y) <=> (\E u \in Workers : g[u] = y) \/ y = x
  BY <1>1, <1>2, IdleIsNone
<1>4. Cargo(q, h, T) = Cargo(q, g, T) \cup {x}
  BY <1>1, <1>3 DEF Cargo, Carries
<1>5. ASSUME OnePlace(q, h, T) PROVE OnePlace(q, g, T) /\ Free(x.job, q, g, T)
  <2>1. \A u \in Workers : g[u] # Idle => u # w /\ h[u] # Idle /\ g[u] = h[u]
    BY <1>1
  <2>2. OnePlace(q, g, T)
    BY <1>5, <2>1 DEF OnePlace
  <2>3. \A k \in DOMAIN q : q[k].job # x.job
    BY <1>1, <1>2, <1>5 DEF OnePlace
  <2>4. \A u \in Workers : g[u] # Idle => g[u].job # x.job
    BY <1>1, <1>2, <1>5, <2>1 DEF OnePlace
  <2>5. \A t \in T : t.qj.job # x.job
    BY <1>1, <1>2, <1>5 DEF OnePlace
  <2>6. Free(x.job, q, g, T)
    BY <2>3, <2>4, <2>5, IdleIsNone DEF Free, Cargo, Carries
  <2> QED
    BY <2>2, <2>6
<1> QED
  BY <1>4, <1>5 DEF x

\* A retry goroutine gets a payload.
LEMMA PutTimer ==
  ASSUME NEW q \in Seq(QueuedJobs), NEW h \in [Workers -> QueuedJobs \cup {Idle}],
         NEW T \in SUBSET Timers, NEW t \in Timers
  PROVE  /\ Cargo(q, h, T \cup {t}) = Cargo(q, h, T) \cup {t.qj}
         /\ OnePlace(q, h, T) /\ Free(t.qj.job, q, h, T) => OnePlace(q, h, T \cup {t})
<1>1. t.qj \in QueuedJobs
  BY DEF Timers
<1>2. Cargo(q, h, T \cup {t}) = Cargo(q, h, T) \cup {t.qj}
  BY <1>1 DEF Cargo, Carries
<1>3. ASSUME OnePlace(q, h, T), Free(t.qj.job, q, h, T) PROVE OnePlace(q, h, T \cup {t})
  <2>1. /\ \A k \in DOMAIN q : q[k].job # t.qj.job
        /\ \A u \in Workers : h[u] # Idle => h[u].job # t.qj.job
        /\ \A s \in T : s.qj.job # t.qj.job
    <3>1. \A k \in DOMAIN q : q[k] \in QueuedJobs
      OBVIOUS
    <3> QED
      BY <1>3, <3>1 DEF Free, Cargo, Carries, Timers
  <2> QED
    BY <1>3, <2>1 DEF OnePlace
<1> QED
  BY <1>2, <1>3

\* A retry goroutine is rid of its payload.
LEMMA TakeTimer ==
  ASSUME NEW q \in Seq(QueuedJobs), NEW h \in [Workers -> QueuedJobs \cup {Idle}],
         NEW T \in SUBSET Timers, NEW t \in T
  PROVE  /\ Cargo(q, h, T) = Cargo(q, h, T \ {t}) \cup {t.qj}
         /\ OnePlace(q, h, T) => OnePlace(q, h, T \ {t}) /\ Free(t.qj.job, q, h, T \ {t})
<1>1. t.qj \in QueuedJobs
  BY DEF Timers
<1>2. Cargo(q, h, T) = Cargo(q, h, T \ {t}) \cup {t.qj}
  BY <1>1 DEF Cargo, Carries
<1>3. ASSUME OnePlace(q, h, T) PROVE OnePlace(q, h, T \ {t}) /\ Free(t.qj.job, q, h, T \ {t})
  <2>1. OnePlace(q, h, T \ {t})
    BY <1>3 DEF OnePlace
  <2>2. \A k \in DOMAIN q : q[k].job # t.qj.job
    BY <1>3 DEF OnePlace
  <2>3. \A u \in Workers : h[u] # Idle => h[u].job # t.qj.job
    BY <1>3 DEF OnePlace
  <2>4. \A s \in T \ {t} : s.qj.job # t.qj.job
    BY <1>3 DEF OnePlace
  <2>5. Free(t.qj.job, q, h, T \ {t})
    BY <2>2, <2>3, <2>4, IdleIsNone DEF Free, Cargo, Carries
  <2> QED
    BY <2>1, <2>5
<1> QED
  BY <1>2, <1>3

\* The places are typed.
LEMMA PlacesTyped ==
  ASSUME TypeOK
  PROVE  /\ jobs \in Seq(QueuedJobs)
         /\ Working \in [Workers -> QueuedJobs \cup {Idle}]
         /\ Live \in SUBSET Timers
  BY DEF TypeOK, Working, Live, Timers

\* A payload that leaves its only place is gone.
LEMMA Gone ==
  ASSUME NEW C, NEW D, NEW x, C = D \cup {x}, \A y \in D : y.job # x.job
  PROVE  x \in C /\ D = C \ {x}
  OBVIOUS

\* Receive moves the first payload of the channel into a worker.
LEMMA ReceiveMoves ==
  ASSUME TypeOK, WorkerInv, PlaceInv, NEW w \in Workers, Receive(w)
  PROVE  /\ Head(jobs) \in Aboard /\ Aboard' = Aboard /\ OnePlace(jobs, Working, Live)'
         /\ Working[w] = Idle /\ Working' = [Working EXCEPT ![w] = Head(jobs)]
         /\ UNCHANGED <<acked, dlq, warned, caller, stop>>
<1>1. /\ pc[w] = "select" /\ jobs # <<>> /\ held' = [held EXCEPT ![w] = Head(jobs)]
      /\ jobs' = Tail(jobs) /\ pc' = [pc EXCEPT ![w] = "count"] /\ timers' = timers
      /\ UNCHANGED <<acked, dlq, warned, caller, stop>>
  BY DEF Receive
<1>2. held[w] = Idle
  BY <1>1 DEF WorkerInv, Busy
<1>3. Working[w] = Idle /\ Working' = [Working EXCEPT ![w] = Head(jobs)]
  BY <1>1, <1>2 DEF Working, TypeOK
<1>4. Live' = Live
  BY <1>1 DEF Live
<1> DEFINE q == Tail(jobs)
           x == Head(jobs)
<1>5. /\ x \in QueuedJobs /\ q \in Seq(QueuedJobs)
      /\ Aboard = Cargo(q, Working, Live) \cup {x}
      /\ OnePlace(q, Working, Live) /\ Free(x.job, q, Working, Live)
  BY <1>1, PlacesTyped, TakeChannel DEF PlaceInv, Aboard
<1>6. /\ Cargo(q, Working', Live) = Cargo(q, Working, Live) \cup {x}
      /\ OnePlace(q, Working', Live)
  <2> DEFINE g == Working'
  <2>1. /\ g \in [Workers -> QueuedJobs \cup {Idle}] /\ g[w] = x
        /\ \A u \in Workers \ {w} : g[u] = Working[u]
    BY <1>3, <1>5, PlacesTyped
  <2>2. Working \in [Workers -> QueuedJobs \cup {Idle}] /\ Live \in SUBSET Timers /\ Working[w] = Idle
    BY <1>3, PlacesTyped
  <2> HIDE DEF q, x, g
  <2>3. /\ Cargo(q, g, Live) = Cargo(q, Working, Live) \cup {x}
        /\ OnePlace(q, Working, Live) /\ Free(x.job, q, Working, Live) => OnePlace(q, g, Live)
    BY <1>5, <2>1, <2>2, PutWorker
  <2> QED
    BY <1>5, <2>3 DEF g
<1>7. OnePlace(jobs, Working, Live)' /\ Aboard' = Cargo(q, Working, Live) \cup {x}
  BY <1>1, <1>3, <1>4, <1>6 DEF Aboard
<1> QED
  BY <1>1, <1>3, <1>5, <1>7

\* An ack and a burial settle a payload, and end the worker's part in it.
LEMMA SettleMoves ==
  ASSUME TypeOK, WorkerInv, PlaceInv, NEW w \in Workers, Handle(w, "Ack") \/ Bury(w)
  PROVE  /\ Working[w] = held[w] /\ held[w] \in Aboard
         /\ Aboard' = Aboard \ {held[w]} /\ OnePlace(jobs, Working, Live)'
         /\ Working' = [Working EXCEPT ![w] = Idle]
         /\ Settled' = Settled \cup {held[w].job}
         /\ UNCHANGED <<warned, caller, stop>>
<1>1. UNCHANGED <<jobs, timers, warned, caller, stop>>
  BY DEF Handle, Bury, history
<1>2. Working[w] = held[w] /\ held[w] \in QueuedJobs
  BY DEF Handle, Bury, Working, WorkerInv, Busy
<1>3. Working' = [Working EXCEPT ![w] = Idle]
  <2>1. CASE Handle(w, "Ack")
    BY <2>1 DEF Handle, Working, TypeOK
  <2>2. CASE Bury(w)
    BY <2>2 DEF Bury, Working, TypeOK
  <2> QED
    BY <2>1, <2>2
<1>4. Settled' = Settled \cup {held[w].job}
  <2>1. CASE Handle(w, "Ack")
    BY <2>1 DEF Handle, Settled
  <2>2. CASE Bury(w)
    <3>1. dlq' = Append(dlq, held[w].job) /\ acked' = acked /\ dlq \in Seq(Jobs) /\ held[w].job \in Jobs
      BY <1>2, <2>2 DEF Bury, Write, history, TypeOK, QueuedJobs
    <3>2. {dlq'[k] : k \in DOMAIN dlq'} = {dlq[k] : k \in DOMAIN dlq} \cup {held[w].job}
      <4>1. /\ DOMAIN dlq = 1..Len(dlq) /\ DOMAIN dlq' = 1..Len(dlq) + 1 /\ Len(dlq) \in Nat
            /\ \A k \in 1..Len(dlq) : dlq'[k] = dlq[k]
            /\ dlq'[Len(dlq) + 1] = held[w].job
        BY <3>1, AppendIs
      <4>2. \A k \in 1..Len(dlq) + 1 : k \in 1..Len(dlq) \/ k = Len(dlq) + 1
        BY <4>1
      <4>3. 1..Len(dlq) \subseteq 1..Len(dlq) + 1 /\ Len(dlq) + 1 \in 1..Len(dlq) + 1
        BY <4>1
      <4> QED
        BY <4>1, <4>2, <4>3
    <3> QED
      BY <3>1, <3>2 DEF Settled
  <2> QED
    BY <2>1, <2>2
<1>5. Live' = Live
  BY <1>1 DEF Live
<1> DEFINE g == Working'
<1>6. /\ Aboard = Cargo(jobs, g, Live) \cup {held[w]}
      /\ OnePlace(jobs, g, Live) /\ Free(held[w].job, jobs, g, Live)
  <2>1. /\ g \in [Workers -> QueuedJobs \cup {Idle}] /\ g[w] = Idle
        /\ \A u \in Workers \ {w} : g[u] = Working[u]
    BY <1>3, PlacesTyped
  <2> HIDE DEF g
  <2>2. /\ Cargo(jobs, Working, Live) = Cargo(jobs, g, Live) \cup {Working[w]}
        /\ OnePlace(jobs, g, Live) /\ Free(Working[w].job, jobs, g, Live)
    BY <1>2, <2>1, PlacesTyped, TakeWorker DEF PlaceInv
  <2> QED
    BY <1>2, <2>2 DEF Aboard
<1>7. OnePlace(jobs, Working, Live)' /\ Aboard' = Cargo(jobs, g, Live)
  BY <1>1, <1>3, <1>5, <1>6 DEF Aboard
<1>8. held[w] \in Aboard /\ Cargo(jobs, g, Live) = Aboard \ {held[w]}
  BY <1>6, Gone DEF Free
<1> QED
  BY <1>1, <1>2, <1>3, <1>4, <1>7, <1>8

\* A retry goes from the worker into its goroutine, with one more attempt.
LEMMA SpawnMoves ==
  ASSUME TypeOK, WorkerInv, PlaceInv, NEW w \in Workers, SpawnTimer(w)
  PROVE  /\ Working[w] = held[w] /\ held[w] \in Aboard
         /\ Charged(held[w]) \in QueuedJobs /\ Charged(held[w]).job = held[w].job
         /\ Charged(held[w]).attempts = held[w].attempts + 1
         /\ held[w].attempts + 1 <= MaxRetries
         /\ Aboard' = (Aboard \ {held[w]}) \cup {Charged(held[w])}
         /\ OnePlace(jobs, Working, Live)'
         /\ Working' = [Working EXCEPT ![w] = Idle]
         /\ Live' = Live \cup {[qj |-> Charged(held[w]), at |-> "wait"]}
         /\ [qj |-> Charged(held[w]), at |-> "wait"] \notin Live
         /\ UNCHANGED <<acked, dlq, warned, caller, stop>>
<1>1. /\ UNCHANGED <<jobs, acked, dlq, warned, caller, stop>> /\ pc[w] = "spawn"
      /\ timers' = timers \cup {[qj |-> Charged(held[w]), at |-> "wait"]}
      /\ pc' = [pc EXCEPT ![w] = "select"] /\ held' = [held EXCEPT ![w] = Idle]
  BY DEF SpawnTimer, history
<1>2. Working[w] = held[w] /\ held[w] \in QueuedJobs /\ held[w].attempts + 1 <= MaxRetries
  BY <1>1 DEF Working, WorkerInv, Busy
<1>3. Working' = [Working EXCEPT ![w] = Idle]
  BY <1>1 DEF Working, TypeOK
<1>4. /\ Charged(held[w]) \in QueuedJobs /\ Charged(held[w]).job = held[w].job
      /\ Charged(held[w]).attempts = held[w].attempts + 1
  BY <1>2, MemqAssumption DEF Charged, QueuedJobs
<1> DEFINE g == Working'
           y == Charged(held[w])
           t == [qj |-> y, at |-> "wait"]
<1>5. t \in Timers /\ t.qj = y /\ t.at # "sent"
  BY <1>4 DEF Timers
<1>6. Live' = Live \cup {t}
  BY <1>1, <1>5 DEF Live
<1>7. /\ Aboard = Cargo(jobs, g, Live) \cup {held[w]}
      /\ OnePlace(jobs, g, Live) /\ Free(held[w].job, jobs, g, Live)
  <2>1. /\ g \in [Workers -> QueuedJobs \cup {Idle}] /\ g[w] = Idle
        /\ \A u \in Workers \ {w} : g[u] = Working[u]
    BY <1>3, PlacesTyped
  <2> HIDE DEF g
  <2>2. /\ Cargo(jobs, Working, Live) = Cargo(jobs, g, Live) \cup {Working[w]}
        /\ OnePlace(jobs, g, Live) /\ Free(Working[w].job, jobs, g, Live)
    BY <1>2, <2>1, PlacesTyped, TakeWorker DEF PlaceInv
  <2> QED
    BY <1>2, <2>2 DEF Aboard
<1>8. g \in [Workers -> QueuedJobs \cup {Idle}]
  BY <1>3, PlacesTyped
<1>9. /\ Cargo(jobs, g, Live \cup {t}) = Cargo(jobs, g, Live) \cup {y}
      /\ OnePlace(jobs, g, Live \cup {t})
  <2> HIDE DEF y, g, t
  <2>1. Free(t.qj.job, jobs, g, Live)
    BY <1>4, <1>5, <1>7 DEF y
  <2> QED
    BY <1>5, <1>7, <1>8, <2>1, PlacesTyped, PutTimer
<1>10. OnePlace(jobs, Working, Live)' /\ Aboard' = Cargo(jobs, g, Live) \cup {y}
  BY <1>1, <1>3, <1>6, <1>9 DEF Aboard
<1>11. held[w] \in Aboard /\ Cargo(jobs, g, Live) = Aboard \ {held[w]}
  BY <1>7, Gone DEF Free
<1>12. t \notin Live
  <2> SUFFICES ASSUME t \in Live PROVE FALSE
    OBVIOUS
  <2>1. y \in Cargo(jobs, g, Live)
    BY <1>4, <1>5 DEF Cargo, Carries
  <2> QED
    BY <1>4, <1>7, <2>1 DEF Free
<1> QED
  BY <1>1, <1>2, <1>3, <1>4, <1>6, <1>10, <1>11, <1>12

\* A timer that fires, and one that sends, keep their payload in the queue.
LEMMA TimerMoves ==
  ASSUME TypeOK, PlaceInv, NEW t \in timers, TimerFires(t) \/ TimerSends(t)
  PROVE  /\ Aboard' = Aboard /\ OnePlace(jobs, Working, Live)' /\ Working' = Working
         /\ t \in Live
         /\ TimerFires(t) => /\ Live' = (Live \ {t}) \cup {[t EXCEPT !.at = "send"]}
                             /\ [t EXCEPT !.at = "send"] \notin Live \ {t}
         /\ TimerSends(t) => Live' = Live \ {t}
         /\ UNCHANGED <<acked, dlq, warned, caller, stop>>
<1>1. UNCHANGED <<pc, held, acked, dlq, warned, caller, stop>> /\ t \in Live
  BY DEF TimerFires, TimerSends, Live, workers, history
<1>2. Working' = Working
  BY <1>1 DEF Working
<1>3. t \in Timers /\ t.qj \in QueuedJobs
  BY DEF TypeOK, Timers
<1>4. /\ Aboard = Cargo(jobs, Working, Live \ {t}) \cup {t.qj}
      /\ OnePlace(jobs, Working, Live \ {t}) /\ Free(t.qj.job, jobs, Working, Live \ {t})
  BY <1>1, PlacesTyped, TakeTimer DEF PlaceInv, Aboard
<1>5. Live \ {t} \in SUBSET Timers
  BY PlacesTyped
<1>6. CASE TimerFires(t)
  <2> DEFINE s == [t EXCEPT !.at = "send"]
  <2>1. s \in Timers /\ s.qj = t.qj /\ s.at = "send"
    BY <1>3 DEF Timers
  <2>2. Live' = (Live \ {t}) \cup {s}
    BY <1>6, <2>1 DEF TimerFires, Live
  <2> HIDE DEF s
  <2>3. /\ Cargo(jobs, Working, (Live \ {t}) \cup {s}) = Cargo(jobs, Working, Live \ {t}) \cup {t.qj}
        /\ OnePlace(jobs, Working, (Live \ {t}) \cup {s})
    BY <1>4, <1>5, <2>1, PlacesTyped, PutTimer
  <2>4. jobs' = jobs
    BY <1>6 DEF TimerFires
  <2>5. s \notin Live \ {t}
    <3> SUFFICES ASSUME s \in Live \ {t} PROVE FALSE
      OBVIOUS
    <3>1. t.qj \in Cargo(jobs, Working, Live \ {t})
      BY <1>3, <2>1 DEF Cargo, Carries
    <3> QED
      BY <1>4, <3>1 DEF Free
  <2>6. ~TimerSends(t)
    BY <1>6 DEF TimerFires, TimerSends
  <2> QED
    BY <1>1, <1>2, <1>4, <2>2, <2>3, <2>4, <2>5, <2>6 DEF Aboard, s
<1>7. CASE TimerSends(t)
  <2>1. jobs' = Append(jobs, t.qj) /\ timers' = (timers \ {t}) \cup {[t EXCEPT !.at = "sent"]}
    BY <1>7 DEF TimerSends, Sent
  <2>2. [t EXCEPT !.at = "sent"].at = "sent"
    BY <1>3 DEF Timers
  <2>3. Live' = Live \ {t}
    BY <2>1, <2>2 DEF Live
  <2>4. /\ Cargo(Append(jobs, t.qj), Working, Live \ {t}) = Cargo(jobs, Working, Live \ {t}) \cup {t.qj}
        /\ OnePlace(Append(jobs, t.qj), Working, Live \ {t})
    BY <1>3, <1>4, <1>5, PlacesTyped, PutChannel
  <2>5. ~TimerFires(t)
    BY <1>7 DEF TimerFires, TimerSends
  <2> QED
    BY <1>1, <1>2, <1>4, <2>1, <2>3, <2>4, <2>5 DEF Aboard
<1> QED
  BY <1>6, <1>7

\* A retry that is abandoned, and a payload that Close takes out, are given
\* up with a warning; no worker has them.
LEMMA GiveUpMoves ==
  ASSUME TypeOK, PlaceInv, NEW x, (DrainOne /\ x = Head(jobs)) \/ \E t \in timers : TimerAbandons(t) /\ x = t.qj
  PROVE  /\ x \in Aboard /\ Aboard' = Aboard \ {x} /\ OnePlace(jobs, Working, Live)'
         /\ Working' = Working /\ (\A w \in Workers : Working[w] # Idle => Working[w].job # x.job)
         /\ warned' = warned \cup {x.job} /\ UNCHANGED <<acked, dlq, caller, stop>>
<1>1. UNCHANGED <<pc, held, acked, dlq, caller, stop>> /\ warned' = warned \cup {x.job}
  BY DEF DrainOne, TimerAbandons, workers
<1>2. Working' = Working
  BY <1>1 DEF Working
<1>3. CASE DrainOne /\ x = Head(jobs)
  <2>1. jobs' = Tail(jobs) /\ jobs # <<>> /\ timers' = timers
    BY <1>3 DEF DrainOne
  <2>2. Live' = Live
    BY <2>1 DEF Live
  <2>3. /\ Aboard = Cargo(Tail(jobs), Working, Live) \cup {x}
        /\ OnePlace(Tail(jobs), Working, Live) /\ Free(x.job, Tail(jobs), Working, Live)
        /\ x \in QueuedJobs
    BY <1>3, <2>1, PlacesTyped, TakeChannel DEF PlaceInv, Aboard
  <2>4. x \in Aboard /\ Cargo(Tail(jobs), Working, Live) = Aboard \ {x}
    BY <2>3, Gone DEF Free
  <2>5. x = jobs[1] /\ 1 \in DOMAIN jobs
    BY <1>3, <2>1, TailIs, PlacesTyped
  <2>6. \A w \in Workers : Working[w] # Idle => Working[w].job # x.job
    BY <2>5 DEF PlaceInv, OnePlace
  <2> QED
    BY <1>1, <1>2, <2>1, <2>2, <2>3, <2>4, <2>6 DEF Aboard
<1>4. ASSUME NEW t \in timers, TimerAbandons(t), x = t.qj
      PROVE  /\ x \in Aboard /\ Aboard' = Aboard \ {x} /\ OnePlace(jobs, Working, Live)'
             /\ \A w \in Workers : Working[w] # Idle => Working[w].job # x.job
  <2>1. jobs' = jobs /\ timers' = timers \ {t} /\ t \in Live
    BY <1>4 DEF TimerAbandons, Live
  <2>2. Live' = Live \ {t}
    BY <2>1 DEF Live
  <2>3. /\ Aboard = Cargo(jobs, Working, Live \ {t}) \cup {x}
        /\ OnePlace(jobs, Working, Live \ {t}) /\ Free(x.job, jobs, Working, Live \ {t})
    BY <1>4, <2>1, PlacesTyped, TakeTimer DEF PlaceInv, Aboard
  <2>4. x \in Aboard /\ Cargo(jobs, Working, Live \ {t}) = Aboard \ {x}
    BY <2>3, Gone DEF Free
  <2>5. \A w \in Workers : Working[w] # Idle => Working[w].job # x.job
    BY <1>4, <2>1 DEF PlaceInv, OnePlace
  <2> QED
    BY <1>2, <2>1, <2>2, <2>3, <2>4, <2>5 DEF Aboard
<1> QED
  BY <1>1, <1>2, <1>3, <1>4

\* A send that finds room puts a new job into the channel.
LEMMA SendMoves ==
  ASSUME TypeOK, PlaceInv, NEW j \in Jobs, EnqueueSend(j), jobs' # jobs
  PROVE  LET x == [job |-> j, attempts |-> 0] IN
         /\ x \in QueuedJobs /\ j \notin Admitted /\ Admitted' = Admitted \cup {j}
         /\ Aboard' = Aboard \cup {x} /\ OnePlace(jobs, Working, Live)'
         /\ Working' = Working /\ Live' = Live /\ UNCHANGED <<acked, dlq, warned, stop>>
<1> DEFINE x == [job |-> j, attempts |-> 0]
<1>1. /\ caller[j] = "checked" /\ jobs' = Append(jobs, x) /\ caller' = [caller EXCEPT ![j] = "sent"]
      /\ UNCHANGED <<pc, held, timers, acked, dlq, warned, stop>>
  BY DEF EnqueueSend, Sent, workers
<1>2. x \in QueuedJobs /\ x.job = j
  BY MemqAssumption DEF QueuedJobs
<1>3. j \notin Admitted /\ Admitted' = Admitted \cup {j}
  BY <1>1 DEF Admitted, Accepted, TypeOK
<1>4. Working' = Working /\ Live' = Live
  BY <1>1 DEF Working, Live
<1> HIDE DEF x
<1>5. Free(x.job, jobs, Working, Live)
  BY <1>2, <1>3 DEF PlaceInv, Free, Aboard
<1>6. /\ Cargo(Append(jobs, x), Working, Live) = Cargo(jobs, Working, Live) \cup {x}
      /\ OnePlace(Append(jobs, x), Working, Live)
  BY <1>2, <1>5, PlacesTyped, PutChannel DEF PlaceInv
<1>7. Aboard' = Aboard \cup {x} /\ OnePlace(jobs, Working, Live)'
  BY <1>1, <1>4, <1>6 DEF Aboard
<1> QED
  BY <1>1, <1>2, <1>3, <1>4, <1>7 DEF x

\* The steps that move, add or remove a payload.
Moves ==
    \/ \E j \in Jobs : EnqueueSend(j) /\ jobs' # jobs
    \/ \E w \in Workers : Receive(w) \/ Handle(w, "Ack") \/ Bury(w) \/ SpawnTimer(w)
    \/ \E t \in timers : TimerFires(t) \/ TimerSends(t) \/ TimerAbandons(t)
    \/ DrainOne

\* All others leave every payload where it is.
LEMMA QuietMoves ==
  ASSUME TypeOK, WorkerInv, [Next]_vars, ~Moves
  PROVE  /\ UNCHANGED <<jobs, Working, Live, acked, dlq, warned>> /\ Admitted' = Admitted
         /\ stop' = stop \/ CloseStop
<1>1. ASSUME NEW j \in Jobs, Enqueue(j)
      PROVE  UNCHANGED <<jobs, Working, Live, acked, dlq, warned>> /\ Admitted' = Admitted /\ stop' = stop
  <2>1. UNCHANGED <<pc, held, timers, acked, dlq, warned, stop>>
    BY <1>1 DEF Enqueue, EnqueueCheck, EnqueueSend, EnqueueCount, EnqueueShow, workers, history
  <2>2. jobs' = jobs
    BY <1>1 DEF Moves, Enqueue, EnqueueCheck, EnqueueCount, EnqueueShow
  <2>3. Admitted' = Admitted
    <3>1. \A i \in Jobs : Accepted(i)' <=> Accepted(i)
      <4>1. CASE EnqueueCheck(j) \/ EnqueueCount(j) \/ EnqueueShow(j)
        BY <4>1 DEF EnqueueCheck, EnqueueCount, EnqueueShow, Accepted, TypeOK
      <4>2. CASE EnqueueSend(j)
        <5>1. caller[j] = "checked" /\ caller' = [caller EXCEPT ![j] = "rejected"]
          <6>1. [job |-> j, attempts |-> 0] \in QueuedJobs /\ jobs \in Seq(QueuedJobs)
            BY MemqAssumption DEF QueuedJobs, TypeOK
          <6>2. Append(jobs, [job |-> j, attempts |-> 0]) # jobs
            BY <6>1
          <6> QED
            BY <2>2, <4>2, <6>2 DEF EnqueueSend, Sent
        <5> QED
          BY <5>1 DEF Accepted, TypeOK
      <4> QED
        BY <1>1, <4>1, <4>2 DEF Enqueue
    <3> QED
      BY <3>1 DEF Admitted
  <2> QED
    BY <2>1, <2>2, <2>3 DEF Working, Live
<1>2. ASSUME NEW w \in Workers, Worker(w)
      PROVE  UNCHANGED <<jobs, Working, Live, acked, dlq, warned>> /\ Admitted' = Admitted /\ stop' = stop
  <2>1. CASE Quit(w) \/ CountDown(w) \/ ShowRunning(w)
    <3>1. UNCHANGED <<jobs, timers, acked, dlq, warned, caller, stop, held>>
      BY <2>1 DEF Quit, CountDown, ShowRunning, history
    <3>2. \A u \in Workers : pc'[u] = "done" <=> pc[u] = "done"
      BY <2>1 DEF Quit, CountDown, ShowRunning, TypeOK
    <3> QED
      BY <3>1, <3>2 DEF Working, Live, Admitted, Accepted
  <2>2. ASSUME NEW d \in Dispositions, Handle(w, d), d # "Ack"
        PROVE  UNCHANGED <<jobs, Working, Live, acked, dlq, warned>> /\ Admitted' = Admitted /\ stop' = stop
    <3>1. UNCHANGED <<jobs, timers, acked, dlq, warned, caller, stop, held>>
      BY <2>2 DEF Handle
    <3>2. \A u \in Workers : pc'[u] = "done" <=> pc[u] = "done"
      BY <2>2 DEF Handle, TypeOK
    <3> QED
      BY <3>1, <3>2 DEF Working, Live, Admitted, Accepted
  <2>3. CASE ShowOutcome(w)
    <3>1. UNCHANGED <<jobs, timers, acked, dlq, warned, caller, stop>> /\ pc[w] \in {"done", "retrying", "dead"}
      BY <2>3 DEF ShowOutcome, history
    <3>2. /\ pc'[w] # "done" /\ held'[w] = IF pc[w] = "done" THEN Idle ELSE held[w]
          /\ \A u \in Workers \ {w} : pc'[u] = pc[u] /\ held'[u] = held[u]
      BY <2>3 DEF ShowOutcome, TypeOK
    <3>3. Working' = Working
      BY <3>2 DEF Working
    <3> QED
      BY <3>1, <3>3 DEF Live, Admitted, Accepted
  <2> QED
    BY <1>2, <2>1, <2>2, <2>3 DEF Worker, Moves
<1>3. ASSUME NEW t \in timers, TimerShows(t)
      PROVE  UNCHANGED <<jobs, Working, Live, acked, dlq, warned>> /\ Admitted' = Admitted /\ stop' = stop
  <2>1. UNCHANGED <<jobs, pc, held, acked, dlq, warned, caller, stop>>
    BY <1>3 DEF TimerShows, workers, history
  <2>2. Live' = Live
    BY <1>3 DEF TimerShows, Live
  <2> QED
    BY <2>1, <2>2 DEF Working, Admitted, Accepted
<1>4. CASE Cancel \/ CloseStop \/ CloseWaited \/ CloseReturn \/ UNCHANGED vars
  <2>1. UNCHANGED <<jobs, pc, held, timers, acked, dlq, warned, caller>> /\ (stop' = stop \/ CloseStop)
    BY <1>4 DEF Cancel, CloseStop, CloseWaited, CloseReturn, vars, workers, history
  <2> QED
    BY <2>1 DEF Working, Live, Admitted, Accepted
<1> QED
  BY <1>1, <1>2, <1>3, <1>4 DEF Next, Timer, Close, Moves

\* No job is on board twice.
LEMMA UniqueCargo ==
  ASSUME NEW q, NEW h, NEW T, OnePlace(q, h, T), NEW x \in Cargo(q, h, T), NEW y \in Cargo(q, h, T),
         x.job = y.job
  PROVE  x = y
<1>1. x # Idle /\ y # Idle
  BY IdleIsNone DEF Cargo
<1>2. Carries(x, q, h, T) /\ Carries(y, q, h, T)
  BY DEF Cargo
<1> QED
  BY <1>1, <1>2 DEF Carries, OnePlace

\* Every step keeps the payloads apart.
LEMMA StepPlaces == TypeOK /\ WorkerInv /\ PlaceInv /\ [Next]_vars => PlaceInv'
<1> SUFFICES ASSUME TypeOK, WorkerInv, PlaceInv, [Next]_vars PROVE PlaceInv'
  OBVIOUS
<1>d. ASSUME (\A w \in Workers : ~Handle(w, "Ack")), acked' = acked PROVE (\A w \in Workers : pc[w] = "done" => held[w].job \in acked)'
  <2> SUFFICES ASSUME NEW u \in Workers, pc'[u] = "done" PROVE pc[u] = "done" /\ held'[u] = held[u]
    BY <1>d DEF PlaceInv
  <2>1. ASSUME NEW w \in Workers, Worker(w) PROVE pc[u] = "done" /\ held'[u] = held[u]
    <3>1. CASE Receive(w) \/ Quit(w) \/ CountDown(w) \/ ShowRunning(w) \/ SpawnTimer(w) \/ Bury(w)
      BY <3>1 DEF Receive, Quit, CountDown, ShowRunning, SpawnTimer, Bury, TypeOK
    <3>2. ASSUME NEW d \in Dispositions, Handle(w, d) PROVE pc[u] = "done" /\ held'[u] = held[u]
      BY <1>d, <3>2 DEF Handle, TypeOK
    <3>3. CASE ShowOutcome(w)
      BY <3>3 DEF ShowOutcome, TypeOK
    <3> QED
      BY <2>1, <3>1, <3>2, <3>3 DEF Worker
  <2>2. CASE UNCHANGED <<pc, held>>
    BY <2>2
  <2>3. ASSUME NEW j \in Jobs, Enqueue(j) PROVE UNCHANGED <<pc, held>>
    BY <2>3 DEF Enqueue, EnqueueCheck, EnqueueSend, EnqueueCount, EnqueueShow, workers
  <2>4. ASSUME NEW t \in timers, Timer(t) PROVE UNCHANGED <<pc, held>>
    BY <2>4 DEF Timer, TimerFires, TimerSends, TimerShows, TimerAbandons, workers
  <2>5. CASE Close \/ UNCHANGED vars
    BY <2>5 DEF Close, Cancel, CloseStop, CloseWaited, DrainOne, CloseReturn, vars, workers
  <2> QED
    BY <2>1, <2>2, <2>3, <2>4, <2>5 DEF Next
<1>a. ASSUME caller' = caller PROVE Admitted' = Admitted
  BY <1>a DEF Admitted, Accepted
<1>n. Idle \notin Aboard
  BY IdleIsNone DEF Aboard, Cargo
<1>1. ASSUME NEW j \in Jobs, EnqueueSend(j), jobs' # jobs PROVE PlaceInv'
  <2> DEFINE x == [job |-> j, attempts |-> 0]
  <2>1. /\ x.job = j /\ j \notin Admitted /\ Admitted' = Admitted \cup {j}
        /\ Aboard' = Aboard \cup {x} /\ OnePlace(jobs, Working, Live)'
        /\ UNCHANGED <<acked, dlq, warned>>
    BY <1>1, SendMoves
  <2> HIDE DEF x
  <2>2. Final' = Final
    BY <2>1 DEF Final, Settled
  <2>3. \A w \in Workers : ~Handle(w, "Ack")
    BY <1>1 DEF EnqueueSend, Handle
  <2> QED
    BY <1>d, <2>1, <2>2, <2>3 DEF PlaceInv
<1>2. ASSUME NEW w \in Workers, Receive(w) PROVE PlaceInv'
  <2>1. Aboard' = Aboard /\ OnePlace(jobs, Working, Live)' /\ UNCHANGED <<acked, dlq, warned, caller>>
    BY <1>2, ReceiveMoves
  <2>2. Final' = Final /\ Admitted' = Admitted
    BY <1>a, <2>1 DEF Final, Settled
  <2>3. \A u \in Workers : ~Handle(u, "Ack")
    <3>1. jobs' # jobs
      BY <1>2, TailIs DEF Receive, TypeOK
    <3> QED
      BY <3>1 DEF Handle
  <2> QED
    BY <1>d, <2>1, <2>2, <2>3 DEF PlaceInv
<1>3. ASSUME NEW w \in Workers, Handle(w, "Ack") \/ Bury(w) PROVE PlaceInv'
  <2>1. /\ held[w] \in Aboard /\ Aboard' = Aboard \ {held[w]} /\ OnePlace(jobs, Working, Live)'
        /\ Settled' = Settled \cup {held[w].job} /\ UNCHANGED <<warned, caller>>
    BY <1>3, SettleMoves
  <2>2. Final' = Final \cup {held[w].job} /\ Admitted' = Admitted
    BY <1>a, <2>1 DEF Final
  <2>3. \A y \in Aboard \ {held[w]} : y.job # held[w].job
    BY <2>1, UniqueCargo DEF PlaceInv, Aboard
  <2>4. (\A u \in Workers : pc[u] = "done" => held[u].job \in acked)'
    <3>1. CASE Bury(w)
      <4>1. dlq' # dlq /\ acked' = acked
        BY <3>1 DEF Bury, Write, TypeOK, history, WorkerInv, Busy, QueuedJobs
      <4>2. \A u \in Workers : ~Handle(u, "Ack")
        BY <4>1 DEF Handle
      <4> QED
        BY <1>d, <4>1, <4>2
    <3>2. CASE Handle(w, "Ack")
      <4>1. /\ held' = held /\ acked' = acked \cup {held[w].job}
            /\ \A u \in Workers \ {w} : pc'[u] = pc[u]
        BY <3>2 DEF Handle, TypeOK
      <4> QED
        BY <4>1 DEF PlaceInv
    <3> QED
      BY <1>3, <3>1, <3>2
  <2> QED
    BY <2>1, <2>2, <2>3, <2>4 DEF PlaceInv
<1>4. ASSUME NEW w \in Workers, SpawnTimer(w) PROVE PlaceInv'
  <2>1. /\ held[w] \in Aboard /\ Charged(held[w]).job = held[w].job
        /\ Aboard' = (Aboard \ {held[w]}) \cup {Charged(held[w])} /\ OnePlace(jobs, Working, Live)'
        /\ UNCHANGED <<acked, dlq, warned, caller>>
    BY <1>4, SpawnMoves
  <2>2. Final' = Final /\ Admitted' = Admitted
    BY <1>a, <2>1 DEF Final, Settled
  <2>3. \A u \in Workers : ~Handle(u, "Ack")
    BY <1>4 DEF SpawnTimer, Handle, TypeOK
  <2> QED
    BY <1>d, <2>1, <2>2, <2>3 DEF PlaceInv
<1>5. ASSUME NEW t \in timers, TimerFires(t) \/ TimerSends(t) PROVE PlaceInv'
  <2>1. Aboard' = Aboard /\ OnePlace(jobs, Working, Live)' /\ UNCHANGED <<acked, dlq, warned, caller>>
    BY <1>5, TimerMoves
  <2>2. Final' = Final /\ Admitted' = Admitted
    BY <1>a, <2>1 DEF Final, Settled
  <2>3. \A u \in Workers : ~Handle(u, "Ack")
    <3>1. pc' = pc
      BY <1>5 DEF TimerFires, TimerSends, workers
    <3> QED
      BY <3>1 DEF Handle, TypeOK
  <2> QED
    BY <1>d, <2>1, <2>2, <2>3 DEF PlaceInv
<1>6. ASSUME NEW x, (DrainOne /\ x = Head(jobs)) \/ \E t \in timers : TimerAbandons(t) /\ x = t.qj PROVE PlaceInv'
  <2>1. /\ x \in Aboard /\ Aboard' = Aboard \ {x} /\ OnePlace(jobs, Working, Live)'
        /\ warned' = warned \cup {x.job} /\ UNCHANGED <<acked, dlq, caller>>
    BY <1>6, GiveUpMoves
  <2>2. Final' = Final \cup {x.job} /\ Admitted' = Admitted
    BY <1>a, <2>1 DEF Final, Settled
  <2>3. \A y \in Aboard \ {x} : y.job # x.job
    BY <2>1, UniqueCargo DEF PlaceInv, Aboard
  <2>4. \A u \in Workers : ~Handle(u, "Ack")
    <3>1. pc' = pc
      BY <1>6 DEF DrainOne, TimerAbandons, workers
    <3> QED
      BY <3>1 DEF Handle, TypeOK
  <2> QED
    BY <1>d, <2>1, <2>2, <2>3, <2>4 DEF PlaceInv
<1>7. CASE ~Moves
  <2>1. UNCHANGED <<jobs, Working, Live, acked, dlq, warned>> /\ Admitted' = Admitted
    BY <1>7, QuietMoves
  <2>2. Final' = Final /\ Aboard' = Aboard /\ OnePlace(jobs, Working, Live)'
    BY <2>1 DEF Final, Settled, Aboard, PlaceInv
  <2>3. \A u \in Workers : ~Handle(u, "Ack")
    BY <1>7 DEF Moves
  <2> QED
    BY <1>d, <2>1, <2>2, <2>3 DEF PlaceInv
<1> QED
  BY <1>1, <1>2, <1>3, <1>4, <1>5, <1>6, <1>7 DEF Moves

\* Nothing is on board at first.
LEMMA InitPlaces == Init => PlaceInv
<1> SUFFICES ASSUME Init PROVE PlaceInv
  OBVIOUS
<1>1. jobs = <<>> /\ timers = {} /\ \A w \in Workers : pc[w] # "done" /\ Working[w] = Idle
  BY DEF Init, Working
<1>2. DOMAIN jobs = {} /\ Live = {}
  BY <1>1 DEF Live
<1>3. Aboard = {}
  BY <1>1, <1>2, IdleIsNone DEF Aboard, Cargo, Carries
<1>4. OnePlace(jobs, Working, Live)
  BY <1>1, <1>2 DEF OnePlace
<1>5. Final = {}
  BY DEF Init, Final, Settled
<1> QED
  BY <1>1, <1>3, <1>4, <1>5 DEF PlaceInv

-----------------------------------------------------------------------------
(* The contract                                                             *)

\* What the contract sees of a job, in terms of the payloads on board.
FateOf(j, S, W, C) ==
    IF j \in S THEN "settled" ELSE IF j \in W THEN "reported"
    ELSE IF \E x \in C : x.job = j THEN "owed" ELSE "outside"

Tries(j) == IF Fate(j) = "owed" THEN Max(Counts(j)) ELSE 0

Mapping ==
    /\ \A j \in Jobs : Fate(j) = FateOf(j, Settled, warned, Aboard)
    /\ \A x \in Aboard : Tries(x.job) = x.attempts
    /\ \A j \in Jobs : (\A x \in Aboard : x.job # j) => Tries(j) = 0
    /\ \A j \in Jobs : Hands(j) = {w \in Workers : Working[w].job = j}

\* The largest of one number.
LEMMA MaxOne == ASSUME NEW n \in Nat PROVE Max({n}) = n
<1>1. \E x \in {n} : \A y \in {n} : x >= y
  OBVIOUS
<1>2. Max({n}) \in {n}
  BY <1>1 DEF Max
<1> QED
  BY <1>2

\* The mapping is determined by the payloads on board and the outcomes.
LEMMA MappingIs == TInv /\ PlaceInv => Mapping
<1> SUFFICES ASSUME TypeOK, WorkerInv, PlaceInv PROVE Mapping
  BY DEF TInv
<1>i. Idle.job \notin Jobs
  BY MemqAssumption DEF Idle
<1>t. /\ \A k \in DOMAIN jobs : jobs[k] \in QueuedJobs
      /\ \A w \in Workers : held[w] \in QueuedJobs \/ held[w] = Idle
      /\ \A t \in timers : t.qj \in QueuedJobs
  BY DEF TypeOK
<1>j. \A x \in QueuedJobs : x.job \in Jobs /\ x.attempts \in Nat
  BY DEF QueuedJobs
<1>1. ASSUME NEW j \in Jobs PROVE Hands(j) = {w \in Workers : Working[w].job = j}
  BY <1>i DEF Hands, Working
<1>2. ASSUME NEW j \in Jobs, j \notin Settled PROVE InFlight(j) <=> \E x \in Aboard : x.job = j
  <2>1. ASSUME NEW w \in Workers, held[w].job = j PROVE Working[w] = held[w]
    BY <1>2, <2>1 DEF Working, PlaceInv, Settled
  <2>2. ASSUME NEW x \in Aboard, x.job = j PROVE InFlight(j)
    <3>1. x \in QueuedJobs /\ Carries(x, jobs, Working, Live)
      BY DEF Aboard, Cargo
    <3>2. CASE \E k \in DOMAIN jobs : jobs[k] = x
      BY <2>2, <3>2 DEF InFlight
    <3>3. CASE \E w \in Workers : Working[w] = x
      <4>1. PICK w \in Workers : Working[w] = x
        BY <3>3
      <4>2. held[w] = x
        BY <3>1, <4>1, IdleIsNone DEF Working
      <4> QED
        BY <2>2, <4>2 DEF InFlight
    <3>4. CASE \E t \in Live : t.qj = x
      BY <2>2, <3>4 DEF InFlight, Live
    <3> QED
      BY <3>1, <3>2, <3>3, <3>4 DEF Carries
  <2>3. ASSUME InFlight(j) PROVE \E x \in Aboard : x.job = j
    <3>1. CASE \E k \in DOMAIN jobs : jobs[k].job = j
      BY <1>t, <3>1 DEF Aboard, Cargo, Carries
    <3>2. CASE \E w \in Workers : held[w].job = j
      <4>1. PICK w \in Workers : held[w].job = j
        BY <3>2
      <4>2. Working[w] = held[w] /\ held[w] \in QueuedJobs
        BY <1>i, <1>t, <2>1, <4>1
      <4> QED
        BY <4>1, <4>2 DEF Aboard, Cargo, Carries
    <3>3. CASE \E t \in timers : t.qj.job = j /\ t.at # "sent"
      BY <1>t, <3>3 DEF Aboard, Cargo, Carries, Live
    <3> QED
      BY <2>3, <3>1, <3>2, <3>3 DEF InFlight
  <2> QED
    BY <2>2, <2>3
<1>3. ASSUME NEW j \in Jobs PROVE Fate(j) = FateOf(j, Settled, warned, Aboard)
  <2>1. j \in Settled <=> j \in acked \/ \E k \in DOMAIN dlq : dlq[k] = j
    BY DEF Settled
  <2> QED
    BY <1>2, <2>1 DEF Fate, FateOf
<1>4. ASSUME NEW x \in Aboard PROVE Tries(x.job) = x.attempts
  <2>1. x \in QueuedJobs /\ x.job \in Jobs /\ x.attempts \in Nat /\ Carries(x, jobs, Working, Live)
    BY <1>j DEF Aboard, Cargo
  <2>2. Fate(x.job) = "owed"
    BY <1>3, <2>1 DEF FateOf, PlaceInv, Final
  <2>3. ASSUME NEW y \in Aboard, y.job = x.job PROVE y = x
    BY <2>3, UniqueCargo DEF PlaceInv, Aboard
  <2>4. ASSUME NEW n \in Counts(x.job) PROVE n = x.attempts
    <3>1. CASE \E k \in DOMAIN jobs : jobs[k].job = x.job /\ n = jobs[k].attempts
      BY <1>t, <2>3, <3>1 DEF Aboard, Cargo, Carries
    <3>2. CASE \E w \in Hands(x.job) : n = held[w].attempts
      <4>1. PICK w \in Workers : held[w].job = x.job /\ pc[w] # "done" /\ n = held[w].attempts
        BY <3>2 DEF Hands
      <4>2. Working[w] = held[w] /\ held[w] \in QueuedJobs
        BY <1>i, <1>t, <2>1, <4>1 DEF Working
      <4>3. held[w] \in Aboard
        BY <4>2 DEF Aboard, Cargo, Carries
      <4> QED
        BY <2>3, <4>1, <4>3
    <3>3. CASE \E t \in timers : t.qj.job = x.job /\ t.at # "sent" /\ n = t.qj.attempts
      <4>1. PICK t \in Live : t.qj.job = x.job /\ n = t.qj.attempts /\ t.qj \in QueuedJobs
        BY <1>t, <3>3 DEF Live
      <4>2. t.qj \in Aboard
        BY <4>1 DEF Aboard, Cargo, Carries
      <4> QED
        BY <2>3, <4>1, <4>2
    <3> QED
      BY <2>4, <3>1, <3>2, <3>3 DEF Counts
  <2>5. x.attempts \in Counts(x.job)
    <3>1. CASE \E k \in DOMAIN jobs : jobs[k] = x
      BY <3>1 DEF Counts
    <3>2. CASE \E w \in Workers : Working[w] = x
      <4>1. PICK w \in Workers : Working[w] = x
        BY <3>2
      <4>2. held[w] = x /\ pc[w] # "done"
        BY <2>1, <4>1, IdleIsNone DEF Working
      <4> QED
        BY <4>2 DEF Counts, Hands
    <3>3. CASE \E t \in Live : t.qj = x
      BY <3>3 DEF Counts, Live
    <3> QED
      BY <2>1, <3>1, <3>2, <3>3 DEF Carries
  <2>6. Counts(x.job) = {x.attempts}
    BY <2>4, <2>5
  <2> QED
    BY <2>1, <2>2, <2>6, MaxOne DEF Tries
<1>5. ASSUME NEW j \in Jobs, \A x \in Aboard : x.job # j PROVE Tries(j) = 0
  BY <1>3, <1>5 DEF Tries, FateOf
<1> QED
  BY <1>1, <1>3, <1>4, <1>5 DEF Mapping

\* What a step leaves alone of job j; the lemmas after it give each step of
\* the contract by what it does to the mapped state of its one job.
Same(j) == Fate(j)' = Fate(j) /\ Tries(j)' = Tries(j) /\ Hands(j)' = Hands(j)

\* An Enqueue that the channel takes.
LEMMA ToAccept ==
  ASSUME NEW j \in Jobs, \A i \in Jobs \ {j} : Same(i), stop' = stop,
         Fate(j) = "outside", Fate(j)' = "owed", Tries(j)' = Tries(j), Hands(j)' = Hands(j)
  PROVE  Contract!Accept(j)
  BY DEF Contract!Accept, Same, Tries

\* A worker receives the job.
LEMMA ToTake ==
  ASSUME NEW j \in Jobs, NEW w \in Workers, \A i \in Jobs \ {j} : Same(i), stop' = stop,
         Fate(j) = "owed", Hands(j) = {}, Fate(j)' = "owed", Tries(j)' = Tries(j),
         Hands(j)' = {w}
  PROVE  Contract!Take(j, w)
  BY DEF Contract!Take, Same, Tries

\* The job is acked or buried.
LEMMA ToSettle ==
  ASSUME NEW j \in Jobs, NEW w \in Workers, \A i \in Jobs \ {j} : Same(i), stop' = stop,
         w \in Hands(j), Fate(j)' = "settled", Tries(j)' = 0, Hands(j)' = Hands(j) \ {w}
  PROVE  Contract!Settle(j, w)
  BY DEF Contract!Settle, Same, Tries

\* A retry of the job is scheduled.
LEMMA ToRetry ==
  ASSUME NEW j \in Jobs, NEW w \in Workers, \A i \in Jobs \ {j} : Same(i), stop' = stop,
         w \in Hands(j), Fate(j) = "owed", Fate(j)' = "owed", Tries(j) < MaxRetries,
         Tries(j)' = Tries(j) + 1, Hands(j)' = Hands(j) \ {w}
  PROVE  Contract!Retry(j, w)
  BY DEF Contract!Retry, Same, Tries

\* Close, or a retry that it cuts short, gives the job up.
LEMMA ToGiveUp ==
  ASSUME NEW j \in Jobs, \A i \in Jobs \ {j} : Same(i), stop' = stop, stop = TRUE,
         Fate(j) = "owed", Hands(j) = {}, Fate(j)' = "reported", Tries(j)' = 0, Hands(j)' = Hands(j)
  PROVE  Contract!GiveUp(j)
  BY DEF Contract!GiveUp, Same, Tries

\* Close begins.
LEMMA ToClose ==
  ASSUME \A i \in Jobs : Same(i), stop' = TRUE
  PROVE  Contract!Close
  BY DEF Contract!Close, Same, Tries

\* Nothing the contract sees has changed.
LEMMA ToStutter ==
  ASSUME \A i \in Jobs : Same(i), stop' = stop
  PROVE  UNCHANGED Contract!qvars
  BY DEF Contract!qvars, Same, Tries

\* A job whose payload and outcome a step leaves alone looks the same to the
\* contract.
LEMMA OthersSame ==
  ASSUME Mapping, Mapping', NEW i \in Jobs,
         i \in Settled' <=> i \in Settled, i \in warned' <=> i \in warned,
         \A x : x.job = i => (x \in Aboard' <=> x \in Aboard),
         \A w \in Workers : Working'[w].job = i <=> Working[w].job = i
  PROVE  Same(i)
<1>1. Hands(i)' = Hands(i)
  BY DEF Mapping
<1>2. Fate(i)' = Fate(i)
  <2>1. (\E x \in Aboard' : x.job = i) <=> \E x \in Aboard : x.job = i
    OBVIOUS
  <2> QED
    BY <2>1 DEF Mapping, FateOf
<1>3. Tries(i)' = Tries(i)
  <2>1. CASE \E x \in Aboard : x.job = i
    <3>1. PICK x \in Aboard : x.job = i
      BY <2>1
    <3>2. x \in Aboard'
      BY <3>1
    <3>3. Tries(i) = x.attempts
      BY <3>1 DEF Mapping
    <3>4. Tries(i)' = x.attempts
      BY <3>1, <3>2 DEF Mapping
    <3> QED
      BY <3>3, <3>4
  <2>2. CASE \A x \in Aboard : x.job # i
    <3>1. \A x \in Aboard' : x.job # i
      BY <2>2
    <3> QED
      BY <2>2, <3>1 DEF Mapping
  <2> QED
    BY <2>1, <2>2
<1> QED
  BY <1>1, <1>2, <1>3 DEF Same

\* Every step of the driver is a step of the contract or none.
LEMMA StepImplements ==
  TInv /\ PlaceInv /\ LateInv /\ Mapping /\ Mapping' /\ [Next]_vars => [Contract!Next]_(Contract!qvars)
<1> SUFFICES ASSUME TypeOK, WorkerInv, PlaceInv, LateInv, Mapping, Mapping', [Next]_vars
             PROVE  [Contract!Next]_(Contract!qvars)
  BY DEF TInv
<1>j. /\ \A x \in Aboard : x.job \in Jobs /\ x.attempts \in Nat
      /\ \A x \in Aboard : x.job \notin Settled /\ x.job \notin warned /\ Fate(x.job) = "owed"
  <2>1. \A x \in Aboard : x.job \in Jobs /\ x.attempts \in Nat
    BY DEF Aboard, Cargo, QueuedJobs
  <2>2. \A x \in Aboard : x.job \notin Settled /\ x.job \notin warned
    BY DEF PlaceInv, Final
  <2> QED
    BY <2>1, <2>2 DEF Mapping, FateOf
<1>u. \A x, y \in Aboard : x.job = y.job => x = y
  BY UniqueCargo DEF PlaceInv, Aboard
<1>i. Idle.job \notin Jobs
  BY MemqAssumption DEF Idle
<1>w. Working \in [Workers -> QueuedJobs \cup {Idle}]
  BY PlacesTyped
<1>o. OnePlace(jobs, Working, Live)
  BY DEF PlaceInv
<1>1. ASSUME NEW j \in Jobs, EnqueueSend(j), jobs' # jobs PROVE Contract!Accept(j)
  <2> DEFINE x == [job |-> j, attempts |-> 0]
  <2>1. /\ j \notin Admitted /\ Aboard' = Aboard \cup {x} /\ Working' = Working
        /\ UNCHANGED <<acked, dlq, warned, stop>>
    BY <1>1, SendMoves
  <2>2. x.job = j /\ x.attempts = 0
    OBVIOUS
  <2> HIDE DEF x
  <2>3. Settled' = Settled
    BY <2>1 DEF Settled
  <2>4. \A i \in Jobs \ {j} : Same(i)
    BY <2>1, <2>2, <2>3, OthersSame
  <2>5. j \notin Settled /\ j \notin warned /\ \A y \in Aboard : y.job # j
    BY <2>1 DEF PlaceInv, Final
  <2>6. Fate(j) = "outside" /\ Tries(j) = 0
    BY <2>5 DEF Mapping, FateOf
  <2>7. Fate(j)' = "owed"
    BY <2>1, <2>2, <2>3, <2>5 DEF Mapping, FateOf
  <2>8. Tries(j)' = 0
    BY <2>1, <2>2 DEF Mapping
  <2>9. Hands(j)' = Hands(j)
    BY <2>1 DEF Mapping
  <2> QED
    BY <2>1, <2>4, <2>6, <2>7, <2>8, <2>9, ToAccept
<1>2. ASSUME NEW w \in Workers, Receive(w) PROVE \E j \in Jobs : Contract!Take(j, w)
  <2>x. PICK x : x = Head(jobs)
    OBVIOUS
  <2>1. /\ x \in Aboard /\ Aboard' = Aboard /\ Working[w] = Idle
        /\ Working' = [Working EXCEPT ![w] = x] /\ UNCHANGED <<acked, dlq, warned, stop>>
    BY <1>2, <2>x, ReceiveMoves
  <2>2. Settled' = Settled
    BY <2>1 DEF Settled
  <2>j. PICK j \in Jobs : j = x.job
    BY <1>j, <2>1
  <2>3. \A u \in Workers : Working[u].job # j
    <3>1. 1 \in DOMAIN jobs /\ x = jobs[1]
      BY <1>2, <2>x, TailIs DEF Receive, TypeOK
    <3>2. \A u \in Workers : Working[u] # Idle => Working[u].job # jobs[1].job
      BY <1>o, <3>1 DEF OnePlace
    <3> QED
      BY <1>i, <2>j, <3>1, <3>2
  <2>4. Fate(j) = "owed" /\ Tries(j) = x.attempts
    BY <1>j, <2>1, <2>j DEF Mapping
  <2>5. Working'[w] = x /\ \A u \in Workers \ {w} : Working'[u] = Working[u]
    BY <1>w, <2>1
  <2>6. \A i \in Jobs \ {j} : Same(i)
    <3> SUFFICES ASSUME NEW i \in Jobs \ {j} PROVE Same(i)
      OBVIOUS
    <3>1. \A u \in Workers : Working'[u].job = i <=> Working[u].job = i
      BY <1>i, <2>1, <2>5, <2>j
    <3> QED
      BY <2>1, <2>2, <3>1, OthersSame
  <2>7. Hands(j) = {} /\ Hands(j)' = {w}
    BY <2>3, <2>5, <2>j DEF Mapping
  <2>8. Fate(j)' = "owed"
    BY <1>j, <2>1, <2>2, <2>j DEF Mapping, FateOf
  <2>9. Tries(j)' = Tries(j)
    BY <2>1, <2>4, <2>j DEF Mapping
  <2> QED
    BY <2>1, <2>4, <2>6, <2>7, <2>8, <2>9, ToTake
<1>3. ASSUME NEW w \in Workers, Handle(w, "Ack") \/ Bury(w) PROVE \E j \in Jobs : Contract!Settle(j, w)
  <2>x. PICK x : x = held[w]
    OBVIOUS
  <2>1. /\ Working[w] = x /\ x \in Aboard /\ Aboard' = Aboard \ {x}
        /\ Working' = [Working EXCEPT ![w] = Idle]
        /\ Settled' = Settled \cup {x.job} /\ UNCHANGED <<warned, stop>>
    BY <1>3, <2>x, SettleMoves
  <2>j. PICK j \in Jobs : j = x.job
    BY <1>j, <2>1
  <2>2. \A y \in Aboard' : y.job # j
    BY <1>u, <2>1, <2>j
  <2>5. Working'[w] = Idle /\ \A u \in Workers \ {w} : Working'[u] = Working[u]
    BY <1>w, <2>1
  <2>6. \A i \in Jobs \ {j} : Same(i)
    <3> SUFFICES ASSUME NEW i \in Jobs \ {j} PROVE Same(i)
      OBVIOUS
    <3>1. \A u \in Workers : Working'[u].job = i <=> Working[u].job = i
      BY <1>i, <2>1, <2>5, <2>j
    <3>2. \A y : y.job = i => (y \in Aboard' <=> y \in Aboard)
      BY <2>1, <2>j
    <3>3. i \in Settled' <=> i \in Settled
      BY <2>1, <2>j
    <3> QED
      BY <2>1, <3>1, <3>2, <3>3, OthersSame
  <2>7. w \in Hands(j) /\ Hands(j)' = Hands(j) \ {w}
    BY <1>i, <2>1, <2>5, <2>j DEF Mapping
  <2>8. Fate(j)' = "settled"
    BY <2>1, <2>j DEF Mapping, FateOf
  <2>9. Tries(j)' = 0
    BY <2>2 DEF Mapping
  <2> QED
    BY <2>1, <2>6, <2>7, <2>8, <2>9, ToSettle
<1>4. ASSUME NEW w \in Workers, SpawnTimer(w) PROVE \E j \in Jobs : Contract!Retry(j, w)
  <2>x. PICK x : x = held[w]
    OBVIOUS
  <2>y. PICK y : y = Charged(held[w])
    OBVIOUS
  <2>1. /\ Working[w] = x /\ x \in Aboard /\ y.job = x.job /\ y.attempts = x.attempts + 1
        /\ x.attempts + 1 <= MaxRetries /\ Aboard' = (Aboard \ {x}) \cup {y}
        /\ Working' = [Working EXCEPT ![w] = Idle] /\ UNCHANGED <<acked, dlq, warned, stop>>
    BY <1>4, <2>x, <2>y, SpawnMoves
  <2>2. Settled' = Settled
    BY <2>1 DEF Settled
  <2>j. PICK j \in Jobs : j = x.job
    BY <1>j, <2>1
  <2>4. Fate(j) = "owed" /\ Tries(j) = x.attempts /\ Tries(j) < MaxRetries
    BY <1>j, <2>1, <2>j, MemqAssumption DEF Mapping
  <2>5. Working'[w] = Idle /\ \A u \in Workers \ {w} : Working'[u] = Working[u]
    BY <1>w, <2>1
  <2>6. \A i \in Jobs \ {j} : Same(i)
    <3> SUFFICES ASSUME NEW i \in Jobs \ {j} PROVE Same(i)
      OBVIOUS
    <3>1. \A u \in Workers : Working'[u].job = i <=> Working[u].job = i
      BY <1>i, <2>1, <2>5, <2>j
    <3>2. \A z : z.job = i => (z \in Aboard' <=> z \in Aboard)
      BY <2>1, <2>j
    <3> QED
      BY <2>1, <2>2, <3>1, <3>2, OthersSame
  <2>7. w \in Hands(j) /\ Hands(j)' = Hands(j) \ {w}
    BY <1>i, <2>1, <2>5, <2>j DEF Mapping
  <2>8. Fate(j)' = "owed"
    BY <1>j, <2>1, <2>2, <2>j DEF Mapping, FateOf
  <2>9. Tries(j)' = Tries(j) + 1
    BY <2>1, <2>4, <2>j DEF Mapping
  <2> QED
    BY <2>1, <2>4, <2>6, <2>7, <2>8, <2>9, ToRetry
<1>5. ASSUME NEW t \in timers, TimerFires(t) \/ TimerSends(t) PROVE UNCHANGED Contract!qvars
  <2>1. Aboard' = Aboard /\ Working' = Working /\ UNCHANGED <<acked, dlq, warned, stop>>
    BY <1>5, TimerMoves
  <2>2. Settled' = Settled
    BY <2>1 DEF Settled
  <2> QED
    BY <2>1, <2>2, OthersSame, ToStutter
<1>6. ASSUME NEW x, (DrainOne /\ x = Head(jobs)) \/ \E t \in timers : TimerAbandons(t) /\ x = t.qj
      PROVE  \E j \in Jobs : Contract!GiveUp(j)
  <2>1. /\ x \in Aboard /\ Aboard' = Aboard \ {x} /\ Working' = Working
        /\ (\A w \in Workers : Working[w] # Idle => Working[w].job # x.job)
        /\ warned' = warned \cup {x.job} /\ UNCHANGED <<acked, dlq, stop>>
    BY <1>6, GiveUpMoves
  <2>2. Settled' = Settled
    BY <2>1 DEF Settled
  <2>j. PICK j \in Jobs : j = x.job
    BY <1>j, <2>1
  <2>3. stop = TRUE
    <3>1. stop
      BY <1>6 DEF DrainOne, TimerAbandons, LateInv
    <3> QED
      BY <3>1 DEF TypeOK
  <2>4. \A y \in Aboard' : y.job # j
    BY <1>u, <2>1, <2>j
  <2>6. \A i \in Jobs \ {j} : Same(i)
    <3> SUFFICES ASSUME NEW i \in Jobs \ {j} PROVE Same(i)
      OBVIOUS
    <3>1. \A y : y.job = i => (y \in Aboard' <=> y \in Aboard)
      BY <2>1, <2>j
    <3> QED
      BY <2>1, <2>2, <2>j, <3>1, OthersSame
  <2>7. Hands(j) = {} /\ Hands(j)' = Hands(j)
    BY <1>i, <2>1, <2>j DEF Mapping
  <2>8. Fate(j) = "owed" /\ Fate(j)' = "reported"
    BY <1>j, <2>1, <2>2, <2>j DEF Mapping, FateOf
  <2>9. Tries(j)' = 0
    BY <2>4 DEF Mapping
  <2> QED
    BY <2>1, <2>3, <2>6, <2>7, <2>8, <2>9, ToGiveUp
<1>7. CASE ~Moves
  <2>1. UNCHANGED <<jobs, Working, Live, acked, dlq, warned>> /\ (stop' = stop \/ CloseStop)
    BY <1>7, QuietMoves
  <2>2. Settled' = Settled /\ Aboard' = Aboard
    BY <2>1 DEF Settled, Aboard
  <2>3. \A i \in Jobs : Same(i)
    BY <2>1, <2>2, OthersSame
  <2>4. CASE stop' = stop
    BY <2>3, <2>4, ToStutter
  <2>5. CASE CloseStop
    BY <2>3, <2>5, ToClose DEF CloseStop, Contract!Next
  <2> QED
    BY <2>1, <2>4, <2>5
<1> QED
  BY <1>1, <1>2, <1>3, <1>4, <1>5, <1>6, <1>7 DEF Moves, Contract!Next

\* The initial state is one of the contract.
LEMMA InitImplements == Init /\ Mapping => Contract!Init
<1> SUFFICES ASSUME Init, Mapping PROVE Contract!Init
  OBVIOUS
<1>1. Aboard = {} /\ Settled = {} /\ warned = {} /\ stop = FALSE
  <2>1. jobs = <<>> /\ timers = {} /\ \A w \in Workers : Working[w] = Idle
    BY DEF Init, Working
  <2>2. DOMAIN jobs = {} /\ Live = {}
    BY <2>1 DEF Live
  <2> QED
    BY <2>1, <2>2, IdleIsNone DEF Aboard, Cargo, Carries, Init, Settled
<1>2. \A j \in Jobs : Fate(j) = "outside" /\ Tries(j) = 0
  BY <1>1 DEF Mapping, FateOf
<1>3. \A j \in Jobs : Hands(j) = {}
  BY MemqAssumption DEF Init, Hands, Idle
<1> QED
  BY <1>1, <1>2, <1>3, MemqAssumption DEF Contract!Init, Tries

\* Memq implements the contract of queue.go: a job runs once per attempt and
\* in one worker at a time, MaxRetries attempts are all it gets, outcomes are
\* final, and only a closing queue gives a job up, saying so.
THEOREM MemqIsAQueue == Spec => ImplementsQueue
<1>1. Init => TInv /\ PlaceInv /\ LateInv /\ Contract!Init
  BY InitTyped, InitPlaces, MappingIs, InitImplements DEF LateInv, Init
<1>2. TInv /\ PlaceInv /\ LateInv /\ [Next]_vars => (TInv /\ PlaceInv /\ LateInv)'
  BY StepTyped, StepPlaces, StepLate DEF TInv
<1>3. TInv /\ PlaceInv /\ LateInv /\ (TInv /\ PlaceInv)' /\ [Next]_vars => [Contract!Next]_(Contract!qvars)
  <2>1. (TInv /\ PlaceInv)' => Mapping'
    BY MappingIs, PTL
  <2> QED
    BY <2>1, MappingIs, StepImplements
<1> QED
  BY <1>1, <1>2, <1>3, PTL DEF Spec, ImplementsQueue, Contract!Spec

-----------------------------------------------------------------------------
(* The depth                                                                *)

\* One more, and one less, in a finite set.
LEMMA OneMore ==
  ASSUME NEW S, IsFiniteSet(S), NEW x, x \notin S, NEW T, T = S \cup {x}
  PROVE  IsFiniteSet(T) /\ Cardinality(T) = Cardinality(S) + 1 /\ Cardinality(S) \in Nat
  BY FS_AddElement, FS_CardinalityType

LEMMA OneLess ==
  ASSUME NEW S, IsFiniteSet(S), NEW x \in S, NEW T, T = S \ {x}
  PROVE  IsFiniteSet(T) /\ Cardinality(T) = Cardinality(S) - 1 /\ Cardinality(S) \in Nat
  BY FS_RemoveElement, FS_CardinalityType

\* The operations under way that a step does not begin or end.
LEMMA CountedAside ==
  ASSUME TypeOK, [Next]_vars
  PROVE  /\ (\A w \in Workers : ~Receive(w) /\ ~CountDown(w)) => Counting' = Counting
         /\ (\A j \in Jobs : ~EnqueueSend(j) /\ ~EnqueueCount(j)) => Uncounting' = Uncounting
<1>1. ASSUME NEW j \in Jobs, Enqueue(j)
      PROVE  /\ Counting' = Counting
             /\ ~EnqueueSend(j) /\ ~EnqueueCount(j) => Uncounting' = Uncounting
  <2>1. pc' = pc
    BY <1>1 DEF Enqueue, EnqueueCheck, EnqueueSend, EnqueueCount, EnqueueShow, workers
  <2>2. CASE EnqueueCheck(j) \/ EnqueueShow(j)
    BY <2>1, <2>2 DEF EnqueueCheck, EnqueueShow, Counting, Uncounting, TypeOK
  <2> QED
    BY <1>1, <2>1, <2>2 DEF Enqueue, Counting
<1>2. ASSUME NEW w \in Workers, Worker(w)
      PROVE  /\ Uncounting' = Uncounting
             /\ ~Receive(w) /\ ~CountDown(w) => Counting' = Counting
  <2>1. caller' = caller
    BY <1>2 DEF Worker, Receive, Quit, CountDown, ShowRunning, Handle, ShowOutcome, SpawnTimer, Bury
  <2>p. ASSUME NEW p, pc' = [pc EXCEPT ![w] = p], p # "count", pc[w] # "count"
        PROVE  Counting' = Counting
    BY <2>p DEF Counting, TypeOK
  <2>2. ASSUME Quit(w) \/ ShowRunning(w) \/ SpawnTimer(w) \/ Bury(w) PROVE Counting' = Counting
    BY <2>p, <2>2 DEF Quit, ShowRunning, SpawnTimer, Bury
  <2>3. ASSUME NEW d \in Dispositions, Handle(w, d) PROVE Counting' = Counting
    BY <2>p, <2>3 DEF Handle
  <2>4. ASSUME ShowOutcome(w) PROVE Counting' = Counting
    BY <2>p, <2>4 DEF ShowOutcome
  <2> QED
    BY <1>2, <2>1, <2>2, <2>3, <2>4 DEF Worker, Uncounting
<1>3. ASSUME NEW t \in timers, Timer(t) PROVE UNCHANGED <<Counting, Uncounting>>
  BY <1>3 DEF Timer, TimerFires, TimerSends, TimerShows, TimerAbandons, workers, Counting, Uncounting
<1>4. CASE Close \/ UNCHANGED vars
  BY <1>4 DEF Close, Cancel, CloseStop, CloseWaited, DrainOne, CloseReturn, vars, workers, Counting, Uncounting
<1> QED
  BY <1>1, <1>2, <1>3, <1>4 DEF Next

\* pending changes in five places only.
LEMMA PendingAside ==
  ASSUME [Next]_vars, \A j \in Jobs : ~EnqueueCount(j),
         \A w \in Workers : ~CountDown(w) /\ ~SpawnTimer(w),
         \A t \in timers : ~TimerAbandons(t), ~DrainOne
  PROVE  pending' = pending
<1>1. ASSUME NEW j \in Jobs, Enqueue(j) PROVE pending' = pending
  BY <1>1 DEF Enqueue, EnqueueCheck, EnqueueSend, EnqueueShow
<1>2. ASSUME NEW w \in Workers, Worker(w) PROVE pending' = pending
  BY <1>2 DEF Worker, Receive, Quit, ShowRunning, Handle, ShowOutcome, Bury
<1>3. ASSUME NEW t \in timers, Timer(t) PROVE pending' = pending
  BY <1>3 DEF Timer, TimerFires, TimerSends, TimerShows
<1>4. CASE Close \/ UNCHANGED vars
  BY <1>4 DEF Close, Cancel, CloseStop, CloseWaited, CloseReturn, vars
<1> QED
  BY <1>1, <1>2, <1>3, <1>4 DEF Next

\* Every step moves the counter and what it counts together.
LEMMA StepCount ==
  TypeOK /\ WorkerInv /\ PlaceInv /\ CountInv /\ [Next]_vars => CountInv'
<1> SUFFICES ASSUME TypeOK, WorkerInv, PlaceInv, CountInv, [Next]_vars PROVE CountInv'
  OBVIOUS
<1>n. /\ IsFiniteSet(Live) /\ IsFiniteSet(Counting) /\ IsFiniteSet(Uncounting)
      /\ Cardinality(Live) \in Nat /\ Cardinality(Counting) \in Nat /\ Cardinality(Uncounting) \in Nat
      /\ pending \in Int /\ Len(jobs) \in Nat
      /\ pending + Cardinality(Uncounting) = Len(jobs) + Cardinality(Live) + Cardinality(Counting)
  BY FS_CardinalityType DEF CountInv, TypeOK
<1>s. ASSUME NEW x \in QueuedJobs PROVE Len(Append(jobs, x)) = Len(jobs) + 1
  BY AppendIs DEF TypeOK
<1>h. ASSUME jobs # <<>> PROVE Len(Tail(jobs)) = Len(jobs) - 1
  BY <1>h, TailIs DEF TypeOK
<1>1. ASSUME NEW j \in Jobs, EnqueueSend(j), jobs' # jobs PROVE CountInv'
  <2>1. /\ caller[j] = "checked" /\ caller' = [caller EXCEPT ![j] = "sent"]
        /\ jobs' = Append(jobs, [job |-> j, attempts |-> 0]) /\ UNCHANGED <<pc, timers, pending>>
    BY <1>1 DEF EnqueueSend, Sent, workers
  <2>2. Len(jobs') = Len(jobs) + 1
    BY <1>s, <2>1, MemqAssumption DEF QueuedJobs
  <2>3. j \notin Uncounting /\ Uncounting' = Uncounting \cup {j}
    BY <2>1 DEF Uncounting, TypeOK
  <2>4. Live' = Live /\ Counting' = Counting
    BY <2>1 DEF Live, Counting
  <2>5. IsFiniteSet(Uncounting') /\ Cardinality(Uncounting') = Cardinality(Uncounting) + 1
    BY <1>n, <2>3, OneMore
  <2>6. pending' = pending
    BY <2>1
  <2> QED
    BY <1>n, <2>2, <2>4, <2>5, <2>6 DEF CountInv
<1>2. ASSUME NEW j \in Jobs, EnqueueCount(j) PROVE CountInv'
  <2>1. /\ caller[j] = "sent" /\ caller' = [caller EXCEPT ![j] = "counted"]
        /\ pending' = pending + 1 /\ UNCHANGED <<pc, timers, jobs>>
    BY <1>2 DEF EnqueueCount, workers
  <2>3. j \in Uncounting /\ Uncounting' = Uncounting \ {j}
    BY <2>1 DEF Uncounting, TypeOK
  <2>4. Live' = Live /\ Counting' = Counting
    BY <2>1 DEF Live, Counting
  <2>5. IsFiniteSet(Uncounting') /\ Cardinality(Uncounting') = Cardinality(Uncounting) - 1
    BY <1>n, <2>3, OneLess
  <2> QED
    BY <1>n, <2>1, <2>4, <2>5 DEF CountInv
<1>3. ASSUME NEW w \in Workers, Receive(w) PROVE CountInv'
  <2>1. /\ pc[w] = "select" /\ pc' = [pc EXCEPT ![w] = "count"] /\ jobs # <<>>
        /\ jobs' = Tail(jobs) /\ UNCHANGED <<caller, timers, pending>>
    BY <1>3 DEF Receive
  <2>3. w \notin Counting /\ Counting' = Counting \cup {w}
    BY <2>1 DEF Counting, TypeOK
  <2>4. Live' = Live /\ Uncounting' = Uncounting
    BY <2>1 DEF Live, Uncounting
  <2>5. IsFiniteSet(Counting') /\ Cardinality(Counting') = Cardinality(Counting) + 1
    BY <1>n, <2>3, OneMore
  <2> QED
    BY <1>n, <1>h, <2>1, <2>4, <2>5 DEF CountInv
<1>4. ASSUME NEW w \in Workers, CountDown(w) PROVE CountInv'
  <2>1. /\ pc[w] = "count" /\ pc' = [pc EXCEPT ![w] = "show"]
        /\ pending' = pending - 1 /\ UNCHANGED <<caller, timers, jobs>>
    BY <1>4 DEF CountDown, Uncounted
  <2>3. w \in Counting /\ Counting' = Counting \ {w}
    BY <2>1 DEF Counting, TypeOK
  <2>4. Live' = Live /\ Uncounting' = Uncounting
    BY <2>1 DEF Live, Uncounting
  <2>5. IsFiniteSet(Counting') /\ Cardinality(Counting') = Cardinality(Counting) - 1
    BY <1>n, <2>3, OneLess
  <2> QED
    BY <1>n, <2>1, <2>4, <2>5 DEF CountInv
<1>5. ASSUME NEW w \in Workers, SpawnTimer(w) PROVE CountInv'
  <2>1. pc[w] = "spawn" /\ pc' = [pc EXCEPT ![w] = "select"] /\ pending' = pending + 1 /\ UNCHANGED <<caller, jobs>>
    BY <1>5 DEF SpawnTimer
  <2>2. Counting' = Counting /\ Uncounting' = Uncounting
    BY <2>1 DEF Counting, Uncounting, TypeOK
  <2>3. PICK t : t \notin Live /\ Live' = Live \cup {t}
    BY <1>5, SpawnMoves
  <2>4. IsFiniteSet(Live') /\ Cardinality(Live') = Cardinality(Live) + 1
    BY <1>n, <2>3, OneMore
  <2> QED
    BY <1>n, <2>1, <2>2, <2>4 DEF CountInv
<1>6. ASSUME NEW t \in timers, TimerFires(t) \/ TimerSends(t) \/ TimerAbandons(t) PROVE CountInv'
  <2>1. UNCHANGED <<pc, caller>> /\ t \in Live
    BY <1>6 DEF TimerFires, TimerSends, TimerAbandons, workers, Live
  <2>2. Counting' = Counting /\ Uncounting' = Uncounting
    BY <2>1 DEF Counting, Uncounting
  <2>3. IsFiniteSet(Live \ {t}) /\ Cardinality(Live \ {t}) = Cardinality(Live) - 1
    BY <1>n, <2>1, OneLess
  <2>4. CASE TimerFires(t)
    <3>1. PICK s : s \notin Live \ {t} /\ Live' = (Live \ {t}) \cup {s}
      BY <2>4, TimerMoves
    <3>2. IsFiniteSet(Live') /\ Cardinality(Live') = Cardinality(Live \ {t}) + 1
      BY <2>3, <3>1, OneMore
    <3>3. UNCHANGED <<pending, jobs>>
      BY <2>4 DEF TimerFires
    <3> QED
      BY <1>n, <2>2, <2>3, <3>2, <3>3 DEF CountInv
  <2>5. CASE TimerSends(t)
    <3>1. Live' = Live \ {t}
      BY <2>5, TimerMoves
    <3>2. pending' = pending /\ Len(jobs') = Len(jobs) + 1
      BY <1>s, <2>5 DEF TimerSends, Sent, TypeOK
    <3> QED
      BY <1>n, <2>2, <2>3, <3>1, <3>2 DEF CountInv
  <2>6. CASE TimerAbandons(t)
    <3>1. Live' = Live \ {t} /\ pending' = pending - 1 /\ jobs' = jobs
      BY <2>6 DEF TimerAbandons, Live
    <3> QED
      BY <1>n, <2>2, <2>3, <3>1 DEF CountInv
  <2> QED
    BY <1>6, <2>4, <2>5, <2>6
<1>7. CASE DrainOne
  <2>1. /\ jobs # <<>> /\ jobs' = Tail(jobs) /\ pending' = pending - 1
        /\ UNCHANGED <<caller, pc, timers>>
    BY <1>7 DEF DrainOne, workers
  <2>2. Live' = Live /\ Counting' = Counting /\ Uncounting' = Uncounting
    BY <2>1 DEF Live, Counting, Uncounting
  <2> QED
    BY <1>n, <1>h, <2>1, <2>2 DEF CountInv
<1>8. CASE /\ ~Moves /\ \A j \in Jobs : ~EnqueueCount(j)
           /\ \A w \in Workers : ~CountDown(w)
  <2>1. UNCHANGED <<jobs, Live>>
    BY <1>8, QuietMoves
  <2>2. pending' = pending
    BY <1>8, PendingAside DEF Moves
  <2>3. Counting' = Counting
    BY <1>8, CountedAside DEF Moves
  <2>4. Uncounting' = Uncounting
    <3>1. CASE \A j \in Jobs : ~EnqueueSend(j)
      BY <1>8, <3>1, CountedAside
    <3>2. ASSUME NEW j \in Jobs, EnqueueSend(j) PROVE Uncounting' = Uncounting
      <4>1. [job |-> j, attempts |-> 0] \in QueuedJobs
        BY MemqAssumption DEF QueuedJobs
      <4>2. Append(jobs, [job |-> j, attempts |-> 0]) # jobs
        BY <1>n, <1>s, <4>1
      <4>3. caller[j] = "checked" /\ caller' = [caller EXCEPT ![j] = "rejected"]
        BY <2>1, <3>2, <4>2 DEF EnqueueSend, Sent
      <4> QED
        BY <4>3 DEF Uncounting, TypeOK
    <3> QED
      BY <3>1, <3>2
  <2> QED
    BY <2>1, <2>2, <2>3, <2>4 DEF CountInv
<1>9. \/ ~Moves \/ DrainOne
      \/ \E j \in Jobs : EnqueueSend(j) /\ jobs' # jobs
      \/ \E w \in Workers : Receive(w) \/ SpawnTimer(w) \/ Handle(w, "Ack") \/ Bury(w)
      \/ \E t \in timers : TimerFires(t) \/ TimerSends(t) \/ TimerAbandons(t)
  BY DEF Moves
<1>10. ASSUME NEW w \in Workers, Handle(w, "Ack") \/ Bury(w) PROVE CountInv'
  <2>1. UNCHANGED <<pending, jobs, timers, caller>>
    BY <1>10 DEF Handle, Bury
  <2>2. Counting' = Counting
    <3>1. PICK p : pc' = [pc EXCEPT ![w] = p] /\ p # "count" /\ pc[w] # "count"
      BY <1>10 DEF Handle, Bury
    <3> QED
      BY <3>1 DEF Counting, TypeOK
  <2>3. Live' = Live /\ Uncounting' = Uncounting
    BY <2>1 DEF Live, Uncounting
  <2> QED
    BY <2>1, <2>2, <2>3 DEF CountInv
<1> QED
  BY <1>1, <1>2, <1>3, <1>4, <1>5, <1>6, <1>7, <1>8, <1>9, <1>10

-----------------------------------------------------------------------------
(* The dashboard                                                            *)

\* A job on its way stays on the dashboard at every step.
LEMMA StepShown ==
  TypeOK /\ WorkerInv /\ PlaceInv /\ ShownInv /\ [Next]_vars => ShownInv'
<1> SUFFICES ASSUME TypeOK, WorkerInv, PlaceInv, ShownInv, [Next]_vars PROVE ShownInv'
  OBVIOUS
<1>u. \A x, y \in Aboard : x.job = y.job => x = y
  BY UniqueCargo DEF PlaceInv, Aboard
<1>j. \A x \in Aboard : x.job \in Jobs /\ x.attempts \in Nat
  BY DEF Aboard, Cargo, QueuedJobs
<1>h. \A w \in Workers : Busy(w) => held[w] \in QueuedJobs /\ held[w].job \in Jobs
  BY DEF WorkerInv, QueuedJobs
<1>b. \A w \in Workers : Busy(w) /\ pc[w] # "done" => held[w] \in Aboard
  BY <1>h DEF Aboard, Cargo, Carries, Working
<1>k. ASSUME \A x \in Aboard' : x \in Aboard,
             \A x \in Aboard' : caller'[x.job] = "accepted" => caller[x.job] = "accepted",
             \A j \in Jobs : states[j] \in Flying => states'[j] \in Flying,
             \A w \in Workers : pc[w] = "bury" => pc'[w] = "bury" /\ held'[w] = held[w],
             \A w \in Workers : pc'[w] = "spawn" => pc[w] = "spawn" /\ held'[w] = held[w]
      PROVE  ShownInv'
  <2>1. ASSUME NEW x \in Aboard', x.attempts > 0 \/ caller'[x.job] = "accepted"
        PROVE  states'[x.job] \in Flying \/ \E w \in Workers : pc'[w] = "bury" /\ held'[w] = x
    <3>1. x \in Aboard /\ (x.attempts > 0 \/ caller[x.job] = "accepted")
      BY <1>k, <2>1
    <3>2. states[x.job] \in Flying \/ \E w \in Workers : pc[w] = "bury" /\ held[w] = x
      BY <3>1 DEF ShownInv
    <3> QED
      BY <1>j, <1>k, <3>1, <3>2
  <2>2. ASSUME NEW w \in Workers, pc'[w] = "spawn" PROVE states'[held'[w].job] \in Flying
    <3>1. pc[w] = "spawn" /\ held'[w] = held[w]
      BY <1>k, <2>2
    <3> QED
      BY <1>h, <1>k, <3>1 DEF ShownInv, Busy
  <2> QED
    BY <2>1, <2>2 DEF ShownInv
<1>f. ASSUME NEW id \in Jobs, NEW s \in Flying, setState(id, s)
      PROVE  states'[id] \in Flying /\ \A j \in Jobs : states[j] \in Flying => states'[j] \in Flying
  BY <1>f, SetStateIs DEF Flying, Shown
<1>a. ASSUME UNCHANGED <<jobs, timers, Working>> PROVE Aboard' = Aboard
  BY <1>a DEF Aboard, Live
<1>1. ASSUME NEW j \in Jobs, EnqueueSend(j), jobs' # jobs PROVE ShownInv'
  <2> DEFINE x == [job |-> j, attempts |-> 0]
  <2>1. x.job = j /\ x.attempts = 0 /\ j \notin Admitted /\ Aboard' = Aboard \cup {x}
    BY <1>1, SendMoves
  <2>2. /\ caller' = [caller EXCEPT ![j] = "sent"] /\ UNCHANGED <<states, pc, held>>
    BY <1>1 DEF EnqueueSend, view, workers
  <2>3. caller'[j] = "sent" /\ \A i \in Jobs \ {j} : caller'[i] = caller[i]
    BY <2>2 DEF TypeOK
  <2> HIDE DEF x
  <2>4. ASSUME NEW y \in Aboard', y.attempts > 0 \/ caller'[y.job] = "accepted"
        PROVE  states[y.job] \in Flying \/ \E w \in Workers : pc[w] = "bury" /\ held[w] = y
    <3>1. y \in Aboard
      BY <2>1, <2>3, <2>4
    <3>2. y.job # j
      BY <2>1, <3>1 DEF PlaceInv
    <3> QED
      BY <1>j, <2>3, <2>4, <3>1, <3>2 DEF ShownInv
  <2> QED
    BY <2>2, <2>4 DEF ShownInv
<1>2. ASSUME NEW j \in Jobs, Enqueue(j), jobs' = jobs PROVE ShownInv'
  <2>0. UNCHANGED <<pc, held>> /\ Aboard' = Aboard
    <3>1. UNCHANGED <<pc, held, timers>>
      BY <1>2 DEF Enqueue, EnqueueCheck, EnqueueSend, EnqueueCount, EnqueueShow, workers
    <3> QED
      BY <1>2, <1>a, <3>1 DEF Working
  <2>1. CASE EnqueueCheck(j) \/ EnqueueSend(j) \/ EnqueueCount(j)
    <3>1. states' = states
      BY <2>1 DEF EnqueueCheck, EnqueueSend, EnqueueCount, view
    <3>2. \A i \in Jobs : caller'[i] = "accepted" => caller[i] = "accepted"
      BY <2>1 DEF EnqueueCheck, EnqueueSend, EnqueueCount, TypeOK
    <3> QED
      BY <1>j, <1>k, <2>0, <3>1, <3>2
  <2>2. CASE EnqueueShow(j)
    <3>1. setState(j, "queued") /\ caller' = [caller EXCEPT ![j] = "accepted"]
      BY <2>2 DEF EnqueueShow
    <3>2. states'[j] \in Flying /\ \A i \in Jobs : states[i] \in Flying => states'[i] \in Flying
      BY <1>f, <3>1 DEF Flying
    <3>3. \A i \in Jobs \ {j} : caller'[i] = caller[i]
      BY <3>1 DEF TypeOK
    <3>4. ASSUME NEW x \in Aboard, x.attempts > 0 \/ caller'[x.job] = "accepted"
          PROVE  states'[x.job] \in Flying \/ \E w \in Workers : pc[w] = "bury" /\ held[w] = x
      BY <1>j, <3>2, <3>3, <3>4 DEF ShownInv
    <3>5. \A w \in Workers : pc[w] = "spawn" => states'[held[w].job] \in Flying
      BY <1>h, <3>2 DEF ShownInv, Busy
    <3> QED
      BY <2>0, <3>4, <3>5 DEF ShownInv
  <2> QED
    BY <1>2, <2>1, <2>2 DEF Enqueue
<1>3. ASSUME NEW w \in Workers, Receive(w) \/ Quit(w) \/ CountDown(w) PROVE ShownInv'
  <2>1. UNCHANGED <<states, caller>> /\ Aboard' = Aboard
    <3>1. CASE Receive(w)
      BY <3>1, ReceiveMoves DEF Receive, view
    <3>2. CASE Quit(w) \/ CountDown(w)
      <4>1. UNCHANGED <<jobs, timers, held>> /\ pc[w] # "done" /\ \E p : p # "done" /\ pc' = [pc EXCEPT ![w] = p]
        BY <3>2 DEF Quit, CountDown
      <4>2. Live' = Live /\ Working' = Working
        BY <4>1 DEF Live, Working, TypeOK
      <4> QED
        BY <3>2, <4>1, <4>2 DEF Quit, CountDown, Aboard, view
    <3> QED
      BY <1>3, <3>1, <3>2
  <2>2. /\ \A u \in Workers : pc[u] = "bury" => pc'[u] = "bury" /\ held'[u] = held[u]
        /\ \A u \in Workers : pc'[u] = "spawn" => pc[u] = "spawn" /\ held'[u] = held[u]
    BY <1>3 DEF Receive, Quit, CountDown, TypeOK
  <2> QED
    BY <1>k, <2>1, <2>2
<1>4. ASSUME NEW w \in Workers, ShowRunning(w) PROVE ShownInv'
  <2>1. /\ pc[w] = "show" /\ setState(held[w].job, "running") /\ pc' = [pc EXCEPT ![w] = "handle"]
        /\ UNCHANGED <<held, caller, jobs, timers>>
    BY <1>4 DEF ShowRunning
  <2>4. Aboard' = Aboard
    BY <1>a, <2>1 DEF Working, TypeOK
  <2>2. \A i \in Jobs : states[i] \in Flying => states'[i] \in Flying
    BY <1>f, <1>h, <2>1 DEF Flying, Busy
  <2>3. /\ \A u \in Workers : pc[u] = "bury" => pc'[u] = "bury"
        /\ \A u \in Workers : pc'[u] = "spawn" => pc[u] = "spawn"
    BY <2>1 DEF TypeOK
  <2> QED
    BY <1>k, <2>1, <2>2, <2>3, <2>4
<1>5. ASSUME NEW w \in Workers, NEW d \in Dispositions, Handle(w, d) PROVE ShownInv'
  <2>1. UNCHANGED <<states, caller, held>>
    BY <1>5 DEF Handle, view
  <2>2. /\ \A u \in Workers : pc[u] = "bury" => pc'[u] = "bury"
        /\ \A u \in Workers : pc'[u] = "spawn" => pc[u] = "spawn"
    BY <1>5 DEF Handle, TypeOK
  <2>3. \A x \in Aboard' : x \in Aboard
    <3>1. CASE d = "Ack"
      BY <1>5, <3>1, SettleMoves
    <3>2. CASE d # "Ack"
      <4>1. UNCHANGED <<jobs, timers, held>> /\ pc[w] # "done" /\ \E p : p # "done" /\ pc' = [pc EXCEPT ![w] = p]
        BY <1>5, <3>2 DEF Handle
      <4>2. Live' = Live /\ Working' = Working
        BY <4>1 DEF Live, Working, TypeOK
      <4> QED
        BY <4>1, <4>2 DEF Aboard
    <3> QED
      BY <3>1, <3>2
  <2> QED
    BY <1>k, <2>1, <2>2, <2>3
<1>6. ASSUME NEW w \in Workers, ShowOutcome(w) PROVE ShownInv'
  <2>0. Aboard' = Aboard /\ caller' = caller /\ Busy(w)
    <3>1. UNCHANGED <<jobs, timers, caller>> /\ Busy(w)
      BY <1>6 DEF ShowOutcome, Busy
    <3>2. CASE pc[w] = "done"
      <4>1. pc' = [pc EXCEPT ![w] = "select"] /\ held' = [held EXCEPT ![w] = Idle]
        BY <1>6, <3>2 DEF ShowOutcome
      <4>2. Working' = Working
        BY <3>2, <4>1 DEF Working, TypeOK
      <4> QED
        BY <1>a, <3>1, <4>2
    <3>3. CASE pc[w] # "done"
      <4>1. PICK p : pc' = [pc EXCEPT ![w] = p] /\ p # "done" /\ held' = held
        BY <1>6, <3>3 DEF ShowOutcome
      <4>2. Working' = Working
        BY <3>3, <4>1 DEF Working, TypeOK
      <4> QED
        BY <1>a, <3>1, <4>2
    <3> QED
      BY <3>2, <3>3
  <2>1. CASE pc[w] = "done"
    <3>1. /\ setState(held[w].job, "done") /\ pc' = [pc EXCEPT ![w] = "select"]
          /\ held' = [held EXCEPT ![w] = Idle]
      BY <1>6, <2>1 DEF ShowOutcome
    <3>2. held[w].job \in acked /\ held[w].job \in Jobs
      BY <1>h, <2>0, <2>1 DEF PlaceInv
    <3>3. \A i \in Jobs : i # held[w].job /\ states[i] \in Flying => states'[i] = states[i]
      BY <3>1, <3>2, SetStateIs DEF Shown
    <3>4. \A x \in Aboard : x.job # held[w].job
      BY <3>2 DEF PlaceInv, Final, Settled
    <3>5. \A u \in Workers \ {w} : pc'[u] = pc[u] /\ held'[u] = held[u]
      BY <3>1 DEF TypeOK
    <3>6. pc'[w] = "select"
      BY <3>1 DEF TypeOK
    <3>7. ASSUME NEW x \in Aboard, x.attempts > 0 \/ caller[x.job] = "accepted"
          PROVE  states'[x.job] \in Flying \/ \E u \in Workers : pc'[u] = "bury" /\ held'[u] = x
      <4>1. states[x.job] \in Flying \/ \E u \in Workers : pc[u] = "bury" /\ held[u] = x
        BY <3>7 DEF ShownInv
      <4>2. states[x.job] \in Flying => states'[x.job] \in Flying
        BY <1>j, <3>3, <3>4
      <4> QED
        BY <2>1, <3>5, <4>1, <4>2
    <3>8. ASSUME NEW u \in Workers, pc'[u] = "spawn" PROVE states'[held'[u].job] \in Flying
      <4>1. u # w /\ pc[u] = "spawn" /\ held'[u] = held[u]
        BY <3>5, <3>6, <3>8
      <4>2. held[u] \in Aboard /\ states[held[u].job] \in Flying
        BY <1>b, <4>1 DEF ShownInv, Busy
      <4> QED
        BY <1>j, <3>3, <3>4, <4>1, <4>2
    <3> QED
      BY <2>0, <3>7, <3>8 DEF ShownInv
  <2>2. CASE pc[w] = "retrying"
    <3>1. setState(held[w].job, "retrying") /\ pc' = [pc EXCEPT ![w] = "spawn"] /\ held' = held
      BY <1>6, <2>2 DEF ShowOutcome
    <3>2. /\ states'[held[w].job] \in Flying
          /\ \A i \in Jobs : states[i] \in Flying => states'[i] \in Flying
      BY <1>f, <1>h, <2>0, <3>1 DEF Flying
    <3>3. \A u \in Workers \ {w} : pc'[u] = pc[u]
      BY <3>1 DEF TypeOK
    <3>4. ASSUME NEW x \in Aboard, x.attempts > 0 \/ caller[x.job] = "accepted"
          PROVE  states'[x.job] \in Flying \/ \E u \in Workers : pc'[u] = "bury" /\ held[u] = x
      <4>1. states[x.job] \in Flying \/ \E u \in Workers : pc[u] = "bury" /\ held[u] = x
        BY <3>4 DEF ShownInv
      <4> QED
        BY <1>j, <2>2, <3>2, <3>3, <4>1
    <3>5. ASSUME NEW u \in Workers, pc'[u] = "spawn" PROVE states'[held[u].job] \in Flying
      <4>1. CASE u = w
        BY <3>2, <4>1
      <4>2. CASE u # w
        BY <1>h, <3>2, <3>3, <3>5, <4>2 DEF ShownInv, Busy
      <4> QED
        BY <4>1, <4>2
    <3> QED
      BY <2>0, <3>1, <3>4, <3>5 DEF ShownInv
  <2>3. CASE pc[w] = "dead"
    <3>1. setState(held[w].job, "dead") /\ pc' = [pc EXCEPT ![w] = "bury"] /\ held' = held
      BY <1>6, <2>3 DEF ShowOutcome
    <3>2. held[w] \in Aboard /\ held[w].job \in Jobs
      BY <1>b, <1>h, <2>0, <2>3
    <3>3. \A i \in Jobs : i # held[w].job /\ states[i] \in Flying => states'[i] = states[i]
      BY <3>1, <3>2, SetStateIs DEF Shown
    <3>4. pc'[w] = "bury" /\ \A u \in Workers \ {w} : pc'[u] = pc[u]
      BY <3>1 DEF TypeOK
    <3>5. ASSUME NEW x \in Aboard, x.attempts > 0 \/ caller[x.job] = "accepted"
          PROVE  states'[x.job] \in Flying \/ \E u \in Workers : pc'[u] = "bury" /\ held[u] = x
      <4>1. CASE x = held[w]
        BY <3>4, <4>1
      <4>2. CASE x # held[w]
        <5>1. x.job # held[w].job /\ x.job \in Jobs
          BY <1>j, <1>u, <3>2, <4>2
        <5>2. states[x.job] \in Flying \/ \E u \in Workers : pc[u] = "bury" /\ held[u] = x
          BY <3>5 DEF ShownInv
        <5> QED
          BY <2>3, <3>3, <3>4, <5>1, <5>2
      <4> QED
        BY <4>1, <4>2
    <3>6. ASSUME NEW u \in Workers, pc'[u] = "spawn" PROVE states'[held[u].job] \in Flying
      <4>1. u # w /\ pc[u] = "spawn"
        BY <3>4, <3>6
      <4>2. held[u] \in Aboard /\ states[held[u].job] \in Flying
        BY <1>b, <4>1 DEF ShownInv, Busy
      <4>3. Working[u] = held[u] /\ Working[w] = held[w] /\ held[u] # Idle /\ held[w] # Idle
        BY <2>3, <3>2, <4>1, <4>2, IdleIsNone DEF Working, Aboard, Cargo
      <4>4. held[u].job # held[w].job
        BY <4>1, <4>3 DEF PlaceInv, OnePlace
      <4> QED
        BY <1>j, <3>3, <4>2, <4>4
    <3> QED
      BY <2>0, <3>1, <3>5, <3>6 DEF ShownInv
  <2> QED
    BY <1>6, <2>1, <2>2, <2>3 DEF ShowOutcome
<1>7. ASSUME NEW w \in Workers, SpawnTimer(w) PROVE ShownInv'
  <2>1. PICK y : /\ held[w] \in Aboard /\ y.job = held[w].job
                 /\ Aboard' = (Aboard \ {held[w]}) \cup {y} /\ caller' = caller
    BY <1>7, SpawnMoves
  <2>2. /\ pc[w] = "spawn" /\ states' = states
        /\ pc' = [pc EXCEPT ![w] = "select"] /\ held' = [held EXCEPT ![w] = Idle]
    BY <1>7 DEF SpawnTimer, view
  <2>3. /\ \A u \in Workers \ {w} : pc'[u] = pc[u] /\ held'[u] = held[u]
        /\ pc'[w] = "select"
    BY <2>2 DEF TypeOK
  <2>4. ASSUME NEW x \in Aboard', x.attempts > 0 \/ caller[x.job] = "accepted"
        PROVE  states[x.job] \in Flying \/ \E u \in Workers : pc'[u] = "bury" /\ held'[u] = x
    <3>1. CASE x = y
      BY <2>1, <2>2, <3>1 DEF ShownInv
    <3>2. CASE x \in Aboard
      <4>1. states[x.job] \in Flying \/ \E u \in Workers : pc[u] = "bury" /\ held[u] = x
        BY <2>4, <3>2 DEF ShownInv
      <4> QED
        BY <2>2, <2>3, <4>1
    <3> QED
      BY <2>1, <3>1, <3>2
  <2>5. ASSUME NEW u \in Workers, pc'[u] = "spawn" PROVE states[held'[u].job] \in Flying
    BY <2>3, <2>5 DEF ShownInv
  <2> QED
    BY <2>1, <2>2, <2>4, <2>5 DEF ShownInv
<1>8. ASSUME NEW w \in Workers, Bury(w) PROVE ShownInv'
  <2>1. held[w] \in Aboard /\ Aboard' = Aboard \ {held[w]} /\ caller' = caller
    BY <1>8, SettleMoves
  <2>2. /\ states' = states /\ pc' = [pc EXCEPT ![w] = "select"] /\ held' = [held EXCEPT ![w] = Idle]
    BY <1>8 DEF Bury, view
  <2>3. /\ \A u \in Workers \ {w} : pc'[u] = pc[u] /\ held'[u] = held[u]
        /\ pc'[w] = "select"
    BY <2>2 DEF TypeOK
  <2>4. ASSUME NEW x \in Aboard', x.attempts > 0 \/ caller[x.job] = "accepted"
        PROVE  states[x.job] \in Flying \/ \E u \in Workers : pc'[u] = "bury" /\ held'[u] = x
    <3>1. x \in Aboard /\ x # held[w]
      BY <2>1
    <3>2. states[x.job] \in Flying \/ \E u \in Workers : pc[u] = "bury" /\ held[u] = x
      BY <2>4, <3>1 DEF ShownInv
    <3> QED
      BY <2>3, <3>1, <3>2
  <2>5. ASSUME NEW u \in Workers, pc'[u] = "spawn" PROVE states[held'[u].job] \in Flying
    BY <2>3, <2>5 DEF ShownInv
  <2> QED
    BY <2>1, <2>2, <2>4, <2>5 DEF ShownInv
<1>9. ASSUME NEW t \in timers, Timer(t) PROVE ShownInv'
  <2>0. UNCHANGED <<pc, held, caller>>
    BY <1>9 DEF Timer, TimerFires, TimerSends, TimerShows, TimerAbandons, workers
  <2>1. CASE TimerFires(t) \/ TimerSends(t) \/ TimerAbandons(t)
    <3>1. states' = states
      BY <2>1 DEF TimerFires, TimerSends, TimerAbandons, view
    <3>2. \A x \in Aboard' : x \in Aboard
      BY <2>1, TimerMoves, GiveUpMoves
    <3> QED
      BY <1>k, <2>0, <3>1, <3>2
  <2>2. CASE TimerShows(t)
    <3>1. setState(t.qj.job, "queued") /\ t.qj.job \in Jobs /\ t.at = "sent"
      BY <2>2 DEF TimerShows, TypeOK, QueuedJobs
    <3>2. \A i \in Jobs : states[i] \in Flying => states'[i] \in Flying
      BY <1>f, <3>1 DEF Flying
    <3>3. Aboard' = Aboard
      <4>1. Live' = Live /\ Working' = Working /\ jobs' = jobs
        BY <2>0, <2>2 DEF TimerShows, Live, Working
      <4> QED
        BY <4>1 DEF Aboard
    <3> QED
      BY <1>k, <2>0, <3>2, <3>3
  <2> QED
    BY <1>9, <2>1, <2>2 DEF Timer
<1>10. CASE Close \/ UNCHANGED vars
  <2>1. UNCHANGED <<pc, held, caller, states>>
    BY <1>10 DEF Close, Cancel, CloseStop, CloseWaited, DrainOne, CloseReturn, vars, workers, view
  <2>2. \A x \in Aboard' : x \in Aboard
    <3>1. CASE DrainOne
      BY <3>1, GiveUpMoves
    <3>2. CASE ~DrainOne
      <4>1. UNCHANGED <<jobs, timers>>
        BY <1>10, <3>2 DEF Close, Cancel, CloseStop, CloseWaited, CloseReturn, vars
      <4>2. Live' = Live /\ Working' = Working
        BY <2>1, <4>1 DEF Live, Working
      <4> QED
        BY <4>1, <4>2 DEF Aboard
    <3> QED
      BY <3>1, <3>2
  <2> QED
    BY <1>k, <2>1, <2>2
<1>11. ASSUME NEW j \in Jobs, Enqueue(j), jobs' # jobs PROVE EnqueueSend(j)
  BY <1>11 DEF Enqueue, EnqueueCheck, EnqueueCount, EnqueueShow
<1> QED
  BY <1>1, <1>2, <1>3, <1>4, <1>5, <1>6, <1>7, <1>8, <1>9, <1>10, <1>11 DEF Next, Worker

\* Nothing is counted or shown at first.
LEMMA InitReports == Init => CountInv /\ ShownInv
<1> SUFFICES ASSUME Init PROVE CountInv /\ ShownInv
  OBVIOUS
<1>1. Live = {} /\ Counting = {} /\ Uncounting = {} /\ Len(jobs) = 0 /\ pending = 0
  BY DEF Init, Live, Counting, Uncounting
<1>2. Aboard = {}
  <2>1. DOMAIN jobs = {} /\ \A w \in Workers : Working[w] = Idle
    BY DEF Init, Working
  <2> QED
    BY <1>1, <2>1, IdleIsNone DEF Aboard, Cargo, Carries
<1>3. \A w \in Workers : pc[w] # "spawn"
  BY DEF Init
<1> QED
  BY <1>1, <1>2, <1>3, FS_EmptySet DEF CountInv, ShownInv

\* With nobody in the middle of an operation the counter is exact, and the
\* jobs in flight are on the dashboard.
LEMMA RestIsExact == TInv /\ PlaceInv /\ CountInv /\ ShownInv => ReportsExact
<1> SUFFICES ASSUME TypeOK, WorkerInv, CountInv, ShownInv, AtRest
             PROVE  /\ pending = Len(jobs) + Cardinality(timers)
                    /\ \A j \in Jobs : Accepted(j) /\ InFlight(j) => states[j] # "none"
  BY DEF TInv, ReportsExact
<1>1. Uncounting = {} /\ Counting = {} /\ Live = timers
  BY DEF AtRest, Uncounting, Counting, Live
<1>2. pending = Len(jobs) + Cardinality(timers)
  <2>1. Cardinality(timers) \in Nat /\ Cardinality(Uncounting) = 0 /\ Cardinality(Counting) = 0
    BY <1>1, FS_EmptySet, FS_CardinalityType DEF CountInv
  <2>2. pending \in Int /\ Len(jobs) \in Nat
    BY DEF TypeOK
  <2>3. pending + Cardinality(Uncounting) = Len(jobs) + Cardinality(timers) + Cardinality(Counting)
    BY <1>1 DEF CountInv
  <2> QED
    BY <2>1, <2>2, <2>3
<1>3. ASSUME NEW j \in Jobs, Accepted(j), InFlight(j) PROVE states[j] # "none"
  <2>1. caller[j] = "accepted"
    BY <1>3 DEF Accepted, AtRest
  <2>2. \A w \in Workers : Working[w] = held[w] /\ pc[w] # "bury"
    BY DEF AtRest, Working
  <2>3. \E x \in Aboard : x.job = j
    <3>1. /\ \A k \in DOMAIN jobs : jobs[k] \in QueuedJobs
          /\ \A w \in Workers : held[w] \in QueuedJobs \/ held[w].job = "none"
          /\ \A t \in timers : t.qj \in QueuedJobs
      BY DEF TypeOK, Idle
    <3>2. CASE \E k \in DOMAIN jobs : jobs[k].job = j
      BY <3>1, <3>2 DEF Aboard, Cargo, Carries
    <3>3. CASE \E w \in Workers : held[w].job = j
      BY <2>2, <3>1, <3>3, MemqAssumption DEF Aboard, Cargo, Carries
    <3>4. CASE \E t \in timers : t.qj.job = j
      BY <1>1, <3>1, <3>4 DEF Aboard, Cargo, Carries
    <3> QED
      BY <1>3, <3>2, <3>3, <3>4 DEF InFlight
  <2>4. PICK x \in Aboard : x.job = j
    BY <2>3
  <2>5. states[j] \in Flying
    BY <2>1, <2>2, <2>4 DEF ShownInv
  <2> QED
    BY <2>5 DEF Flying
<1> QED
  BY <1>2, <1>3

\* pending is exactly "buffered + scheduled-for-retry" (memq.go:28), and "in-
\* flight jobs (queued|running|retrying) are always retained" (memq.go:49) in
\* the states map, whenever no goroutine is between a channel operation and
\* its bookkeeping.
THEOREM DepthAndDashboardExact == Spec => []ReportsExact
<1>1. Init => TInv /\ PlaceInv /\ CountInv /\ ShownInv
  BY InitTyped, InitPlaces, InitReports
<1>2. TInv /\ PlaceInv /\ CountInv /\ ShownInv /\ [Next]_vars => (TInv /\ PlaceInv /\ CountInv /\ ShownInv)'
  BY StepTyped, StepPlaces, StepCount, StepShown DEF TInv
<1> QED
  BY <1>1, <1>2, RestIsExact, PTL DEF Spec
=============================================================================
