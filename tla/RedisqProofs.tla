---------------------------- MODULE RedisqProofs ----------------------------
(***************************************************************************)
(* Theorems about the Redis driver for every number of jobs, replicas and   *)
(* workers, every retry limit, and any number of crashes, stalls and failed *)
(* or half-answered Redis commands.                                         *)
(***************************************************************************)
EXTENDS Redisq, TLAPS, SequenceTheorems, WellFoundedInduction

-----------------------------------------------------------------------------
(* Lists: what the Redis commands keep and add.                             *)

\* LPUSH keeps every element and adds its argument.
LEMMA LPushHas ==
    ASSUME NEW S, NEW q \in Seq(S), NEW x \in S
    PROVE  /\ LPush(q, x) \in Seq(S)
           /\ Has(LPush(q, x), x)
           /\ \A y : Has(q, y) => Has(LPush(q, x), y)
<1> DEFINE r == <<x>> \o q
<1>1. /\ r \in Seq(S) /\ Len(r) = Len(q) + 1 /\ r[1] = x
      /\ \A k \in 1..Len(q) : r[k + 1] = q[k]
  OBVIOUS
<1>2. DOMAIN r = 1..(Len(q) + 1) /\ DOMAIN q = 1..Len(q)
  BY <1>1
<1>3. \A y : Has(q, y) => Has(r, y)
  <2> SUFFICES ASSUME NEW y, NEW k \in DOMAIN q, q[k] = y PROVE Has(r, y)
    BY DEF Has
  <2>1. k + 1 \in DOMAIN r /\ r[k + 1] = y
    BY <1>1, <1>2
  <2> QED BY <2>1 DEF Has
<1>4. Has(r, x)
  BY <1>1, <1>2 DEF Has
<1> QED BY <1>1, <1>3, <1>4 DEF LPush

\* The reaper's LMOVE ... RIGHT keeps every element and adds its argument.
LEMMA AppendHas ==
    ASSUME NEW S, NEW q \in Seq(S), NEW x \in S
    PROVE  /\ Append(q, x) \in Seq(S)
           /\ Has(Append(q, x), x)
           /\ \A y : Has(q, y) => Has(Append(q, x), y)
<1> DEFINE r == Append(q, x)
<1>1. /\ r \in Seq(S) /\ Len(r) = Len(q) + 1 /\ r[Len(q) + 1] = x
      /\ \A k \in 1..Len(q) : r[k] = q[k]
  OBVIOUS
<1>2. DOMAIN r = 1..(Len(q) + 1) /\ DOMAIN q = 1..Len(q)
  BY <1>1
<1> QED BY <1>1, <1>2 DEF Has

\* Taking the rightmost element leaves all the others.
LEMMA FrontHas ==
    ASSUME NEW S, NEW q \in Seq(S), q # <<>>
    PROVE  /\ Front(q) \in Seq(S)
           /\ Last(q) \in S
           /\ \A y : Has(q, y) => y = Last(q) \/ Has(Front(q), y)
<1>1. Len(q) \in Nat \ {0} /\ DOMAIN q = 1..Len(q)
  OBVIOUS
<1> DEFINE r == SubSeq(q, 1, Len(q) - 1)
<1>2. /\ r \in Seq(S) /\ Len(r) = Len(q) - 1
      /\ \A k \in 1..(Len(q) - 1) : r[k] = q[k]
  BY <1>1
<1>3. DOMAIN r = 1..(Len(q) - 1)
  BY <1>2
<1>4. \A y : Has(q, y) => y = q[Len(q)] \/ Has(r, y)
  <2> SUFFICES ASSUME NEW k \in DOMAIN q, q[k] # q[Len(q)] PROVE Has(r, q[k])
    BY DEF Has
  <2>1. k \in DOMAIN r /\ r[k] = q[k]
    BY <1>1, <1>2, <1>3
  <2> QED BY <2>1 DEF Has
<1>5. q[Len(q)] \in S
  BY <1>1
<1> QED BY <1>2, <1>4, <1>5 DEF Front, Last

\* Every nonempty set of numbers has a least element, so Min is one of its
\* argument's elements.
LEMMA MinIsElement ==
    ASSUME NEW T \in SUBSET Nat, T # {}
    PROVE  Min(T) \in T
<1> DEFINE R == OpToRel(<, Nat)
<1>1. IsWellFoundedOn(R, Nat)
  BY NatLessThanWellFounded
<1> HIDE DEF R
<1>2. \A x, y \in Nat : x < y => <<x, y>> \in R
  BY DEF R, OpToRel
<1>3. PICK m \in T : \A y \in T : ~ (<<y, m>> \in R)
  BY <1>1, WFMin
<1>4. \A l \in T : m <= l
  <2> SUFFICES ASSUME NEW l \in T, ~ (m <= l) PROVE FALSE
    OBVIOUS
  <2>1. l < m /\ l \in Nat /\ m \in Nat
    OBVIOUS
  <2>2. <<l, m>> \in R
    BY <2>1, <1>2
  <2> QED BY <2>2, <1>3
<1> QED BY <1>4 DEF Min

\* LREM 1 removes one occurrence of its argument and nothing else.
LEMMA RemoveFirstHas ==
    ASSUME NEW S, NEW q \in Seq(S), NEW x
    PROVE  /\ RemoveFirst(q, x) \in Seq(S)
           /\ \A y : Has(q, y) /\ y # x => Has(RemoveFirst(q, x), y)
<1>1. CASE ~ \E k \in 1..Len(q) : q[k] = x
  BY <1>1 DEF RemoveFirst
<1>2. CASE \E k \in 1..Len(q) : q[k] = x
  <2> DEFINE I == {k \in 1..Len(q) : q[k] = x}
             n == Min(I)
             a == SubSeq(q, 1, n - 1)
             b == SubSeq(q, n + 1, Len(q))
             r == a \o b
  <2>1. RemoveFirst(q, x) = r
    BY <1>2 DEF RemoveFirst, RemoveAt, SelectInSeq
  <2>2. n \in 1..Len(q) /\ q[n] = x
    <3>1. I \in SUBSET Nat /\ I # {}
      BY <1>2
    <3> QED BY <3>1, MinIsElement
  <2> HIDE DEF n
  <2>3. /\ a \in Seq(S) /\ Len(a) = n - 1
        /\ \A k \in 1..(n - 1) : a[k] = q[k]
    BY <2>2
  <2>4. /\ b \in Seq(S) /\ Len(b) = Len(q) - n
        /\ \A k \in 1..(Len(q) - n) : b[k] = q[k + n]
    BY <2>2
  <2> HIDE DEF a, b
  <2>5. /\ r \in Seq(S) /\ DOMAIN r = 1..(Len(a) + Len(b))
        /\ \A k \in 1..Len(a) : r[k] = a[k]
        /\ \A k \in 1..Len(b) : r[k + Len(a)] = b[k]
    <3>1. Len(a) \in Nat /\ Len(b) \in Nat
      BY <2>3, <2>4
    <3>2. r \in Seq(S) /\ Len(r) = Len(a) + Len(b)
      BY <2>3, <2>4, ConcatProperties
    <3>3. DOMAIN r = 1..(Len(a) + Len(b))
      BY <3>2
    <3>4. \A k \in 1..Len(a) : r[k] = a[k]
      BY <2>3, <2>4, <3>1
    <3>5. \A k \in 1..Len(b) : r[k + Len(a)] = b[k]
      BY <2>3, <2>4, <3>1, ConcatProperties
    <3> QED BY <3>2, <3>3, <3>4, <3>5
  <2> HIDE DEF r
  <2>6. ASSUME NEW k \in 1..Len(q), q[k] # x PROVE Has(r, q[k])
    <3>1. CASE k < n
      <4>1. k \in 1..(n - 1) /\ k \in 1..Len(a) /\ k \in DOMAIN r
        BY <3>1, <2>2, <2>3, <2>4, <2>5
      <4> QED BY <4>1, <2>3, <2>5 DEF Has
    <3>2. CASE k > n
      <4> DEFINE l == k - n
      <4>1. l \in 1..Len(b) /\ l + Len(a) \in DOMAIN r /\ l + n = k
        BY <3>2, <2>2, <2>3, <2>4, <2>5
      <4>2. r[l + Len(a)] = q[k]
        BY <4>1, <2>4, <2>5
      <4> QED BY <4>1, <4>2 DEF Has
    <3> QED BY <3>1, <3>2, <2>2, <2>6
  <2>7. \A y : Has(q, y) /\ y # x => Has(r, y)
    <3>1. DOMAIN q = 1..Len(q)
      OBVIOUS
    <3> QED BY <3>1, <2>6 DEF Has
  <2> QED BY <2>1, <2>5, <2>7
<1> QED BY <1>1, <1>2
-----------------------------------------------------------------------------
(* Type correctness                                                         *)

\* The payload scheduleRetry writes is well formed because process compares
\* the attempts with MaxRetries first: TypeOK needs HeldOK to be inductive.
LEMMA RetriedType ==
    ASSUME NEW x \in Payloads, MayRetry(x)
    PROVE  /\ Retried(x) \in Payloads
           /\ Retried(x).job = x.job
           /\ Retried(x).attempts = x.attempts + 1
BY RedisqAssumption DEF Payloads, MayRetry, Retried

LEMMA HeldStep == TypeOK /\ HeldOK /\ [Next]_vars => HeldOK'
<1> SUFFICES ASSUME TypeOK, HeldOK, [Next]_vars PROVE HeldOK'
  OBVIOUS
<1> USE DEF HeldOK, redis, workers, mover, keeper, history
<1>1. ASSUME NEW i \in Instances, Launch(i) PROVE HeldOK'
  BY <1>1 DEF Launch, TypeOK
<1>2. ASSUME NEW p \in Procs, NEW o \in Outcomes, Claim(p, o) PROVE HeldOK'
  <2> SUFFICES ASSUME NEW q \in Procs, NEW x \in held'[q]
               PROVE  held'[q] = {x} /\ (pc'[q] = "retry" => MayRetry(x))
    OBVIOUS
  <2>1. CASE q # p
    BY <1>2, <2>1 DEF Claim, TypeOK
  <2>2. CASE q = p
    BY <1>2, <2>2 DEF Claim, TypeOK, Rest
  <2> QED BY <2>1, <2>2
<1>3. ASSUME NEW p \in Procs, Quit(p) PROVE HeldOK'
  BY <1>3 DEF Quit, TypeOK
<1>4. ASSUME NEW p \in Procs, NEW x \in held[p], NEW d \in Dispositions,
             Handle(p, x, d)
      PROVE  HeldOK'
  <2>1. pc'[p] = "retry" => MayRetry(x)
    BY <1>4 DEF Handle, TypeOK
  <2>2. held' = held /\ \A q \in Procs \ {p} : pc'[q] = pc[q]
    BY <1>4 DEF Handle, TypeOK
  <2> QED BY <2>1, <2>2 DEF MayRetry
<1>5. ASSUME NEW p \in Procs, NEW x \in held[p], NEW o \in Outcomes, Bury(p, x, o)
      PROVE  HeldOK'
  BY <1>5 DEF Bury, TypeOK, Rest, MayRetry
<1>6. ASSUME NEW p \in Procs, NEW x \in held[p], NEW o \in Outcomes,
             ScheduleRetry(p, x, o)
      PROVE  HeldOK'
  BY <1>6 DEF ScheduleRetry, TypeOK, Rest, MayRetry
<1>7. ASSUME NEW p \in Procs, NEW x \in held[p], NEW o \in Outcomes, Ack(p, x, o)
      PROVE  HeldOK'
  BY <1>7 DEF Ack, TypeOK, Rest, MayRetry
<1>8. ASSUME NEW i \in Instances, Exit(i) PROVE HeldOK'
  <2> SUFFICES ASSUME NEW q \in Procs, NEW x \in held'[q]
               PROVE  held'[q] = {x} /\ (pc'[q] = "retry" => MayRetry(x))
    OBVIOUS
  <2>1. held'[q] = held[q] /\ pc'[q] \in {"gone", pc[q]}
    BY <1>8 DEF Exit, TypeOK
  <2> QED BY <2>1
<1>9. ASSUME UNCHANGED <<pc, held>> PROVE HeldOK'
  BY <1>9
<1>10. ASSUME NEW j \in Jobs, NEW i \in Instances, NEW o \in Outcomes,
             EnqueueCheck(j, i, o)
       PROVE  HeldOK'
  BY <1>10, <1>9 DEF EnqueueCheck
<1>11. ASSUME NEW j \in Jobs, NEW i \in Instances, NEW o \in Outcomes,
             EnqueuePush(j, i, o)
       PROVE  HeldOK'
  BY <1>11, <1>9 DEF EnqueuePush
<1>12. ASSUME NEW i \in Instances, NEW o \in Outcomes, Register(i, o) PROVE HeldOK'
  BY <1>12, <1>9 DEF Register
<1>13. ASSUME NEW i \in Instances, NEW o \in Outcomes, LegacyScan(i, o) PROVE HeldOK'
  BY <1>13, <1>9 DEF LegacyScan
<1>14. ASSUME NEW i \in Instances, NEW o \in Outcomes,
             LegacyMark(i, o)
       PROVE  HeldOK'
  BY <1>14, <1>9 DEF LegacyMark
<1>15. ASSUME NEW i \in Instances, NEW o \in Outcomes,
             RecoverOrphans(i, o) \/ FirstReap(i, o)
       PROVE  HeldOK'
  BY <1>15, <1>9 DEF RecoverOrphans, FirstReap
<1>16. ASSUME NEW i \in Instances, NEW S \in SUBSET retry,
             MoverScan(i, S)
       PROVE  HeldOK'
  BY <1>16, <1>9 DEF MoverScan
<1>17. ASSUME NEW i \in Instances, NEW m \in due[i], NEW o \in Outcomes,
             MoverPush(i, m, o)
       PROVE  HeldOK'
  BY <1>17, <1>9 DEF MoverPush
<1>18. ASSUME NEW i \in Instances, NEW m \in due[i], NEW o \in Outcomes,
             MoverRem(i, m, o)
       PROVE  HeldOK'
  BY <1>18, <1>9 DEF MoverRem
<1>19. ASSUME NEW i \in Instances, NEW o \in Outcomes, Heartbeat(i, o) PROVE HeldOK'
  BY <1>19, <1>9 DEF Heartbeat
<1>20. ASSUME NEW i \in Instances, ReapScan(i) PROVE HeldOK'
  BY <1>20, <1>9 DEF ReapScan
<1>21. ASSUME NEW i \in Instances, NEW t \in sweep[i], NEW o \in Outcomes,
             ReapMove(i, t, o)
       PROVE  HeldOK'
  BY <1>21, <1>9 DEF ReapMove
<1>22. ASSUME NEW i \in Instances, NEW t \in sweep[i], NEW o \in Outcomes,
             ReapNil(i, t, o)
       PROVE  HeldOK'
  BY <1>22, <1>9 DEF ReapNil
<1>23. ASSUME NEW i \in Instances, NEW t \in sweep[i], NEW o \in Outcomes,
             Deregister(i, t, o)
       PROVE  HeldOK'
  BY <1>23, <1>9 DEF Deregister
<1>24. ASSUME NEW i \in Instances, Close(i) PROVE HeldOK'
  BY <1>24, <1>9 DEF Close
<1>25. ASSUME NEW t \in Owners, Expire(t) PROVE HeldOK'
  BY <1>25, <1>9 DEF Expire
<1>26. CASE UNCHANGED vars
  BY <1>26, <1>9 DEF vars
<1> QED
  BY <1>1, <1>2, <1>3, <1>4, <1>5, <1>6, <1>7, <1>8, <1>9,
     <1>10, <1>11, <1>12, <1>13, <1>14, <1>15, <1>16, <1>17,
     <1>18, <1>19, <1>20, <1>21, <1>22, <1>23, <1>24, <1>25, <1>26
     DEF Next, Enqueue, Start, Worker, RetryMover, Keeper, Reap

\* Every variable keeps its type; in particular no payload ever counts more
\* than MaxRetries attempts, in any list of any replica.
THEOREM TypeCorrect == Spec => [](TypeOK /\ HeldOK)
<1> USE RedisqAssumption
<1>1. Init => TypeOK /\ HeldOK
  <2> SUFFICES ASSUME Init PROVE TypeOK /\ HeldOK
    OBVIOUS
  <2>1. <<>> \in Seq(Payloads) /\ <<>> \in Seq(Jobs)
    OBVIOUS
  <2>2. TypeOK
    BY <2>1 DEF Init, TypeOK, Owners
  <2> QED BY <2>2 DEF Init, HeldOK
<1>2. TypeOK /\ HeldOK /\ [Next]_vars => TypeOK'
  <2> SUFFICES ASSUME TypeOK, HeldOK, [Next]_vars PROVE TypeOK'
    OBVIOUS
  <2> USE DEF redis, workers, mover, keeper, history
  <2>1. ASSUME NEW j \in Jobs, NEW i \in Instances, NEW o \in Outcomes,
               EnqueueCheck(j, i, o)
        PROVE  TypeOK'
    BY <2>1 DEF EnqueueCheck, TypeOK, Redis
  <2>2. ASSUME NEW j \in Jobs, NEW i \in Instances, NEW o \in Outcomes,
               EnqueuePush(j, i, o)
        PROVE  TypeOK'
    <3> DEFINE x == [job |-> j, attempts |-> 0]
    <3>1. x \in Payloads
      BY DEF Payloads
    <3>2. LPush(pending, x) \in Seq(Payloads)
      BY <3>1, LPushHas DEF TypeOK
    <3> HIDE DEF x
    <3>3. pending' \in Seq(Payloads)
      BY <2>2, <3>2 DEF EnqueuePush, TypeOK, x
    <3>4. arrivals' \in Seq(Jobs)
      <4>1. Append(arrivals, j) \in Seq(Jobs)
        BY DEF TypeOK
      <4> QED BY <2>2, <4>1 DEF EnqueuePush, TypeOK
    <3>5. intake' \in [Jobs -> {"new", "accepted", "error"} \cup Instances]
      BY <2>2 DEF EnqueuePush, TypeOK
    <3> QED BY <2>2, <3>3, <3>4, <3>5 DEF EnqueuePush, TypeOK, Redis
  <2>3. ASSUME NEW i \in Instances, NEW o \in Outcomes, Register(i, o) PROVE TypeOK'
    BY <2>3 DEF Register, TypeOK, Redis, Owners
  <2>4. ASSUME NEW i \in Instances, NEW o \in Outcomes, LegacyScan(i, o) PROVE TypeOK'
    BY <2>4 DEF LegacyScan, TypeOK, Redis
  <2>5. ASSUME NEW i \in Instances, NEW o \in Outcomes, LegacyMark(i, o) PROVE TypeOK'
    BY <2>5 DEF LegacyMark, TypeOK, Redis, Owners
  <2>6. ASSUME NEW i \in Instances, NEW o \in Outcomes,
               RecoverOrphans(i, o) \/ FirstReap(i, o)
        PROVE  TypeOK'
    <3>1. CASE RecoverOrphans(i, o)
      BY <3>1 DEF RecoverOrphans, TypeOK, Redis
    <3>2. CASE FirstReap(i, o)
      BY <3>2 DEF FirstReap, TypeOK, Stale, Redis
    <3> QED BY <2>6, <3>1, <3>2
  <2>7. ASSUME NEW i \in Instances, Launch(i) PROVE TypeOK'
    BY <2>7 DEF Launch, TypeOK
  <2>8. ASSUME NEW p \in Procs, NEW o \in Outcomes, Claim(p, o) PROVE TypeOK'
    <3> DEFINE x == Last(pending)
    <3>1. Inst(p) \in Owners
      BY DEF Procs, Inst, Owners
    <3>2. x \in Payloads /\ Front(pending) \in Seq(Payloads)
      BY <2>8, FrontHas DEF Claim, TypeOK
    <3>3. LPush(processing[Inst(p)], x) \in Seq(Payloads)
      BY <3>1, <3>2, LPushHas DEF TypeOK
    <3>4. Claimed(Inst(p), x) \in [Owners -> Seq(Payloads)]
      BY <3>1, <3>3 DEF Claimed, LPush, TypeOK
    <3> HIDE DEF x
    <3>5. /\ pending' \in Seq(Payloads)
          /\ processing' \in [Owners -> Seq(Payloads)]
          /\ held' \in [Procs -> SUBSET Payloads]
          /\ taken' \subseteq Jobs
      BY <2>8, <3>2, <3>4 DEF Claim, TypeOK, x, Payloads
    <3>6. pc' \in [Procs -> {"gone", "poll", "handle", "bury", "retry", "ack"}]
      BY <2>8 DEF Claim, TypeOK, Rest
    <3> QED BY <2>8, <3>5, <3>6 DEF Claim, TypeOK, Redis
  <2>9. ASSUME NEW p \in Procs, Quit(p) PROVE TypeOK'
    BY <2>9 DEF Quit, TypeOK
  <2>10. ASSUME NEW p \in Procs, NEW x \in held[p], NEW d \in Dispositions,
                Handle(p, x, d)
         PROVE  TypeOK'
    <3>1. x \in Payloads /\ x.job \in Jobs
      BY DEF TypeOK, Payloads
    <3> QED BY <2>10, <3>1 DEF Handle, TypeOK
  <2>11. ASSUME NEW p \in Procs, NEW x \in held[p], NEW o \in Outcomes, Bury(p, x, o)
         PROVE  TypeOK'
    <3>1. x \in Payloads /\ x.job \in Jobs
      BY DEF TypeOK, Payloads
    <3> QED BY <2>11, <3>1 DEF Bury, TypeOK, Redis, Rest
  <2>12. ASSUME NEW p \in Procs, NEW x \in held[p], NEW o \in Outcomes,
                ScheduleRetry(p, x, o)
         PROVE  TypeOK'
    <3>1. x \in Payloads /\ MayRetry(x)
      BY <2>12 DEF ScheduleRetry, TypeOK, HeldOK
    <3>2. Retried(x) \in Payloads
      BY <3>1, RetriedType
    <3> QED BY <2>12, <3>2 DEF ScheduleRetry, TypeOK, Redis, Rest
  <2>13. ASSUME NEW p \in Procs, NEW x \in held[p], NEW o \in Outcomes, Ack(p, x, o)
         PROVE  TypeOK'
    <3>1. Inst(p) \in Owners
      BY DEF Procs, Inst, Owners
    <3>2. RemoveFirst(processing[Inst(p)], x) \in Seq(Payloads)
      BY <3>1, RemoveFirstHas DEF TypeOK
    <3>3. processing' \in [Owners -> Seq(Payloads)]
      BY <2>13, <3>1, <3>2 DEF Ack, TypeOK
    <3> QED BY <2>13, <3>3 DEF Ack, TypeOK, Redis, Rest
  <2>14. ASSUME NEW i \in Instances, NEW S \in SUBSET retry, MoverScan(i, S)
         PROVE  TypeOK'
    BY <2>14 DEF MoverScan, TypeOK
  <2>15. ASSUME NEW i \in Instances, NEW m \in due[i], NEW o \in Outcomes,
                MoverPush(i, m, o)
         PROVE  TypeOK'
    <3>1. m \in Payloads
      BY DEF TypeOK
    <3>2. pending' \in Seq(Payloads)
      BY <2>15, <3>1, LPushHas DEF MoverPush, TypeOK
    <3> QED BY <2>15, <3>1, <3>2 DEF MoverPush, TypeOK, Redis
  <2>16. ASSUME NEW i \in Instances, NEW m \in due[i], NEW o \in Outcomes,
                MoverRem(i, m, o)
         PROVE  TypeOK'
    BY <2>16 DEF MoverRem, ZRem, TypeOK, Redis
  <2>17. ASSUME NEW i \in Instances, NEW o \in Outcomes, Heartbeat(i, o) PROVE TypeOK'
    BY <2>17 DEF Heartbeat, TypeOK, Owners, Redis
  <2>18. ASSUME NEW i \in Instances, ReapScan(i) PROVE TypeOK'
    BY <2>18 DEF ReapScan, TypeOK, Stale
  <2>19. ASSUME NEW i \in Instances, NEW t \in sweep[i], NEW o \in Outcomes,
                ReapMove(i, t, o)
         PROVE  TypeOK'
    <3>1. t \in Owners
      BY DEF TypeOK
    <3>2. Last(processing[t]) \in Payloads /\ Front(processing[t]) \in Seq(Payloads)
      BY <2>19, <3>1, FrontHas DEF ReapMove, TypeOK
    <3>3. Append(pending, Last(processing[t])) \in Seq(Payloads)
      BY <3>2, AppendHas DEF TypeOK
    <3>4. pending' \in Seq(Payloads)
      BY <2>19, <3>3 DEF ReapMove, TypeOK
    <3>5. processing' \in [Owners -> Seq(Payloads)]
      BY <2>19, <3>1, <3>2 DEF ReapMove, TypeOK
    <3>6. /\ sweep' \in [Instances -> SUBSET Owners]
          /\ target' \in [Instances -> SUBSET Owners]
      <4>1. \/ target' = [target EXCEPT ![i] = {t}] /\ sweep' = sweep
            \/ SkipTarget(i, t)
        BY <2>19 DEF ReapMove
      <4>2. /\ sweep \in [Instances -> SUBSET Owners]
            /\ target \in [Instances -> SUBSET Owners]
        BY DEF TypeOK
      <4> QED BY <3>1, <4>1, <4>2 DEF SkipTarget
    <3>7. drained' \in [Instances -> BOOLEAN]
      BY <2>19 DEF ReapMove, SkipTarget, TypeOK
    <3> QED BY <2>19, <3>4, <3>5, <3>6, <3>7 DEF ReapMove, TypeOK, Redis
  <2>20. ASSUME NEW i \in Instances, NEW t \in sweep[i], NEW o \in Outcomes,
                ReapNil(i, t, o)
         PROVE  TypeOK'
    <3>1. \/ target' = [target EXCEPT ![i] = {t}] /\ sweep' = sweep
          \/ SkipTarget(i, t)
      BY <2>20 DEF ReapNil
    <3>2. /\ sweep' \in [Instances -> SUBSET Owners]
          /\ target' \in [Instances -> SUBSET Owners]
      <4>1. /\ sweep \in [Instances -> SUBSET Owners]
            /\ target \in [Instances -> SUBSET Owners]
            /\ t \in Owners
        BY DEF TypeOK
      <4> QED BY <3>1, <4>1 DEF SkipTarget
    <3>3. drained' \in [Instances -> BOOLEAN]
      BY <2>20 DEF ReapNil, SkipTarget, TypeOK
    <3> QED BY <2>20, <3>2, <3>3 DEF ReapNil, TypeOK, Redis
  <2>21. ASSUME NEW i \in Instances, NEW t \in sweep[i], NEW o \in Outcomes,
                Deregister(i, t, o)
         PROVE  TypeOK'
    BY <2>21 DEF Deregister, SkipTarget, TypeOK, Redis
  <2>22. ASSUME NEW i \in Instances, Close(i) PROVE TypeOK'
    BY <2>22 DEF Close, Forget, TypeOK
  <2>23. ASSUME NEW i \in Instances, Exit(i) PROVE TypeOK'
    BY <2>23 DEF Exit, Forget, TypeOK
  <2>24. ASSUME NEW t \in Owners, Expire(t) PROVE TypeOK'
    BY <2>24 DEF Expire, TypeOK
  <2>25. CASE UNCHANGED vars
    BY <2>25 DEF vars, TypeOK
  <2> QED
    BY <2>1, <2>2, <2>3, <2>4, <2>5, <2>6, <2>7, <2>8, <2>9, <2>10, <2>11, <2>12,
       <2>13, <2>14, <2>15, <2>16, <2>17, <2>18, <2>19, <2>20, <2>21, <2>22, <2>23,
       <2>24, <2>25
       DEF Next, Enqueue, Start, Worker, RetryMover, Keeper, Reap
<1> QED BY <1>1, <1>2, HeldStep, PTL DEF Spec
-----------------------------------------------------------------------------
(* No job is lost                                                           *)
(*                                                                          *)
(* NothingLost alone is not inductive: it does not say why LREM and ZREM    *)
(* are harmless.  HandoverSafe does.  A step keeps both if it removes       *)
(* nothing that no later payload replaces (Keeps) and takes on no           *)
(* obligation it has not met (Owes).                                        *)

Keeps ==
    /\ settled \subseteq settled'
    /\ \A z \in Payloads :
          /\ Ahead(z) => z.job \in settled' \/ Ahead(z)'
          /\ Queued(z) => z.job \in settled' \/ Queued(z)' \/ Ahead(z)'
          /\ Stored(z) => z.job \in settled' \/ Stored(z)' \/ Ahead(z)'

Owes ==
    /\ \A p \in Procs : \A x \in held'[p] :
          pc'[p] = "ack" => \/ x \in held[p] /\ pc[p] = "ack"
                            \/ x.job \in settled' \/ Ahead(x)'
    /\ \A i \in Instances : \A m \in pushed'[i] : m \in pushed[i] \/ Queued(m)'
    /\ \A j \in Jobs : intake'[j] = "accepted" =>
          intake[j] = "accepted" \/ \E x \in Payloads : x.job = j /\ Stored(x)'

\* A step that keeps every payload and owes nothing preserves the invariant.
LEMMA SafeStep ==
    ASSUME TypeOK, NothingLost, HandoverSafe, Keeps, Owes
    PROVE  NothingLost' /\ HandoverSafe'
<1>1. NothingLost'
  <2> SUFFICES ASSUME NEW j \in Jobs, intake'[j] = "accepted", j \notin settled'
               PROVE  \E x \in Payloads : x.job = j /\ Stored(x)'
    BY DEF NothingLost
  <2>1. CASE intake[j] = "accepted"
    <3>1. PICK z \in Payloads : z.job = j /\ Stored(z)
      BY <2>1 DEF NothingLost, Keeps
    <3> QED BY <3>1 DEF Keeps, Ahead
  <2> QED BY <2>1 DEF Owes
<1>2. ASSUME NEW p \in Procs, NEW x \in held'[p], pc'[p] = "ack"
      PROVE  x.job \in settled' \/ Ahead(x)'
  <2>1. CASE x \in held[p] /\ pc[p] = "ack"
    <3>1. x \in Payloads /\ (x.job \in settled \/ Ahead(x))
      BY <2>1 DEF HandoverSafe, TypeOK
    <3> QED BY <3>1 DEF Keeps
  <2> QED BY <1>2, <2>1 DEF Owes
<1>3. ASSUME NEW i \in Instances, NEW m \in pushed'[i]
      PROVE  m.job \in settled' \/ Queued(m)' \/ Ahead(m)'
  <2>1. CASE m \in pushed[i]
    <3>1. m \in Payloads /\ (m.job \in settled \/ Queued(m) \/ Ahead(m))
      BY <2>1 DEF HandoverSafe, TypeOK
    <3> QED BY <3>1 DEF Keeps
  <2> QED BY <1>3, <2>1 DEF Owes
<1> QED BY <1>1, <1>2, <1>3 DEF HandoverSafe

\* A step that removes no payload keeps all of them.
LEMMA KeepsAll ==
    ASSUME settled \subseteq settled', retry \subseteq retry',
           \A y \in Payloads : Queued(y) => Queued(y)'
    PROVE  Keeps
<1>1. \A y \in Payloads : Stored(y) => Stored(y)'
  BY DEF Stored
<1>2. \A z \in Payloads : Ahead(z) => Ahead(z)'
  BY <1>1 DEF Ahead
<1> QED BY <1>1, <1>2 DEF Keeps

\* A step that touches none of the three lists keeps all payloads.
LEMMA KeepsUnchanged ==
    ASSUME settled \subseteq settled', UNCHANGED <<pending, processing, retry>>
    PROVE  Keeps
<1>1. \A y \in Payloads : Queued(y) => Queued(y)'
  BY DEF Queued, Has
<1> QED BY <1>1, KeepsAll

\* The steps that move no payload and finish no job.
LEMMA QuietSteps ==
    ASSUME TypeOK
    PROVE  /\ \A j \in Jobs, i \in Instances, o \in Outcomes :
                 EnqueueCheck(j, i, o) => Keeps /\ Owes
           /\ \A i \in Instances :
                 Launch(i) \/ ReapScan(i) \/ Close(i) \/ Exit(i)
                 => Keeps /\ Owes
           /\ \A i \in Instances, o \in Outcomes :
                 Register(i, o) \/ LegacyScan(i, o) \/ LegacyMark(i, o)
                 \/ RecoverOrphans(i, o) \/ FirstReap(i, o) \/ Heartbeat(i, o)
                 => Keeps /\ Owes
           /\ \A p \in Procs : Quit(p) => Keeps /\ Owes
           /\ \A i \in Instances : \A S \in SUBSET retry :
                 MoverScan(i, S) => Keeps /\ Owes
           /\ \A i \in Instances : \A t \in sweep[i] : \A o \in Outcomes :
                 ReapNil(i, t, o) \/ Deregister(i, t, o)
                 => Keeps /\ Owes
           /\ \A t \in Owners : Expire(t) => Keeps /\ Owes
<1> USE DEF redis, workers, mover, keeper, history
<1>1. ASSUME UNCHANGED <<pending, processing, retry, settled>>,
             \A p \in Procs : held'[p] \subseteq held[p],
             \A p \in Procs : pc'[p] = "ack" => pc[p] = "ack",
             \A i \in Instances : pushed'[i] \subseteq pushed[i],
             \A j \in Jobs : intake'[j] = "accepted" => intake[j] = "accepted"
      PROVE  Keeps /\ Owes
  <2>1. Keeps
    BY <1>1, KeepsUnchanged
  <2>2. Owes
    BY <1>1 DEF Owes
  <2> QED BY <2>1, <2>2
<1>2. ASSUME NEW j \in Jobs, NEW i \in Instances, NEW o \in Outcomes,
             EnqueueCheck(j, i, o)
      PROVE  Keeps /\ Owes
  <2>1. \A k \in Jobs : intake'[k] = "accepted" => intake[k] = "accepted"
    BY <1>2, RedisqAssumption DEF EnqueueCheck, TypeOK
  <2> QED BY <1>2, <1>1, <2>1 DEF EnqueueCheck, TypeOK
<1>3. ASSUME NEW i \in Instances, NEW o \in Outcomes,
             Register(i, o)
       PROVE  Keeps /\ Owes
  BY <1>3, <1>1 DEF Register, TypeOK
<1>4. ASSUME NEW i \in Instances, NEW o \in Outcomes,
             LegacyScan(i, o)
       PROVE  Keeps /\ Owes
  BY <1>4, <1>1 DEF LegacyScan, TypeOK
<1>5. ASSUME NEW i \in Instances, NEW o \in Outcomes,
             LegacyMark(i, o)
       PROVE  Keeps /\ Owes
  BY <1>5, <1>1 DEF LegacyMark, TypeOK
<1>6. ASSUME NEW i \in Instances, NEW o \in Outcomes,
             RecoverOrphans(i, o) \/ FirstReap(i, o)
       PROVE  Keeps /\ Owes
  BY <1>6, <1>1 DEF RecoverOrphans, FirstReap, TypeOK
<1>7. ASSUME NEW i \in Instances, Launch(i) PROVE Keeps /\ Owes
  BY <1>7, <1>1 DEF Launch, TypeOK
<1>8. ASSUME NEW p \in Procs, Quit(p) PROVE Keeps /\ Owes
  BY <1>8, <1>1 DEF Quit, TypeOK
<1>9. ASSUME NEW i \in Instances, NEW S \in SUBSET retry,
             MoverScan(i, S)
       PROVE  Keeps /\ Owes
  BY <1>9, <1>1 DEF MoverScan, TypeOK
<1>10. ASSUME NEW i \in Instances, NEW o \in Outcomes,
             Heartbeat(i, o)
       PROVE  Keeps /\ Owes
  BY <1>10, <1>1 DEF Heartbeat, TypeOK
<1>11. ASSUME NEW i \in Instances, ReapScan(i) PROVE Keeps /\ Owes
  BY <1>11, <1>1 DEF ReapScan, TypeOK
<1>12. ASSUME NEW i \in Instances, NEW t \in sweep[i], NEW o \in Outcomes,
             ReapNil(i, t, o)
       PROVE  Keeps /\ Owes
  BY <1>12, <1>1 DEF ReapNil, TypeOK
<1>13. ASSUME NEW i \in Instances, NEW t \in sweep[i], NEW o \in Outcomes,
             Deregister(i, t, o)
       PROVE  Keeps /\ Owes
  BY <1>13, <1>1 DEF Deregister, TypeOK
<1>14. ASSUME NEW i \in Instances, Close(i) PROVE Keeps /\ Owes
  BY <1>14, <1>1 DEF Close, TypeOK, Forget
<1>15. ASSUME NEW i \in Instances, Exit(i) PROVE Keeps /\ Owes
  BY <1>15, <1>1 DEF Exit, TypeOK, Forget
<1>16. ASSUME NEW t \in Owners, Expire(t) PROVE Keeps /\ Owes
  BY <1>16, <1>1 DEF Expire, TypeOK
<1> QED BY <1>2, <1>3, <1>4, <1>5, <1>6, <1>7, <1>8, <1>9, <1>10, <1>11, <1>12, <1>13, <1>14, <1>15, <1>16

\* Every step keeps every payload, or a later one of its job, and owes nothing.
LEMMA StepKeeps ==
    ASSUME TypeOK, HeldOK, HandoverSafe, [Next]_vars
    PROVE  Keeps /\ Owes
<1> USE DEF redis, workers, mover, keeper, history
<1>1. ASSUME NEW j \in Jobs, NEW i \in Instances, NEW o \in Outcomes,
             EnqueuePush(j, i, o)
      PROVE  Keeps /\ Owes
  <2> DEFINE x == [job |-> j, attempts |-> 0]
  <2>1. x \in Payloads /\ x.job = j
    BY RedisqAssumption DEF Payloads
  <2>2. \A y : Has(pending, y) => Has(pending', y)
    BY <1>1, <2>1, LPushHas DEF EnqueuePush, TypeOK
  <2>3. o = "ok" => Has(pending', x)
    BY <1>1, <2>1, LPushHas DEF EnqueuePush, TypeOK, Applied
  <2> HIDE DEF x
  <2>4. UNCHANGED <<processing, retry, settled, pc, held, pushed>>
    BY <1>1 DEF EnqueuePush
  <2>5. Keeps
    BY <2>2, <2>4, KeepsAll DEF Queued
  <2>6. \A k \in Jobs : intake'[k] = "accepted" =>
           intake[k] = "accepted" \/ (k = j /\ o = "ok")
    BY <1>1 DEF EnqueuePush, TypeOK
  <2>7. o = "ok" => Stored(x)'
    BY <2>3 DEF Stored, Queued
  <2>8. Owes
    BY <2>1, <2>4, <2>6, <2>7 DEF Owes
  <2> QED BY <2>5, <2>8
<1>2. ASSUME NEW p \in Procs, NEW o \in Outcomes, Claim(p, o)
      PROVE  Keeps /\ Owes
  <2> DEFINE i == Inst(p)
             x == Last(pending)
  <2>1. i \in Owners
    BY DEF Procs, Inst, Owners
  <2>2. x \in Payloads /\ \A y : Has(pending, y) => y = x \/ Has(Front(pending), y)
    BY <1>2, FrontHas DEF Claim, TypeOK
  <2>3. /\ Has(LPush(processing[i], x), x)
        /\ \A y : Has(processing[i], y) => Has(LPush(processing[i], x), y)
    BY <2>1, <2>2, LPushHas DEF TypeOK
  <2> HIDE DEF x, i
  <2>4. \/ UNCHANGED <<pending, processing>>
        \/ /\ pending' = Front(pending)
           /\ processing' = [processing EXCEPT ![i] = LPush(processing[i], x)]
    BY <1>2 DEF Claim, Claimed, LPush, i, x
  <2>5. \A y \in Payloads : Queued(y) => Queued(y)'
    <3> SUFFICES ASSUME NEW y \in Payloads, Queued(y),
                        pending' = Front(pending),
                        processing' = [processing EXCEPT ![i] = LPush(processing[i], x)]
                 PROVE  Queued(y)'
      BY <2>4 DEF Queued
    <3>1. processing'[i] = LPush(processing[i], x)
          /\ \A k \in Owners : k # i => processing'[k] = processing[k]
      BY <2>1 DEF TypeOK
    <3>2. CASE Has(pending, y)
      BY <3>1, <3>2, <2>1, <2>2, <2>3 DEF Queued
    <3>3. ASSUME NEW k \in Owners, Has(processing[k], y) PROVE Queued(y)'
      BY <3>1, <3>3, <2>1, <2>3 DEF Queued
    <3> QED BY <3>2, <3>3 DEF Queued
  <2>6. UNCHANGED <<retry, settled, pushed, intake>>
    BY <1>2 DEF Claim
  <2>7. Keeps
    BY <2>5, <2>6, KeepsAll
  <2>8. \A q \in Procs : pc'[q] = "ack" => pc[q] = "ack" /\ held'[q] = held[q]
    BY <1>2 DEF Claim, TypeOK, Rest
  <2>9. Owes
    BY <2>6, <2>8 DEF Owes
  <2> QED BY <2>7, <2>9
<1>3. ASSUME NEW p \in Procs, NEW x \in held[p], NEW d \in Dispositions,
             Handle(p, x, d)
      PROVE  Keeps /\ Owes
  <2>1. Keeps
    BY <1>3, KeepsUnchanged DEF Handle
  <2>2. held[p] = {x}
    BY DEF HeldOK
  <2>3. pc'[p] = "ack" => x.job \in settled'
    BY <1>3 DEF Handle, TypeOK, Dispositions
  <2>4. UNCHANGED <<held, pushed, intake>> /\ \A q \in Procs \ {p} : pc'[q] = pc[q]
    BY <1>3 DEF Handle, TypeOK
  <2>5. Owes
    BY <2>2, <2>3, <2>4 DEF Owes
  <2> QED BY <2>1, <2>5
<1>4. ASSUME NEW p \in Procs, NEW x \in held[p], NEW o \in Outcomes, Bury(p, x, o)
      PROVE  Keeps /\ Owes
  <2>1. Keeps
    BY <1>4, KeepsUnchanged DEF Bury
  <2>2. held[p] = {x}
    BY DEF HeldOK
  <2>3. pc'[p] = "ack" => x.job \in settled'
    BY <1>4 DEF Bury, TypeOK, Rest, Applied
  <2>4. /\ UNCHANGED <<pushed, intake>>
        /\ \A q \in Procs \ {p} : pc'[q] = pc[q] /\ held'[q] = held[q]
        /\ held'[p] \subseteq held[p]
    BY <1>4 DEF Bury, TypeOK
  <2>5. Owes
    BY <2>2, <2>3, <2>4 DEF Owes
  <2> QED BY <2>1, <2>5
<1>5. ASSUME NEW p \in Procs, NEW x \in held[p], NEW o \in Outcomes,
             ScheduleRetry(p, x, o)
      PROVE  Keeps /\ Owes
  <2>1. UNCHANGED <<pending, processing, settled, pushed, intake>> /\ retry \subseteq retry'
    BY <1>5 DEF ScheduleRetry
  <2>2. \A y \in Payloads : Queued(y) => Queued(y)'
    BY <2>1 DEF Queued, Has
  <2>3. Keeps
    BY <2>1, <2>2, KeepsAll
  <2>4. held[p] = {x} /\ x \in Payloads /\ MayRetry(x)
    BY <1>5 DEF HeldOK, ScheduleRetry, TypeOK
  <2>5. pc'[p] = "ack" => Retried(x) \in retry'
    BY <1>5 DEF ScheduleRetry, TypeOK, Rest, Applied
  <2>6. pc'[p] = "ack" => Ahead(x)'
    <3> SUFFICES ASSUME pc'[p] = "ack" PROVE Ahead(x)'
      OBVIOUS
    <3>1. /\ Retried(x) \in Payloads /\ Retried(x).job = x.job
          /\ Retried(x).attempts = x.attempts + 1 /\ x.attempts \in Nat
      BY <2>4, RetriedType DEF Payloads
    <3>2. Stored(Retried(x))'
      BY <2>5 DEF Stored
    <3>3. Retried(x).attempts > x.attempts
      BY <3>1
    <3> QED BY <3>1, <3>2, <3>3 DEF Ahead
  <2>7. /\ \A q \in Procs \ {p} : pc'[q] = pc[q] /\ held'[q] = held[q]
        /\ held'[p] \subseteq held[p]
    BY <1>5 DEF ScheduleRetry, TypeOK
  <2>8. Owes
    BY <2>1, <2>4, <2>6, <2>7 DEF Owes
  <2> QED BY <2>3, <2>8
<1>6. ASSUME NEW p \in Procs, NEW x \in held[p], NEW o \in Outcomes, Ack(p, x, o)
      PROVE  Keeps /\ Owes
  <2> DEFINE i == Inst(p)
  <2>1. i \in Owners /\ x \in Payloads /\ pc[p] = "ack"
    BY <1>6 DEF Procs, Inst, Owners, Ack, TypeOK
  <2>2. x.job \in settled \/ Ahead(x)
    BY <2>1 DEF HandoverSafe
  <2>3. \A y : Has(processing[i], y) /\ y # x => Has(RemoveFirst(processing[i], x), y)
    BY <2>1, RemoveFirstHas DEF TypeOK
  <2> HIDE DEF i
  <2>4. \/ UNCHANGED processing
        \/ processing' = [processing EXCEPT ![i] = RemoveFirst(processing[i], x)]
    BY <1>6 DEF Ack, i
  <2>5. UNCHANGED <<pending, retry, settled, pushed, intake>>
    BY <1>6 DEF Ack
  <2>6. \A y \in Payloads : y # x /\ Queued(y) => Queued(y)'
    <3> SUFFICES ASSUME NEW y \in Payloads, y # x, NEW k \in Owners,
                        Has(processing[k], y)
                 PROVE  Has(processing'[k], y)
      BY <2>5 DEF Queued
    <3>1. CASE UNCHANGED processing
      BY <3>1
    <3>2. CASE processing' = [processing EXCEPT ![i] = RemoveFirst(processing[i], x)]
      <4>1. /\ processing'[i] = RemoveFirst(processing[i], x)
            /\ k # i => processing'[k] = processing[k]
        BY <3>2, <2>1 DEF TypeOK
      <4> QED BY <4>1, <2>3
    <3> QED BY <3>1, <3>2, <2>4
  <2>7. \A y \in Payloads : y # x /\ Stored(y) => Stored(y)'
    BY <2>5, <2>6 DEF Stored
  <2>8. x.job \in settled' \/ Ahead(x)'
    <3> SUFFICES ASSUME Ahead(x) PROVE Ahead(x)'
      BY <2>2, <2>5
    <3>1. PICK y \in Payloads : y.job = x.job /\ y.attempts > x.attempts /\ Stored(y)
      BY DEF Ahead
    <3>2. y # x
      BY <3>1, <2>1 DEF Payloads
    <3> QED BY <3>1, <3>2, <2>7 DEF Ahead
  <2>9. \A z \in Payloads : Ahead(z) => z.job \in settled' \/ Ahead(z)'
    <3> SUFFICES ASSUME NEW z \in Payloads, Ahead(z), z.job \notin settled'
                 PROVE  Ahead(z)'
      OBVIOUS
    <3>1. PICK y \in Payloads : y.job = z.job /\ y.attempts > z.attempts /\ Stored(y)
      BY DEF Ahead
    <3>2. CASE y # x
      BY <3>1, <3>2, <2>7 DEF Ahead
    <3>3. CASE y = x
      <4>1. PICK w \in Payloads : w.job = x.job /\ w.attempts > x.attempts /\ Stored(w)'
        BY <3>1, <3>3, <2>8 DEF Ahead
      <4>2. w.attempts > z.attempts
        BY <4>1, <3>1, <3>3, RedisqAssumption DEF Payloads
      <4> QED BY <4>1, <4>2, <3>1, <3>3 DEF Ahead
    <3> QED BY <3>2, <3>3
  <2>10. Keeps
    BY <2>5, <2>6, <2>7, <2>8, <2>9 DEF Keeps
  <2>11. \A q \in Procs : pc'[q] = "ack" => pc[q] = "ack" /\ held'[q] \subseteq held[q]
    BY <1>6 DEF Ack, TypeOK, Rest
  <2>12. Owes
    BY <2>5, <2>11 DEF Owes
  <2> QED BY <2>10, <2>12
<1>7. ASSUME NEW i \in Instances, NEW m \in due[i], NEW o \in Outcomes,
             MoverPush(i, m, o)
      PROVE  Keeps /\ Owes
  <2>1. m \in Payloads
    BY DEF TypeOK
  <2>2. \A y : Has(pending, y) => Has(pending', y)
    BY <1>7, <2>1, LPushHas DEF MoverPush, TypeOK
  <2>3. o = "ok" => Has(pending', m)
    BY <1>7, <2>1, LPushHas DEF MoverPush, TypeOK, Applied
  <2>4. UNCHANGED <<processing, retry, settled, pc, held, intake>>
    BY <1>7 DEF MoverPush
  <2>5. Keeps
    BY <2>2, <2>4, KeepsAll DEF Queued
  <2>6. \A k \in Instances : \A n \in pushed'[k] :
           n \in pushed[k] \/ (n = m /\ o = "ok")
    BY <1>7 DEF MoverPush, TypeOK
  <2>7. o = "ok" => Queued(m)'
    BY <2>3 DEF Queued
  <2>8. Owes
    BY <2>4, <2>6, <2>7 DEF Owes
  <2> QED BY <2>5, <2>8
<1>8. ASSUME NEW i \in Instances, NEW m \in due[i], NEW o \in Outcomes,
             MoverRem(i, m, o)
      PROVE  Keeps /\ Owes
  <2>1. m \in Payloads /\ (m.job \in settled \/ Queued(m) \/ Ahead(m))
    BY <1>8 DEF MoverRem, HandoverSafe, TypeOK
  <2>2. /\ UNCHANGED <<pending, processing, settled, pc, held, intake>>
        /\ \A y \in retry : y # m => y \in retry'
        /\ \A k \in Instances : pushed'[k] \subseteq pushed[k]
    BY <1>8 DEF MoverRem, ZRem, TypeOK
  <2>3. \A y \in Payloads : Queued(y) => Queued(y)'
    BY <2>2 DEF Queued, Has
  <2>4. \A y \in Payloads : y # m /\ Stored(y) => Stored(y)'
    BY <2>2, <2>3 DEF Stored
  <2>5. Ahead(m) => Ahead(m)'
    <3> SUFFICES ASSUME Ahead(m) PROVE Ahead(m)'
      OBVIOUS
    <3>1. PICK y \in Payloads : y.job = m.job /\ y.attempts > m.attempts /\ Stored(y)
      BY DEF Ahead
    <3>2. y # m
      BY <3>1, <2>1 DEF Payloads
    <3> QED BY <3>1, <3>2, <2>4 DEF Ahead
  <2>6. m.job \in settled' \/ Stored(m)' \/ Ahead(m)'
    BY <2>1, <2>2, <2>3, <2>5 DEF Stored
  <2>7. \A z \in Payloads : Ahead(z) => z.job \in settled' \/ Ahead(z)'
    <3> SUFFICES ASSUME NEW z \in Payloads, Ahead(z), z.job \notin settled'
                 PROVE  Ahead(z)'
      OBVIOUS
    <3>1. PICK y \in Payloads : y.job = z.job /\ y.attempts > z.attempts /\ Stored(y)
      BY DEF Ahead
    <3>2. CASE y # m \/ Stored(m)'
      BY <3>1, <3>2, <2>4 DEF Ahead
    <3>3. CASE y = m /\ ~ Stored(m)'
      <4>1. PICK w \in Payloads : w.job = m.job /\ w.attempts > m.attempts /\ Stored(w)'
        BY <3>1, <3>3, <2>6 DEF Ahead
      <4>2. w.attempts > z.attempts
        BY <4>1, <3>1, <3>3, RedisqAssumption DEF Payloads
      <4> QED BY <4>1, <4>2, <3>1, <3>3 DEF Ahead
    <3> QED BY <3>2, <3>3
  <2>8. Keeps
    BY <2>1, <2>2, <2>3, <2>4, <2>6, <2>7 DEF Keeps
  <2>9. Owes
    BY <2>2 DEF Owes
  <2> QED BY <2>8, <2>9
<1>9. ASSUME NEW i \in Instances, NEW t \in sweep[i], NEW o \in Outcomes,
             ReapMove(i, t, o)
      PROVE  Keeps /\ Owes
  <2> DEFINE x == Last(processing[t])
  <2>1. t \in Owners
    BY DEF TypeOK
  <2>2. /\ x \in Payloads
        /\ \A y : Has(processing[t], y) => y = x \/ Has(Front(processing[t]), y)
    BY <1>9, <2>1, FrontHas DEF ReapMove, TypeOK
  <2>3. Has(Append(pending, x), x) /\ \A y : Has(pending, y) => Has(Append(pending, x), y)
    BY <2>2, AppendHas DEF TypeOK
  <2> HIDE DEF x
  <2>4. \/ UNCHANGED <<pending, processing>>
        \/ /\ pending' = Append(pending, x)
           /\ processing' = [processing EXCEPT ![t] = Front(processing[t])]
    BY <1>9 DEF ReapMove, x
  <2>5. \A y \in Payloads : Queued(y) => Queued(y)'
    <3> SUFFICES ASSUME NEW y \in Payloads, Queued(y),
                        pending' = Append(pending, x),
                        processing' = [processing EXCEPT ![t] = Front(processing[t])]
                 PROVE  Queued(y)'
      BY <2>4 DEF Queued
    <3>1. processing'[t] = Front(processing[t])
          /\ \A k \in Owners : k # t => processing'[k] = processing[k]
      BY <2>1 DEF TypeOK
    <3>2. CASE Has(pending, y)
      BY <3>2, <2>3 DEF Queued
    <3>3. ASSUME NEW k \in Owners, Has(processing[k], y) PROVE Queued(y)'
      BY <3>1, <3>3, <2>1, <2>2, <2>3 DEF Queued
    <3> QED BY <3>2, <3>3 DEF Queued
  <2>6. UNCHANGED <<retry, settled, pc, held, pushed, intake>>
    BY <1>9 DEF ReapMove
  <2>7. Keeps
    BY <2>5, <2>6, KeepsAll
  <2>8. Owes
    BY <2>6 DEF Owes
  <2> QED BY <2>7, <2>8
<1>10. CASE UNCHANGED vars
  <2>1. UNCHANGED <<pending, processing, retry, settled, pc, held, pushed, intake>>
    BY <1>10 DEF vars
  <2>2. Keeps
    BY <2>1, KeepsUnchanged
  <2>3. Owes
    BY <2>1 DEF Owes
  <2> QED BY <2>2, <2>3
<1> QED
  BY <1>1, <1>2, <1>3, <1>4, <1>5, <1>6, <1>7, <1>8, <1>9, <1>10, QuietSteps
     DEF Next, Enqueue, Start, Worker, RetryMover, Keeper, Reap

\* Close's contract, for all parameters and all failures: see NothingLost.
THEOREM JobsNeverLost == Spec => [](NothingLost /\ HandoverSafe)
<1>1. Init => NothingLost /\ HandoverSafe
  <2> SUFFICES ASSUME Init PROVE NothingLost /\ HandoverSafe
    OBVIOUS
  <2>1. HandoverSafe
    BY DEF Init, HandoverSafe
  <2>2. ASSUME NEW j \in Jobs, intake[j] = "accepted"
        PROVE  \E x \in Payloads : x.job = j /\ Stored(x)
    <3>1. PICK k \in DOMAIN Left : Left[k].job = j
      BY <2>2 DEF Init
    <3>2. Left[k] \in Payloads
      BY RedisqAssumption
    <3>3. Legacy \in Owners /\ processing[Legacy] = Left
      BY DEF Init, Owners
    <3>4. Has(processing[Legacy], Left[k])
      BY <3>3 DEF Has
    <3> QED BY <3>1, <3>2, <3>3, <3>4 DEF Stored, Queued
  <2> QED BY <2>1, <2>2 DEF NothingLost
<1>2. TypeOK /\ HeldOK /\ NothingLost /\ HandoverSafe /\ [Next]_vars
      => NothingLost' /\ HandoverSafe'
  BY StepKeeps, SafeStep
<1> QED BY <1>1, <1>2, TypeCorrect, PTL DEF Spec

\* What the deletions of process and retryMover rely on: an LREM or a ZREM
\* never removes the last payload of a job that is not settled.
THEOREM HandoversSafe == Spec => []HandoverSafe
<1>1. NothingLost /\ HandoverSafe => HandoverSafe
  OBVIOUS
<1> QED BY <1>1, JobsNeverLost, PTL

-----------------------------------------------------------------------------
(* "A Redis LIST with LPUSH + LMOVE tail preserves arrival order", for the  *)
(* whole fleet: first claims follow arrivals whatever the number of         *)
(* replicas and jobs, although reclaimed payloads enter the list at the     *)
(* claiming end and retried ones at the other, and replicas crash, stall    *)
(* and lose answers meanwhile.                                              *)

Arrived == {arrivals[a] : a \in DOMAIN arrivals}
LeftJobs == {Left[k].job : k \in DOMAIN Left}

\* Jobs that were claimed once, by this version or by the one before it.
Known == taken \cup LeftJobs

\* An arrival is one of an Enqueue that has ended, and of none that an older
\* version had taken; whatever was taken or is pending has arrived or is known.
Accounted ==
    /\ \A j \in LeftJobs : intake[j] = "accepted" /\ j \notin Arrived
    /\ \A j \in Arrived : intake[j] \in {"accepted", "error"}
    /\ taken \subseteq Arrived \cup LeftJobs
    /\ \A k \in DOMAIN pending : pending[k].job \in Known \cup Arrived

\* Only known jobs are anywhere else.
Elsewhere ==
    /\ \A i \in Owners, x \in Payloads : Has(processing[i], x) => x.job \in Known
    /\ \A x \in retry : x.job \in Known
    /\ \A p \in Procs : \A x \in held[p] : x.job \in Known
    /\ \A i \in Instances : \A x \in due[i] \cup pushed[i] : x.job \in Known

\* A job that was never taken waits in pending ...
InLine == \A j \in Arrived \ taken : \E k \in DOMAIN pending : pending[k].job = j

\* ... once, and nearer to the claiming end than what arrived later.
InTurn ==
    \A k, l \in DOMAIN pending : \A a, b \in DOMAIN arrivals :
        /\ k < l
        /\ pending[k].job = arrivals[a] /\ arrivals[a] \notin taken
        /\ pending[l].job = arrivals[b] /\ arrivals[b] \notin taken
        => b < a

OrderInv == Accounted /\ Elsewhere /\ InLine /\ InTurn /\ FirstClaimsInOrder

-----------------------------------------------------------------------------
(* Lists, element by element.                                               *)

\* LPUSH puts its argument first and moves the others up by one.
LEMMA LPushAt ==
    ASSUME NEW S, NEW q \in Seq(S), NEW x \in S
    PROVE  /\ DOMAIN LPush(q, x) = 1..(Len(q) + 1)
           /\ LPush(q, x)[1] = x
           /\ \A k \in 1..Len(q) : LPush(q, x)[k + 1] = q[k]
<1> DEFINE r == <<x>> \o q
<1>1. /\ r \in Seq(S) /\ Len(r) = Len(q) + 1 /\ r[1] = x
      /\ \A k \in 1..Len(q) : r[k + 1] = q[k]
  OBVIOUS
<1> QED BY <1>1 DEF LPush

\* LREM and LMOVE only take away.
LEMMA FrontOf ==
    ASSUME NEW S, NEW q \in Seq(S), q # <<>>
    PROVE  /\ Len(q) \in Nat \ {0}
           /\ Last(q) = q[Len(q)]
           /\ DOMAIN Front(q) = 1..(Len(q) - 1)
           /\ \A k \in 1..(Len(q) - 1) : Front(q)[k] = q[k]
           /\ \A y : Has(Front(q), y) => Has(q, y)
<1>1. Len(q) \in Nat \ {0} /\ DOMAIN q = 1..Len(q)
  OBVIOUS
<1> DEFINE r == SubSeq(q, 1, Len(q) - 1)
<1>2. /\ Len(r) = Len(q) - 1 /\ r \in Seq(S)
      /\ \A k \in 1..(Len(q) - 1) : r[k] = q[k]
  BY <1>1
<1>3. DOMAIN r = 1..(Len(q) - 1)
  BY <1>2
<1> QED BY <1>1, <1>2, <1>3 DEF Front, Last, Has

LEMMA RemoveFirstOf ==
    ASSUME NEW S, NEW q \in Seq(S), NEW x, NEW y, Has(RemoveFirst(q, x), y)
    PROVE  Has(q, y)
<1>1. CASE ~ \E k \in 1..Len(q) : q[k] = x
  BY <1>1 DEF RemoveFirst
<1>2. CASE \E k \in 1..Len(q) : q[k] = x
  <2> DEFINE I == {k \in 1..Len(q) : q[k] = x}
             n == Min(I)
             a == SubSeq(q, 1, n - 1)
             b == SubSeq(q, n + 1, Len(q))
             r == a \o b
  <2>1. RemoveFirst(q, x) = r
    BY <1>2 DEF RemoveFirst, RemoveAt, SelectInSeq
  <2>2. n \in 1..Len(q)
    <3>1. I \in SUBSET Nat /\ I # {}
      BY <1>2
    <3> QED BY <3>1, MinIsElement
  <2> HIDE DEF n
  <2>3. /\ a \in Seq(S) /\ Len(a) = n - 1
        /\ \A k \in 1..(n - 1) : a[k] = q[k]
    BY <2>2
  <2>4. /\ b \in Seq(S) /\ Len(b) = Len(q) - n
        /\ \A k \in 1..(Len(q) - n) : b[k] = q[k + n]
    BY <2>2
  <2> HIDE DEF a, b
  <2>5. Len(a) \in Nat /\ Len(b) \in Nat /\ DOMAIN q = 1..Len(q)
    BY <2>3, <2>4
  <2>6. /\ r \in Seq(S) /\ Len(r) = Len(a) + Len(b)
        /\ \A k \in 1..(Len(a) + Len(b)) :
              r[k] = IF k <= Len(a) THEN a[k] ELSE b[k - Len(a)]
    BY <2>3, <2>4, ConcatProperties
  <2>7. PICK k \in DOMAIN r : r[k] = y
    BY <2>1 DEF Has
  <2>8. k \in 1..(Len(a) + Len(b))
    BY <2>6, <2>7
  <2>9. CASE k <= Len(a)
    <3>1. k \in 1..(n - 1) /\ k \in DOMAIN q /\ y = q[k]
      BY <2>2, <2>3, <2>5, <2>6, <2>7, <2>8, <2>9
    <3> QED BY <3>1 DEF Has
  <2>10. CASE ~ (k <= Len(a))
    <3> DEFINE l == k - Len(a)
    <3>1. l \in 1..(Len(q) - n) /\ l + n \in DOMAIN q
      BY <2>2, <2>3, <2>4, <2>5, <2>8, <2>10
    <3>2. y = q[l + n]
      BY <3>1, <2>4, <2>6, <2>7, <2>8, <2>10
    <3> QED BY <3>1, <3>2 DEF Has
  <2> QED BY <2>9, <2>10
<1> QED BY <1>1, <1>2

LEMMA LeftJobsType == LeftJobs \subseteq Jobs
<1>1. Left \in Seq(Payloads)
  BY RedisqAssumption
<1>2. ASSUME NEW k \in DOMAIN Left PROVE Left[k].job \in Jobs
  <2>1. Left[k] \in Payloads
    BY <1>1
  <2> QED BY <2>1 DEF Payloads
<1> QED BY <1>2 DEF LeftJobs

-----------------------------------------------------------------------------
(* The four steps that change pending.                                      *)

\* A new job goes to the far end, behind every job that waits.
LEMMA PushKeepsOrder ==
    ASSUME TypeOK, OrderInv, NEW j \in Jobs, NEW i \in Instances, NEW o \in Outcomes,
           EnqueuePush(j, i, o)
    PROVE  OrderInv'
<1> DEFINE x == [job |-> j, attempts |-> 0]
<1> USE DEF redis, workers, mover, keeper, history
<1>1. UNCHANGED <<taken, processing, retry, held, due, pushed>> /\ intake[j] = i
  BY DEF EnqueuePush
<1>2. /\ i \notin {"accepted", "error"}
      /\ intake'[j] \in {"accepted", "error"}
  BY RedisqAssumption DEF EnqueuePush, TypeOK
<1>3. j \notin Arrived /\ j \notin LeftJobs /\ j \notin taken
  BY <1>1, <1>2 DEF OrderInv, Accounted
<1>4. \A k \in Jobs \ {j} : intake'[k] = intake[k]
  BY DEF EnqueuePush, TypeOK
<1>5. Elsewhere'
  BY <1>1 DEF OrderInv, Elsewhere, Known, LeftJobs
<1>6. \A k \in LeftJobs : k \in Jobs
  BY LeftJobsType
<1>7. Arrived \subseteq Jobs
  BY DEF Arrived, TypeOK
<1>8. CASE ~ Applied(o)
  <2>1. UNCHANGED <<pending, arrivals>>
    BY <1>8 DEF EnqueuePush
  <2>2. Accounted'
    BY <1>1, <1>3, <1>4, <1>6, <1>7, <2>1 DEF OrderInv, Accounted, Arrived, LeftJobs, Known
  <2> QED BY <1>1, <1>5, <2>1, <2>2
          DEF OrderInv, InLine, InTurn, FirstClaimsInOrder, Arrived
<1>9. CASE Applied(o)
  <2>1. pending' = LPush(pending, x) /\ arrivals' = Append(arrivals, j)
    BY <1>9 DEF EnqueuePush
  <2>2. x \in Payloads /\ x.job = j
    BY RedisqAssumption DEF Payloads
  <2> HIDE DEF x
  <2> DEFINE n == Len(pending)
             m == Len(arrivals)
  <2>3. n \in Nat /\ m \in Nat /\ DOMAIN pending = 1..n /\ DOMAIN arrivals = 1..m
    BY DEF TypeOK
  <2>4. /\ DOMAIN pending' = 1..(n + 1) /\ pending'[1] = x
        /\ \A k \in 1..n : pending'[k + 1] = pending[k]
    BY <2>1, <2>2, LPushAt DEF TypeOK
  <2>5. /\ DOMAIN arrivals' = 1..(m + 1) /\ arrivals'[m + 1] = j
        /\ \A k \in 1..m : arrivals'[k] = arrivals[k]
    BY <2>1 DEF TypeOK
  <2> HIDE DEF n, m
  <2>6. Arrived' = Arrived \cup {j}
    <3>1. ASSUME NEW a \in DOMAIN arrivals' PROVE arrivals'[a] \in Arrived \cup {j}
      BY <2>3, <2>5 DEF Arrived
    <3>2. ASSUME NEW a \in DOMAIN arrivals PROVE arrivals[a] \in Arrived'
      <4>1. a \in DOMAIN arrivals' /\ arrivals'[a] = arrivals[a]
        BY <2>3, <2>5
      <4> QED BY <4>1 DEF Arrived
    <3>3. j \in Arrived'
      <4>1. m + 1 \in DOMAIN arrivals'
        BY <2>3, <2>5
      <4> QED BY <4>1, <2>5 DEF Arrived
    <3> QED BY <3>1, <3>2, <3>3 DEF Arrived
  <2>7. \A k \in DOMAIN pending' : k = 1 \/ (k - 1 \in 1..n /\ pending'[k] = pending[k - 1])
    BY <2>3, <2>4
  <2>8. Accounted'
    <3>1. \A k \in LeftJobs : intake'[k] = "accepted" /\ k \notin Arrived'
      BY <1>3, <1>4, <1>6, <2>6 DEF OrderInv, Accounted
    <3>2. \A k \in Arrived' : intake'[k] \in {"accepted", "error"}
      BY <1>2, <1>4, <1>7, <2>6 DEF OrderInv, Accounted
    <3>3. \A k \in DOMAIN pending' : pending'[k].job \in (Known \cup Arrived)'
      BY <1>1, <2>2, <2>3, <2>4, <2>6, <2>7 DEF OrderInv, Accounted, Known, LeftJobs
    <3> QED BY <1>1, <2>6, <3>1, <3>2, <3>3 DEF OrderInv, Accounted, LeftJobs
  <2>9. InLine'
    <3> SUFFICES ASSUME NEW k \in Arrived' \ taken'
                 PROVE  \E l \in DOMAIN pending' : pending'[l].job = k
      BY DEF InLine
    <3>1. CASE k = j
      <4>1. 1 \in DOMAIN pending'
        BY <2>3, <2>4
      <4> QED BY <4>1, <3>1, <2>2, <2>4
    <3>2. CASE k # j
      <4>1. PICK l \in DOMAIN pending : pending[l].job = k
        BY <3>2, <1>1, <2>6 DEF OrderInv, InLine
      <4>2. l + 1 \in DOMAIN pending' /\ pending'[l + 1] = pending[l]
        BY <2>3, <2>4
      <4> QED BY <4>1, <4>2
    <3> QED BY <3>1, <3>2
  <2>10. InTurn'
    <3> SUFFICES ASSUME NEW k \in DOMAIN pending', NEW l \in DOMAIN pending',
                        NEW a \in DOMAIN arrivals', NEW b \in DOMAIN arrivals',
                        k < l,
                        pending'[k].job = arrivals'[a], arrivals'[a] \notin taken',
                        pending'[l].job = arrivals'[b], arrivals'[b] \notin taken'
                 PROVE  b < a
      BY DEF InTurn
    <3>1. l - 1 \in DOMAIN pending /\ pending'[l] = pending[l - 1]
      BY <2>3, <2>4, <2>7
    <3>2. pending'[l].job # j
      BY <3>1, <1>3 DEF OrderInv, Accounted, Known
    <3>3. b \in DOMAIN arrivals /\ arrivals'[b] = arrivals[b]
      BY <3>2, <2>3, <2>5
    <3>4. CASE k = 1
      <4>1. a = m + 1
        <5>1. a \in DOMAIN arrivals => arrivals'[a] \in Arrived
          BY <2>3, <2>5 DEF Arrived
        <5> QED BY <3>4, <5>1, <1>3, <2>2, <2>3, <2>4, <2>5
      <4> QED BY <4>1, <3>3, <2>3
    <3>5. CASE k # 1
      <4>1. k - 1 \in DOMAIN pending /\ pending'[k] = pending[k - 1]
        BY <3>5, <2>3, <2>7
      <4>2. pending'[k].job # j
        BY <4>1, <1>3 DEF OrderInv, Accounted, Known
      <4>3. a \in DOMAIN arrivals /\ arrivals'[a] = arrivals[a]
        BY <4>2, <2>3, <2>5
      <4>4. k - 1 < l - 1
        BY <2>3, <2>4
      <4> QED BY <4>1, <4>3, <4>4, <3>1, <3>3, <1>1 DEF OrderInv, InTurn
    <3> QED BY <3>4, <3>5
  <2>11. FirstClaimsInOrder'
    <3> SUFFICES ASSUME NEW a \in DOMAIN arrivals', NEW b \in DOMAIN arrivals',
                        a < b, arrivals'[b] \in taken'
                 PROVE  arrivals'[a] \in taken'
      BY DEF FirstClaimsInOrder
    <3>1. b \in DOMAIN arrivals /\ a \in DOMAIN arrivals
      BY <1>1, <1>3, <2>3, <2>5
    <3> QED BY <3>1, <1>1, <2>3, <2>5 DEF OrderInv, FirstClaimsInOrder
  <2> QED BY <1>5, <2>8, <2>9, <2>10, <2>11 DEF OrderInv
<1> QED BY <1>8, <1>9

\* The claiming end gives out the oldest job that waits, or a known one.
LEMMA ClaimKeepsOrder ==
    ASSUME TypeOK, OrderInv, NEW p \in Procs, NEW o \in Outcomes, Claim(p, o)
    PROVE  OrderInv'
<1> DEFINE x == Last(pending)
           n == Len(pending)
<1> USE DEF redis, workers, mover, keeper, history
<1>1. UNCHANGED <<intake, arrivals, retry, due, pushed>> /\ pending # <<>>
  BY DEF Claim
<1>2. /\ n \in Nat \ {0} /\ DOMAIN pending = 1..n /\ x = pending[n] /\ x \in Payloads
      /\ DOMAIN Front(pending) = 1..(n - 1)
      /\ \A k \in 1..(n - 1) : Front(pending)[k] = pending[k]
  <2>1. pending \in Seq(Payloads)
    BY DEF TypeOK
  <2> QED BY <2>1, <1>1, FrontOf, FrontHas
<1>3. \A q \in Procs : held'[q] \subseteq held[q] \/ (o = "ok" /\ held'[q] = {x})
  BY DEF Claim, TypeOK
<1>4. CASE ~ Applied(o)
  <2>1. UNCHANGED <<pending, processing, taken>> /\ o # "ok"
    BY <1>4 DEF Claim, Applied
  <2>2. Elsewhere'
    BY <1>1, <1>3, <2>1 DEF OrderInv, Elsewhere, Known, LeftJobs
  <2> QED BY <1>1, <2>1, <2>2
          DEF OrderInv, Accounted, InLine, InTurn, FirstClaimsInOrder, Arrived, Known, LeftJobs
<1>5. CASE Applied(o)
  <2>1. /\ pending' = Front(pending) /\ processing' = Claimed(Inst(p), x)
        /\ taken' = taken \cup {x.job}
    BY <1>5 DEF Claim
  <2> HIDE DEF x, n
  <2>2. Known' = Known \cup {x.job} /\ Arrived' = Arrived /\ LeftJobs' = LeftJobs
    BY <1>1, <2>1 DEF Known, Arrived, LeftJobs
  <2>3. x.job \in Known \cup Arrived
    BY <1>2 DEF OrderInv, Accounted
  <2>4. \A k \in DOMAIN pending' : /\ k \in DOMAIN pending /\ k \in 1..(n - 1)
                                  /\ pending'[k] = pending[k]
    BY <1>2, <2>1
  <2>5. Accounted'
    BY <1>1, <2>1, <2>2, <2>3, <2>4 DEF OrderInv, Accounted, Known
  <2>6. Elsewhere'
    <3>1. ASSUME NEW i \in Owners, NEW y \in Payloads, Has(processing'[i], y)
          PROVE  y.job \in Known'
      <4>1. Inst(p) \in Owners
        BY DEF Procs, Inst, Owners
      <4>2. CASE i # Inst(p)
        <5>1. processing'[i] = processing[i]
          BY <4>2, <2>1 DEF Claimed, TypeOK
        <5> QED BY <5>1, <3>1, <2>2 DEF OrderInv, Elsewhere
      <4>3. CASE i = Inst(p)
        <5> DEFINE q == processing[i]
        <5>1. processing'[i] = LPush(q, x) /\ q \in Seq(Payloads)
          BY <4>1, <4>3, <2>1 DEF Claimed, TypeOK, LPush
        <5>2. /\ DOMAIN LPush(q, x) = 1..(Len(q) + 1) /\ LPush(q, x)[1] = x
              /\ \A k \in 1..Len(q) : LPush(q, x)[k + 1] = q[k]
              /\ Len(q) \in Nat /\ DOMAIN q = 1..Len(q)
          BY <5>1, <1>2, LPushAt
        <5>3. PICK k \in DOMAIN LPush(q, x) : LPush(q, x)[k] = y
          BY <5>1, <3>1 DEF Has
        <5> HIDE DEF q
        <5>4. k = 1 \/ (k - 1 \in DOMAIN q /\ q[k - 1] = y)
          <6> DEFINE l == k - 1
          <6>1. k = 1 \/ (l \in 1..Len(q) /\ l + 1 = k)
            BY <5>2, <5>3
          <6> HIDE DEF l
          <6>2. k = 1 \/ q[l] = y
            BY <6>1, <5>2, <5>3
          <6> QED BY <6>1, <6>2, <5>2 DEF l
        <5>5. y = x \/ Has(q, y)
          BY <5>2, <5>3, <5>4 DEF Has
        <5> QED BY <5>5, <2>2 DEF OrderInv, Elsewhere, q
      <4> QED BY <4>2, <4>3
    <3>2. \A q \in Procs : \A y \in held'[q] : y.job \in Known'
      BY <1>3, <2>2 DEF OrderInv, Elsewhere, x
    <3> QED BY <1>1, <2>2, <3>1, <3>2 DEF OrderInv, Elsewhere
  <2>7. InLine'
    <3> SUFFICES ASSUME NEW j \in Arrived' \ taken'
                 PROVE  \E k \in DOMAIN pending' : pending'[k].job = j
      BY DEF InLine
    <3>1. j \in Arrived \ taken /\ j # x.job
      BY <2>1, <2>2
    <3>2. PICK k \in DOMAIN pending : pending[k].job = j
      BY <3>1 DEF OrderInv, InLine
    <3>3. k \in DOMAIN pending' /\ pending'[k] = pending[k]
      BY <3>1, <3>2, <1>2, <2>1
    <3> QED BY <3>2, <3>3
  <2>8. InTurn'
    BY <1>1, <2>1, <2>4 DEF OrderInv, InTurn
  <2>9. FirstClaimsInOrder'
    <3> SUFFICES ASSUME NEW a \in DOMAIN arrivals, NEW b \in DOMAIN arrivals,
                        a < b, arrivals[b] = x.job, x.job \notin taken,
                        arrivals[a] \notin taken, arrivals[a] # x.job
                 PROVE  FALSE
      BY <1>1, <2>1 DEF OrderInv, FirstClaimsInOrder
    <3>1. PICK k \in DOMAIN pending : pending[k].job = arrivals[a]
      BY DEF OrderInv, InLine, Arrived
    <3>2. k < n /\ n \in DOMAIN pending
      BY <3>1, <1>2
    <3>3. b < a
      BY <3>1, <3>2, <1>2 DEF OrderInv, InTurn
    <3>4. a \in Nat /\ b \in Nat
      BY DEF TypeOK
    <3> QED BY <3>3, <3>4
  <2> QED BY <2>5, <2>6, <2>7, <2>8, <2>9 DEF OrderInv
<1> QED BY <1>4, <1>5

\* A payload that comes back, at either end, is of a known job, which no
\* order binds any more.
LEMMA KnownJobsReenter ==
    ASSUME TypeOK, OrderInv, Elsewhere', UNCHANGED <<intake, arrivals, taken>>,
           NEW x \in Payloads, x.job \in Known,
           pending' = LPush(pending, x) \/ pending' = Append(pending, x)
    PROVE  OrderInv'
<1> DEFINE n == Len(pending)
<1>1. n \in Nat /\ DOMAIN pending = 1..n /\ pending \in Seq(Payloads)
  BY DEF TypeOK
<1>2. x.job \in taken \/ x.job \notin Arrived
  BY DEF OrderInv, Accounted, Known
<1>3. Known' = Known /\ Arrived' = Arrived /\ LeftJobs' = LeftJobs
  BY DEF Known, Arrived, LeftJobs
<1> DEFINE d == IF pending' = LPush(pending, x) THEN 1 ELSE 0
           new == IF pending' = LPush(pending, x) THEN 1 ELSE n + 1
<1>4. /\ DOMAIN pending' = 1..(n + 1) /\ pending'[new] = x
      /\ \A k \in 1..n : pending'[k + d] = pending[k]
      /\ d \in {0, 1} /\ new = IF d = 1 THEN 1 ELSE n + 1
  <2>1. CASE pending' = LPush(pending, x)
    BY <2>1, <1>1, LPushAt
  <2>2. CASE pending' # LPush(pending, x)
    <3>1. pending' = Append(pending, x)
      BY <2>2
    <3> QED BY <2>2, <3>1, <1>1
  <2> QED BY <2>1, <2>2
<1> HIDE DEF n, d, new
<1>5. \A k \in DOMAIN pending' :
         k = new \/ (k - d \in DOMAIN pending /\ pending'[k] = pending[k - d])
  BY <1>1, <1>4
<1>6. Accounted'
  BY <1>3, <1>4, <1>5 DEF OrderInv, Accounted
<1>7. InLine'
  <2> SUFFICES ASSUME NEW j \in Arrived \ taken
               PROVE  \E k \in DOMAIN pending' : pending'[k].job = j
    BY <1>3 DEF InLine
  <2>1. PICK k \in DOMAIN pending : pending[k].job = j
    BY DEF OrderInv, InLine
  <2>2. k + d \in DOMAIN pending' /\ pending'[k + d] = pending[k]
    BY <1>1, <1>4
  <2> QED BY <2>1, <2>2
<1>8. InTurn'
  <2> SUFFICES ASSUME NEW k \in DOMAIN pending', NEW l \in DOMAIN pending',
                      NEW a \in DOMAIN arrivals, NEW b \in DOMAIN arrivals,
                      k < l,
                      pending'[k].job = arrivals[a], arrivals[a] \notin taken,
                      pending'[l].job = arrivals[b], arrivals[b] \notin taken
               PROVE  b < a
    BY DEF InTurn
  <2>1. arrivals[a] \in Arrived /\ arrivals[b] \in Arrived
    BY DEF Arrived
  <2>2. /\ k - d \in DOMAIN pending /\ pending'[k] = pending[k - d]
        /\ l - d \in DOMAIN pending /\ pending'[l] = pending[l - d]
    BY <2>1, <1>2, <1>4, <1>5
  <2>3. k - d < l - d
    BY <1>1, <1>4
  <2> QED BY <2>2, <2>3 DEF OrderInv, InTurn
<1>9. FirstClaimsInOrder'
  BY DEF OrderInv, FirstClaimsInOrder
<1> QED BY <1>6, <1>7, <1>8, <1>9 DEF OrderInv

-----------------------------------------------------------------------------
\* Every step keeps the order; the ones not above leave pending alone and let
\* no job appear elsewhere that was not known.
LEMMA OrderStep == TypeOK /\ HeldOK /\ OrderInv /\ [Next]_vars => OrderInv'
<1> SUFFICES ASSUME TypeOK, HeldOK, OrderInv, [Next]_vars PROVE OrderInv'
  OBVIOUS
<1> USE DEF redis, workers, mover, keeper, history
<1>1. ASSUME UNCHANGED <<pending, intake, arrivals, taken>>, Elsewhere' PROVE OrderInv'
  BY <1>1 DEF OrderInv, Accounted, InLine, InTurn, FirstClaimsInOrder, Arrived, Known, LeftJobs
<1>2. ASSUME UNCHANGED <<pending, intake, arrivals, taken, processing, retry>>,
             \A p \in Procs : held'[p] \subseteq held[p],
             \A i \in Instances : due'[i] \subseteq due[i] /\ pushed'[i] \subseteq pushed[i]
      PROVE  OrderInv'
  <2>1. Elsewhere'
    BY <1>2 DEF OrderInv, Elsewhere, Known, LeftJobs
  <2> QED BY <1>1, <1>2, <2>1
<1>3. ASSUME NEW j \in Jobs, NEW i \in Instances, NEW o \in Outcomes,
             EnqueueCheck(j, i, o)
      PROVE  OrderInv'
  <2>1. UNCHANGED <<pending, arrivals, taken, processing, retry, held, due, pushed>>
    BY <1>3 DEF EnqueueCheck
  <2>2. \A k : intake[k] \in {"accepted", "error"} /\ k \in Jobs => intake'[k] = intake[k]
    BY <1>3 DEF EnqueueCheck, TypeOK
  <2>3. Arrived \subseteq Jobs /\ LeftJobs \subseteq Jobs
    BY LeftJobsType DEF Arrived, TypeOK
  <2>4. Accounted'
    BY <2>1, <2>2, <2>3 DEF OrderInv, Accounted, Arrived, Known, LeftJobs
  <2> QED BY <2>1, <2>4
          DEF OrderInv, Elsewhere, InLine, InTurn, FirstClaimsInOrder, Arrived, Known, LeftJobs
<1>4. ASSUME NEW j \in Jobs, NEW i \in Instances, NEW o \in Outcomes,
             EnqueuePush(j, i, o)
      PROVE  OrderInv'
  BY <1>4, PushKeepsOrder
<1>5. ASSUME NEW i \in Instances, NEW o \in Outcomes,
             \/ Register(i, o) \/ LegacyScan(i, o) \/ LegacyMark(i, o)
             \/ RecoverOrphans(i, o) \/ FirstReap(i, o) \/ Heartbeat(i, o)
      PROVE  OrderInv'
  BY <1>2, <1>5 DEF Register, LegacyScan, LegacyMark, RecoverOrphans, FirstReap, Heartbeat
<1>6. ASSUME NEW i \in Instances, Launch(i) \/ ReapScan(i) PROVE OrderInv'
  BY <1>2, <1>6 DEF Launch, ReapScan
<1>7. ASSUME NEW p \in Procs, NEW o \in Outcomes, Claim(p, o) PROVE OrderInv'
  BY <1>7, ClaimKeepsOrder
<1>8. ASSUME NEW p \in Procs, Quit(p) PROVE OrderInv'
  BY <1>2, <1>8 DEF Quit
<1>9. ASSUME NEW p \in Procs, NEW x \in held[p], NEW d \in Dispositions, Handle(p, x, d)
      PROVE  OrderInv'
  BY <1>2, <1>9 DEF Handle
<1>10. ASSUME NEW p \in Procs, NEW x \in held[p], NEW o \in Outcomes, Bury(p, x, o)
       PROVE  OrderInv'
  <2>1. \A q \in Procs : held'[q] \subseteq held[q]
    BY <1>10 DEF Bury, TypeOK
  <2> QED BY <1>2, <1>10, <2>1 DEF Bury
<1>11. ASSUME NEW p \in Procs, NEW x \in held[p], NEW o \in Outcomes,
              ScheduleRetry(p, x, o)
       PROVE  OrderInv'
  <2>1. \A q \in Procs : held'[q] \subseteq held[q]
    BY <1>11 DEF ScheduleRetry, TypeOK
  <2>2. x.job \in Known /\ Retried(x).job = x.job
    <3>1. x \in Payloads /\ MayRetry(x)
      BY <1>11 DEF ScheduleRetry, TypeOK, HeldOK
    <3> QED BY <3>1, RetriedType DEF OrderInv, Elsewhere
  <2>3. \A y \in retry' : y.job \in Known
    BY <1>11, <2>2 DEF ScheduleRetry, OrderInv, Elsewhere
  <2>4. UNCHANGED <<pending, intake, arrivals, taken, processing, due, pushed>>
    BY <1>11 DEF ScheduleRetry
  <2>5. Elsewhere'
    BY <2>1, <2>3, <2>4 DEF OrderInv, Elsewhere, Known, LeftJobs
  <2> QED BY <1>1, <2>4, <2>5
<1>12. ASSUME NEW p \in Procs, NEW x \in held[p], NEW o \in Outcomes, Ack(p, x, o)
       PROVE  OrderInv'
  <2>1. \A q \in Procs : held'[q] \subseteq held[q]
    BY <1>12 DEF Ack, TypeOK
  <2>2. UNCHANGED <<pending, intake, arrivals, taken, retry, due, pushed>>
    BY <1>12 DEF Ack
  <2>3. ASSUME NEW i \in Owners, NEW y \in Payloads, Has(processing'[i], y)
        PROVE  Has(processing[i], y)
    <3>1. processing'[i] = processing[i] \/ processing'[i] = RemoveFirst(processing[i], x)
      BY <1>12 DEF Ack, TypeOK
    <3>2. processing[i] \in Seq(Payloads)
      BY DEF TypeOK
    <3>3. CASE processing'[i] = processing[i]
      BY <2>3, <3>3
    <3>4. CASE processing'[i] = RemoveFirst(processing[i], x)
      <4>1. Has(RemoveFirst(processing[i], x), y)
        BY <2>3, <3>4
      <4> QED BY <3>2, <4>1, RemoveFirstOf
    <3> QED BY <3>1, <3>3, <3>4
  <2>4. Elsewhere'
    BY <2>1, <2>2, <2>3 DEF OrderInv, Elsewhere, Known, LeftJobs
  <2> QED BY <1>1, <2>2, <2>4
<1>13. ASSUME NEW i \in Instances, NEW S \in SUBSET retry, MoverScan(i, S)
       PROVE  OrderInv'
  <2>1. UNCHANGED <<pending, intake, arrivals, taken, processing, retry, held, pushed>>
    BY <1>13 DEF MoverScan
  <2>2. \A k \in Instances : due'[k] \subseteq due[k] \cup retry
    BY <1>13 DEF MoverScan, TypeOK
  <2>3. Elsewhere'
    BY <2>1, <2>2 DEF OrderInv, Elsewhere, Known, LeftJobs
  <2> QED BY <1>1, <2>1, <2>3
<1>14. ASSUME NEW i \in Instances, NEW m \in due[i], NEW o \in Outcomes,
              MoverPush(i, m, o)
       PROVE  OrderInv'
  <2>1. UNCHANGED <<intake, arrivals, taken, processing, retry, held>>
    BY <1>14 DEF MoverPush
  <2>2. \A k \in Instances : due'[k] \cup pushed'[k] \subseteq due[k] \cup pushed[k]
    BY <1>14 DEF MoverPush, TypeOK
  <2>3. Elsewhere'
    BY <2>1, <2>2 DEF OrderInv, Elsewhere, Known, LeftJobs
  <2>4. m \in Payloads /\ m.job \in Known
    BY DEF TypeOK, OrderInv, Elsewhere
  <2>5. pending' = LPush(pending, m) \/ pending' = pending
    BY <1>14 DEF MoverPush
  <2>6. CASE pending' = LPush(pending, m)
    BY <2>1, <2>3, <2>4, <2>6, KnownJobsReenter
  <2>7. CASE pending' = pending
    BY <1>1, <2>1, <2>3, <2>7
  <2> QED BY <2>5, <2>6, <2>7
<1>15. ASSUME NEW i \in Instances, NEW m \in due[i], NEW o \in Outcomes,
              MoverRem(i, m, o)
       PROVE  OrderInv'
  <2>1. UNCHANGED <<pending, intake, arrivals, taken, processing, held>>
    BY <1>15 DEF MoverRem
  <2>2. /\ \A k \in Instances : due'[k] \subseteq due[k] /\ pushed'[k] \subseteq pushed[k]
        /\ retry' \subseteq retry
    BY <1>15 DEF MoverRem, TypeOK, ZRem
  <2>3. Elsewhere'
    BY <2>1, <2>2 DEF OrderInv, Elsewhere, Known, LeftJobs
  <2> QED BY <1>1, <2>1, <2>3
<1>16. ASSUME NEW i \in Instances, NEW t \in sweep[i], NEW o \in Outcomes,
              ReapMove(i, t, o)
       PROVE  OrderInv'
  <2>1. UNCHANGED <<intake, arrivals, taken, retry, held, due, pushed>>
    BY <1>16 DEF ReapMove
  <2>2. CASE ~ Applied(o)
    BY <1>2, <1>16, <2>1, <2>2 DEF ReapMove
  <2>3. CASE Applied(o)
    <3> DEFINE q == processing[t]
               x == Last(q)
    <3>1. t \in Owners /\ q \in Seq(Payloads) /\ q # <<>>
      BY <1>16 DEF ReapMove, TypeOK
    <3>2. /\ pending' = Append(pending, x)
          /\ processing' = [processing EXCEPT ![t] = Front(@)]
      BY <1>16, <2>3 DEF ReapMove
    <3>3. /\ x \in Payloads /\ x = q[Len(q)] /\ Len(q) \in Nat \ {0}
          /\ \A y : Has(Front(q), y) => Has(q, y)
      BY <3>1, FrontOf, FrontHas
    <3>4. Has(q, x)
      <4>1. Len(q) \in DOMAIN q
        BY <3>1, <3>3
      <4> QED BY <4>1, <3>3 DEF Has
    <3>5. \A k \in Owners, y \in Payloads : Has(processing'[k], y) => Has(processing[k], y)
      BY <3>1, <3>2, <3>3 DEF TypeOK
    <3>6. Elsewhere'
      BY <2>1, <3>5 DEF OrderInv, Elsewhere, Known, LeftJobs
    <3>7. x.job \in Known
      BY <3>1, <3>3, <3>4 DEF OrderInv, Elsewhere
    <3> HIDE DEF x, q
    <3> QED BY <2>1, <3>2, <3>3, <3>6, <3>7, KnownJobsReenter
  <2> QED BY <2>2, <2>3
<1>17. ASSUME NEW i \in Instances, NEW t \in sweep[i], NEW o \in Outcomes,
              ReapNil(i, t, o) \/ Deregister(i, t, o)
       PROVE  OrderInv'
  BY <1>2, <1>17 DEF ReapNil, Deregister
<1>18. ASSUME NEW i \in Instances, Close(i) PROVE OrderInv'
  <2>1. \A k \in Instances : due'[k] \subseteq due[k] /\ pushed'[k] \subseteq pushed[k]
    BY <1>18 DEF Close, Forget, TypeOK
  <2> QED BY <1>2, <1>18, <2>1 DEF Close
<1>19. ASSUME NEW i \in Instances, Exit(i) PROVE OrderInv'
  <2>1. \A k \in Instances : due'[k] \subseteq due[k] /\ pushed'[k] \subseteq pushed[k]
    BY <1>19 DEF Exit, Forget, TypeOK
  <2>2. \A q \in Procs : held'[q] \subseteq held[q]
    BY <1>19 DEF Exit
  <2> QED BY <1>2, <1>19, <2>1, <2>2 DEF Exit
<1>20. ASSUME NEW t \in Owners, Expire(t) PROVE OrderInv'
  BY <1>2, <1>20 DEF Expire
<1>21. CASE UNCHANGED vars
  BY <1>2, <1>21 DEF vars
<1> QED
  BY <1>3, <1>4, <1>5, <1>6, <1>7, <1>8, <1>9, <1>10, <1>11, <1>12, <1>13, <1>14,
     <1>15, <1>16, <1>17, <1>18, <1>19, <1>20, <1>21
     DEF Next, Enqueue, Start, Worker, RetryMover, Keeper, Reap

\* OrderInv, once and for all.
LEMMA OrderHolds == Spec => []OrderInv
<1>1. Init => OrderInv
  <2> SUFFICES ASSUME Init PROVE OrderInv
    OBVIOUS
  <2>1. Arrived = {} /\ DOMAIN pending = {} /\ taken = {} /\ DOMAIN arrivals = {}
    BY DEF Init, Arrived
  <2>2. Accounted
    BY <2>1, LeftJobsType DEF Init, Accounted, LeftJobs
  <2>3. Elsewhere
    <3>1. ASSUME NEW i \in Owners, NEW x \in Payloads, Has(processing[i], x)
          PROVE  x.job \in Known
      BY <3>1 DEF Init, Has, Known, LeftJobs
    <3> QED BY <3>1 DEF Init, Elsewhere
  <2> QED BY <2>1, <2>2, <2>3 DEF OrderInv, InLine, InTurn, FirstClaimsInOrder
<1>2. TypeOK /\ HeldOK /\ OrderInv /\ [Next]_vars => OrderInv'
  BY OrderStep
<1> QED BY <1>1, <1>2, TypeCorrect, PTL DEF Spec

\* Across all replicas no job is claimed for the first time before one that
\* arrived earlier (worker's LMOVE against Enqueue's LPUSH), whatever retries
\* and reclaimed payloads are mixed in.
THEOREM FirstClaimsOrdered == Spec => []FirstClaimsInOrder
<1>1. OrderInv => FirstClaimsInOrder
  BY DEF OrderInv
<1> QED BY <1>1, OrderHolds, PTL

-----------------------------------------------------------------------------
(* "Liveness is the heartbeat": what the reaper relies on.  A replica that  *)
(* lives beats in time, or its claims are taken away from under it; with    *)
(* that premise, and only with it, a stale heartbeat means a dead replica,  *)
(* and the reaper works on nobody else's lists.                             *)

\* No keeper of a live replica is held up for instanceReclaimAfter, and the
\* drain budget is shorter than that.
Steady == MaxStalls = 0 /\ ~DrainOutlivesReclaim

\* Workers run in replicas that are up or draining.
WorkersLive == \A p \in Procs : pc[p] # "gone" => life[Inst(p)] \in {"up", "drain"}

\* Whoever is stale, swept or drained is gone for good.
StaleAreDown ==
    /\ \A t \in Instances : beat[t] = "stale" => life[t] = "down"
    /\ \A i, t \in Instances : t \in sweep[i] \cup target[i] => life[t] = "down"

\* Start registers a replica before anything else.
LiveAreRegistered == \A t \in Instances : Alive(t) => beat[t] # "none"

\* The list of a replica about to be deregistered is empty and stays so.
DrainedAreEmpty ==
    \A i, t \in Instances : drained[i] /\ t \in target[i] => processing[t] = <<>>

KeeperInv ==
    WorkersLive /\ StaleAreDown /\ LiveAreRegistered /\ DrainedAreEmpty /\ ClaimsReapable

\* Every step of a fleet that beats in time keeps KeeperInv.
LEMMA KeeperStep ==
    ASSUME Steady, TypeOK, KeeperInv, [Next]_vars
    PROVE  KeeperInv'
<1> USE DEF redis, workers, mover, keeper, history
<1>1. Legacy \notin Instances /\ Instances \subseteq Owners
  BY RedisqAssumption DEF Owners
\* Steps that leave the replicas, the sweeps and the lists alone.
<1>2. ASSUME UNCHANGED <<life, beat, keeper, processing>>, WorkersLive' PROVE KeeperInv'
  BY <1>2 DEF KeeperInv, StaleAreDown, LiveAreRegistered, DrainedAreEmpty, ClaimsReapable,
              Alive
<1>3. ASSUME UNCHANGED <<life, pc>> PROVE WorkersLive'
  BY <1>3 DEF KeeperInv, WorkersLive
<1>4. ASSUME UNCHANGED <<life, pc, beat, keeper, processing>> PROVE KeeperInv'
  BY <1>2, <1>3, <1>4
\* A worker moves on: its replica has not moved.
<1>5. ASSUME NEW p \in Procs, UNCHANGED life, pc[p] # "gone",
             \A q \in Procs \ {p} : pc'[q] = pc[q]
      PROVE  WorkersLive'
  BY <1>5 DEF KeeperInv, WorkersLive
\* Start moves on, or fails.
<1>6. ASSUME NEW i \in Instances, UNCHANGED <<pc, processing>>,
             life[i] \in {"off", "scan", "mark", "orphans", "first"},
             NEW s \in {"scan", "mark", "orphans", "first", "boot", "down"},
             life' = [life EXCEPT ![i] = s]
      PROVE  /\ WorkersLive'
             /\ \A t \in Instances : life[t] = "down" => life'[t] = "down"
             /\ \A t \in Instances : life'[t] = "down" => t = i \/ life[t] = "down"
             /\ \A t \in Instances : Alive(t)' => t = i \/ Alive(t)
  BY <1>6 DEF KeeperInv, WorkersLive, TypeOK, Alive
<1>7. ASSUME NEW j \in Jobs, NEW i \in Instances, NEW o \in Outcomes,
             EnqueueCheck(j, i, o) \/ EnqueuePush(j, i, o)
      PROVE  KeeperInv'
  BY <1>4, <1>7 DEF EnqueueCheck, EnqueuePush
<1>8. ASSUME NEW i \in Instances, NEW o \in Outcomes, Register(i, o) PROVE KeeperInv'
  <2>1. PICK s \in {"scan", "mark", "orphans", "first", "boot", "down"} :
           life' = [life EXCEPT ![i] = s] /\ (s = "scan" <=> o = "ok") /\ s \in {"scan", "down"}
    BY <1>8 DEF Register
  <2>2. UNCHANGED <<pc, processing, keeper>> /\ life[i] = "off"
    BY <1>8 DEF Register
  <2>3. /\ WorkersLive'
        /\ \A t \in Instances : life[t] = "down" => life'[t] = "down"
        /\ \A t \in Instances : Alive(t)' => t = i \/ Alive(t)
    BY <2>1, <2>2, <1>6
  <2>4. /\ \A t \in Instances \ {i} : beat'[t] = beat[t]
        /\ beat'[i] \in {beat[i], "fresh"}
        /\ o = "ok" => beat'[i] = "fresh"
    BY <1>8, <1>1 DEF Register, TypeOK, Applied
  <2>5. StaleAreDown'
    <3>1. beat[i] # "stale"
      BY <2>2 DEF KeeperInv, StaleAreDown
    <3> QED BY <2>2, <2>3, <2>4, <3>1 DEF KeeperInv, StaleAreDown
  <2>6. LiveAreRegistered'
    <3>1. Alive(i)' => beat'[i] = "fresh"
      BY <2>1, <2>4 DEF Alive, TypeOK
    <3> QED BY <2>3, <2>4, <3>1 DEF KeeperInv, LiveAreRegistered
  <2>7. DrainedAreEmpty'
    BY <2>2 DEF KeeperInv, DrainedAreEmpty
  <2>8. ClaimsReapable'
    BY <2>2, <2>4 DEF KeeperInv, ClaimsReapable
  <2> QED BY <2>3, <2>5, <2>6, <2>7, <2>8 DEF KeeperInv
<1>9. ASSUME NEW i \in Instances, NEW o \in Outcomes,
             LegacyScan(i, o) \/ LegacyMark(i, o) \/ RecoverOrphans(i, o)
      PROVE  KeeperInv'
  <2>1. PICK s \in {"scan", "mark", "orphans", "first", "boot", "down"} :
           life' = [life EXCEPT ![i] = s]
    BY <1>9 DEF LegacyScan, LegacyMark, RecoverOrphans
  <2>2. UNCHANGED <<pc, processing, keeper>> /\ life[i] \in {"scan", "mark", "orphans"}
    BY <1>9 DEF LegacyScan, LegacyMark, RecoverOrphans
  <2>3. /\ WorkersLive'
        /\ \A t \in Instances : life[t] = "down" => life'[t] = "down"
        /\ \A t \in Instances : Alive(t)' => t = i \/ Alive(t)
    BY <2>1, <2>2, <1>6
  <2>4. Alive(i)
    BY <2>2 DEF Alive
  <2>5. \A t \in Instances : beat'[t] = beat[t]
    BY <1>9, <1>1 DEF LegacyScan, LegacyMark, RecoverOrphans, TypeOK
  <2> QED BY <2>2, <2>3, <2>4, <2>5
          DEF KeeperInv, StaleAreDown, LiveAreRegistered, DrainedAreEmpty, ClaimsReapable
<1>10. ASSUME NEW i \in Instances, NEW S \in SUBSET Owners,
             sweep' = [sweep EXCEPT ![i] = S], S \subseteq Stale(i),
             UNCHANGED <<target, drained, beat, processing>>,
             \A t \in Instances : life[t] = "down" => life'[t] = "down",
             \A t \in Instances : Alive(t)' => Alive(t),
             WorkersLive'
       PROVE  KeeperInv'
  <2>1. \A t \in Instances : t \in S => life[t] = "down"
    BY <1>10 DEF Stale, KeeperInv, StaleAreDown
  <2>2. \A k \in Instances : sweep'[k] \subseteq sweep[k] \cup S
    BY <1>10 DEF TypeOK
  <2>3. StaleAreDown'
    BY <1>10, <2>1, <2>2 DEF KeeperInv, StaleAreDown
  <2> QED BY <1>10, <2>3
          DEF KeeperInv, LiveAreRegistered, DrainedAreEmpty, ClaimsReapable
<1>11. ASSUME NEW i \in Instances, NEW o \in Outcomes, FirstReap(i, o) PROVE KeeperInv'
  <2>1. UNCHANGED <<pc, processing, target, drained, beat>> /\ life[i] = "first"
        /\ life' = [life EXCEPT ![i] = "boot"]
    BY <1>11 DEF FirstReap
  <2>2. /\ WorkersLive'
        /\ \A t \in Instances : life[t] = "down" => life'[t] = "down"
        /\ \A t \in Instances : Alive(t)' => t = i \/ Alive(t)
    BY <2>1, <1>6
  <2>3. Alive(i)
    BY <2>1 DEF Alive
  <2>4. PICK S \in SUBSET Owners : S \subseteq Stale(i) /\ sweep' = [sweep EXCEPT ![i] = S]
    <3>1. Stale(i) \in SUBSET Owners /\ {} \in SUBSET Owners
      BY DEF Stale
    <3> QED BY <1>11, <3>1 DEF FirstReap
  <2> QED BY <1>10, <2>1, <2>2, <2>3, <2>4
<1>12. ASSUME NEW i \in Instances, Launch(i) PROVE KeeperInv'
  <2>1. UNCHANGED <<beat, keeper, processing>> /\ life[i] = "boot"
        /\ life' = [life EXCEPT ![i] = "up"]
    BY <1>12 DEF Launch
  <2>2. /\ \A t \in Instances : life[t] = "down" => life'[t] = "down"
        /\ \A t \in Instances : Alive(t)' => t = i \/ Alive(t)
        /\ \A t \in Instances \ {i} : life'[t] = life[t]
        /\ life'[i] = "up"
    BY <2>1 DEF TypeOK, Alive
  <2>3. Alive(i)
    BY <2>1 DEF Alive
  <2>4. WorkersLive'
    BY <1>12, <2>2 DEF Launch, KeeperInv, WorkersLive, Procs, Inst
  <2> QED BY <2>1, <2>2, <2>3, <2>4
          DEF KeeperInv, StaleAreDown, LiveAreRegistered, DrainedAreEmpty, ClaimsReapable
<1>13. ASSUME NEW p \in Procs, NEW o \in Outcomes, Claim(p, o) PROVE KeeperInv'
  <2> DEFINE i == Inst(p)
  <2>1. i \in Instances /\ i \in Owners
    BY <1>1 DEF Procs, Inst
  <2>2. UNCHANGED <<life, beat, keeper>> /\ pc[p] = "poll"
    BY <1>13 DEF Claim
  <2>3. WorkersLive'
    <3>1. \A q \in Procs \ {p} : pc'[q] = pc[q]
      BY <1>13 DEF Claim, TypeOK
    <3> QED BY <3>1, <2>2, <1>5
  <2>4. life[i] \in {"up", "drain"}
    BY <2>2 DEF KeeperInv, WorkersLive
  <2>5. Alive(i) /\ life[i] # "down"
    BY <2>4 DEF Alive
  <2>6. \A t \in Owners \ {i} : processing'[t] = processing[t]
    BY <1>13, <2>1 DEF Claim, Claimed, TypeOK
  <2> HIDE DEF i
  <2>7. DrainedAreEmpty'
    BY <2>1, <2>2, <2>5, <2>6, <1>1 DEF KeeperInv, StaleAreDown, DrainedAreEmpty
  <2>8. ClaimsReapable'
    BY <2>1, <2>2, <2>5, <2>6, <1>1 DEF KeeperInv, LiveAreRegistered, ClaimsReapable
  <2>9. StaleAreDown' /\ LiveAreRegistered'
    BY <2>2 DEF KeeperInv, StaleAreDown, LiveAreRegistered, Alive
  <2> QED BY <2>3, <2>7, <2>8, <2>9 DEF KeeperInv
<1>14. ASSUME NEW p \in Procs, Quit(p) PROVE KeeperInv'
  <2>1. \A q \in Procs \ {p} : pc'[q] = pc[q]
    BY <1>14 DEF Quit, TypeOK
  <2> QED BY <1>2, <1>5, <1>14, <2>1 DEF Quit
<1>15. ASSUME NEW p \in Procs, NEW x \in held[p], NEW d \in Dispositions, Handle(p, x, d)
       PROVE  KeeperInv'
  <2>1. \A q \in Procs \ {p} : pc'[q] = pc[q]
    BY <1>15 DEF Handle, TypeOK
  <2> QED BY <1>2, <1>5, <1>15, <2>1 DEF Handle
<1>16. ASSUME NEW p \in Procs, NEW x \in held[p], NEW o \in Outcomes,
              Bury(p, x, o) \/ ScheduleRetry(p, x, o)
       PROVE  KeeperInv'
  <2>1. \A q \in Procs \ {p} : pc'[q] = pc[q]
    BY <1>16 DEF Bury, ScheduleRetry, TypeOK
  <2>2. UNCHANGED <<life, beat, keeper, processing>> /\ pc[p] # "gone"
    BY <1>16 DEF Bury, ScheduleRetry
  <2> QED BY <1>2, <1>5, <2>1, <2>2
<1>17. ASSUME NEW p \in Procs, NEW x \in held[p], NEW o \in Outcomes, Ack(p, x, o)
       PROVE  KeeperInv'
  <2> DEFINE i == Inst(p)
  <2>1. i \in Instances /\ i \in Owners
    BY <1>1 DEF Procs, Inst
  <2>2. UNCHANGED <<life, beat, keeper>> /\ pc[p] = "ack"
    BY <1>17 DEF Ack
  <2>3. WorkersLive'
    <3>1. \A q \in Procs \ {p} : pc'[q] = pc[q]
      BY <1>17 DEF Ack, TypeOK
    <3> QED BY <3>1, <2>2, <1>5
  <2>4. life[i] \in {"up", "drain"}
    BY <2>2 DEF KeeperInv, WorkersLive
  <2>5. Alive(i) /\ life[i] # "down"
    BY <2>4 DEF Alive
  <2>6. \A t \in Owners \ {i} : processing'[t] = processing[t]
    BY <1>17, <2>1 DEF Ack, TypeOK
  <2> HIDE DEF i
  <2>7. DrainedAreEmpty'
    BY <2>1, <2>2, <2>5, <2>6, <1>1 DEF KeeperInv, StaleAreDown, DrainedAreEmpty
  <2>8. ClaimsReapable'
    BY <2>1, <2>2, <2>5, <2>6, <1>1 DEF KeeperInv, LiveAreRegistered, ClaimsReapable
  <2>9. StaleAreDown' /\ LiveAreRegistered'
    BY <2>2 DEF KeeperInv, StaleAreDown, LiveAreRegistered, Alive
  <2> QED BY <2>3, <2>7, <2>8, <2>9 DEF KeeperInv
<1>18. ASSUME NEW i \in Instances, NEW S \in SUBSET retry, MoverScan(i, S) PROVE KeeperInv'
  BY <1>4, <1>18 DEF MoverScan
<1>19. ASSUME NEW i \in Instances, NEW m \in due[i], NEW o \in Outcomes,
              MoverPush(i, m, o) \/ MoverRem(i, m, o)
       PROVE  KeeperInv'
  BY <1>4, <1>19 DEF MoverPush, MoverRem
<1>20. ASSUME NEW i \in Instances, NEW o \in Outcomes, Heartbeat(i, o) PROVE KeeperInv'
  <2>1. UNCHANGED <<life, pc, keeper, processing>>
    BY <1>20 DEF Heartbeat
  <2>2. \A t \in Instances : beat'[t] \in {beat[t], "fresh"}
    BY <1>20, <1>1 DEF Heartbeat, TypeOK
  <2>3. WorkersLive'
    BY <2>1, <1>3
  <2> QED BY <2>1, <2>2, <2>3
          DEF KeeperInv, StaleAreDown, LiveAreRegistered, DrainedAreEmpty, ClaimsReapable, Alive
<1>21. ASSUME NEW i \in Instances, ReapScan(i) PROVE KeeperInv'
  <2>1. Stale(i) \in SUBSET Owners
    BY DEF Stale
  <2>2. UNCHANGED <<life, pc, target, drained, beat, processing>>
        /\ sweep' = [sweep EXCEPT ![i] = Stale(i)]
    BY <1>21 DEF ReapScan
  <2>3. WorkersLive'
    BY <2>2, <1>3
  <2>4. \A t \in Instances : Alive(t)' => Alive(t)
    BY <2>2 DEF Alive
  <2> QED BY <1>10, <2>1, <2>2, <2>3, <2>4
\* The reaper on its way: at most the target it was told is drained.
<1>22. ASSUME NEW i \in Instances, NEW t \in sweep[i], UNCHANGED <<life, pc>>,
              \/ SkipTarget(i, t)
              \/ UNCHANGED sweep /\ target' = [target EXCEPT ![i] = {t}]
       PROVE  /\ WorkersLive'
              /\ \A k, u \in Instances : u \in sweep'[k] \cup target'[k] => life'[u] = "down"
  <2>1. WorkersLive'
    BY <1>22, <1>3
  <2>2. \A k \in Instances :
           sweep'[k] \subseteq sweep[k] /\ target'[k] \subseteq target[k] \cup sweep[k]
    <3>1. CASE SkipTarget(i, t)
      BY <3>1 DEF SkipTarget, TypeOK
    <3>2. CASE UNCHANGED sweep /\ target' = [target EXCEPT ![i] = {t}]
      <4>1. \A k \in Instances : target'[k] = IF k = i THEN {t} ELSE target[k]
        BY <3>2 DEF TypeOK
      <4> QED BY <3>2, <4>1
    <3> QED BY <1>22, <3>1, <3>2
  <2> QED BY <1>22, <2>1, <2>2 DEF KeeperInv, StaleAreDown
<1>23. ASSUME NEW i \in Instances, NEW t \in sweep[i], NEW o \in Outcomes,
              ReapMove(i, t, o)
       PROVE  KeeperInv'
  <2>1. UNCHANGED <<life, pc, beat>> /\ ~drained[i] /\ t \in Owners
    BY <1>23 DEF ReapMove, Current, TypeOK
  <2>2. SkipTarget(i, t) \/ (UNCHANGED <<sweep, drained>> /\ target' = [target EXCEPT ![i] = {t}])
    BY <1>23 DEF ReapMove
  <2>3. /\ WorkersLive'
        /\ \A k, u \in Instances : u \in sweep'[k] \cup target'[k] => life'[u] = "down"
    BY <2>1, <2>2, <1>22
  <2>4. \A u \in Owners : processing[u] = <<>> => processing'[u] = <<>>
    BY <1>23, <2>1 DEF ReapMove, TypeOK
  <2>5. \A k \in Instances : drained'[k] => drained[k] /\ target'[k] = target[k]
    BY <2>1, <2>2 DEF SkipTarget, TypeOK
  <2>6. DrainedAreEmpty'
    BY <2>4, <2>5, <1>1 DEF KeeperInv, DrainedAreEmpty
  <2>7. ClaimsReapable'
    BY <2>1, <2>4, <1>1 DEF KeeperInv, ClaimsReapable
  <2>8. StaleAreDown' /\ LiveAreRegistered'
    BY <2>1, <2>3 DEF KeeperInv, StaleAreDown, LiveAreRegistered, Alive
  <2> QED BY <2>3, <2>6, <2>7, <2>8 DEF KeeperInv
<1>24. ASSUME NEW i \in Instances, NEW t \in sweep[i], NEW o \in Outcomes,
              ReapNil(i, t, o)
       PROVE  KeeperInv'
  <2>1. UNCHANGED <<life, pc, beat, processing>> /\ processing[t] = <<>>
    BY <1>24 DEF ReapNil, DrainOver
  <2>2. \/ SkipTarget(i, t)
        \/ /\ UNCHANGED sweep /\ target' = [target EXCEPT ![i] = {t}]
           /\ drained' = [drained EXCEPT ![i] = TRUE]
    BY <1>24 DEF ReapNil
  <2>3. /\ WorkersLive'
        /\ \A k, u \in Instances : u \in sweep'[k] \cup target'[k] => life'[u] = "down"
    BY <2>1, <2>2, <1>22
  <2>4. \A k \in Instances :
           drained'[k] => (drained[k] /\ target'[k] = target[k]) \/ target'[k] = {t}
    BY <2>2 DEF SkipTarget, TypeOK
  <2>5. DrainedAreEmpty'
    BY <2>1, <2>4 DEF KeeperInv, DrainedAreEmpty
  <2>6. StaleAreDown' /\ LiveAreRegistered' /\ ClaimsReapable'
    BY <2>1, <2>3 DEF KeeperInv, StaleAreDown, LiveAreRegistered, ClaimsReapable, Alive
  <2> QED BY <2>3, <2>5, <2>6 DEF KeeperInv
<1>25. ASSUME NEW i \in Instances, NEW t \in sweep[i], NEW o \in Outcomes,
              Deregister(i, t, o)
       PROVE  KeeperInv'
  <2>1. /\ UNCHANGED <<life, pc, processing>> /\ t \in target[i] /\ drained[i]
        /\ SkipTarget(i, t)
    BY <1>25 DEF Deregister
  <2>2. /\ WorkersLive'
        /\ \A k, u \in Instances : u \in sweep'[k] \cup target'[k] => life'[u] = "down"
    BY <2>1, <1>22
  <2>3. \A k \in Instances : drained'[k] => drained[k] /\ target'[k] = target[k]
    BY <2>1 DEF SkipTarget, TypeOK
  <2>4. \A u \in Instances : beat'[u] = beat[u] \/ (beat'[u] = "none" /\ u = t)
    BY <1>25, <1>1 DEF Deregister, TypeOK
  <2>5. t \in Instances => processing[t] = <<>> /\ life[t] = "down"
    BY <2>1 DEF KeeperInv, DrainedAreEmpty, StaleAreDown
  <2>6. t \in Instances => ~ Alive(t)
    BY <2>5 DEF Alive
  <2>7. DrainedAreEmpty'
    BY <2>1, <2>3 DEF KeeperInv, DrainedAreEmpty
  <2>8. ClaimsReapable'
    BY <2>1, <2>4, <2>5 DEF KeeperInv, ClaimsReapable
  <2>9. LiveAreRegistered'
    <3>1. \A u \in Instances : Alive(u)' => Alive(u)
      BY <2>1 DEF Alive
    <3> QED BY <3>1, <2>4, <2>6 DEF KeeperInv, LiveAreRegistered
  <2>10. StaleAreDown'
    BY <2>1, <2>2, <2>4 DEF KeeperInv, StaleAreDown
  <2> QED BY <2>2, <2>7, <2>8, <2>9, <2>10 DEF KeeperInv
<1>26. ASSUME NEW i \in Instances, Close(i) PROVE KeeperInv'
  <2>1. UNCHANGED <<pc, beat, processing>> /\ life[i] = "up"
        /\ life' = [life EXCEPT ![i] = "drain"]
    BY <1>26 DEF Close
  <2>2. \A k \in Instances : /\ sweep'[k] \subseteq sweep[k]
                             /\ target'[k] \subseteq target[k]
                             /\ drained'[k] => drained[k]
    BY <1>26 DEF Close, Forget, TypeOK
  <2>3. /\ \A t \in Instances : life[t] = "down" => life'[t] = "down"
        /\ \A t \in Instances : Alive(t)' => t = i \/ Alive(t)
        /\ \A t \in Instances : life[t] \in {"up", "drain"} => life'[t] \in {"up", "drain"}
        /\ Alive(i)
    BY <2>1 DEF TypeOK, Alive
  <2>4. WorkersLive'
    BY <2>1, <2>3 DEF KeeperInv, WorkersLive, Procs, Inst
  <2> QED BY <2>1, <2>2, <2>3, <2>4
          DEF KeeperInv, StaleAreDown, LiveAreRegistered, DrainedAreEmpty, ClaimsReapable
<1>27. ASSUME NEW i \in Instances, Exit(i) PROVE KeeperInv'
  <2>1. UNCHANGED <<beat, processing>> /\ life' = [life EXCEPT ![i] = "down"]
    BY <1>27 DEF Exit
  <2>2. \A k \in Instances : /\ sweep'[k] \subseteq sweep[k]
                             /\ target'[k] \subseteq target[k]
                             /\ drained'[k] => drained[k]
    BY <1>27 DEF Exit, Forget, TypeOK
  <2>3. /\ \A t \in Instances : life[t] = "down" => life'[t] = "down"
        /\ \A t \in Instances : Alive(t)' => Alive(t)
        /\ \A t \in Instances \ {i} : life'[t] = life[t]
    BY <2>1 DEF TypeOK, Alive
  <2>4. WorkersLive'
    BY <1>27, <2>3 DEF Exit, KeeperInv, WorkersLive, Procs, Inst
  <2> QED BY <2>1, <2>2, <2>3, <2>4
          DEF KeeperInv, StaleAreDown, LiveAreRegistered, DrainedAreEmpty, ClaimsReapable
<1>28. ASSUME NEW t \in Owners, Expire(t) PROVE KeeperInv'
  <2>1. UNCHANGED <<life, pc, keeper, processing>>
    BY <1>28 DEF Expire
  <2>2. t = Legacy \/ life[t] = "down"
    <3>1. ~ (stalls < MaxStalls)
      BY DEF Steady, TypeOK
    <3> QED BY <1>28, <3>1 DEF Expire, Steady
  <2>3. \A u \in Instances : beat'[u] = beat[u] \/ (beat'[u] = "stale" /\ life[u] = "down")
    BY <1>28, <1>1, <2>2 DEF Expire, TypeOK
  <2>4. WorkersLive'
    BY <2>1, <1>3
  <2> QED BY <2>1, <2>3, <2>4
          DEF KeeperInv, StaleAreDown, LiveAreRegistered, DrainedAreEmpty, ClaimsReapable, Alive
<1>29. CASE UNCHANGED vars
  BY <1>4, <1>29 DEF vars
<1> QED
  BY <1>7, <1>8, <1>9, <1>11, <1>12, <1>13, <1>14, <1>15, <1>16, <1>17, <1>18, <1>19,
     <1>20, <1>21, <1>23, <1>24, <1>25, <1>26, <1>27, <1>28, <1>29
     DEF Next, Enqueue, Start, Worker, RetryMover, Keeper, Reap

\* KeeperInv, once and for all.
LEMMA KeeperHolds == Steady => (Spec => []KeeperInv)
<1> SUFFICES ASSUME Steady PROVE Spec => []KeeperInv
  OBVIOUS
<1>1. Init => KeeperInv
  <2> SUFFICES ASSUME Init PROVE KeeperInv
    OBVIOUS
  <2>1. \A i \in Instances : processing[i] = <<>>
    BY RedisqAssumption DEF Init, Owners
  <2> QED BY <2>1 DEF Init, KeeperInv, WorkersLive, StaleAreDown, LiveAreRegistered,
                      DrainedAreEmpty, ClaimsReapable, Alive, Owners
<1>2. TypeOK /\ HeldOK /\ KeeperInv /\ [Next]_vars => KeeperInv'
  BY KeeperStep
<1> QED BY <1>1, <1>2, TypeCorrect, PTL DEF Spec

\* A replica that holds payloads is in the instances ZSET, so the reaper finds
\* it when it dies: Start registers before a worker claims, and
\* reapDeadInstances drains before it deregisters.
THEOREM ClaimsStayReapable == Steady => (Spec => []ClaimsReapable)
<1> SUFFICES ASSUME Steady PROVE Spec => []ClaimsReapable
  OBVIOUS
<1>1. KeeperInv => ClaimsReapable
  BY DEF KeeperInv
<1> QED BY <1>1, KeeperHolds, PTL

\* "a replica keeps heartbeating while it holds a job" (redisq.go:73), drains
\* included, as long as a drain is over before the others give the replica up.
THEOREM HoldersBeat == Steady => (Spec => []HoldersKeepBeating)
<1> SUFFICES ASSUME Steady PROVE Spec => []HoldersKeepBeating
  OBVIOUS
<1>1. TypeOK /\ KeeperInv => HoldersKeepBeating
  <2> SUFFICES ASSUME TypeOK, KeeperInv, NEW p \in Procs, pc[p] = "handle"
               PROVE  beat[Inst(p)] = "fresh"
    BY DEF HoldersKeepBeating
  <2>1. Inst(p) \in Instances
    BY DEF Procs, Inst
  <2>2. life[Inst(p)] \in {"up", "drain"}
    BY DEF KeeperInv, WorkersLive
  <2>3. beat[Inst(p)] \in {"none", "fresh", "stale"}
    BY <2>1 DEF TypeOK, Owners
  <2> QED
    BY <2>1, <2>2, <2>3 DEF KeeperInv, StaleAreDown, LiveAreRegistered, Alive
<1> QED BY <1>1, KeeperHolds, TypeCorrect, PTL

\* "Liveness is the heartbeat, NOT job duration": as long as heartbeats come
\* in time nobody takes a payload away from a replica that is still running,
\* except its own worker with the LREM that ends a job.
THEOREM LiveClaimsStay == Steady => (Spec => LiveClaimsKept)
<1> DEFINE Kept ==
      \A i \in Instances :
          Alive(i) /\ Alive(i)' =>
              \A x \in Payloads :
                  Has(processing[i], x) /\ ~Has(processing[i], x)' =>
                      \E p \in Procs : Inst(p) = i /\ x \in held[p] /\ pc[p] = "ack"
<1> SUFFICES ASSUME Steady PROVE Spec => LiveClaimsKept
  OBVIOUS
<1>1. TypeOK /\ HeldOK /\ KeeperInv /\ [Next]_vars => [Kept]_vars
  <2> SUFFICES ASSUME TypeOK, HeldOK, KeeperInv, [Next]_vars,
                      NEW i \in Instances, Alive(i), NEW x \in Payloads,
                      Has(processing[i], x), ~Has(processing'[i], x)
               PROVE  \E p \in Procs : Inst(p) = i /\ x \in held[p] /\ pc[p] = "ack"
    OBVIOUS
  <2> USE DEF redis, workers, mover, keeper, history
  <2>1. i \in Owners /\ i # Legacy /\ processing[i] \in Seq(Payloads)
    BY RedisqAssumption DEF Owners, TypeOK
  <2>2. ASSUME NEW p \in Procs, NEW o \in Outcomes, Claim(p, o) PROVE FALSE
    <3> DEFINE y == Last(pending)
    <3>1. y \in Payloads
      BY <2>2, FrontHas DEF Claim, TypeOK
    <3>2. Inst(p) \in Owners
      BY DEF Procs, Inst, Owners
    <3>3. processing'[i] = processing[i] \/ processing'[i] = LPush(processing[i], y)
      BY <2>1, <2>2, <3>2 DEF Claim, Claimed, LPush, TypeOK
    <3> HIDE DEF y
    <3>4. Has(LPush(processing[i], y), x)
      BY <2>1, <3>1, LPushHas
    <3> QED BY <3>3, <3>4
  <2>3. ASSUME NEW p \in Procs, NEW y \in held[p], NEW o \in Outcomes, Ack(p, y, o)
        PROVE  Inst(p) = i /\ x \in held[p] /\ pc[p] = "ack"
    <3>1. Inst(p) \in Owners /\ pc[p] = "ack"
      BY <2>3 DEF Procs, Inst, Owners, Ack
    <3>2. Inst(p) = i /\ processing'[i] = RemoveFirst(processing[i], y)
      BY <2>1, <2>3, <3>1 DEF Ack, TypeOK
    <3>3. y = x
      BY <2>1, <3>2, RemoveFirstHas
    <3> QED BY <3>1, <3>2, <3>3
  <2>4. ASSUME NEW k \in Instances, NEW t \in sweep[k], NEW o \in Outcomes,
               ReapMove(k, t, o)
        PROVE  FALSE
    <3>1. t \in Owners
      BY DEF TypeOK
    <3>2. t = i
      BY <2>1, <2>4, <3>1 DEF ReapMove, TypeOK
    <3>3. life[i] = "down"
      BY <3>2 DEF KeeperInv, StaleAreDown
    <3> QED BY <3>3 DEF Alive
  <2>5. processing' # processing
    OBVIOUS
  <2>6. /\ \A j \in Jobs, k \in Instances, o \in Outcomes :
              ~EnqueueCheck(j, k, o) /\ ~EnqueuePush(j, k, o)
        /\ \A k \in Instances : ~Launch(k) /\ ~ReapScan(k) /\ ~Close(k) /\ ~Exit(k)
        /\ \A k \in Instances, o \in Outcomes :
              /\ ~Register(k, o) /\ ~LegacyScan(k, o) /\ ~LegacyMark(k, o)
              /\ ~RecoverOrphans(k, o) /\ ~FirstReap(k, o) /\ ~Heartbeat(k, o)
    BY <2>5 DEF EnqueueCheck, EnqueuePush, Launch, ReapScan, Close, Exit, Register,
                LegacyScan, LegacyMark, RecoverOrphans, FirstReap, Heartbeat
  <2>7. /\ \A p \in Procs : ~Quit(p)
        /\ \A p \in Procs : \A y \in held[p], d \in Dispositions : ~Handle(p, y, d)
        /\ \A p \in Procs : \A y \in held[p], o \in Outcomes :
              ~Bury(p, y, o) /\ ~ScheduleRetry(p, y, o)
    BY <2>5 DEF Quit, Handle, Bury, ScheduleRetry
  <2>8. /\ \A k \in Instances : \A S \in SUBSET retry : ~MoverScan(k, S)
        /\ \A k \in Instances : \A m \in due[k], o \in Outcomes :
              ~MoverPush(k, m, o) /\ ~MoverRem(k, m, o)
        /\ \A k \in Instances : \A t \in sweep[k], o \in Outcomes :
              ~ReapNil(k, t, o) /\ ~Deregister(k, t, o)
        /\ \A t \in Owners : ~Expire(t)
        /\ ~UNCHANGED vars
    BY <2>5 DEF MoverScan, MoverPush, MoverRem, ReapNil, Deregister, Expire, vars
  <2> QED
    BY <2>2, <2>3, <2>4, <2>6, <2>7, <2>8
       DEF Next, Enqueue, Start, Worker, RetryMover, Keeper, Reap
<1>2. LiveClaimsKept <=> [][Kept]_vars
  BY DEF LiveClaimsKept
<1> HIDE DEF Kept
<1> QED BY <1>1, <1>2, TypeCorrect, KeeperHolds, PTL DEF Spec

-----------------------------------------------------------------------------
(* First runs do not overlap.  While heartbeats come in time a payload that *)
(* was never retried is in one list once and in the hands of one worker,    *)
(* the owner of that list.  Retried payloads are not covered: two movers    *)
(* may push the same member.                                                *)

\* A payload no handler has finished with occurs once in the list q.
Distinct(q) ==
    \A k, l \in DOMAIN q : q[k] = q[l] /\ q[k].attempts = 0 => k = l

\* What LPUSH and the reaper's LMOVE ... RIGHT add is all they add.
LEMMA AddedOnly ==
    ASSUME NEW S, NEW q \in Seq(S), NEW x \in S
    PROVE  /\ \A y : Has(LPush(q, x), y) => y = x \/ Has(q, y)
           /\ \A y : Has(Append(q, x), y) => y = x \/ Has(q, y)
           /\ Distinct(q) /\ (x.attempts = 0 => ~Has(q, x))
              => Distinct(LPush(q, x)) /\ Distinct(Append(q, x))
<1>1. Len(q) \in Nat /\ DOMAIN q = 1..Len(q)
  OBVIOUS
<1> DEFINE r == LPush(q, x)
           s == Append(q, x)
<1>2. /\ DOMAIN r = 1..(Len(q) + 1) /\ r[1] = x
      /\ \A k \in 1..Len(q) : r[k + 1] = q[k]
  BY LPushAt
<1>3. /\ DOMAIN s = 1..(Len(q) + 1) /\ s[Len(q) + 1] = x
      /\ \A k \in 1..Len(q) : s[k] = q[k]
  BY <1>1
<1> DEFINE n == Len(q)
<1> HIDE DEF r, s, n
<1>4. \A k \in DOMAIN r : k = 1 \/ (k - 1 \in DOMAIN q /\ r[k] = q[k - 1])
  <2> SUFFICES ASSUME NEW k \in DOMAIN r, k # 1
               PROVE  k - 1 \in DOMAIN q /\ r[k] = q[k - 1]
    OBVIOUS
  <2> DEFINE l == k - 1
  <2>1. l \in 1..Len(q) /\ l + 1 = k
    BY <1>1, <1>2
  <2> HIDE DEF l
  <2>2. r[k] = q[l] /\ l \in DOMAIN q
    BY <2>1, <1>1, <1>2
  <2> QED BY <2>2 DEF l
<1>5. \A k \in DOMAIN s : k = Len(q) + 1 \/ (k \in DOMAIN q /\ s[k] = q[k])
  BY <1>1, <1>3
<1>6. \A y : Has(r, y) => y = x \/ Has(q, y)
  BY <1>2, <1>4 DEF Has
<1>7. \A y : Has(s, y) => y = x \/ Has(q, y)
  BY <1>3, <1>5 DEF Has
<1>8. ASSUME Distinct(q), x.attempts = 0 => ~Has(q, x) PROVE Distinct(r)
  <2> SUFFICES ASSUME NEW k \in DOMAIN r, NEW l \in DOMAIN r,
                      r[k] = r[l], r[k].attempts = 0
               PROVE  k = l
    BY DEF Distinct
  <2>1. CASE k = 1 /\ l # 1
    BY <2>1, <1>2, <1>4, <1>8 DEF Has
  <2>2. CASE k # 1 /\ l = 1
    BY <2>2, <1>2, <1>4, <1>8 DEF Has
  <2>3. CASE k # 1 /\ l # 1
    <3>1. k - 1 = l - 1
      BY <2>3, <1>4, <1>8 DEF Distinct
    <3> QED BY <3>1, <1>1, <1>2
  <2> QED BY <2>1, <2>2, <2>3
<1>9. ASSUME Distinct(q), x.attempts = 0 => ~Has(q, x) PROVE Distinct(s)
  <2> SUFFICES ASSUME NEW k \in DOMAIN s, NEW l \in DOMAIN s,
                      s[k] = s[l], s[k].attempts = 0
               PROVE  k = l
    BY DEF Distinct
  <2>1. CASE k \notin DOMAIN q /\ l \in DOMAIN q
    BY <2>1, <1>3, <1>5, <1>8, <1>9 DEF Has
  <2>2. CASE k \in DOMAIN q /\ l \notin DOMAIN q
    BY <2>2, <1>3, <1>5, <1>9 DEF Has
  <2>3. CASE k \in DOMAIN q /\ l \in DOMAIN q
    <3>1. s[k] = q[k] /\ s[l] = q[l]
      BY <2>3, <1>1, <1>3
    <3> QED BY <2>3, <3>1, <1>9 DEF Distinct
  <2>4. CASE k \notin DOMAIN q /\ l \notin DOMAIN q
    BY <2>4, <1>5
  <2> QED BY <2>1, <2>2, <2>3, <2>4
<1> QED BY <1>6, <1>7, <1>8, <1>9 DEF r, s

\* LMOVE takes the one copy.
LEMMA FrontDistinct ==
    ASSUME NEW S, NEW q \in Seq(S), q # <<>>, Distinct(q)
    PROVE  /\ Distinct(Front(q))
           /\ Last(q).attempts = 0 => ~Has(Front(q), Last(q))
<1>1. /\ Len(q) \in Nat \ {0} /\ Last(q) = q[Len(q)]
      /\ DOMAIN Front(q) = 1..(Len(q) - 1)
      /\ \A k \in 1..(Len(q) - 1) : Front(q)[k] = q[k]
  BY FrontOf
<1>2. DOMAIN q = 1..Len(q)
  OBVIOUS
<1>3. 1..(Len(q) - 1) \subseteq 1..Len(q) /\ Len(q) \in 1..Len(q)
      /\ Len(q) \notin 1..(Len(q) - 1)
  BY <1>1
<1>4. Distinct(Front(q))
  BY <1>1, <1>2, <1>3 DEF Distinct
<1>5. ASSUME Last(q).attempts = 0, NEW k \in DOMAIN Front(q), Front(q)[k] = Last(q)
      PROVE  FALSE
  <2>1. k \in DOMAIN q /\ q[k] = q[Len(q)] /\ q[k].attempts = 0
    BY <1>1, <1>2, <1>3, <1>5
  <2>2. k = Len(q)
    BY <2>1, <1>2, <1>3 DEF Distinct
  <2> QED BY <2>2, <1>1, <1>3, <1>5
<1> QED BY <1>4, <1>5 DEF Has

\* LREM moves the later elements up by one and repeats none.
LEMMA RemoveFirstDistinct ==
    ASSUME NEW S, NEW q \in Seq(S), NEW x, Distinct(q)
    PROVE  Distinct(RemoveFirst(q, x))
<1>1. CASE ~ \E k \in 1..Len(q) : q[k] = x
  BY <1>1 DEF RemoveFirst
<1>2. CASE \E k \in 1..Len(q) : q[k] = x
  <2> DEFINE I == {k \in 1..Len(q) : q[k] = x}
             n == Min(I)
             a == SubSeq(q, 1, n - 1)
             b == SubSeq(q, n + 1, Len(q))
             r == a \o b
  <2>1. RemoveFirst(q, x) = r
    BY <1>2 DEF RemoveFirst, RemoveAt, SelectInSeq
  <2>2. n \in 1..Len(q)
    <3>1. I \in SUBSET Nat /\ I # {}
      BY <1>2
    <3> QED BY <3>1, MinIsElement
  <2> HIDE DEF n
  <2>3. /\ a \in Seq(S) /\ Len(a) = n - 1
        /\ \A k \in 1..(n - 1) : a[k] = q[k]
    BY <2>2
  <2>4. /\ b \in Seq(S) /\ Len(b) = Len(q) - n
        /\ \A k \in 1..(Len(q) - n) : b[k] = q[k + n]
    BY <2>2
  <2> HIDE DEF a, b
  <2>5. Len(a) \in Nat /\ Len(b) \in Nat /\ DOMAIN q = 1..Len(q) /\ Len(q) \in Nat
    BY <2>3, <2>4
  <2>6. /\ r \in Seq(S) /\ Len(r) = Len(a) + Len(b)
        /\ \A k \in 1..(Len(a) + Len(b)) :
              r[k] = IF k <= Len(a) THEN a[k] ELSE b[k - Len(a)]
    BY <2>3, <2>4, ConcatProperties
  <2>7. DOMAIN r = 1..(Len(a) + Len(b))
    BY <2>6
  <2> HIDE DEF r
  <2> DEFINE f(k) == IF k < n THEN k ELSE k + 1
  <2>8. \A k \in DOMAIN r : f(k) \in DOMAIN q /\ r[k] = q[f(k)]
    <3> SUFFICES ASSUME NEW k \in DOMAIN r PROVE f(k) \in DOMAIN q /\ r[k] = q[f(k)]
      OBVIOUS
    <3>1. CASE k < n
      <4>1. k \in 1..(n - 1) /\ k <= Len(a) /\ f(k) = k /\ k \in 1..Len(q)
        BY <3>1, <2>2, <2>3, <2>4, <2>5, <2>7
      <4> QED BY <4>1, <2>3, <2>5, <2>6, <2>7
    <3>2. CASE ~ (k < n)
      <4> DEFINE l == k - Len(a)
      <4>1. /\ l \in 1..(Len(q) - n) /\ l + n = k + 1 /\ ~ (k <= Len(a))
            /\ f(k) = k + 1 /\ k + 1 \in 1..Len(q)
        BY <3>2, <2>2, <2>3, <2>4, <2>5, <2>7
      <4>2. r[k] = b[l]
        BY <4>1, <2>6, <2>7
      <4> HIDE DEF l
      <4>3. r[k] = q[k + 1]
        BY <4>1, <4>2, <2>4
      <4> QED BY <4>1, <4>3, <2>5
    <3> QED BY <3>1, <3>2
  <2>9. \A k, l \in DOMAIN r : f(k) = f(l) => k = l
    BY <2>2, <2>5, <2>7
  <2> HIDE DEF f
  <2>10. Distinct(r)
    BY <2>8, <2>9 DEF Distinct
  <2> QED BY <2>1, <2>10
<1> QED BY <1>1, <1>2

-----------------------------------------------------------------------------
\* What the old version left was in its list once per job, as long as it had
\* not been retried.
LeftOnce == Distinct(Left)

\* A worker with nothing to do has nothing in hand.
IdleHandsEmpty == \A p \in Procs : pc[p] \in {"gone", "poll"} => held[p] = {}

\* What waits for a retry has been run.
RetriedHaveRun ==
    /\ \A x \in retry : x.attempts # 0
    /\ \A i \in Instances : \A x \in due[i] \cup pushed[i] : x.attempts # 0

\* A payload that has not run is in one place ...
OnePlace ==
    /\ Distinct(pending)
    /\ \A i \in Owners : Distinct(processing[i])
    /\ \A x \in Payloads, i \in Owners :
          x.attempts = 0 /\ Has(processing[i], x) =>
              /\ ~Has(pending, x)
              /\ \A k \in Owners : Has(processing[k], x) => k = i

\* ... where a call of Enqueue that is over has put it ...
PutByEnqueue ==
    \A x \in Payloads :
        x.attempts = 0 /\ Queued(x) => intake[x.job] \in {"accepted", "error"}

\* ... and its holder took it from there.
HeldIsListed ==
    \A p \in Procs : \A x \in held[p] :
        x.attempts = 0 => Has(processing[Inst(p)], x)

OneHolder ==
    \A p, q \in Procs : \A x \in held[p] :
        x.attempts = 0 /\ x \in held[q] => p = q

FirstRunInv ==
    /\ IdleHandsEmpty /\ RetriedHaveRun /\ OnePlace /\ PutByEnqueue
    /\ HeldIsListed /\ OneHolder

\* Steps that move no payload and let no hand reach for one.
LEMMA FirstRunQuiet ==
    ASSUME TypeOK, FirstRunInv,
           UNCHANGED <<pending, processing>>, RetriedHaveRun', IdleHandsEmpty',
           \A p \in Procs : held'[p] \subseteq held[p],
           \A j \in Jobs : intake[j] \in {"accepted", "error"} => intake'[j] = intake[j]
    PROVE  FirstRunInv'
<1>1. OnePlace'
  BY DEF FirstRunInv, OnePlace, Distinct, Has
<1>2. PutByEnqueue'
  <2> SUFFICES ASSUME NEW x \in Payloads, x.attempts = 0, Queued(x)'
               PROVE  intake'[x.job] \in {"accepted", "error"}
    BY DEF PutByEnqueue
  <2>1. Queued(x)
    BY DEF Queued, Has
  <2>2. x.job \in Jobs
    BY DEF Payloads
  <2> QED BY <2>1, <2>2 DEF FirstRunInv, PutByEnqueue
<1>3. HeldIsListed'
  BY DEF FirstRunInv, HeldIsListed, Has
<1>4. OneHolder'
  BY DEF FirstRunInv, OneHolder
<1> QED BY <1>1, <1>2, <1>3, <1>4 DEF FirstRunInv

\* A payload comes to pending and leaves, if anything, a list whose owner has
\* no hands.
LEMMA FirstRunEnter ==
    ASSUME TypeOK, FirstRunInv, UNCHANGED <<processing, held>>,
           RetriedHaveRun', IdleHandsEmpty',
           NEW x \in Payloads, pending' = LPush(pending, x),
           x.attempts = 0 => ~Queued(x) /\ intake'[x.job] \in {"accepted", "error"},
           \A j \in Jobs : intake[j] \in {"accepted", "error"} => intake'[j] = intake[j]
    PROVE  FirstRunInv'
<1>1. pending \in Seq(Payloads)
  BY DEF TypeOK
<1>2. /\ \A y : Has(pending', y) => y = x \/ Has(pending, y)
      /\ Distinct(pending) /\ (x.attempts = 0 => ~Has(pending, x)) => Distinct(pending')
  BY <1>1, AddedOnly
<1>3. OnePlace'
  <2>1. Distinct(pending')
    BY <1>2 DEF FirstRunInv, OnePlace, Queued
  <2>2. \A i \in Owners : Distinct(processing'[i])
    BY DEF FirstRunInv, OnePlace
  <2>3. ASSUME NEW y \in Payloads, NEW i \in Owners, y.attempts = 0, Has(processing[i], y)
        PROVE  ~Has(pending', y) /\ \A k \in Owners : Has(processing[k], y) => k = i
    BY <2>3, <1>2 DEF FirstRunInv, OnePlace, Queued
  <2> QED BY <2>1, <2>2, <2>3 DEF OnePlace
<1>4. PutByEnqueue'
  <2> SUFFICES ASSUME NEW y \in Payloads, y.attempts = 0, Queued(y)'
               PROVE  intake'[y.job] \in {"accepted", "error"}
    BY DEF PutByEnqueue
  <2>1. y = x \/ Queued(y)
    BY <1>2 DEF Queued
  <2>2. y.job \in Jobs
    BY DEF Payloads
  <2> QED BY <2>1, <2>2 DEF FirstRunInv, PutByEnqueue
<1>5. HeldIsListed' /\ OneHolder'
  BY DEF FirstRunInv, HeldIsListed, OneHolder
<1> QED BY <1>3, <1>4, <1>5 DEF FirstRunInv

\* LMOVE of the worker: the one copy changes lists, and no hand was on it.
LEMMA FirstRunClaim ==
    ASSUME TypeOK, FirstRunInv, NEW p \in Procs, NEW o \in Outcomes, Claim(p, o)
    PROVE  FirstRunInv'
<1> USE DEF redis, workers, mover, keeper, history
<1> DEFINE i == Inst(p)
           x == Last(pending)
<1>1. i \in Owners
  BY DEF Procs, Inst, Owners
<1>2. UNCHANGED <<retry, due, pushed, intake>> /\ pc[p] = "poll" /\ pending # <<>>
  BY DEF Claim
<1>3. RetriedHaveRun'
  BY <1>2 DEF FirstRunInv, RetriedHaveRun
<1>4. IdleHandsEmpty'
  <2> SUFFICES ASSUME NEW q \in Procs, pc'[q] \in {"gone", "poll"} PROVE held'[q] = {}
    BY DEF IdleHandsEmpty
  <2>1. CASE q # p
    BY <2>1 DEF Claim, TypeOK, FirstRunInv, IdleHandsEmpty
  <2>2. CASE q = p
    <3>1. held[p] = {}
      BY <1>2 DEF FirstRunInv, IdleHandsEmpty
    <3>2. o # "ok"
      BY <2>2 DEF Claim, TypeOK
    <3> QED BY <2>2, <3>1, <3>2 DEF Claim
  <2> QED BY <2>1, <2>2
<1>5. CASE ~Applied(o)
  <2>1. UNCHANGED <<pending, processing, held>>
    BY <1>5 DEF Claim, Applied
  <2> QED BY <1>2, <1>3, <1>4, <2>1, FirstRunQuiet
<1>6. CASE Applied(o)
  <2>1. /\ pending' = Front(pending)
        /\ processing' = [processing EXCEPT ![i] = LPush(processing[i], x)]
    BY <1>6 DEF Claim, Claimed, LPush
  <2>2. /\ \A q \in Procs \ {p} : held'[q] = held[q]
        /\ held'[p] \in {{}, {x}}
    <3>1. held[p] = {}
      BY <1>2 DEF FirstRunInv, IdleHandsEmpty
    <3> QED BY <3>1 DEF Claim, TypeOK
  <2>3. /\ x \in Payloads /\ Has(pending, x)
        /\ Distinct(Front(pending)) /\ (x.attempts = 0 => ~Has(Front(pending), x))
        /\ \A y : Has(Front(pending), y) => Has(pending, y)
    <3>1. pending \in Seq(Payloads) /\ Distinct(pending)
      BY DEF TypeOK, FirstRunInv, OnePlace
    <3>2. x \in Payloads /\ x = pending[Len(pending)] /\ Len(pending) \in Nat \ {0}
      BY <1>2, <3>1, FrontHas, FrontOf
    <3>3. Len(pending) \in DOMAIN pending
      BY <3>1, <3>2
    <3> QED BY <1>2, <3>1, <3>2, <3>3, FrontDistinct, FrontOf DEF Has
  <2> HIDE DEF x, i
  <2>4. x.attempts = 0 => \A k \in Owners : ~Has(processing[k], x)
    BY <2>3 DEF FirstRunInv, OnePlace
  <2>5. /\ processing[i] \in Seq(Payloads) /\ processing'[i] = LPush(processing[i], x)
        /\ \A k \in Owners \ {i} : processing'[k] = processing[k]
    BY <1>1, <2>1 DEF TypeOK
  <2>6. /\ \A y : Has(processing'[i], y) => y = x \/ Has(processing[i], y)
        /\ \A y : Has(processing[i], y) => Has(processing'[i], y)
        /\ Has(processing'[i], x)
        /\ Distinct(processing'[i])
    <3>1. Distinct(processing[i])
      BY <1>1 DEF FirstRunInv, OnePlace
    <3>2. x.attempts = 0 => ~Has(processing[i], x)
      BY <1>1, <2>4
    <3> QED BY <2>3, <2>5, <3>1, <3>2, AddedOnly, LPushHas
  <2>7. OnePlace'
    <3>1. Distinct(pending') /\ \A k \in Owners : Distinct(processing'[k])
      BY <2>1, <2>3, <2>5, <2>6 DEF FirstRunInv, OnePlace
    <3>2. ASSUME NEW y \in Payloads, NEW k \in Owners, y.attempts = 0, Has(processing'[k], y)
          PROVE  ~Has(pending', y)
      <4>1. CASE y = x
        BY <4>1, <3>2, <2>1, <2>3
      <4>2. CASE y # x
        <5>1. Has(processing[k], y)
          BY <4>2, <3>2, <2>5, <2>6
        <5>2. ~Has(pending, y)
          BY <5>1, <3>2 DEF FirstRunInv, OnePlace
        <5> QED BY <5>2, <2>1, <2>3
      <4> QED BY <4>1, <4>2
    <3>3. ASSUME NEW y \in Payloads, NEW k \in Owners, NEW l \in Owners, y.attempts = 0,
                 Has(processing'[k], y), Has(processing'[l], y)
          PROVE  l = k
      <4>1. CASE y = x
        BY <4>1, <3>3, <2>4, <2>5
      <4>2. CASE y # x
        <5>1. Has(processing[k], y) /\ Has(processing[l], y)
          BY <4>2, <3>3, <2>5, <2>6
        <5> QED BY <5>1, <3>3 DEF FirstRunInv, OnePlace
      <4> QED BY <4>1, <4>2
    <3> QED BY <3>1, <3>2, <3>3 DEF OnePlace
  <2>8. PutByEnqueue'
    <3> SUFFICES ASSUME NEW y \in Payloads, y.attempts = 0, Queued(y)'
                 PROVE  Queued(y)
      BY <1>2 DEF FirstRunInv, PutByEnqueue
    <3>1. CASE Has(pending', y)
      BY <3>1, <2>1, <2>3 DEF Queued
    <3>2. ASSUME NEW k \in Owners, Has(processing'[k], y) PROVE Queued(y)
      BY <3>2, <2>3, <2>5, <2>6 DEF Queued
    <3> QED BY <3>1, <3>2 DEF Queued
  <2>9. HeldIsListed'
    <3> SUFFICES ASSUME NEW q \in Procs, NEW y \in held'[q], y.attempts = 0
                 PROVE  Has(processing'[Inst(q)], y)
      BY DEF HeldIsListed
    <3>1. Inst(q) \in Owners
      BY DEF Procs, Inst, Owners
    <3>2. CASE q = p
      BY <3>2, <2>2, <2>6 DEF i
    <3>3. CASE q # p
      <4>1. Has(processing[Inst(q)], y)
        BY <3>3, <2>2 DEF FirstRunInv, HeldIsListed
      <4> QED BY <4>1, <3>1, <2>5, <2>6
    <3> QED BY <3>2, <3>3
  <2>10. ASSUME NEW q \in Procs, x.attempts = 0, x \in held[q] PROVE FALSE
    <3>1. Inst(q) \in Owners /\ Has(processing[Inst(q)], x)
      BY <2>10 DEF FirstRunInv, HeldIsListed, Procs, Inst, Owners
    <3> QED BY <3>1, <2>4, <2>10
  <2>11. OneHolder'
    <3> SUFFICES ASSUME NEW q \in Procs, NEW r \in Procs, NEW y \in held'[q],
                        y.attempts = 0, y \in held'[r]
                 PROVE  q = r
      BY DEF OneHolder
    <3>1. CASE y = x
      BY <3>1, <2>2, <2>10
    <3>2. CASE y # x
      <4>1. y \in held[q] /\ y \in held[r]
        BY <3>2, <2>2
      <4> QED BY <4>1 DEF FirstRunInv, OneHolder
    <3> QED BY <3>1, <3>2
  <2> QED BY <1>3, <1>4, <2>7, <2>8, <2>9, <2>11 DEF FirstRunInv
<1> QED BY <1>5, <1>6

\* The worker's LREM: of two hands on one list each has its own payload.
LEMMA FirstRunAck ==
    ASSUME TypeOK, FirstRunInv, NEW p \in Procs, NEW x \in held[p], NEW o \in Outcomes,
           Ack(p, x, o)
    PROVE  FirstRunInv'
<1> USE DEF redis, workers, mover, keeper, history
<1>1. Inst(p) \in Owners /\ x \in Payloads
  BY DEF Procs, Inst, Owners, TypeOK
<1>2. UNCHANGED <<pending, retry, due, pushed, intake>>
  BY DEF Ack
<1>3. RetriedHaveRun'
  BY <1>2 DEF FirstRunInv, RetriedHaveRun
<1>4. held'[p] = {} /\ \A q \in Procs \ {p} : held'[q] = held[q] /\ pc'[q] = pc[q]
  BY DEF Ack, TypeOK
<1>5. IdleHandsEmpty'
  BY <1>4 DEF FirstRunInv, IdleHandsEmpty
<1>6. ASSUME NEW k \in Owners
      PROVE  /\ Distinct(processing'[k])
             /\ \A y : Has(processing'[k], y) => Has(processing[k], y)
             /\ \A y : Has(processing[k], y) =>
                          Has(processing'[k], y) \/ (k = Inst(p) /\ y = x)
  <2>1. processing[k] \in Seq(Payloads) /\ Distinct(processing[k])
    BY DEF TypeOK, FirstRunInv, OnePlace
  <2>2. CASE processing'[k] = processing[k]
    BY <2>1, <2>2
  <2>3. CASE k = Inst(p) /\ processing'[k] = RemoveFirst(processing[k], x)
    BY <2>1, <2>3, RemoveFirstDistinct, RemoveFirstOf, RemoveFirstHas
  <2>4. processing'[k] = processing[k]
        \/ (k = Inst(p) /\ processing'[k] = RemoveFirst(processing[k], x))
    BY DEF Ack, TypeOK
  <2> QED BY <2>2, <2>3, <2>4
<1>7. OnePlace'
  BY <1>2, <1>6 DEF FirstRunInv, OnePlace
<1>8. PutByEnqueue'
  BY <1>2, <1>6 DEF FirstRunInv, PutByEnqueue, Queued
<1>9. HeldIsListed'
  <2> SUFFICES ASSUME NEW q \in Procs, NEW y \in held'[q], y.attempts = 0
               PROVE  Has(processing'[Inst(q)], y)
    BY DEF HeldIsListed
  <2>1. q # p /\ y \in held[q] /\ Inst(q) \in Owners
    BY <1>4 DEF Procs, Inst, Owners
  <2>2. Has(processing[Inst(q)], y)
    BY <2>1 DEF FirstRunInv, HeldIsListed
  <2>3. y # x
    BY <2>1 DEF FirstRunInv, OneHolder
  <2> QED BY <2>1, <2>2, <2>3, <1>6
<1>10. OneHolder'
  BY <1>4 DEF FirstRunInv, OneHolder
<1> QED BY <1>3, <1>5, <1>7, <1>8, <1>9, <1>10 DEF FirstRunInv

\* The reaper's LMOVE: this is where the heartbeat matters.  The list is that
\* of a dead replica, or the shared key, so no hand loses its payload.
LEMMA FirstRunReap ==
    ASSUME TypeOK, KeeperInv, FirstRunInv,
           NEW i \in Instances, NEW t \in sweep[i], NEW o \in Outcomes, ReapMove(i, t, o)
    PROVE  FirstRunInv'
<1> USE DEF redis, workers, mover, keeper, history
<1> DEFINE x == Last(processing[t])
<1>1. t \in Owners /\ processing[t] \in Seq(Payloads) /\ processing[t] # <<>>
  BY DEF TypeOK, ReapMove
<1>2. UNCHANGED <<retry, due, pushed, intake, held, pc>>
  BY DEF ReapMove
<1>3. RetriedHaveRun' /\ IdleHandsEmpty' /\ OneHolder'
  BY <1>2 DEF FirstRunInv, RetriedHaveRun, IdleHandsEmpty, OneHolder
<1>4. \A q \in Procs : Inst(q) = t => held[q] = {}
  <2> SUFFICES ASSUME NEW q \in Procs, Inst(q) = t PROVE held[q] = {}
    OBVIOUS
  <2>1. t \in Instances
    BY DEF Procs, Inst
  <2>2. life[t] = "down"
    BY <2>1 DEF KeeperInv, StaleAreDown
  <2>3. pc[q] = "gone"
    BY <2>2 DEF KeeperInv, WorkersLive
  <2> QED BY <2>3 DEF FirstRunInv, IdleHandsEmpty
<1>5. CASE ~Applied(o)
  <2>1. UNCHANGED <<pending, processing>>
    BY <1>5 DEF ReapMove
  <2> QED BY <1>2, <1>3, <2>1, FirstRunQuiet
<1>6. CASE Applied(o)
  <2>1. /\ pending' = Append(pending, x)
        /\ processing' = [processing EXCEPT ![t] = Front(@)]
    BY <1>6 DEF ReapMove
  <2>2. /\ processing'[t] = Front(processing[t])
        /\ \A k \in Owners \ {t} : processing'[k] = processing[k]
    BY <1>1, <2>1 DEF TypeOK
  <2>3. /\ x \in Payloads /\ Has(processing[t], x)
        /\ \A y : Has(processing[t], y) => y = x \/ Has(processing'[t], y)
        /\ \A y : Has(processing'[t], y) => Has(processing[t], y)
        /\ Distinct(processing'[t])
        /\ x.attempts = 0 => ~Has(processing'[t], x)
    <3>1. Distinct(processing[t])
      BY <1>1 DEF FirstRunInv, OnePlace
    <3>2. x = processing[t][Len(processing[t])] /\ Len(processing[t]) \in Nat \ {0}
      BY <1>1, FrontOf
    <3>3. Len(processing[t]) \in DOMAIN processing[t]
      BY <1>1, <3>2
    <3>4. Has(processing[t], x)
      BY <3>2, <3>3 DEF Has
    <3> QED BY <1>1, <2>2, <3>1, <3>4, FrontHas, FrontOf, FrontDistinct
  <2> HIDE DEF x
  <2>4. x.attempts = 0 => ~Has(pending, x) /\ \A k \in Owners : ~Has(processing'[k], x)
    BY <1>1, <2>2, <2>3 DEF FirstRunInv, OnePlace
  <2>5. /\ \A y : Has(pending', y) => y = x \/ Has(pending, y)
        /\ \A y : Has(pending, y) => Has(pending', y)
        /\ Has(pending', x)
        /\ Distinct(pending')
    <3>1. pending \in Seq(Payloads) /\ Distinct(pending)
      BY DEF TypeOK, FirstRunInv, OnePlace
    <3> QED BY <2>1, <2>3, <2>4, <3>1, AddedOnly, AppendHas
  <2>6. \A k \in Owners, y \in Payloads : Has(processing'[k], y) => Has(processing[k], y)
    BY <2>2, <2>3
  <2>7. OnePlace'
    <3>1. \A k \in Owners : Distinct(processing'[k])
      BY <2>2, <2>3 DEF FirstRunInv, OnePlace
    <3>2. ASSUME NEW y \in Payloads, NEW k \in Owners, y.attempts = 0, Has(processing'[k], y)
          PROVE  ~Has(pending', y) /\ \A l \in Owners : Has(processing'[l], y) => l = k
      <4>1. y # x
        BY <3>2, <2>4
      <4>2. Has(processing[k], y)
        BY <3>2, <2>6
      <4> QED BY <3>2, <4>1, <4>2, <2>5, <2>6 DEF FirstRunInv, OnePlace
    <3> QED BY <2>5, <3>1, <3>2 DEF OnePlace
  <2>8. PutByEnqueue'
    <3> SUFFICES ASSUME NEW y \in Payloads, y.attempts = 0, Queued(y)'
                 PROVE  Queued(y)
      BY <1>2 DEF FirstRunInv, PutByEnqueue
    <3> QED BY <1>1, <2>3, <2>5, <2>6 DEF Queued
  <2>9. HeldIsListed'
    <3> SUFFICES ASSUME NEW q \in Procs, NEW y \in held[q], y.attempts = 0
                 PROVE  Has(processing'[Inst(q)], y)
      BY <1>2 DEF HeldIsListed
    <3>1. Inst(q) \in Owners /\ Inst(q) # t
      BY <1>4 DEF Procs, Inst, Owners
    <3>2. Has(processing[Inst(q)], y)
      BY DEF FirstRunInv, HeldIsListed
    <3> QED BY <3>1, <3>2, <2>2
  <2> QED BY <1>3, <2>5, <2>7, <2>8, <2>9 DEF FirstRunInv
<1> QED BY <1>5, <1>6

\* Every step of a fleet that beats in time.
LEMMA FirstRunStep ==
    ASSUME TypeOK, HeldOK, KeeperInv, FirstRunInv, [Next]_vars
    PROVE  FirstRunInv'
<1> USE DEF redis, workers, mover, keeper, history
\* A step of no worker that moves no payload.
<1>1. ASSUME UNCHANGED <<pending, processing, retry, held, intake>>,
             \A p \in Procs : pc'[p] = pc[p],
             \A i \in Instances : due'[i] \subseteq due[i] \cup retry,
             \A i \in Instances : pushed'[i] \subseteq pushed[i]
      PROVE  FirstRunInv'
  <2>1. RetriedHaveRun'
    BY <1>1 DEF FirstRunInv, RetriedHaveRun
  <2>2. IdleHandsEmpty'
    BY <1>1 DEF FirstRunInv, IdleHandsEmpty
  <2> QED BY <1>1, <2>1, <2>2, FirstRunQuiet
\* A worker's step that moves no payload.
<1>2. ASSUME NEW p \in Procs, UNCHANGED <<pending, processing, due, pushed, intake>>,
             \A x \in retry' : x \in retry \/ x.attempts # 0,
             \A q \in Procs \ {p} : pc'[q] = pc[q] /\ held'[q] = held[q],
             held'[p] \subseteq held[p],
             pc'[p] \in {"gone", "poll"} => held'[p] = {}
      PROVE  FirstRunInv'
  <2>1. RetriedHaveRun'
    BY <1>2 DEF FirstRunInv, RetriedHaveRun
  <2>2. IdleHandsEmpty'
    BY <1>2 DEF FirstRunInv, IdleHandsEmpty
  <2>3. \A q \in Procs : held'[q] \subseteq held[q]
    BY <1>2
  <2> QED BY <1>2, <2>1, <2>2, <2>3, FirstRunQuiet
<1>3. ASSUME NEW j \in Jobs, NEW i \in Instances, NEW o \in Outcomes, EnqueueCheck(j, i, o)
      PROVE  FirstRunInv'
  <2>1. UNCHANGED <<pending, processing, retry, held, pc, due, pushed>>
    BY <1>3 DEF EnqueueCheck
  <2>2. \A k \in Jobs : intake[k] \in {"accepted", "error"} => intake'[k] = intake[k]
    BY <1>3 DEF EnqueueCheck, TypeOK
  <2>3. RetriedHaveRun' /\ IdleHandsEmpty'
    BY <2>1 DEF FirstRunInv, RetriedHaveRun, IdleHandsEmpty
  <2> QED BY <2>1, <2>2, <2>3, FirstRunQuiet
<1>4. ASSUME NEW j \in Jobs, NEW i \in Instances, NEW o \in Outcomes, EnqueuePush(j, i, o)
      PROVE  FirstRunInv'
  <2>1. UNCHANGED <<processing, retry, held, pc, due, pushed>>
    BY <1>4 DEF EnqueuePush
  <2>2. intake[j] \notin {"accepted", "error"} /\ intake'[j] \in {"accepted", "error"}
        /\ \A k \in Jobs : intake[k] \in {"accepted", "error"} => intake'[k] = intake[k]
    BY <1>4, RedisqAssumption DEF EnqueuePush, TypeOK
  <2>3. RetriedHaveRun' /\ IdleHandsEmpty'
    BY <2>1 DEF FirstRunInv, RetriedHaveRun, IdleHandsEmpty
  <2> DEFINE x == [job |-> j, attempts |-> 0]
  <2>4. x \in Payloads /\ x.job = j /\ x.attempts = 0
    BY RedisqAssumption DEF Payloads
  <2>5. ~Queued(x)
    BY <2>2, <2>4 DEF FirstRunInv, PutByEnqueue
  <2>6. pending' = pending \/ pending' = LPush(pending, x)
    BY <1>4 DEF EnqueuePush
  <2> HIDE DEF x
  <2>7. CASE pending' = pending
    BY <2>1, <2>2, <2>3, <2>7, FirstRunQuiet
  <2>8. CASE pending' = LPush(pending, x)
    BY <2>1, <2>2, <2>3, <2>4, <2>5, <2>8, FirstRunEnter
  <2> QED BY <2>6, <2>7, <2>8
<1>5. ASSUME NEW i \in Instances, NEW o \in Outcomes,
             \/ Register(i, o) \/ LegacyScan(i, o) \/ LegacyMark(i, o)
             \/ RecoverOrphans(i, o) \/ FirstReap(i, o) \/ Heartbeat(i, o)
      PROVE  FirstRunInv'
  BY <1>1, <1>5 DEF Register, LegacyScan, LegacyMark, RecoverOrphans, FirstReap, Heartbeat
<1>6. ASSUME NEW i \in Instances, Launch(i) PROVE FirstRunInv'
  <2>1. UNCHANGED <<pending, processing, retry, held, intake, due, pushed>>
        /\ life[i] = "boot"
    BY <1>6 DEF Launch
  <2>2. IdleHandsEmpty'
    <3> SUFFICES ASSUME NEW q \in Procs, pc'[q] \in {"gone", "poll"} PROVE held[q] = {}
      BY <2>1 DEF IdleHandsEmpty
    <3>1. CASE Inst(q) = i
      <4>1. pc[q] = "gone"
        BY <2>1, <3>1 DEF KeeperInv, WorkersLive
      <4> QED BY <4>1 DEF FirstRunInv, IdleHandsEmpty
    <3>2. CASE Inst(q) # i
      BY <1>6, <3>2 DEF Launch, FirstRunInv, IdleHandsEmpty
    <3> QED BY <3>1, <3>2
  <2>3. RetriedHaveRun'
    BY <2>1 DEF FirstRunInv, RetriedHaveRun
  <2> QED BY <2>1, <2>2, <2>3, FirstRunQuiet
<1>7. ASSUME NEW p \in Procs, NEW o \in Outcomes, Claim(p, o) PROVE FirstRunInv'
  BY <1>7, FirstRunClaim
<1>8. ASSUME NEW p \in Procs, Quit(p) PROVE FirstRunInv'
  <2>1. held[p] = {}
    BY <1>8 DEF Quit, FirstRunInv, IdleHandsEmpty
  <2>2. UNCHANGED <<pending, processing, due, pushed, intake, retry, held>>
        /\ \A q \in Procs \ {p} : pc'[q] = pc[q]
    BY <1>8 DEF Quit, TypeOK
  <2> QED BY <1>2, <2>1, <2>2
<1>9. ASSUME NEW p \in Procs, NEW x \in held[p], NEW d \in Dispositions, Handle(p, x, d)
      PROVE  FirstRunInv'
  <2>1. UNCHANGED <<pending, processing, due, pushed, intake, retry, held>>
        /\ \A q \in Procs \ {p} : pc'[q] = pc[q]
    BY <1>9 DEF Handle, TypeOK
  <2>2. pc'[p] \notin {"gone", "poll"}
    BY <1>9 DEF Handle, TypeOK
  <2> QED BY <1>2, <2>1, <2>2
<1>10. ASSUME NEW p \in Procs, NEW x \in held[p], NEW o \in Outcomes, Bury(p, x, o)
       PROVE  FirstRunInv'
  <2>1. UNCHANGED <<pending, processing, due, pushed, intake, retry>>
        /\ \A q \in Procs \ {p} : pc'[q] = pc[q] /\ held'[q] = held[q]
    BY <1>10 DEF Bury, TypeOK
  <2>2. held'[p] \subseteq held[p] /\ (pc'[p] \in {"gone", "poll"} => held'[p] = {})
    BY <1>10 DEF Bury, TypeOK
  <2> QED BY <1>2, <2>1, <2>2
<1>11. ASSUME NEW p \in Procs, NEW x \in held[p], NEW o \in Outcomes, ScheduleRetry(p, x, o)
       PROVE  FirstRunInv'
  <2>1. UNCHANGED <<pending, processing, due, pushed, intake>>
        /\ \A q \in Procs \ {p} : pc'[q] = pc[q] /\ held'[q] = held[q]
    BY <1>11 DEF ScheduleRetry, TypeOK
  <2>2. held'[p] \subseteq held[p] /\ (pc'[p] \in {"gone", "poll"} => held'[p] = {})
    BY <1>11 DEF ScheduleRetry, TypeOK
  <2>3. Retried(x).attempts # 0
    <3>1. x \in Payloads /\ MayRetry(x) /\ x.attempts \in Nat
      BY <1>11 DEF ScheduleRetry, HeldOK, TypeOK, Payloads
    <3>2. Retried(x).attempts = x.attempts + 1
      BY <3>1, RetriedType
    <3> QED BY <3>1, <3>2
  <2>4. \A y \in retry' : y \in retry \/ y.attempts # 0
    BY <1>11, <2>3 DEF ScheduleRetry
  <2> QED BY <1>2, <2>1, <2>2, <2>4
<1>12. ASSUME NEW p \in Procs, NEW x \in held[p], NEW o \in Outcomes, Ack(p, x, o)
       PROVE  FirstRunInv'
  BY <1>12, FirstRunAck
<1>13. ASSUME NEW i \in Instances, NEW S \in SUBSET retry, MoverScan(i, S)
       PROVE  FirstRunInv'
  <2>1. \A k \in Instances : due'[k] \subseteq due[k] \cup retry
    BY <1>13 DEF MoverScan, TypeOK
  <2> QED BY <1>1, <1>13, <2>1 DEF MoverScan
<1>14. ASSUME NEW i \in Instances, NEW m \in due[i], NEW o \in Outcomes, MoverPush(i, m, o)
       PROVE  FirstRunInv'
  <2>1. UNCHANGED <<processing, retry, held, pc, intake>>
    BY <1>14 DEF MoverPush
  <2>2. \A k \in Instances : due'[k] \cup pushed'[k] \subseteq due[k] \cup pushed[k]
    BY <1>14 DEF MoverPush, TypeOK
  <2>3. RetriedHaveRun' /\ IdleHandsEmpty'
    BY <2>1, <2>2 DEF FirstRunInv, RetriedHaveRun, IdleHandsEmpty
  <2>4. m \in Payloads /\ m.attempts # 0
    BY DEF TypeOK, FirstRunInv, RetriedHaveRun
  <2>5. pending' = pending \/ pending' = LPush(pending, m)
    BY <1>14 DEF MoverPush
  <2>6. CASE pending' = pending
    BY <2>1, <2>3, <2>6, FirstRunQuiet
  <2>7. CASE pending' = LPush(pending, m)
    BY <2>1, <2>3, <2>4, <2>7, FirstRunEnter
  <2> QED BY <2>5, <2>6, <2>7
<1>15. ASSUME NEW i \in Instances, NEW m \in due[i], NEW o \in Outcomes, MoverRem(i, m, o)
       PROVE  FirstRunInv'
  <2>1. UNCHANGED <<pending, processing, held, pc, intake>> /\ retry' \subseteq retry
    BY <1>15 DEF MoverRem, ZRem
  <2>2. \A k \in Instances : due'[k] \cup pushed'[k] \subseteq due[k] \cup pushed[k]
    BY <1>15 DEF MoverRem, TypeOK
  <2>3. RetriedHaveRun' /\ IdleHandsEmpty'
    BY <2>1, <2>2 DEF FirstRunInv, RetriedHaveRun, IdleHandsEmpty
  <2> QED BY <2>1, <2>3, FirstRunQuiet
<1>16. ASSUME NEW i \in Instances, ReapScan(i) PROVE FirstRunInv'
  BY <1>1, <1>16 DEF ReapScan
<1>17. ASSUME NEW i \in Instances, NEW t \in sweep[i], NEW o \in Outcomes, ReapMove(i, t, o)
       PROVE  FirstRunInv'
  BY <1>17, FirstRunReap
<1>18. ASSUME NEW i \in Instances, NEW t \in sweep[i], NEW o \in Outcomes,
              ReapNil(i, t, o) \/ Deregister(i, t, o)
       PROVE  FirstRunInv'
  BY <1>1, <1>18 DEF ReapNil, Deregister
<1>19. ASSUME NEW i \in Instances, Close(i) PROVE FirstRunInv'
  <2>1. \A k \in Instances : due'[k] \subseteq due[k] /\ pushed'[k] \subseteq pushed[k]
    BY <1>19 DEF Close, Forget, TypeOK
  <2> QED BY <1>1, <1>19, <2>1 DEF Close
<1>20. ASSUME NEW i \in Instances, Exit(i) PROVE FirstRunInv'
  <2>1. \A k \in Instances : due'[k] \cup pushed'[k] \subseteq due[k] \cup pushed[k]
    BY <1>20 DEF Exit, Forget, TypeOK
  <2>2. UNCHANGED <<pending, processing, retry, intake>>
    BY <1>20 DEF Exit
  <2>3. RetriedHaveRun'
    BY <2>1, <2>2 DEF FirstRunInv, RetriedHaveRun
  <2>4. \A q \in Procs : held'[q] \subseteq held[q]
    BY <1>20 DEF Exit
  <2>5. IdleHandsEmpty'
    BY <1>20 DEF Exit, FirstRunInv, IdleHandsEmpty
  <2> QED BY <2>2, <2>3, <2>4, <2>5, FirstRunQuiet
<1>21. ASSUME NEW t \in Owners, Expire(t) PROVE FirstRunInv'
  BY <1>1, <1>21 DEF Expire
<1>22. CASE UNCHANGED vars
  BY <1>1, <1>22 DEF vars
<1> QED
  BY <1>3, <1>4, <1>5, <1>6, <1>7, <1>8, <1>9, <1>10, <1>11, <1>12, <1>13, <1>14,
     <1>15, <1>16, <1>17, <1>18, <1>19, <1>20, <1>21, <1>22
     DEF Next, Enqueue, Start, Worker, RetryMover, Keeper, Reap

\* No job is in its first run twice at once, whatever crashes, closes, failed
\* commands and reclaims there are, as long as the heartbeats of live replicas
\* come in time (LMOVE hands a payload to one worker, and the reaper leaves
\* the lists of live replicas alone).
THEOREM FirstRunsAlone == Steady /\ LeftOnce => (Spec => []NoOverlap)
<1> SUFFICES ASSUME Steady, LeftOnce PROVE Spec => []NoOverlap
  OBVIOUS
<1>1. Init => FirstRunInv
  <2> SUFFICES ASSUME Init PROVE FirstRunInv
    OBVIOUS
  <2>1. /\ \A i \in Owners \ {Legacy} : processing[i] = <<>>
        /\ processing[Legacy] = Left /\ pending = <<>>
    BY DEF Init, Owners
  <2>2. \A x : ~Has(<<>>, x)
    BY DEF Has
  <2>3. Distinct(<<>>)
    BY DEF Distinct
  <2>4. OnePlace
    BY <2>1, <2>2, <2>3 DEF OnePlace, LeftOnce
  <2>5. PutByEnqueue
    <3> SUFFICES ASSUME NEW x \in Payloads, Queued(x) PROVE intake[x.job] = "accepted"
      BY DEF PutByEnqueue
    <3>1. Has(Left, x)
      BY <2>1, <2>2 DEF Queued
    <3>2. x.job \in Jobs
      BY DEF Payloads
    <3> QED BY <3>1, <3>2 DEF Init, Has
  <2> QED BY <2>4, <2>5
          DEF Init, FirstRunInv, IdleHandsEmpty, RetriedHaveRun, HeldIsListed, OneHolder
<1>2. TypeOK /\ HeldOK /\ KeeperInv /\ FirstRunInv /\ [Next]_vars => FirstRunInv'
  BY FirstRunStep
<1>3. TypeOK /\ FirstRunInv => NoOverlap
  <2> SUFFICES ASSUME TypeOK, FirstRunInv, NEW p \in Procs, NEW q \in Procs, p # q,
                      NEW x \in held[p], NEW y \in held[q], x.job = y.job,
                      ~ (x.attempts > 0), ~ (y.attempts > 0)
               PROVE  FALSE
    BY DEF NoOverlap
  <2>1. x \in Payloads /\ y \in Payloads
    BY DEF TypeOK
  <2>2. x.attempts = 0 /\ y.attempts = 0
    BY <2>1 DEF Payloads
  <2>3. x = y
    BY <2>1, <2>2 DEF Payloads
  <2> QED BY <2>2, <2>3 DEF FirstRunInv, OneHolder
<1> QED BY <1>1, <1>2, <1>3, TypeCorrect, KeeperHolds, PTL DEF Spec

-----------------------------------------------------------------------------
(* The contract                                                             *)
(*                                                                          *)
(* A job is owed while any payload of it is in Redis, with as many attempts *)
(* on it as the most advanced of its payloads.  That is a function of the   *)
(* stored payloads that only goes up, although single copies, which lag     *)
(* behind, come and go; CoveredInv says that no copy is ahead of it.        *)

\* What a replica works on is settled, stored or overtaken.
Covered(x) == x.job \in settled \/ Stored(x) \/ Ahead(x)

CoveredInv ==
    /\ \A p \in Procs : \A x \in held[p] : Covered(x)
    /\ \A i \in Instances : \A m \in due[i] : Covered(m)
    /\ settled \subseteq Known

\* A bounded set of numbers has a greatest element.
LEMMA MaxIsGreatest ==
    ASSUME NEW N \in Nat, NEW C \in SUBSET (0..N), C # {}
    PROVE  Max(C) \in C /\ Max(C) \in Nat /\ \A n \in C : n <= Max(C)
<1> DEFINE T == {k \in 0..N : N - k \in C}
           R == OpToRel(<, Nat)
<1>1. T \in SUBSET Nat
  OBVIOUS
<1>2. \A n \in C : N - n \in T
  <2> SUFFICES ASSUME NEW n \in C PROVE N - n \in 0..N /\ N - (N - n) = n
    OBVIOUS
  <2> QED OBVIOUS
<1>3. \A k \in T : k \in Nat /\ N - k \in C
  OBVIOUS
<1> HIDE DEF T
<1>4. IsWellFoundedOn(R, Nat)
  BY NatLessThanWellFounded
<1>5. \A x, y \in Nat : x < y => <<x, y>> \in R
  BY DEF OpToRel
<1> HIDE DEF R
<1>6. T # {}
  BY <1>2
<1>7. PICK m \in T : \A y \in T : ~ (<<y, m>> \in R)
  BY <1>1, <1>4, <1>6, WFMin
<1>8. ASSUME NEW n \in C PROVE N - m >= n
  <2>1. N - n \in T /\ N - n \in Nat /\ m \in Nat /\ n \in Nat
    BY <1>2, <1>3
  <2>2. ~ (N - n < m)
    BY <2>1, <1>5, <1>7
  <2> QED BY <2>1, <2>2
<1>9. N - m \in C
  BY <1>3
<1>10. Max(C) \in C /\ \A n \in C : Max(C) >= n
  BY <1>8, <1>9 DEF Max
<1>11. \A n \in C : n \in Nat
  OBVIOUS
<1> QED BY <1>10, <1>11

\* Sets that reach as high as each other have the same greatest element.
LEMMA MaxSame ==
    ASSUME NEW N \in Nat, NEW C \in SUBSET (0..N), NEW D \in SUBSET (0..N),
           C # {}, D # {},
           \A n \in C : \E m \in D : n <= m,
           \A n \in D : \E m \in C : n <= m
    PROVE  Max(C) = Max(D)
<1>1. /\ Max(C) \in C /\ Max(C) \in Nat /\ \A n \in C : n <= Max(C)
      /\ Max(D) \in D /\ Max(D) \in Nat /\ \A n \in D : n <= Max(D)
  BY MaxIsGreatest
<1>2. PICK m \in D : Max(C) <= m
  BY <1>1
<1>3. PICK n \in C : Max(D) <= n
  BY <1>1
<1> DEFINE c == Max(C)
           d == Max(D)
<1>4. c \in Nat /\ d \in Nat /\ m \in Nat /\ n \in Nat
  <2>1. \A k \in C \cup D : k \in Nat
    OBVIOUS
  <2> QED BY <1>1, <2>1
<1>5. c <= m /\ m <= d /\ d <= n /\ n <= c
  BY <1>1, <1>2, <1>3
<1> HIDE DEF c, d
<1>6. c = d
  BY <1>4, <1>5
<1> QED BY <1>6 DEF c, d

\* A payload is stored if its attempts are counted.
LEMMA CountsAre ==
    /\ \A x \in Payloads : Stored(x) <=> x.attempts \in Counts(x.job)
    /\ \A x \in Payloads : Stored(x)' <=> x.attempts \in Counts(x.job)'
    /\ \A j \in Jobs, n \in 0..MaxRetries :
          /\ [job |-> j, attempts |-> n] \in Payloads
          /\ [job |-> j, attempts |-> n].job = j
          /\ [job |-> j, attempts |-> n].attempts = n
    /\ \A j \in Jobs : Counts(j) \in SUBSET (0..MaxRetries)
    /\ \A j \in Jobs : Counts(j)' \in SUBSET (0..MaxRetries)
<1>1. \A x \in Payloads : x = [job |-> x.job, attempts |-> x.attempts]
                          /\ x.attempts \in 0..MaxRetries
  BY DEF Payloads
<1>2. \A x \in Payloads : Stored(x) <=> x.attempts \in Counts(x.job)
  BY <1>1 DEF Counts
<1>3. \A x \in Payloads : Stored(x)' <=> x.attempts \in Counts(x.job)'
  BY <1>1 DEF Counts
<1>4. \A j \in Jobs, n \in 0..MaxRetries :
          /\ [job |-> j, attempts |-> n] \in Payloads
          /\ [job |-> j, attempts |-> n].job = j
          /\ [job |-> j, attempts |-> n].attempts = n
  BY DEF Payloads
<1>5. /\ \A j \in Jobs : Counts(j) \in SUBSET (0..MaxRetries)
      /\ \A j \in Jobs : Counts(j)' \in SUBSET (0..MaxRetries)
  BY DEF Counts
<1> QED BY <1>2, <1>3, <1>4, <1>5

\* A step that keeps the payloads of a job, or later ones, and adds none that
\* is ahead of them changes nothing for the contract.
LEMMA LooksSame ==
    ASSUME Keeps, NEW j \in Jobs, j \in settled' <=> j \in settled,
           \A z \in Payloads : z.job = j /\ Stored(z)' => Covered(z)
    PROVE  Fate(j)' = Fate(j) /\ Tries(j)' = Tries(j)
<1>1. CASE j \in settled
  BY <1>1 DEF Fate, Tries
<1>2. CASE j \notin settled
  <2> DEFINE C == Counts(j)
             D == Counts(j)'
  <2>1. C \in SUBSET (0..MaxRetries) /\ D \in SUBSET (0..MaxRetries) /\ MaxRetries \in Nat
    BY CountsAre, RedisqAssumption
  <2>2. ASSUME NEW n \in C PROVE \E m \in D : n <= m
    <3> DEFINE z == [job |-> j, attempts |-> n]
    <3>1. z \in Payloads /\ z.job = j /\ z.attempts = n /\ n \in Nat
      BY <2>1, CountsAre
    <3> HIDE DEF z
    <3>2. Stored(z)
      BY <3>1, CountsAre
    <3>3. Stored(z)' \/ Ahead(z)'
      BY <1>2, <3>1, <3>2 DEF Keeps
    <3>4. CASE Stored(z)'
      BY <3>1, <3>4, CountsAre
    <3>5. CASE Ahead(z)'
      <4>1. PICK y \in Payloads : y.job = z.job /\ y.attempts > z.attempts /\ Stored(y)'
        BY <3>5 DEF Ahead
      <4>2. y.attempts \in D
        BY <3>1, <4>1, CountsAre
      <4>3. n <= y.attempts
        BY <2>1, <3>1, <4>1, <4>2
      <4> QED BY <4>2, <4>3
    <3> QED BY <3>3, <3>4, <3>5
  <2>3. ASSUME NEW n \in D PROVE \E m \in C : n <= m
    <3> DEFINE z == [job |-> j, attempts |-> n]
    <3>1. z \in Payloads /\ z.job = j /\ z.attempts = n /\ n \in Nat
      BY <2>1, CountsAre
    <3> HIDE DEF z
    <3>2. Stored(z)'
      BY <3>1, CountsAre
    <3>3. Stored(z) \/ Ahead(z)
      BY <1>2, <3>1, <3>2 DEF Covered
    <3>4. CASE Stored(z)
      BY <3>1, <3>4, CountsAre
    <3>5. CASE Ahead(z)
      <4>1. PICK y \in Payloads : y.job = z.job /\ y.attempts > z.attempts /\ Stored(y)
        BY <3>5 DEF Ahead
      <4>2. y.attempts \in C
        BY <3>1, <4>1, CountsAre
      <4>3. n <= y.attempts
        BY <2>1, <3>1, <4>1, <4>2
      <4> QED BY <4>2, <4>3
    <3> QED BY <3>3, <3>4, <3>5
  <2>4. C = {} <=> D = {}
    BY <2>2, <2>3
  <2>5. CASE C = {}
    <3>1. Counts(j) = {} /\ Counts(j)' = {}
      BY <2>4, <2>5
    <3> QED BY <1>2, <3>1 DEF Fate, Tries
  <2>6. CASE C # {}
    <3>1. Max(C) = Max(D)
      <4> HIDE DEF C, D
      <4> QED BY <2>1, <2>2, <2>3, <2>4, <2>6, MaxSame
    <3>2. Counts(j) # {} /\ Counts(j)' # {} /\ Max(Counts(j)') = Max(Counts(j))
      BY <2>4, <2>6, <3>1
    <3> QED BY <1>2, <3>2 DEF Fate, Tries
  <2> QED BY <2>5, <2>6
<1> QED BY <1>1, <1>2

-----------------------------------------------------------------------------
\* Keeps covers every copy again, so CoveredInv only has to be looked at where
\* a replica takes something in hand or settles a job.
LEMMA CoveredStep ==
    ASSUME TypeOK, HeldOK, OrderInv, CoveredInv, Keeps, [Next]_vars
    PROVE  CoveredInv'
<1> USE DEF redis, workers, mover, keeper, history
<1>1. \A z \in Payloads : Covered(z) => Covered(z)'
  BY DEF Keeps, Covered
<1>2. ASSUME \A q \in Procs : \A x \in held'[q] : x \in held[q] \/ Stored(x)',
             \A k \in Instances : \A m \in due'[k] : m \in due[k] \/ m \in retry',
             \A j \in settled' : j \in settled \/ j \in Known,
             taken \subseteq taken'
      PROVE  CoveredInv'
  <2>1. ASSUME NEW q \in Procs, NEW x \in held'[q] PROVE Covered(x)'
    <3>1. CASE x \in held[q]
      <4>1. x \in Payloads /\ Covered(x)
        BY <3>1 DEF TypeOK, CoveredInv
      <4> QED BY <4>1, <1>1
    <3> QED BY <3>1, <1>2 DEF Covered
  <2>2. ASSUME NEW k \in Instances, NEW m \in due'[k] PROVE Covered(m)'
    <3>1. CASE m \in due[k]
      <4>1. m \in Payloads /\ Covered(m)
        BY <3>1 DEF TypeOK, CoveredInv
      <4> QED BY <4>1, <1>1
    <3> QED BY <3>1, <1>2 DEF Covered, Stored
  <2>3. settled' \subseteq Known'
    BY <1>2 DEF CoveredInv, Known, LeftJobs
  <2> QED BY <2>1, <2>2, <2>3 DEF CoveredInv
<1>3. ASSUME UNCHANGED <<settled, taken>>,
             \A q \in Procs : held'[q] \subseteq held[q],
             \A k \in Instances : due'[k] \subseteq due[k]
      PROVE  CoveredInv'
  BY <1>2, <1>3
<1>4. ASSUME NEW j \in Jobs, NEW i \in Instances, NEW o \in Outcomes,
             EnqueueCheck(j, i, o) \/ EnqueuePush(j, i, o)
      PROVE  CoveredInv'
  BY <1>3, <1>4 DEF EnqueueCheck, EnqueuePush
<1>5. ASSUME NEW i \in Instances, NEW o \in Outcomes,
             \/ Register(i, o) \/ LegacyScan(i, o) \/ LegacyMark(i, o)
             \/ RecoverOrphans(i, o) \/ FirstReap(i, o) \/ Heartbeat(i, o)
      PROVE  CoveredInv'
  BY <1>3, <1>5 DEF Register, LegacyScan, LegacyMark, RecoverOrphans, FirstReap, Heartbeat
<1>6. ASSUME NEW i \in Instances, Launch(i) \/ ReapScan(i) PROVE CoveredInv'
  BY <1>3, <1>6 DEF Launch, ReapScan
<1>7. ASSUME NEW p \in Procs, NEW o \in Outcomes, Claim(p, o) PROVE CoveredInv'
  <2> DEFINE i == Inst(p)
  <2>0. PICK x : x = Last(pending)
    OBVIOUS
  <2>1. i \in Owners /\ x \in Payloads
    BY <1>7, <2>0, FrontHas DEF Claim, TypeOK, Procs, Inst, Owners
  <2>2. UNCHANGED <<settled, due>> /\ taken \subseteq taken'
    BY <1>7 DEF Claim
  <2>3. ASSUME o = "ok" PROVE Stored(x)'
    <3>1. processing'[i] = LPush(processing[i], x)
      BY <1>7, <2>0, <2>1, <2>3 DEF Claim, Claimed, LPush, Applied, TypeOK
    <3>2. Has(processing'[i], x)
      BY <2>1, <3>1, LPushHas DEF TypeOK
    <3> QED BY <2>1, <3>2 DEF Stored, Queued
  <2>4. \A q \in Procs : \A y \in held'[q] : y \in held[q] \/ (o = "ok" /\ y = x)
    BY <1>7, <2>0 DEF Claim, TypeOK
  <2> QED BY <1>2, <2>2, <2>3, <2>4
<1>8. ASSUME NEW p \in Procs, Quit(p) PROVE CoveredInv'
  BY <1>3, <1>8 DEF Quit
<1>9. ASSUME NEW p \in Procs, NEW x \in held[p], NEW d \in Dispositions, Handle(p, x, d)
      PROVE  CoveredInv'
  <2>1. x.job \in Known
    BY DEF OrderInv, Elsewhere
  <2>2. UNCHANGED <<held, due, taken>> /\ settled' \subseteq settled \cup {x.job}
    BY <1>9 DEF Handle
  <2> QED BY <1>2, <2>1, <2>2
<1>10. ASSUME NEW p \in Procs, NEW x \in held[p], NEW o \in Outcomes, Bury(p, x, o)
       PROVE  CoveredInv'
  <2>1. x.job \in Known
    BY DEF OrderInv, Elsewhere
  <2>2. UNCHANGED <<due, taken>> /\ settled' \subseteq settled \cup {x.job}
    BY <1>10 DEF Bury
  <2>3. \A q \in Procs : held'[q] \subseteq held[q]
    BY <1>10 DEF Bury, TypeOK
  <2> QED BY <1>2, <2>1, <2>2, <2>3
<1>11. ASSUME NEW p \in Procs, NEW x \in held[p], NEW o \in Outcomes,
              ScheduleRetry(p, x, o) \/ Ack(p, x, o)
       PROVE  CoveredInv'
  <2>1. \A q \in Procs : held'[q] \subseteq held[q]
    BY <1>11 DEF ScheduleRetry, Ack, TypeOK
  <2> QED BY <1>3, <1>11, <2>1 DEF ScheduleRetry, Ack
<1>12. ASSUME NEW i \in Instances, NEW S \in SUBSET retry, MoverScan(i, S)
       PROVE  CoveredInv'
  <2>1. \A k \in Instances : due'[k] \subseteq due[k] \cup retry
    BY <1>12 DEF MoverScan, TypeOK
  <2>2. UNCHANGED <<retry, held, settled, taken>>
    BY <1>12 DEF MoverScan
  <2> QED BY <1>2, <2>1, <2>2
<1>13. ASSUME NEW i \in Instances, NEW m \in due[i], NEW o \in Outcomes,
              MoverPush(i, m, o) \/ MoverRem(i, m, o)
       PROVE  CoveredInv'
  <2>1. \A k \in Instances : due'[k] \subseteq due[k]
    BY <1>13 DEF MoverPush, MoverRem, TypeOK
  <2> QED BY <1>3, <1>13, <2>1 DEF MoverPush, MoverRem
<1>14. ASSUME NEW i \in Instances, NEW t \in sweep[i], NEW o \in Outcomes,
              ReapMove(i, t, o) \/ ReapNil(i, t, o) \/ Deregister(i, t, o)
       PROVE  CoveredInv'
  BY <1>3, <1>14 DEF ReapMove, ReapNil, Deregister
<1>15. ASSUME NEW i \in Instances, Close(i) PROVE CoveredInv'
  <2>1. \A k \in Instances : due'[k] \subseteq due[k]
    BY <1>15 DEF Close, Forget, TypeOK
  <2> QED BY <1>3, <1>15, <2>1 DEF Close
<1>16. ASSUME NEW i \in Instances, Exit(i) PROVE CoveredInv'
  <2>1. \A k \in Instances : due'[k] \subseteq due[k]
    BY <1>16 DEF Exit, Forget, TypeOK
  <2>2. \A q \in Procs : held'[q] \subseteq held[q]
    BY <1>16 DEF Exit
  <2> QED BY <1>3, <1>16, <2>1, <2>2 DEF Exit
<1>17. ASSUME NEW t \in Owners, Expire(t) PROVE CoveredInv'
  BY <1>3, <1>17 DEF Expire
<1>18. CASE UNCHANGED vars
  BY <1>3, <1>18 DEF vars
<1> QED
  BY <1>4, <1>5, <1>6, <1>7, <1>8, <1>9, <1>10, <1>11, <1>12, <1>13, <1>14, <1>15,
     <1>16, <1>17, <1>18
     DEF Next, Enqueue, Start, Worker, RetryMover, Keeper, Reap

\* What is stored, or handed in, belongs to a call of Enqueue that is over.
LEMMA StoredIsKnown ==
    ASSUME OrderInv, CoveredInv, NEW j \in Jobs, intake[j] \notin {"accepted", "error"}
    PROVE  j \notin settled /\ \A x \in Payloads : x.job = j => ~Stored(x)
<1>1. j \notin Known \cup Arrived
  BY DEF OrderInv, Accounted, Known, Arrived
<1>2. \A x \in Payloads : Stored(x) => x.job \in Known \cup Arrived
  <2> SUFFICES ASSUME NEW x \in Payloads, Stored(x) PROVE x.job \in Known \cup Arrived
    OBVIOUS
  <2>1. CASE Has(pending, x)
    BY <2>1 DEF Has, OrderInv, Accounted
  <2> QED BY <2>1 DEF Stored, Queued, OrderInv, Elsewhere
<1> QED BY <1>1, <1>2 DEF CoveredInv

-----------------------------------------------------------------------------
\* What a step leaves alone of job j; the lemmas after it give each step of
\* the contract by what it does to the mapped state of its one job.
Looks(j) == Fate(j)' = Fate(j) /\ Tries(j)' = Tries(j)
Same(j) == Looks(j) /\ Hands(j)' = Hands(j)

\* An Enqueue whose payload gets into Redis.
LEMMA ToAccept ==
    ASSUME NEW j \in Jobs, \A i \in Jobs \ {j} : Same(i),
           Fate(j) = "outside", Fate(j)' = "owed", Tries(j)' = Tries(j), Hands(j)' = Hands(j)
    PROVE  Contract!Accept(j)
BY DEF Contract!Accept, Same, Looks

\* A worker claims a payload of the job, also of one that has settled.
LEMMA ToTake ==
    ASSUME NEW j \in Jobs, NEW p \in Procs, \A i \in Jobs \ {j} : Same(i), Looks(j),
           Fate(j) \in {"owed", "settled"}, Hands(j)' = Hands(j) \cup {p}
    PROVE  Contract!Take(j, p)
BY DEF Contract!Take, Same, Looks

\* The job is acked, or its dead letter is written.
LEMMA ToSettle ==
    ASSUME NEW j \in Jobs, NEW p \in Procs, \A i \in Jobs \ {j} : Same(i),
           p \in Hands(j), Fate(j)' = "settled", Tries(j)' = 0, Hands(j)' = Hands(j) \ {p}
    PROVE  Contract!Settle(j, p)
BY DEF Contract!Settle, Same, Looks

\* A retry beyond what any payload of the job counts.
LEMMA ToRetry ==
    ASSUME NEW j \in Jobs, NEW p \in Procs, \A i \in Jobs \ {j} : Same(i),
           p \in Hands(j), Fate(j) = "owed", Fate(j)' = "owed", Tries(j) < MaxRetries,
           Tries(j)' = Tries(j) + 1, Hands(j)' = Hands(j) \ {p}
    PROVE  Contract!Retry(j, p)
BY DEF Contract!Retry, Same, Looks

\* Workers drop what they had.
LEMMA ToAbandon ==
    ASSUME NEW S \in SUBSET Procs, \A j \in Jobs : Looks(j) /\ Hands(j)' = Hands(j) \ S
    PROVE  Contract!Abandon
<1>1. [j \in Jobs |-> Hands(j)]' = [j \in Jobs |-> [k \in Jobs |-> Hands(k)][j] \ S]
  OBVIOUS
<1>2. [j \in Jobs |-> Fate(j)]' = [j \in Jobs |-> Fate(j)]
      /\ [j \in Jobs |-> Tries(j)]' = [j \in Jobs |-> Tries(j)]
  BY DEF Looks
<1> QED BY <1>1, <1>2 DEF Contract!Abandon

\* Nothing the contract sees has changed.
LEMMA ToStutter ==
    ASSUME \A j \in Jobs : Same(j)
    PROVE  UNCHANGED Contract!qvars
BY DEF Contract!qvars, Same, Looks

\* A worker whose handler has a job.
Busy(p) == pc[p] \in {"handle", "retry", "bury"}

\* Hands change with the workers in S only, who drop what they had.
LEMMA HandsDrop ==
    ASSUME NEW S \in SUBSET Procs,
           \A q \in Procs \ S : (Busy(q)' <=> Busy(q)) /\ (Busy(q) => held'[q] = held[q]),
           \A q \in S : ~Busy(q)',
           NEW j \in Jobs
    PROVE  Hands(j)' = Hands(j) \ S
BY DEF Hands, Busy

\* A worker that holds x is in the hands of x's job and of no other.
LEMMA HandOf ==
    ASSUME HeldOK, NEW p \in Procs, NEW x \in held[p], Busy(p)
    PROVE  \A j \in Jobs : p \in Hands(j) <=> x.job = j
<1>1. held[p] = {x}
  BY DEF HeldOK
<1> QED BY <1>1 DEF Hands, Busy

\* Ending a job: the one step of the contract in which it settles.
LEMMA SettleStep ==
    ASSUME TypeOK, HeldOK, Keeps, NEW p \in Procs, NEW x \in held[p], Busy(p), ~Busy(p)',
           settled' = settled \cup {x.job},
           UNCHANGED <<pending, processing, retry>>,
           \A q \in Procs \ {p} : pc'[q] = pc[q] /\ held'[q] = held[q]
    PROVE  Contract!Settle(x.job, p)
<1>1. x \in Payloads /\ x.job \in Jobs
  BY DEF TypeOK, Payloads
<1>2. \A z \in Payloads : Stored(z)' => Covered(z)
  BY DEF Stored, Queued, Has, Covered
<1>3. \A j \in Jobs \ {x.job} : Looks(j)
  BY <1>2, LooksSame DEF Looks
<1>4. \A j \in Jobs : Hands(j)' = Hands(j) \ {p}
  <2>1. \A q \in Procs \ {p} : (Busy(q)' <=> Busy(q)) /\ (Busy(q) => held'[q] = held[q])
    BY DEF Busy
  <2> QED BY <2>1, HandsDrop
<1>5. \A j \in Jobs : p \in Hands(j) <=> x.job = j
  BY HandOf
<1>6. \A j \in Jobs \ {x.job} : Same(j)
  BY <1>3, <1>4, <1>5 DEF Same
<1>7. Fate(x.job)' = "settled" /\ Tries(x.job)' = 0
  BY <1>1 DEF Fate, Tries
<1> QED BY <1>1, <1>4, <1>5, <1>6, <1>7, ToSettle

\* Scheduling a retry: a step of the contract if it takes the job further than
\* all of its payloads, otherwise the worker just lets go of a lagging copy.
LEMMA RetryStep ==
    ASSUME TypeOK, HeldOK, Keeps, CoveredInv, NEW p \in Procs, NEW x \in held[p],
           NEW o \in Outcomes, ScheduleRetry(p, x, o), Applied(o)
    PROVE  Contract!Next
<1> USE DEF redis, workers, mover, keeper, history
<1>0. PICK y : y = Retried(x)
  OBVIOUS
<1>1. /\ x \in Payloads /\ x.job \in Jobs /\ MayRetry(x) /\ pc[p] = "retry"
      /\ x.attempts \in Nat
  BY DEF ScheduleRetry, HeldOK, TypeOK, Payloads
<1>2. y \in Payloads /\ y.job = x.job /\ y.attempts = x.attempts + 1
      /\ x.attempts + 1 \in 0..MaxRetries
  BY <1>0, <1>1, RetriedType DEF Payloads
<1>3. retry' = retry \cup {y} /\ UNCHANGED <<pending, processing, settled>>
  BY <1>0 DEF ScheduleRetry
<1>4. /\ \A q \in Procs \ {p} : pc'[q] = pc[q] /\ held'[q] = held[q]
      /\ Busy(p) /\ ~Busy(p)'
  BY <1>1 DEF ScheduleRetry, TypeOK, Busy, Rest
<1>5. \A j \in Jobs : Hands(j)' = Hands(j) \ {p}
  <2>1. \A q \in Procs \ {p} : (Busy(q)' <=> Busy(q)) /\ (Busy(q) => held'[q] = held[q])
    BY <1>4 DEF Busy
  <2> QED BY <1>4, <2>1, HandsDrop
<1>6. \A j \in Jobs : p \in Hands(j) <=> x.job = j
  BY <1>4, HandOf
<1>7. \A z \in Payloads : Stored(z)' => z = y \/ Stored(z)
  BY <1>3 DEF Stored, Queued, Has
<1>8. Stored(y)'
  BY <1>3 DEF Stored
<1>9. \A j \in Jobs \ {x.job} : Looks(j)
  BY <1>2, <1>3, <1>7, LooksSame DEF Looks, Covered
<1>10. \A j \in Jobs \ {x.job} : Same(j)
  BY <1>5, <1>6, <1>9 DEF Same
\* The job has settled, or a payload of it counts as many attempts already.
<1>11. CASE Covered(y)
  <2>1. Looks(x.job)
    BY <1>1, <1>3, <1>7, <1>11, LooksSame DEF Looks, Covered
  <2>2. Contract!Abandon
    BY <1>5, <1>9, <2>1, ToAbandon
  <2> QED BY <2>2 DEF Contract!Next
<1>12. CASE ~Covered(y)
  <2> DEFINE C == Counts(x.job)
             D == Counts(x.job)'
  <2>1. x.job \notin settled /\ x.job \notin settled' /\ ~Stored(y) /\ ~Ahead(y)
    BY <1>2, <1>3, <1>12 DEF Covered
  <2>2. /\ C \in SUBSET (0..MaxRetries) /\ D \in SUBSET (0..MaxRetries)
        /\ MaxRetries \in Nat
    BY <1>1, CountsAre, RedisqAssumption
  <2>3. ASSUME NEW n \in C PROVE n <= x.attempts
    <3> DEFINE z == [job |-> x.job, attempts |-> n]
    <3>1. z \in Payloads /\ z.job = x.job /\ z.attempts = n /\ n \in Nat
      BY <1>1, <2>2, CountsAre
    <3> HIDE DEF z
    <3>2. Stored(z)
      BY <3>1, CountsAre
    <3>3. n # x.attempts + 1
      BY <1>2, <2>1, <2>3, CountsAre
    <3>4. ~ (n > x.attempts + 1)
      BY <1>2, <2>1, <3>1, <3>2 DEF Ahead
    <3> QED BY <1>1, <3>1, <3>3, <3>4
  <2>4. x.attempts \in C
    <3>1. Stored(x) \/ Ahead(x)
      BY <2>1 DEF CoveredInv, Covered
    <3>2. ASSUME Ahead(x) PROVE FALSE
      <4>1. PICK z \in Payloads : z.job = x.job /\ z.attempts > x.attempts /\ Stored(z)
        BY <3>2 DEF Ahead
      <4>2. z.attempts \in C
        BY <4>1, CountsAre
      <4>3. z.attempts \in Nat /\ z.attempts <= x.attempts
        BY <2>2, <2>3, <4>2
      <4> QED BY <1>1, <4>1, <4>3
    <3> QED BY <1>1, <3>1, <3>2, CountsAre
  <2>5. x.attempts + 1 \in D
    BY <1>2, <1>8, CountsAre
  <2>6. ASSUME NEW n \in D PROVE n <= x.attempts + 1
    <3> DEFINE z == [job |-> x.job, attempts |-> n]
    <3>1. z \in Payloads /\ z.job = x.job /\ z.attempts = n /\ n \in Nat
      BY <1>1, <2>2, CountsAre
    <3> HIDE DEF z
    <3>2. Stored(z)'
      BY <3>1, CountsAre
    <3>3. z = y \/ n \in C
      BY <1>7, <3>1, <3>2, CountsAre
    <3>4. CASE z = y
      BY <1>1, <1>2, <3>1, <3>4
    <3>5. CASE n \in C
      <4>1. n <= x.attempts
        BY <2>3, <3>5
      <4> QED BY <1>1, <3>1, <4>1
    <3> QED BY <3>3, <3>4, <3>5
  <2> HIDE DEF C, D
  <2>7. Max(C) = x.attempts
    <3>1. Max(C) \in C /\ Max(C) \in Nat /\ \A n \in C : n <= Max(C)
      BY <2>2, <2>4, MaxIsGreatest
    <3>2. x.attempts <= Max(C) /\ Max(C) <= x.attempts
      BY <2>3, <2>4, <3>1
    <3> QED BY <1>1, <3>1, <3>2
  <2>8. Max(D) = x.attempts + 1
    <3>1. Max(D) \in D /\ Max(D) \in Nat /\ \A n \in D : n <= Max(D)
      BY <2>2, <2>5, MaxIsGreatest
    <3>2. x.attempts + 1 <= Max(D) /\ Max(D) <= x.attempts + 1
      BY <2>5, <2>6, <3>1
    <3> QED BY <1>1, <3>1, <3>2
  <2>9. C # {} /\ D # {}
    BY <2>4, <2>5
  <2>10. Fate(x.job) = "owed" /\ Tries(x.job) = x.attempts
    BY <2>1, <2>7, <2>9 DEF Fate, Tries, C
  <2>11. Fate(x.job)' = "owed" /\ Tries(x.job)' = x.attempts + 1
    BY <2>1, <2>8, <2>9 DEF Fate, Tries, D
  <2>12. Tries(x.job) < MaxRetries
    BY <1>1, <2>2, <2>10 DEF MayRetry
  <2>13. Contract!Retry(x.job, p)
    BY <1>1, <1>5, <1>6, <1>10, <2>10, <2>11, <2>12, ToRetry
  <2> QED BY <1>1, <2>13 DEF Contract!Next
<1> QED BY <1>11, <1>12

\* Every step of the fleet is a step of the contract or none.
LEMMA StepImplements ==
    ASSUME TypeOK, HeldOK, OrderInv, CoveredInv, Keeps, [Next]_vars
    PROVE  [Contract!Next]_(Contract!qvars)
<1> USE DEF redis, workers, mover, keeper, history
\* A step that settles nothing and stores nothing ahead looks the same.
<1>1. ASSUME UNCHANGED settled, \A z \in Payloads : Stored(z)' => Covered(z)
      PROVE  \A j \in Jobs : Looks(j)
  BY <1>1, LooksSame DEF Looks
<1>2. ASSUME UNCHANGED <<pending, processing, retry, settled>>
      PROVE  \A j \in Jobs : Looks(j)
  <2>1. \A z \in Payloads : Stored(z)' => Covered(z)
    BY <1>2 DEF Stored, Queued, Has, Covered
  <2> QED BY <1>1, <1>2, <2>1
<1>3. ASSUME \A j \in Jobs : Looks(j),
             \A q \in Procs : (Busy(q)' <=> Busy(q)) /\ (Busy(q) => held'[q] = held[q])
      PROVE  UNCHANGED Contract!qvars
  <2>1. \A j \in Jobs : Hands(j)' = Hands(j) \ {}
    BY <1>3, HandsDrop
  <2> QED BY <1>3, <2>1, ToStutter DEF Same
<1>4. ASSUME NEW S \in SUBSET Procs, \A j \in Jobs : Looks(j),
             \A q \in Procs \ S : (Busy(q)' <=> Busy(q)) /\ (Busy(q) => held'[q] = held[q]),
             \A q \in S : ~Busy(q)'
      PROVE  Contract!Next
  <2>1. \A j \in Jobs : Hands(j)' = Hands(j) \ S
    BY <1>4, HandsDrop
  <2> QED BY <1>4, <2>1, ToAbandon DEF Contract!Next
<1>5. ASSUME \A j \in Jobs : Looks(j), UNCHANGED <<pc, held>>
      PROVE  UNCHANGED Contract!qvars
  BY <1>3, <1>5 DEF Busy
<1>6. ASSUME UNCHANGED <<pending, processing, retry, settled, pc, held>>
      PROVE  UNCHANGED Contract!qvars
  BY <1>2, <1>5, <1>6
<1>7. ASSUME NEW j \in Jobs, NEW i \in Instances, NEW o \in Outcomes, EnqueueCheck(j, i, o)
      PROVE  UNCHANGED Contract!qvars
  BY <1>6, <1>7 DEF EnqueueCheck
<1>8. ASSUME NEW j \in Jobs, NEW i \in Instances, NEW o \in Outcomes, EnqueuePush(j, i, o)
      PROVE  [Contract!Next]_(Contract!qvars)
  <2> DEFINE x == [job |-> j, attempts |-> 0]
  <2>1. x \in Payloads /\ x.job = j /\ x.attempts = 0
    BY RedisqAssumption DEF Payloads
  <2>2. UNCHANGED <<processing, retry, settled, pc, held>>
        /\ pending' \in {pending, LPush(pending, x)}
    BY <1>8 DEF EnqueuePush
  <2>3. j \notin settled /\ \A z \in Payloads : z.job = j => ~Stored(z)
    <3>1. intake[j] \notin {"accepted", "error"}
      BY <1>8, RedisqAssumption DEF EnqueuePush
    <3> QED BY <3>1, StoredIsKnown
  <2>4. CASE pending' = pending
    BY <1>6, <2>2, <2>4
  <2>5. CASE pending' = LPush(pending, x)
    <3>1. /\ \A y : Has(pending', y) => y = x \/ Has(pending, y)
          /\ Has(pending', x)
      BY <2>1, <2>5, AddedOnly, LPushHas DEF TypeOK
    <3>2. \A z \in Payloads : Stored(z)' => z = x \/ Stored(z)
      BY <2>2, <3>1 DEF Stored, Queued
    <3>3. Stored(x)'
      BY <3>1 DEF Stored, Queued
    <3>4. \A k \in Jobs \ {j} : Looks(k)
      BY <2>1, <2>2, <3>2, LooksSame DEF Looks, Covered
    <3>5. \A k \in Jobs : Hands(k)' = Hands(k)
      BY <2>2 DEF Hands
    <3>6. Counts(j) = {}
      <4> SUFFICES ASSUME NEW n \in 0..MaxRetries PROVE ~Stored([job |-> j, attempts |-> n])
        BY DEF Counts
      <4> QED BY <2>3, CountsAre
    <3>7. Counts(j)' = {0}
      <4>1. 0 \in Counts(j)'
        BY <2>1, <3>3, CountsAre
      <4>2. ASSUME NEW n \in Counts(j)' PROVE n = 0
        <5> DEFINE z == [job |-> j, attempts |-> n]
        <5>1. n \in 0..MaxRetries
          BY CountsAre
        <5>2. z \in Payloads /\ z.job = j /\ z.attempts = n
          BY <5>1, CountsAre
        <5> HIDE DEF z
        <5>3. Stored(z)'
          BY <4>2, <5>2, CountsAre
        <5>4. z = x
          BY <2>3, <3>2, <5>2, <5>3
        <5> QED BY <2>1, <5>2, <5>4
      <4> QED BY <4>1, <4>2
    <3>8. Max({0}) = 0
      <4>1. {0} \in SUBSET (0..0) /\ {0} # {} /\ 0 \in Nat
        OBVIOUS
      <4> QED BY <4>1, MaxIsGreatest
    <3>9. Fate(j) = "outside" /\ Tries(j) = 0
      BY <2>3, <3>6 DEF Fate, Tries
    <3>10. Fate(j)' = "owed" /\ Tries(j)' = 0
      BY <2>2, <2>3, <3>7, <3>8 DEF Fate, Tries
    <3>11. Contract!Accept(j)
      BY <3>4, <3>5, <3>9, <3>10, ToAccept DEF Same
    <3> QED BY <3>11 DEF Contract!Next
  <2> QED BY <2>2, <2>4, <2>5
<1>9. ASSUME NEW i \in Instances, NEW o \in Outcomes,
             \/ Register(i, o) \/ LegacyScan(i, o) \/ LegacyMark(i, o)
             \/ RecoverOrphans(i, o) \/ FirstReap(i, o) \/ Heartbeat(i, o)
      PROVE  UNCHANGED Contract!qvars
  BY <1>6, <1>9 DEF Register, LegacyScan, LegacyMark, RecoverOrphans, FirstReap, Heartbeat
<1>10. ASSUME NEW i \in Instances, Launch(i) PROVE Contract!Next
  <2> DEFINE S == {q \in Procs : Inst(q) = i}
  <2>1. \A j \in Jobs : Looks(j)
    BY <1>2, <1>10 DEF Launch
  <2>2. held' = held /\ (\A q \in S : pc'[q] = "poll") /\ \A q \in Procs \ S : pc'[q] = pc[q]
    BY <1>10 DEF Launch
  <2> QED BY <1>4, <2>1, <2>2 DEF Busy
<1>11. ASSUME NEW p \in Procs, NEW o \in Outcomes, Claim(p, o)
       PROVE  [Contract!Next]_(Contract!qvars)
  <2> DEFINE i == Inst(p)
  <2>0. PICK x : x = Last(pending)
    OBVIOUS
  <2>1. /\ i \in Owners /\ x \in Payloads /\ x.job \in Jobs /\ pc[p] = "poll"
        /\ pending \in Seq(Payloads) /\ pending # <<>> /\ processing[i] \in Seq(Payloads)
        /\ UNCHANGED <<retry, settled>>
    <3>1. pending \in Seq(Payloads) /\ pending # <<>> /\ i \in Owners
      BY <1>11 DEF Claim, TypeOK, Procs, Inst, Owners
    <3>2. x \in Payloads
      BY <2>0, <3>1, FrontHas
    <3> QED BY <1>11, <3>1, <3>2 DEF Claim, TypeOK, Payloads
  <2>2. Has(pending, x)
    <3>1. x = pending[Len(pending)] /\ Len(pending) \in Nat \ {0}
      BY <2>0, <2>1, FrontOf
    <3>2. Len(pending) \in DOMAIN pending
      BY <2>1, <3>1
    <3> QED BY <3>1, <3>2 DEF Has
  <2>3. \/ UNCHANGED <<pending, processing>>
        \/ /\ pending' = Front(pending)
           /\ processing' = [processing EXCEPT ![i] = LPush(processing[i], x)]
    BY <1>11, <2>0 DEF Claim, Claimed, LPush
  <2>4. \A z \in Payloads : Stored(z)' => Stored(z)
    <3>1. CASE UNCHANGED <<pending, processing>>
      BY <2>1, <3>1 DEF Stored, Queued, Has
    <3>2. CASE /\ pending' = Front(pending)
               /\ processing' = [processing EXCEPT ![i] = LPush(processing[i], x)]
      <4>1. \A y : Has(pending', y) => Has(pending, y)
        BY <2>1, <3>2, FrontOf
      <4>2. processing'[i] = LPush(processing[i], x)
            /\ \A k \in Owners \ {i} : processing'[k] = processing[k]
        BY <2>1, <3>2 DEF TypeOK
      <4>3. \A y : Has(processing'[i], y) => y = x \/ Has(processing[i], y)
        BY <2>1, <4>2, AddedOnly
      <4> HIDE DEF i
      <4> QED BY <2>1, <2>2, <4>1, <4>2, <4>3 DEF Stored, Queued
    <3> QED BY <2>3, <3>1, <3>2
  <2>5. \A j \in Jobs : Looks(j)
    BY <1>1, <2>1, <2>4 DEF Covered
  <2>6. \A q \in Procs \ {p} : pc'[q] = pc[q] /\ held'[q] = held[q]
    BY <1>11 DEF Claim, TypeOK
  <2>7. CASE o # "ok"
    <3>1. ~Busy(p) /\ ~Busy(p)'
      BY <1>11, <2>1, <2>7 DEF Claim, TypeOK, Busy, Rest
    <3>2. \A q \in Procs : (Busy(q)' <=> Busy(q)) /\ (Busy(q) => held'[q] = held[q])
      BY <2>6, <3>1 DEF Busy
    <3> QED BY <1>3, <2>5, <3>2
  <2>8. CASE o = "ok"
    <3>1. held'[p] = {x} /\ Busy(p)' /\ ~Busy(p)
      BY <1>11, <2>0, <2>1, <2>8 DEF Claim, TypeOK, Busy
    <3>2. ASSUME NEW j \in Jobs PROVE Hands(j)' = IF j = x.job THEN Hands(j) \cup {p} ELSE Hands(j)
      <4>1. \A q \in Procs \ {p} : q \in Hands(j)' <=> q \in Hands(j)
        BY <2>6 DEF Hands
      <4>2. p \notin Hands(j) /\ (p \in Hands(j)' <=> j = x.job)
        BY <3>1 DEF Hands, Busy
      <4>3. Hands(j) \subseteq Procs /\ Hands(j)' \subseteq Procs
        BY DEF Hands
      <4> QED BY <4>1, <4>2, <4>3
    <3>3. \A j \in Jobs \ {x.job} : Same(j)
      BY <2>5, <3>2 DEF Same
    <3>4. Fate(x.job) \in {"owed", "settled"}
      <4>1. x.attempts \in Counts(x.job)
        BY <2>1, <2>2, CountsAre DEF Stored, Queued
      <4> QED BY <4>1 DEF Fate
    <3>5. Contract!Take(x.job, p)
      BY <2>1, <2>5, <3>2, <3>3, <3>4, ToTake
    <3> QED BY <2>1, <3>5 DEF Contract!Next
  <2> QED BY <2>7, <2>8
<1>12. ASSUME NEW p \in Procs, Quit(p) PROVE UNCHANGED Contract!qvars
  <2>1. \A j \in Jobs : Looks(j)
    BY <1>2, <1>12 DEF Quit
  <2>2. \A q \in Procs : (Busy(q)' <=> Busy(q)) /\ (Busy(q) => held'[q] = held[q])
    BY <1>12 DEF Quit, TypeOK, Busy
  <2> QED BY <1>3, <2>1, <2>2
<1>13. ASSUME NEW p \in Procs, NEW x \in held[p], NEW d \in Dispositions, Handle(p, x, d)
       PROVE  [Contract!Next]_(Contract!qvars)
  <2>1. /\ UNCHANGED <<pending, processing, retry, held>> /\ Busy(p)
        /\ \A q \in Procs \ {p} : pc'[q] = pc[q]
    BY <1>13 DEF Handle, TypeOK, Busy
  <2>2. CASE d = "Ack"
    <3>1. settled' = settled \cup {x.job} /\ ~Busy(p)'
      BY <1>13, <2>2 DEF Handle, TypeOK, Busy
    <3>2. Contract!Settle(x.job, p)
      BY <2>1, <3>1, SettleStep
    <3>3. x.job \in Jobs
      BY DEF TypeOK, Payloads
    <3> QED BY <3>2, <3>3 DEF Contract!Next
  <2>3. CASE d # "Ack"
    <3>1. settled' = settled /\ Busy(p)'
      BY <1>13, <2>3 DEF Handle, TypeOK, Busy
    <3>2. \A j \in Jobs : Looks(j)
      BY <1>2, <2>1, <3>1
    <3>3. \A q \in Procs : (Busy(q)' <=> Busy(q)) /\ (Busy(q) => held'[q] = held[q])
      BY <2>1, <3>1 DEF Busy
    <3> QED BY <1>3, <3>2, <3>3
  <2> QED BY <2>2, <2>3
<1>14. ASSUME NEW p \in Procs, NEW x \in held[p], NEW o \in Outcomes, Bury(p, x, o)
       PROVE  [Contract!Next]_(Contract!qvars)
  <2>1. /\ UNCHANGED <<pending, processing, retry>> /\ Busy(p) /\ ~Busy(p)'
        /\ \A q \in Procs \ {p} : pc'[q] = pc[q] /\ held'[q] = held[q]
    BY <1>14 DEF Bury, TypeOK, Busy, Rest
  <2>2. CASE Applied(o)
    <3>1. settled' = settled \cup {x.job}
      BY <1>14, <2>2 DEF Bury
    <3>2. Contract!Settle(x.job, p)
      BY <2>1, <3>1, SettleStep
    <3>3. x.job \in Jobs
      BY DEF TypeOK, Payloads
    <3> QED BY <3>2, <3>3 DEF Contract!Next
  <2>3. CASE ~Applied(o)
    <3>1. settled' = settled
      BY <1>14, <2>3 DEF Bury
    <3>2. \A j \in Jobs : Looks(j)
      BY <1>2, <2>1, <3>1
    <3>3. /\ \A q \in Procs \ {p} : (Busy(q)' <=> Busy(q)) /\ (Busy(q) => held'[q] = held[q])
          /\ \A q \in {p} : ~Busy(q)'
          /\ {p} \in SUBSET Procs
      BY <2>1 DEF Busy
    <3> QED BY <1>4, <3>2, <3>3
  <2> QED BY <2>2, <2>3
<1>15. ASSUME NEW p \in Procs, NEW x \in held[p], NEW o \in Outcomes, ScheduleRetry(p, x, o)
       PROVE  Contract!Next
  <2>1. CASE Applied(o)
    BY <1>15, <2>1, RetryStep
  <2>2. CASE ~Applied(o)
    <3>1. UNCHANGED <<pending, processing, retry, settled>>
      BY <1>15, <2>2 DEF ScheduleRetry
    <3>2. \A j \in Jobs : Looks(j)
      BY <1>2, <3>1
    <3>3. /\ ~Busy(p)'
          /\ \A q \in Procs \ {p} : pc'[q] = pc[q] /\ held'[q] = held[q]
      BY <1>15, <2>2 DEF ScheduleRetry, TypeOK, Busy, Rest, Applied
    <3>4. /\ \A q \in Procs \ {p} : (Busy(q)' <=> Busy(q)) /\ (Busy(q) => held'[q] = held[q])
          /\ \A q \in {p} : ~Busy(q)'
          /\ {p} \in SUBSET Procs
      BY <3>3 DEF Busy
    <3> QED BY <1>4, <3>2, <3>4
  <2> QED BY <2>1, <2>2
<1>16. ASSUME NEW p \in Procs, NEW x \in held[p], NEW o \in Outcomes, Ack(p, x, o)
       PROVE  UNCHANGED Contract!qvars
  <2>1. UNCHANGED <<pending, retry, settled>>
    BY <1>16 DEF Ack
  <2>2. ASSUME NEW k \in Owners, NEW y, Has(processing'[k], y) PROVE Has(processing[k], y)
    <3>1. processing'[k] = processing[k] \/ processing'[k] = RemoveFirst(processing[k], x)
      BY <1>16 DEF Ack, TypeOK
    <3>2. processing[k] \in Seq(Payloads)
      BY DEF TypeOK
    <3>3. CASE processing'[k] = RemoveFirst(processing[k], x)
      <4>1. Has(RemoveFirst(processing[k], x), y)
        BY <2>2, <3>3
      <4> QED BY <3>2, <4>1, RemoveFirstOf
    <3> QED BY <2>2, <3>1, <3>3
  <2>3. \A z \in Payloads : Stored(z)' => Stored(z)
    BY <2>1, <2>2 DEF Stored, Queued
  <2>4. \A j \in Jobs : Looks(j)
    BY <1>1, <2>1, <2>3 DEF Covered
  <2>5. \A q \in Procs : (Busy(q)' <=> Busy(q)) /\ (Busy(q) => held'[q] = held[q])
    BY <1>16 DEF Ack, TypeOK, Busy, Rest
  <2> QED BY <1>3, <2>4, <2>5
<1>17. ASSUME NEW i \in Instances, NEW S \in SUBSET retry, MoverScan(i, S)
       PROVE  UNCHANGED Contract!qvars
  BY <1>6, <1>17 DEF MoverScan
<1>18. ASSUME NEW i \in Instances, NEW m \in due[i], NEW o \in Outcomes, MoverPush(i, m, o)
       PROVE  UNCHANGED Contract!qvars
  <2>1. /\ UNCHANGED <<processing, retry, settled, pc, held>>
        /\ pending' = pending \/ pending' = LPush(pending, m)
        /\ m \in Payloads /\ Covered(m) /\ pending \in Seq(Payloads)
    BY <1>18 DEF MoverPush, CoveredInv, TypeOK
  <2>2. \A y : Has(pending', y) => y = m \/ Has(pending, y)
    BY <2>1, AddedOnly
  <2>3. \A z \in Payloads : Stored(z)' => z = m \/ Stored(z)
    BY <2>1, <2>2 DEF Stored, Queued
  <2>4. \A j \in Jobs : Looks(j)
    <3>1. \A z \in Payloads : Stored(z)' => Covered(z)
      BY <2>1, <2>3 DEF Covered
    <3> QED BY <1>1, <2>1, <3>1
  <2> QED BY <1>5, <2>1, <2>4
<1>19. ASSUME NEW i \in Instances, NEW m \in due[i], NEW o \in Outcomes, MoverRem(i, m, o)
       PROVE  UNCHANGED Contract!qvars
  <2>1. UNCHANGED <<pending, processing, settled, pc, held>> /\ retry' \subseteq retry
    BY <1>19 DEF MoverRem, ZRem
  <2>2. \A z \in Payloads : Stored(z)' => Covered(z)
    BY <2>1 DEF Stored, Queued, Has, Covered
  <2>3. \A j \in Jobs : Looks(j)
    BY <1>1, <2>1, <2>2
  <2> QED BY <1>5, <2>1, <2>3
<1>20. ASSUME NEW i \in Instances, ReapScan(i) \/ Close(i) PROVE UNCHANGED Contract!qvars
  BY <1>6, <1>20 DEF ReapScan, Close
<1>21. ASSUME NEW i \in Instances, NEW t \in sweep[i], NEW o \in Outcomes, ReapMove(i, t, o)
       PROVE  UNCHANGED Contract!qvars
  <2>0. PICK x : x = Last(processing[t])
    OBVIOUS
  <2>1. /\ t \in Owners /\ processing[t] \in Seq(Payloads) /\ processing[t] # <<>>
        /\ pending \in Seq(Payloads) /\ UNCHANGED <<retry, settled, pc, held>>
    BY <1>21 DEF ReapMove, TypeOK
  <2>2. x \in Payloads /\ Has(processing[t], x)
    <3>1. /\ x = processing[t][Len(processing[t])] /\ Len(processing[t]) \in Nat \ {0}
          /\ x \in Payloads
      BY <2>0, <2>1, FrontOf, FrontHas
    <3>2. Len(processing[t]) \in DOMAIN processing[t]
      BY <2>1, <3>1
    <3> QED BY <3>1, <3>2 DEF Has
  <2>3. \/ UNCHANGED <<pending, processing>>
        \/ /\ pending' = Append(pending, x)
           /\ processing' = [processing EXCEPT ![t] = Front(@)]
    BY <1>21, <2>0 DEF ReapMove
  <2>4. \A z \in Payloads : Stored(z)' => Stored(z)
    <3>1. CASE UNCHANGED <<pending, processing>>
      BY <2>1, <3>1 DEF Stored, Queued, Has
    <3>2. CASE /\ pending' = Append(pending, x)
               /\ processing' = [processing EXCEPT ![t] = Front(@)]
      <4>1. \A y : Has(pending', y) => y = x \/ Has(pending, y)
        BY <2>1, <2>2, <3>2, AddedOnly
      <4>2. processing'[t] = Front(processing[t])
            /\ \A k \in Owners \ {t} : processing'[k] = processing[k]
        BY <2>1, <3>2 DEF TypeOK
      <4>3. \A y : Has(processing'[t], y) => Has(processing[t], y)
        BY <2>1, <4>2, FrontOf
      <4> QED BY <2>1, <2>2, <4>1, <4>2, <4>3 DEF Stored, Queued
    <3> QED BY <2>3, <3>1, <3>2
  <2>5. \A j \in Jobs : Looks(j)
    BY <1>1, <2>1, <2>4 DEF Covered
  <2> QED BY <1>5, <2>1, <2>5
<1>22. ASSUME NEW i \in Instances, NEW t \in sweep[i], NEW o \in Outcomes,
              ReapNil(i, t, o) \/ Deregister(i, t, o)
       PROVE  UNCHANGED Contract!qvars
  BY <1>6, <1>22 DEF ReapNil, Deregister
<1>23. ASSUME NEW i \in Instances, Exit(i) PROVE Contract!Next
  <2> DEFINE S == {q \in Procs : Inst(q) = i}
  <2>1. \A j \in Jobs : Looks(j)
    BY <1>2, <1>23 DEF Exit
  <2>2. /\ \A q \in S : pc'[q] = "gone"
        /\ \A q \in Procs \ S : pc'[q] = pc[q] /\ held'[q] = held[q]
    BY <1>23 DEF Exit
  <2> QED BY <1>4, <2>1, <2>2 DEF Busy
<1>24. ASSUME NEW t \in Owners, Expire(t) PROVE UNCHANGED Contract!qvars
  BY <1>6, <1>24 DEF Expire
<1>25. CASE UNCHANGED vars
  BY <1>6, <1>25 DEF vars
<1> QED
  BY <1>7, <1>8, <1>9, <1>10, <1>11, <1>12, <1>13, <1>14, <1>15, <1>16, <1>17, <1>18,
     <1>19, <1>20, <1>21, <1>22, <1>23, <1>24, <1>25
     DEF Next, Enqueue, Start, Worker, RetryMover, Keeper, Reap

\* The fleet starts with what the old version left, owed with its attempts.
LEMMA InitImplements == Init => Contract!Init
<1> SUFFICES ASSUME Init PROVE Contract!Init
  OBVIOUS
<1>1. \A j \in Jobs : Fate(j) \in {"outside", "owed"}
  BY DEF Init, Fate
<1>2. ASSUME NEW j \in Jobs
      PROVE  Tries(j) \in 0..MaxRetries /\ (Fate(j) = "outside" => Tries(j) = 0)
  <2>1. Counts(j) \in SUBSET (0..MaxRetries) /\ MaxRetries \in Nat
    BY CountsAre, RedisqAssumption
  <2>2. CASE Counts(j) = {}
    BY <2>1, <2>2 DEF Tries
  <2>3. CASE Counts(j) # {}
    <3>1. Max(Counts(j)) \in Counts(j)
      BY <2>1, <2>3, MaxIsGreatest
    <3>2. Tries(j) \in {0, Max(Counts(j))}
      BY DEF Tries
    <3>3. Fate(j) # "outside"
      BY <2>3 DEF Fate
    <3> QED BY <2>1, <3>1, <3>2, <3>3
  <2> QED BY <2>2, <2>3
<1>3. \A j \in Jobs : Hands(j) = {}
  BY DEF Init, Hands
<1> QED BY <1>1, <1>2, <1>3 DEF Contract!Init

\* The fleet implements the contract of queue.go, with any number of replicas
\* that crash, stall, lose answers and take each other's lists over: a job
\* pushed is owed until it settles, a settled one stays settled, it is settled
\* by a worker that had it in hand, and the attempts on it only grow, to
\* MaxRetries at most.
THEOREM RedisqIsAQueue == Spec => ImplementsQueue
<1>1. Init => CoveredInv /\ Contract!Init
  BY InitImplements DEF Init, CoveredInv
<1>2. TypeOK /\ HeldOK /\ HandoverSafe /\ OrderInv /\ CoveredInv /\ [Next]_vars
      => CoveredInv' /\ [Contract!Next]_(Contract!qvars)
  BY StepKeeps, CoveredStep, StepImplements
<1> QED
  BY <1>1, <1>2, TypeCorrect, HandoversSafe, OrderHolds, PTL
     DEF Spec, ImplementsQueue, Contract!Spec
=============================================================================
