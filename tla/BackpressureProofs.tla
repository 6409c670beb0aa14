------------------------- MODULE BackpressureProofs -------------------------
(***************************************************************************)
(* The gate follows the outcomes and does not flap, for every setting of    *)
(* the thresholds and every number of workers, clients and outages.         *)
(***************************************************************************)
EXTENDS Backpressure, WellFoundedInduction, TLAPS

Outcomes == [age : Nat, ok : BOOLEAN]

\* The types of what Record reads and writes.
GateOK ==
    /\ consecErr \in 0..N /\ consecOK \in 0..M
    /\ tripped \in BOOLEAN
    /\ outcomes \in Seq(Outcomes)
    /\ hist \in Seq(BOOLEAN)
    /\ sinceFlip \in Nat

\* The last n outcomes were failures, and successes.
ErrRun(n) == AllLast(n, FALSE)
OkRun(n) == AllLast(n, TRUE)

\* The two counters see every run at the end of the history, as far as they
\* count, and the gate is where a counter that is full has put it.
CountersInv ==
    /\ \A n \in 1..N : ErrRun(n) => consecErr >= n
    /\ \A n \in 1..M : OkRun(n) => consecOK >= n
    /\ consecErr = N => tripped
    /\ consecOK = M => ~tripped

\* What can flip the gate has all been gathered since it flipped last: the
\* successes of a closed gate, the failures and the window of an open one.
FlipInv ==
    /\ tripped => consecOK <= sinceFlip
    /\ ~tripped => consecErr <= sinceFlip /\ Least(Len(outcomes), MinSamples) <= sinceFlip

GateInv == GateOK /\ CountersInv /\ FlipInv

-----------------------------------------------------------------------------
(* The helpers of Record                                                    *)

\* A nonempty set of naturals has a least element.
LEMMA LeastNat ==
  ASSUME NEW T, T \subseteq Nat, T # {}
  PROVE  \E m \in T : \A n \in T : ~(n < m)
<1> DEFINE R == OpToRel(<, Nat)
<1>1. IsWellFoundedOn(R, Nat)
  BY NatLessThanWellFounded
<1>2. \A a, b \in Nat : a < b => <<a, b>> \in R
  BY DEF OpToRel
<1> HIDE DEF R
<1>3. PICK m \in T : \A n \in T : ~(<<n, m>> \in R)
  BY <1>1, WFMin
<1> QED
  BY <1>2, <1>3

\* prune drops outcomes and adds none.
LEMMA PruneShortens ==
  ASSUME NEW os \in Seq(Outcomes)
  PROVE  prune(os) \in Seq(Outcomes) /\ Len(prune(os)) <= Len(os)
<1> DEFINE T == {k \in DOMAIN os : InWindow(os[k])}
<1>1. DOMAIN os = 1..Len(os) /\ Len(os) \in Nat
  OBVIOUS
<1>2. CASE T = {}
  <2>1. prune(os) = <<>>
    BY <1>2 DEF prune
  <2> QED
    BY <1>1, <2>1
<1>3. CASE T # {}
  <2>0. T \subseteq Nat
    BY <1>1
  <2>1. PICK m \in T : \A n \in T : ~(n < m)
    <3> HIDE DEF T
    <3> QED
      BY <1>3, <2>0, LeastNat
  <2>2. m \in DOMAIN os /\ InWindow(os[m]) /\ \A l \in 1..(m - 1) : ~InWindow(os[l])
    BY <1>1, <2>1
  <2>3. First(os) \in 1..Len(os)
    BY <1>1, <2>2 DEF First
  <2>4. prune(os) = SubSeq(os, First(os), Len(os))
    BY <2>2 DEF prune
  <2> HIDE DEF T
  <2>5. PICK k \in 1..Len(os) : k = First(os)
    BY <2>3
  <2> QED
    BY <1>1, <2>4, <2>5
<1> QED
  BY <1>2, <1>3

\* The history after an outcome b: the last values of h, and the new one.
Longer(g, h, b) ==
    /\ g \in Seq(BOOLEAN) /\ Len(g) \in Nat /\ Len(g) >= 1 /\ Len(g) <= Len(h) + 1
    /\ g[Len(g)] = b
    /\ \A k \in 1..(Len(g) - 1) : /\ k + (Len(h) + 1 - Len(g)) \in 1..Len(h)
                                 /\ g[k] = h[k + (Len(h) + 1 - Len(g))]

\* That is what Record makes of it.
LEMMA LastOne ==
  ASSUME NEW h \in Seq(BOOLEAN), NEW b \in BOOLEAN, NEW n \in Nat \ {0},
         NEW g, g = Last(Append(h, b), n)
  PROVE  Longer(g, h, b)
<1> DEFINE a == Append(h, b)
<1>1. /\ a \in Seq(BOOLEAN) /\ Len(a) = Len(h) + 1 /\ Len(h) \in Nat
      /\ a[Len(h) + 1] = b /\ \A k \in 1..Len(h) : a[k] = h[k]
  OBVIOUS
<1> HIDE DEF a
<1>2. CASE Len(a) <= n
  <2>1. g = a
    BY <1>2 DEF Last, a
  <2> QED
    BY <1>1, <2>1 DEF Longer
<1>3. CASE ~(Len(a) <= n)
  <2>1. g = SubSeq(a, Len(a) - n + 1, Len(a))
    BY <1>3 DEF Last, a
  <2>2. g \in Seq(BOOLEAN) /\ Len(g) = n /\ \A k \in 1..n : g[k] = a[Len(a) - n + k]
    BY <1>1, <1>3, <2>1
  <2>3. g[n] = b /\ n <= Len(h) + 1
    BY <1>1, <1>3, <2>2
  <2>4. ASSUME NEW k \in 1..(n - 1) PROVE k + (Len(h) + 1 - n) \in 1..Len(h) /\ g[k] = h[k + (Len(h) + 1 - n)]
    <3>1. k + (Len(h) + 1 - n) \in 1..Len(h) /\ Len(a) - n + k = k + (Len(h) + 1 - n)
      BY <1>1, <1>3
    <3>2. g[k] = a[k + (Len(h) + 1 - n)]
      BY <2>2, <3>1
    <3> QED
      BY <1>1, <3>1, <3>2
  <2> QED
    BY <1>1, <2>2, <2>3, <2>4 DEF Longer
<1> QED
  BY <1>2, <1>3

\* A run at the end of the new history is of the new outcome, and one shorter
\* at the end of the old.
LEMMA RunGrows ==
  ASSUME GateOK, NEW s \in BOOLEAN, NEW b \in BOOLEAN, NEW n \in Nat \ {0},
         hist' = Last(Append(hist, s), Most(M, N)), AllLast(n, b)'
  PROVE  b = s /\ (n > 1 => AllLast(n - 1, b))
<1>1. PICK c \in Nat \ {0} : c = Most(M, N)
  BY BackpressureAssumption DEF Most
<1>2. PICK g : g = hist'
  OBVIOUS
<1>3. PICK h \in Seq(BOOLEAN) : h = hist
  BY DEF GateOK
<1>4. /\ Len(g) \in Nat /\ Len(g) >= 1 /\ Len(g) <= Len(h) + 1 /\ g[Len(g)] = s
      /\ \A k \in 1..(Len(g) - 1) : k + (Len(h) + 1 - Len(g)) \in 1..Len(h) /\ g[k] = h[k + (Len(h) + 1 - Len(g))]
  <2>1. g = Last(Append(h, s), c)
    BY <1>1, <1>2, <1>3
  <2>2. c \in Nat \ {0} /\ h \in Seq(BOOLEAN) /\ s \in BOOLEAN
    BY <1>1, <1>3
  <2>3. Longer(g, h, s)
    BY <2>1, <2>2, LastOne
  <2> QED
    BY <2>3 DEF Longer
<1>5. Len(g) >= n /\ \A k \in Len(g) - n + 1..Len(g) : g[k] = b
  BY <1>2 DEF AllLast
<1>6. b = s
  BY <1>4, <1>5
<1>7. ASSUME n > 1 PROVE AllLast(n - 1, b)
  <2>1. Len(h) \in Nat /\ Len(h) >= n - 1
    BY <1>4, <1>5
  <2>2. ASSUME NEW k \in Len(h) - (n - 1) + 1..Len(h) PROVE h[k] = b
    <3>0. k - (Len(h) + 1 - Len(g)) \in 1..(Len(g) - 1)
      BY <1>4, <1>5, <1>7, <2>1
    <3>1. PICK l \in 1..(Len(g) - 1) : l = k - (Len(h) + 1 - Len(g))
      BY <3>0
    <3>2. l \in Len(g) - n + 1..Len(g) /\ k = l + (Len(h) + 1 - Len(g))
      BY <1>4, <1>5, <1>7, <2>1, <3>1
    <3> QED
      BY <1>4, <1>5, <3>1, <3>2
  <2> QED
    BY <1>3, <2>1, <2>2 DEF AllLast
<1> QED
  BY <1>6, <1>7

\* The same of each of the two kinds of run.
LEMMA RunsGrow ==
  ASSUME GateOK, NEW s \in BOOLEAN, NEW n \in Nat \ {0},
         hist' = Last(Append(hist, s), Most(M, N))
  PROVE  /\ ErrRun(n)' => ~s /\ (n > 1 => ErrRun(n - 1))
         /\ OkRun(n)' => s /\ (n > 1 => OkRun(n - 1))
<1>1. ASSUME ErrRun(n)' PROVE ~s /\ (n > 1 => ErrRun(n - 1))
  <2>1. AllLast(n, FALSE)'
    BY <1>1 DEF ErrRun
  <2>2. FALSE = s /\ (n > 1 => AllLast(n - 1, FALSE))
    BY <2>1, RunGrows
  <2> QED
    BY <2>2 DEF ErrRun
<1>2. ASSUME OkRun(n)' PROVE s /\ (n > 1 => OkRun(n - 1))
  <2>1. AllLast(n, TRUE)'
    BY <1>2 DEF OkRun
  <2>2. TRUE = s /\ (n > 1 => AllLast(n - 1, TRUE))
    BY <2>1, RunGrows
  <2> QED
    BY <2>2 DEF OkRun
<1> QED
  BY <1>1, <1>2

-----------------------------------------------------------------------------
(* Record                                                                   *)

\* Initially the gate is open and nothing has been recorded.
LEMMA InitGate == Init => GateInv
<1> SUFFICES ASSUME Init PROVE GateInv
  OBVIOUS
<1>1. GateOK
  <2>1. outcomes \in Seq(Outcomes) /\ hist \in Seq(BOOLEAN)
    BY DEF Init
  <2>2. tripped \in BOOLEAN
    BY DEF Init
  <2> QED
    BY <2>1, <2>2, BackpressureAssumption DEF Init, GateOK
<1>2. CountersInv
  <2>1. \A n \in Nat \ {0} : ~ErrRun(n) /\ ~OkRun(n)
    BY DEF Init, ErrRun, OkRun, AllLast
  <2>2. consecErr = 0 /\ consecOK = 0 /\ N # 0 /\ M # 0 /\ N \in Nat /\ M \in Nat
    BY BackpressureAssumption DEF Init
  <2> QED
    BY <2>1, <2>2 DEF CountersInv
<1>3. FlipInv
  BY BackpressureAssumption DEF Init, FlipInv, Least
<1> QED
  BY <1>1, <1>2, <1>3 DEF GateInv

\* What Record does, whichever outcome it is given.
LEMMA RecordKeeps ==
  ASSUME GateInv, NEW success \in BOOLEAN, Record(success)
  PROVE  /\ GateInv'
         /\ tripped' # tripped => sinceFlip + 1 >= IF tripped THEN M ELSE Least(N, MinSamples)
<1>a. /\ N \in Nat \ {0} /\ M \in Nat \ {0} /\ MinSamples \in Nat \ {0}
  BY BackpressureAssumption
<1>g. /\ consecErr \in 0..N /\ consecOK \in 0..M /\ tripped \in BOOLEAN /\ sinceFlip \in Nat
      /\ outcomes \in Seq(Outcomes) /\ hist \in Seq(BOOLEAN)
  BY DEF GateInv, GateOK
<1>c. CountersInv /\ FlipInv
  BY DEF GateInv
<1> DEFINE rec == [age |-> 0, ok |-> success]
<1>1. PICK os \in Seq(Outcomes) : os = prune(Append(outcomes, rec)) /\ Len(os) <= Len(outcomes) + 1
  <2>1. rec \in Outcomes
    BY DEF Outcomes
  <2>2. Append(outcomes, rec) \in Seq(Outcomes) /\ Len(Append(outcomes, rec)) = Len(outcomes) + 1
    BY <1>g, <2>1
  <2> QED
    BY <2>2, PruneShortens
<1>2. IF success THEN Succeeded(os) ELSE Failed(os)
  BY <1>1 DEF Record
<1>3. hist' = Last(Append(hist, success), Most(M, N)) /\ hist' \in Seq(BOOLEAN)
  <2>1. Most(M, N) \in Nat \ {0}
    BY <1>a DEF Most
  <2>2. hist' = Last(Append(hist, success), Most(M, N))
    BY DEF Record
  <2> QED
    BY <1>g, <2>1, <2>2, LastOne DEF Longer
<1>r. ASSUME NEW n \in Nat \ {0}
      PROVE  /\ ErrRun(n)' => ~success /\ (n > 1 => ErrRun(n - 1))
             /\ OkRun(n)' => success /\ (n > 1 => OkRun(n - 1))
  BY <1>3, RunsGrow DEF GateInv
<1>4. /\ sinceFlip' \in Nat /\ (tripped' # tripped => sinceFlip' = 0)
      /\ tripped' = tripped => sinceFlip' = sinceFlip + 1 \/ (sinceFlip' >= M /\ sinceFlip' >= N /\ sinceFlip' >= MinSamples)
  BY <1>a, <1>g DEF Record, Least, Most
<1>l. Len(os) \in Nat /\ Len(outcomes) \in Nat
  BY <1>g, <1>1
<1> HIDE DEF rec
<1>5. CASE success
  <2>1. /\ consecOK' = Least(consecOK + 1, M) /\ consecErr' = 0
        /\ IF tripped /\ consecOK' >= M
           THEN tripped' = FALSE /\ outcomes' = <<>>
           ELSE tripped' = tripped /\ outcomes' = os
    BY <1>2, <1>5 DEF Succeeded, Forgotten
  <2>2. /\ consecOK' \in 0..M /\ consecOK' <= consecOK + 1
        /\ (consecOK' = M \/ consecOK' = consecOK + 1)
    BY <1>a, <1>g, <2>1 DEF Least
  <2>3. GateOK'
    <3>1. outcomes' = os \/ outcomes' = <<>>
      BY <2>1
    <3>2. outcomes' \in Seq(Outcomes)
      <4>1. <<>> \in Seq(Outcomes)
        OBVIOUS
      <4> QED
        BY <1>1, <3>1, <4>1
    <3>3. tripped' \in BOOLEAN
      BY <1>g, <2>1
    <3> QED
      BY <1>3, <1>4, <1>a, <2>1, <2>2, <3>2, <3>3 DEF GateOK
  <2>4. CountersInv'
    <3>1. ASSUME NEW n \in 1..N PROVE ~ErrRun(n)'
      <4>1. n \in Nat \ {0}
        BY <1>a
      <4> QED
        BY <1>5, <1>r, <4>1
    <3>2. ASSUME NEW n \in 1..M, OkRun(n)' PROVE consecOK' >= n
      <4>0. n \in Nat \ {0}
        BY <1>a
      <4>1. n > 1 => OkRun(n - 1)
        BY <1>r, <3>2, <4>0
      <4>2. n > 1 => consecOK >= n - 1
        BY <1>a, <1>c, <4>1 DEF CountersInv
      <4> QED
        BY <1>a, <1>g, <2>2, <4>2
    <3>3. consecErr' # N
      BY <1>a, <2>1
    <3>4. consecOK' = M => ~tripped'
      BY <1>a, <2>1
    <3> QED
      BY <3>1, <3>2, <3>3, <3>4 DEF CountersInv
  <2>5. FlipInv'
    <3>1. ASSUME tripped' PROVE consecOK' <= sinceFlip'
      <4>1. tripped' = tripped /\ tripped
        BY <2>1, <3>1
      <4>2. consecOK <= sinceFlip
        BY <1>c, <4>1 DEF FlipInv
      <4>3. sinceFlip' = sinceFlip + 1 \/ sinceFlip' >= M
        BY <1>4, <4>1
      <4> QED
        BY <1>4, <1>a, <1>g, <2>2, <4>2, <4>3
    <3>2. ~tripped' => consecErr' <= sinceFlip' /\ Least(Len(outcomes'), MinSamples) <= sinceFlip'
      BY <1>4, <1>a, <1>c, <1>g, <1>1, <1>l, <2>1 DEF FlipInv, Least
    <3> QED
      BY <3>1, <3>2 DEF FlipInv
  <2>6. tripped' # tripped => tripped /\ sinceFlip + 1 >= M
    BY <1>a, <1>c, <1>g, <2>1, <2>2 DEF FlipInv
  <2> QED
    BY <2>3, <2>4, <2>5, <2>6 DEF GateInv
<1>6. CASE ~success
  <2>1. /\ consecErr' = Least(consecErr + 1, N) /\ consecOK' = 0 /\ outcomes' = os
        /\ tripped' = (tripped \/ consecErr' >= N \/ RateReached(os))
    BY <1>2, <1>6 DEF Failed, ErrorsReach
  <2>2. /\ consecErr' \in 0..N /\ consecErr' <= consecErr + 1
        /\ (consecErr' = N \/ consecErr' = consecErr + 1)
    BY <1>a, <1>g, <2>1 DEF Least
  <2>r. RateReached(os) => Len(os) >= MinSamples
    BY DEF RateReached
  <2>t. tripped' \in BOOLEAN /\ (tripped => tripped') /\ (consecErr' >= N => tripped')
        /\ (tripped' => tripped \/ consecErr' >= N \/ Len(os) >= MinSamples)
    BY <2>1, <2>r
  <2>3. GateOK'
    BY <1>1, <1>3, <1>4, <1>a, <2>1, <2>2, <2>t DEF GateOK
  <2>4. CountersInv'
    <3>1. ASSUME NEW n \in 1..M PROVE ~OkRun(n)'
      <4>1. n \in Nat \ {0}
        BY <1>a
      <4> QED
        BY <1>6, <1>r, <4>1
    <3>2. ASSUME NEW n \in 1..N, ErrRun(n)' PROVE consecErr' >= n
      <4>0. n \in Nat \ {0}
        BY <1>a
      <4>1. n > 1 => ErrRun(n - 1)
        BY <1>r, <3>2, <4>0
      <4>2. n > 1 => consecErr >= n - 1
        BY <1>a, <1>c, <4>1 DEF CountersInv
      <4> QED
        BY <1>a, <1>g, <2>2, <4>2
    <3>3. consecOK' # M
      BY <1>a, <2>1
    <3>4. consecErr' = N => tripped'
      BY <1>a, <2>t
    <3> QED
      BY <3>1, <3>2, <3>3, <3>4 DEF CountersInv
  <2>5. FlipInv'
    <3>1. tripped' => consecOK' <= sinceFlip'
      BY <1>4, <2>1
    <3>2. ~tripped' => consecErr' <= sinceFlip' /\ Least(Len(outcomes'), MinSamples) <= sinceFlip'
      <4>1. SUFFICES ASSUME ~tripped' PROVE consecErr' <= sinceFlip' /\ Least(Len(os), MinSamples) <= sinceFlip'
        BY <2>1
      <4>2. ~tripped /\ tripped' = tripped
        BY <1>g, <2>t, <4>1
      <4>3. consecErr <= sinceFlip /\ Least(Len(outcomes), MinSamples) <= sinceFlip
        BY <1>c, <4>2 DEF FlipInv
      <4>4. sinceFlip' = sinceFlip + 1 \/ (sinceFlip' >= M /\ sinceFlip' >= N /\ sinceFlip' >= MinSamples)
        BY <1>4, <4>2
      <4> QED
        BY <1>1, <1>4, <1>a, <1>g, <1>l, <2>2, <4>3, <4>4 DEF Least
    <3> QED
      BY <3>1, <3>2 DEF FlipInv
  <2>6. tripped' # tripped => ~tripped /\ sinceFlip + 1 >= Least(N, MinSamples)
    <3>1. SUFFICES ASSUME tripped' # tripped PROVE ~tripped /\ sinceFlip + 1 >= Least(N, MinSamples)
      OBVIOUS
    <3>2. ~tripped /\ (consecErr' >= N \/ Len(os) >= MinSamples)
      BY <1>g, <2>t, <3>1
    <3>3. consecErr <= sinceFlip /\ Least(Len(outcomes), MinSamples) <= sinceFlip
      BY <1>c, <3>2 DEF FlipInv
    <3> QED
      BY <1>1, <1>a, <1>g, <1>l, <2>2, <3>2, <3>3 DEF Least
  <2> QED
    BY <2>3, <2>4, <2>5, <2>6 DEF GateInv
<1> QED
  BY <1>5, <1>6

\* The clock only makes outcomes older.
LEMMA TickKeeps == GateInv /\ Tick => GateInv' /\ tripped' = tripped
<1> SUFFICES ASSUME GateInv, Tick PROVE GateInv' /\ tripped' = tripped
  OBVIOUS
<1>1. UNCHANGED <<consecErr, consecOK, tripped, hist, sinceFlip>>
  BY DEF Tick
<1>2. outcomes \in Seq(Outcomes) /\ Window \in Nat
  BY BackpressureAssumption DEF GateInv, GateOK
<1>3. outcomes' \in Seq(Outcomes) /\ Len(outcomes') = Len(outcomes)
  <2>1. DOMAIN outcomes = 1..Len(outcomes) /\ Len(outcomes) \in Nat
    BY <1>2
  <2>2. ASSUME NEW k \in DOMAIN outcomes
        PROVE  [outcomes[k] EXCEPT !.age = Least(@ + 1, Window)] \in Outcomes
    <3>1. outcomes[k] \in Outcomes
      BY <1>2, <2>2
    <3>2. Least(outcomes[k].age + 1, Window) \in Nat
      BY <1>2, <3>1 DEF Least, Outcomes
    <3> QED
      BY <3>1, <3>2 DEF Outcomes
  <2>3. outcomes' = [k \in 1..Len(outcomes) |-> [outcomes[k] EXCEPT !.age = Least(@ + 1, Window)]]
    BY <2>1 DEF Tick
  <2> QED
    BY <2>1, <2>2, <2>3
<1>4. GateOK' /\ FlipInv'
  BY <1>1, <1>3 DEF GateInv, GateOK, FlipInv
<1>5. CountersInv'
  BY <1>1 DEF GateInv, CountersInv, ErrRun, OkRun, AllLast
<1> QED
  BY <1>1, <1>4, <1>5 DEF GateInv

\* A step records an outcome, lets time pass or leaves the gate alone.
LEMMA StepGate ==
  GateInv /\ [Next]_vars =>
      /\ GateInv'
      /\ tripped' # tripped => sinceFlip + 1 >= IF tripped THEN M ELSE Least(N, MinSamples)
<1> SUFFICES ASSUME GateInv, [Next]_vars
             PROVE  /\ GateInv'
                    /\ tripped' # tripped => sinceFlip + 1 >= IF tripped THEN M ELSE Least(N, MinSamples)
  OBVIOUS
<1>1. CASE UNCHANGED gate
  BY <1>1 DEF gate, GateInv, GateOK, CountersInv, FlipInv, ErrRun, OkRun, AllLast
<1>2. CASE Tick
  BY <1>2, TickKeeps
<1>3. ASSUME NEW disp, Finish(disp) PROVE \E success \in BOOLEAN : Record(success)
  BY <1>3 DEF Finish
<1>4. CASE \/ Ask \/ Submit \/ SubmittedElsewhere \/ PauseIntake \/ ResumeIntake
           \/ Take \/ (\E disp \in Dispositions : HandledElsewhere(disp))
           \/ Panic \/ RetryDue \/ Outage \/ Recovery \/ UNCHANGED vars
  BY <1>1, <1>4 DEF Ask, Submit, SubmittedElsewhere, HandledElsewhere, PauseIntake, ResumeIntake, Take, Panic, RetryDue,
                    Outage, Recovery, vars
<1> QED
  BY <1>2, <1>3, <1>4, RecordKeeps DEF Next

\* "on sustained provider failure (>= N consecutive errors ...) readiness
\* flips not-ready", "Readiness restores only after M consecutive successes":
\* N failures in a row have closed the gate, M successes have opened it.
THEOREM GateFollows == Spec => []GateFollowsOutcomes
<1>1. GateInv => GateFollowsOutcomes
  <2> SUFFICES ASSUME GateInv PROVE GateFollowsOutcomes
    OBVIOUS
  <2>1. N \in 1..N /\ M \in 1..M /\ consecErr \in 0..N /\ consecOK \in 0..M /\ N \in Nat /\ M \in Nat
    BY BackpressureAssumption DEF GateInv, GateOK
  <2>2. ErrRun(N) => consecErr = N
    BY <2>1 DEF GateInv, CountersInv
  <2>3. OkRun(M) => consecOK = M
    BY <2>1 DEF GateInv, CountersInv
  <2> QED
    BY <2>2, <2>3 DEF GateInv, CountersInv, GateFollowsOutcomes, ErrRun, OkRun
<1> QED
  BY <1>1, InitGate, StepGate, PTL DEF Spec

\* "a flapping provider must not flap readiness": between two flips of the
\* gate lie at least as many outcomes as it takes to reach a threshold.
THEOREM GateDoesNotFlap == Spec => NoFlapping
<1>1. GateInv /\ [Next]_vars =>
        [tripped' # tripped => sinceFlip + 1 >= IF tripped THEN M ELSE Least(N, MinSamples)]_vars
  BY StepGate
<1> QED
  BY <1>1, InitGate, StepGate, PTL DEF Spec, NoFlapping
=============================================================================
