--------------------------- MODULE AuditLogProofs ---------------------------
(***************************************************************************)
(* Proofs about AuditLog, for every number of jobs, appends, crashes,       *)
(* failing writes and losses: what a passed verification proves, what a     *)
(* failed one proves, and one verdict per job.                              *)
(***************************************************************************)
EXTENDS AuditLog, WellFoundedInduction, TLAPS

IsSeq(l) == \E S : l \in Seq(S)

\* What appendLocked puts into a file: typed lines with their own hash.
Bodies == [job : Jobs, kind : {"verdict", "event"}]
IsRec(r) == r = Rec(r.seq, r.ts, r.prev, r.body)
IsFile(l) == IsSeq(l) /\ \A k \in DOMAIN l : IsLine(l[k]) /\ IsRec(l[k])

\* The append in progress continues the chain held in memory.
AppendInv ==
    /\ IsFile(log) /\ IsFile(snapshot.lines)
    /\ appends \in 0..MaxAppends /\ seq \in 0..appends /\ head.seq \in 0..MaxAppends
    /\ faults \in Nat
    /\ Len(log) <= appends
    /\ op # <<>> =>
          /\ up /\ op[1] \in {"write", "anchor"}
          /\ IsRec(op[2]) /\ op[2].seq = seq + 1 /\ op[2].prev = prev
          /\ op[2].ts \in 1..MaxAppends /\ op[2].body \in Bodies
          /\ seq < appends
          /\ op[1] = "write" => Len(log) < appends
    /\ tail \in Tails /\ snapshot.tail \in Tails
    /\ tail = "unended" => Len(log) > 0
    /\ up \in BOOLEAN /\ seen \subseteq Jobs /\ recorded \subseteq Jobs
    /\ verdict \in {"none", "reading", "ok", "failed"}
    /\ damaged \in BOOLEAN /\ undisturbed \in BOOLEAN

\* Idempotency: what the file holds has been seen, except the line whose
\* anchor is being written, and a verdict is begun for an unseen job only.
Verdict(r) == r.body.kind = "verdict"

InFlight == IF op # <<>> /\ op[1] = "anchor" THEN {op[2].body.job} ELSE {}

SeenInv ==
    faults = 0 =>
        /\ \A a, b \in DOMAIN log :
              Verdict(log[a]) /\ Verdict(log[b]) /\ log[a].body.job = log[b].body.job => a = b
        /\ up => \A k \in DOMAIN log : log[k].body.job \in seen \cup InFlight
        /\ op # <<>> /\ op[1] = "write" /\ Verdict(op[2]) => op[2].body.job \notin seen

\* While no write has failed and nothing was lost, a file without a torn line
\* verifies, and the memory stands at its end; a verification of the closed log
\* has read the files as they are.
LastHash(l) == IF Len(l) = 0 THEN genesisPrev ELSE l[Len(l)].hash

WholeInv ==
    /\ ChainOK(log) /\ checkAnchor(log, head)
    /\ up /\ (op = <<>> \/ op[1] = "write") => seq = Len(log) /\ prev = LastHash(log)
    /\ op # <<>> /\ op[1] = "anchor" => op[2].seq = Len(log) /\ log[Len(log)] = op[2]

VerdictInv ==
    /\ verdict = "reading" /\ undisturbed =>
          ~up /\ snapshot.lines = log /\ snapshot.tail = tail
    /\ ~(verdict = "failed" /\ undisturbed /\ snapshot.tail # "torn")

IntactInv == faults = 0 /\ ~damaged => VerdictInv /\ (tail # "torn" => WholeInv)

\* A chain that ends in hash h at line n holds every record of A.
Chain(l) == IsSeq(l) /\ (\A k \in DOMAIN l : IsRec(l[k])) /\ ChainOK(l)

Covers(n, h, A) ==
    \A l : Chain(l) /\ n <= Len(l) /\ (n > 0 => l[n].hash = h) =>
        \A r \in A : \E k \in DOMAIN l : l[k] = r

\* The anchor, and the memory of a running process, cover all that was ever
\* anchored.
AnchorInv ==
    /\ Covers(head.seq, head.hash, anchored)
    /\ up => Covers(seq, prev, anchored)
    /\ verdict = "reading" => expect \subseteq anchored
    /\ PassMeansIntact

-----------------------------------------------------------------------------
(* Sequences and chains                                                     *)

\* A nonempty set of naturals has a least element.
LEMMA LeastNat ==
  ASSUME NEW T, T \subseteq Nat, T # {}
  PROVE  \E m \in T : \A n \in T : ~(n < m)
<1> DEFINE R == OpToRel(<, Nat)
<1>1. IsWellFoundedOn(R, Nat)
  BY NatLessThanWellFounded
<1>2. \A a, b \in Nat : a < b => <<a, b>> \in R
  BY DEF OpToRel
<1> HIDE DEF R
<1>3. PICK m \in T : \A n \in T : ~(<<n, m>> \in R)
  BY <1>1, WFMin
<1>4. \A n \in T : ~(n < m)
  BY <1>2, <1>3
<1> QED
  BY <1>4

\* The length and the positions of a file.
LEMMA SeqFacts ==
  ASSUME NEW l, IsSeq(l)
  PROVE  Len(l) \in Nat /\ DOMAIN l = 1..Len(l)
<1>1. PICK S : l \in Seq(S)
  BY DEF IsSeq
<1> QED
  BY <1>1

\* Appending a line leaves the others where they are.
LEMMA AppendFacts ==
  ASSUME NEW l, IsSeq(l), NEW r
  PROVE  /\ IsSeq(Append(l, r)) /\ Len(Append(l, r)) = Len(l) + 1
         /\ \A k \in 1..Len(l) : Append(l, r)[k] = l[k]
         /\ Append(l, r)[Len(l) + 1] = r
<1>1. PICK S : l \in Seq(S)
  BY DEF IsSeq
<1>2. l \in Seq(S \cup {r}) /\ r \in S \cup {r}
  BY <1>1
<1>3. Append(l, r) \in Seq(S \cup {r})
  BY <1>2
<1> QED
  BY <1>2, <1>3 DEF IsSeq

\* Losing the last lines leaves the others where they are.
LEMMA CutFacts ==
  ASSUME NEW l, IsSeq(l), NEW n \in 1..Len(l)
  PROVE  LET c == SubSeq(l, 1, Len(l) - n)
         IN  /\ IsSeq(c) /\ Len(c) = Len(l) - n
             /\ \A k \in 1..Len(c) : c[k] = l[k]
<1>1. PICK S : l \in Seq(S)
  BY DEF IsSeq
<1>2. Len(l) \in Nat /\ Len(l) - n \in Nat /\ Len(l) - n <= Len(l)
  BY <1>1
<1>3. SubSeq(l, 1, Len(l) - n) \in Seq(S)
  BY <1>1, <1>2
<1>4. Len(SubSeq(l, 1, Len(l) - n)) = Len(l) - n
  BY <1>1, <1>2
<1>5. \A k \in 1..(Len(l) - n) : SubSeq(l, 1, Len(l) - n)[k] = l[k]
  BY <1>1, <1>2
<1> QED
  BY <1>3, <1>4, <1>5 DEF IsSeq

\* A hash determines what was hashed.
LEMMA HashInjective ==
  ASSUME NEW n, NEW t, NEW p, NEW b, NEW m, NEW u, NEW q, NEW c,
         entryHash(n, t, p, b) = entryHash(m, u, q, c)
  PROVE  n = m /\ t = u /\ p = q /\ b = c
  BY DEF entryHash

\* The fields of a record.
LEMMA RecFields ==
  ASSUME NEW r, IsRec(r)
  PROVE  r.hash = entryHash(r.seq, r.ts, r.prev, r.body)
  BY DEF IsRec, Rec

\* Two records with the same hash are the same record.
LEMMA SameHash ==
  ASSUME NEW r, NEW q, IsRec(r), IsRec(q), r.hash = q.hash
  PROVE  r = q
<1>1. entryHash(r.seq, r.ts, r.prev, r.body) = entryHash(q.seq, q.ts, q.prev, q.body)
  BY RecFields
<1>2. r.seq = q.seq /\ r.ts = q.ts /\ r.prev = q.prev /\ r.body = q.body
  BY <1>1, HashInjective
<1> QED
  BY <1>2 DEF IsRec

\* Two chains that agree in one line agree in all the lines before it: the
\* hash of a line covers the whole file up to that line.
LEMMA ChainPrefix ==
  ASSUME NEW l, NEW c, Chain(l), Chain(c),
         NEW n \in 1..Len(l), n <= Len(c), l[n].hash = c[n].hash,
         NEW m \in 1..n
  PROVE  l[m] = c[m]
<1> DEFINE T == {x \in 1..n : l[x].hash = c[x].hash /\ \E y \in 1..x : l[y] # c[y]}
<1> SUFFICES ASSUME T # {} PROVE FALSE
  <2>1. Len(l) \in Nat
    BY SeqFacts DEF Chain
  <2>2. n \in 1..n
    BY <2>1
  <2> QED
    BY <2>2
<1>1. Len(l) \in Nat /\ DOMAIN l = 1..Len(l) /\ Len(c) \in Nat /\ DOMAIN c = 1..Len(c)
  BY SeqFacts DEF Chain
<1>2. T \subseteq Nat /\ T \subseteq 1..n
  BY <1>1
<1>3. PICK x \in T : \A z \in T : ~(z < x)
  BY <1>2, LeastNat
<1>4. x \in DOMAIN l /\ x \in DOMAIN c /\ x \in 1..n
  BY <1>1, <1>2
<1>5. l[x] = c[x]
  BY <1>4, SameHash DEF Chain
<1>6. PICK y \in 1..x : l[y] # c[y]
  OBVIOUS
<1>7. x # 1 /\ y \in 1..(x - 1) /\ x - 1 \in 1..n
  BY <1>1, <1>4, <1>5, <1>6
<1>8. l[x].prev = l[x - 1].hash /\ c[x].prev = c[x - 1].hash
  BY <1>4, <1>7 DEF Chain, ChainOK, verifyRecord, Before
<1>9. l[x - 1].hash = c[x - 1].hash
  BY <1>5, <1>8
<1>10. x - 1 \in T /\ x - 1 < x
  BY <1>4, <1>6, <1>7, <1>9
<1> QED
  BY <1>3, <1>10

\* A file with one more line of the writer's is a file of the writer's.
LEMMA FileAppend ==
  ASSUME NEW l, IsFile(l), NEW r, IsLine(r), IsRec(r)
  PROVE  IsFile(Append(l, r)) /\ Len(Append(l, r)) = Len(l) + 1
<1>1. IsSeq(l)
  BY DEF IsFile
<1>2. Len(l) \in Nat /\ DOMAIN l = 1..Len(l)
  BY <1>1, SeqFacts
<1>3. /\ IsSeq(Append(l, r)) /\ Len(Append(l, r)) = Len(l) + 1
      /\ \A k \in 1..Len(l) : Append(l, r)[k] = l[k]
      /\ Append(l, r)[Len(l) + 1] = r
  BY <1>1, AppendFacts
<1>4. DOMAIN Append(l, r) = 1..(Len(l) + 1)
  BY <1>3, SeqFacts
<1>5. ASSUME NEW k \in 1..(Len(l) + 1) PROVE IsLine(Append(l, r)[k]) /\ IsRec(Append(l, r)[k])
  <2>1. CASE k \in 1..Len(l)
    BY <1>2, <1>3, <2>1 DEF IsFile
  <2>2. CASE k = Len(l) + 1
    BY <1>3, <2>2
  <2> QED
    BY <1>2, <2>1, <2>2
<1> QED
  BY <1>3, <1>4, <1>5 DEF IsFile

\* A file that lost its tail is a file of the writer's.
LEMMA FileCut ==
  ASSUME NEW l, IsFile(l), NEW n \in 1..Len(l)
  PROVE  IsFile(SubSeq(l, 1, Len(l) - n)) /\ Len(SubSeq(l, 1, Len(l) - n)) = Len(l) - n
<1> DEFINE c == SubSeq(l, 1, Len(l) - n)
<1>1. IsSeq(l)
  BY DEF IsFile
<1>2. Len(l) \in Nat /\ DOMAIN l = 1..Len(l)
  BY <1>1, SeqFacts
<1>3. IsSeq(c) /\ Len(c) = Len(l) - n /\ \A k \in 1..Len(c) : c[k] = l[k]
  BY <1>1, CutFacts
<1> HIDE DEF c
<1>4. DOMAIN c = 1..Len(c)
  BY <1>3, SeqFacts
<1>5. IsFile(c)
  BY <1>2, <1>3, <1>4 DEF IsFile
<1> QED
  BY <1>3, <1>5 DEF c

-----------------------------------------------------------------------------
(* Types, and the append in progress                                        *)

\* The empty files satisfy the invariant.
LEMMA InitAppend == Init => AppendInv
<1> SUFFICES ASSUME Init PROVE AppendInv
  OBVIOUS
<1>1. IsFile(<<>>) /\ Len(<<>>) = 0
  <2>1. <<>> \in Seq({}) /\ DOMAIN <<>> = {}
    OBVIOUS
  <2> QED
    BY <2>1 DEF IsFile, IsSeq
<1>2. MaxAppends \in Nat
  BY AuditLogAssumption
<1>3. /\ appends \in 0..MaxAppends /\ seq \in 0..appends /\ head.seq \in 0..MaxAppends
      /\ faults \in Nat /\ Len(log) <= appends
  BY <1>1, <1>2 DEF Init, NoHead
<1>4. IsFile(log) /\ IsFile(snapshot.lines) /\ snapshot.tail \in Tails
  BY <1>1 DEF Init, Tails
<1>5. /\ op = <<>> /\ tail \in Tails /\ tail # "unended" /\ up \in BOOLEAN /\ damaged \in BOOLEAN
      /\ undisturbed \in BOOLEAN /\ verdict \in {"none", "reading", "ok", "failed"}
      /\ seen \subseteq Jobs /\ recorded \subseteq Jobs
  BY DEF Init, Tails
<1> QED
  BY <1>3, <1>4, <1>5 DEF AppendInv

\* Beginning an append puts the next record of the chain in memory.
LEMMA BeginAppend ==
  ASSUME AppendInv, NEW b \in Bodies, Begin(b), up,
         UNCHANGED <<files, up, seq, prev, seen, auditor>>,
         recorded' \subseteq Jobs, faults' = faults, damaged' = damaged
  PROVE  AppendInv'
<1> DEFINE r == Rec(seq + 1, appends + 1, prev, b)
<1>1. op' = <<"write", r>> /\ appends' = appends + 1 /\ appends < MaxAppends
  BY DEF Begin, NextSeq
<1>2. MaxAppends \in Nat /\ appends \in Nat /\ seq \in 0..appends /\ appends <= MaxAppends
  BY AuditLogAssumption DEF AppendInv
<1>3. IsRec(r) /\ r.seq = seq + 1 /\ r.prev = prev /\ r.ts = appends + 1 /\ r.body = b
  BY DEF IsRec, Rec
<1> HIDE DEF r
<1>4. op' # <<>> /\ op'[1] = "write" /\ op'[2] = r
  BY <1>1
<1>5. r.ts \in 1..MaxAppends /\ r.body \in Bodies /\ seq < appends'
         /\ appends' \in 0..MaxAppends /\ seq \in 0..appends'
  BY <1>1, <1>2, <1>3
<1>6. IsFile(log) /\ IsFile(snapshot.lines) /\ Len(log) <= appends /\ Len(log) \in Nat
  BY SeqFacts DEF AppendInv, IsFile
<1>7. Len(log) < appends'
  BY <1>1, <1>2, <1>6
<1>8. /\ log' = log /\ snapshot' = snapshot /\ seq' = seq /\ prev' = prev /\ head' = head
      /\ tail' = tail /\ up' = up /\ seen' = seen /\ verdict' = verdict
      /\ undisturbed' = undisturbed
  BY DEF files, auditor
<1> QED
  BY <1>2, <1>3, <1>4, <1>5, <1>6, <1>7, <1>8 DEF AppendInv

\* The record being appended is a line of the file's format.
LEMMA OpIsLine ==
  ASSUME AppendInv, op # <<>>
  PROVE  IsLine(op[2]) /\ IsRec(op[2]) /\ op[2].seq \in 1..MaxAppends
<1>1. MaxAppends \in Nat /\ appends \in 0..MaxAppends /\ seq \in 0..appends /\ seq < appends
         /\ op[2].seq = seq + 1
  BY AuditLogAssumption DEF AppendInv
<1>2. op[2].seq \in 1..MaxAppends
  BY <1>1
<1> QED
  BY <1>2 DEF AppendInv, IsLine, Bodies

\* What a write, complete or not, makes of the log: nothing of it parses, or it
\* spoils the last line, or the whole record is there.
WriteLeaves(r) ==
    \/ log' = log /\ (tail' = tail \/ tail' = "torn")
    \/ tail' = "torn" /\ Len(log) > 0 /\ log' = SubSeq(log, 1, Len(log) - 1)
    \/ tail = "whole" /\ tail' # "torn" /\ log' = Append(log, r)

\* That is what the two kinds of write do, and the log stays a file of the
\* writer's.
LEMMA WriteKeeps ==
  ASSUME AppendInv, op # <<>>, op[1] = "write", Written(op[2]) \/ PartWritten(op[2])
  PROVE  /\ WriteLeaves(op[2]) /\ IsFile(log') /\ Len(log') <= appends
         /\ tail' \in Tails /\ (tail' = "unended" => Len(log') > 0)
<1>1. IsFile(log) /\ Len(log) \in Nat /\ appends \in Nat /\ Len(log) < appends
  BY SeqFacts, AuditLogAssumption DEF AppendInv, IsFile
<1>2. tail \in Tails /\ (tail = "unended" => Len(log) > 0)
  BY DEF AppendInv
<1>3. IsLine(op[2]) /\ IsRec(op[2])
  BY OpIsLine
<1>4. CASE log' = log /\ (tail' = tail \/ tail' = "torn")
  BY <1>1, <1>2, <1>4 DEF WriteLeaves, Tails
<1>5. CASE tail = "unended" /\ tail' = "torn" /\ log' = Front(log)
  <2>1. Len(log) > 0 /\ log' = SubSeq(log, 1, Len(log) - 1)
    BY <1>2, <1>5 DEF Front
  <2>2. 1 \in 1..Len(log)
    BY <1>1, <2>1
  <2>3. IsFile(log') /\ Len(log') = Len(log) - 1
    BY <1>1, <2>1, <2>2, FileCut
  <2> QED
    BY <1>1, <1>5, <2>1, <2>3 DEF WriteLeaves, Tails
<1>6. CASE tail = "whole" /\ (tail' = "whole" \/ tail' = "unended") /\ log' = Append(log, op[2])
  <2>1. IsFile(log') /\ Len(log') = Len(log) + 1
    BY <1>1, <1>3, <1>6, FileAppend
  <2> QED
    BY <1>1, <1>6, <2>1 DEF WriteLeaves, Tails
<1>7. \/ log' = log /\ (tail' = tail \/ tail' = "torn")
      \/ tail = "unended" /\ tail' = "torn" /\ log' = Front(log)
      \/ tail = "whole" /\ (tail' = "whole" \/ tail' = "unended") /\ log' = Append(log, op[2])
  BY DEF Written, PartWritten, Spoiled
<1> QED
  BY <1>4, <1>5, <1>6, <1>7

\* Every step keeps the types and continues the chain in memory.
LEMMA StepAppend == AppendInv /\ [Next]_vars => AppendInv'
<1> SUFFICES ASSUME AppendInv, [Next]_vars PROVE AppendInv'
  OBVIOUS
<1>t. IsFile(log) /\ Len(log) \in Nat /\ DOMAIN log = 1..Len(log)
        /\ MaxAppends \in Nat /\ appends \in 0..MaxAppends /\ seq \in 0..appends
        /\ faults \in Nat
  BY SeqFacts, AuditLogAssumption DEF AppendInv, IsFile
<1>1. CASE Open
  <2>1. op = <<>> /\ op' = <<>>
    BY <1>1 DEF Open, AppendInv
  <2>2. seq' = Len(log) /\ log' = log /\ appends' = appends
    BY <1>1 DEF Open, Replayed, files, spent
  <2>3. seen' \subseteq Jobs
    <3>1. \A k \in DOMAIN log : log[k].body.job \in Jobs
      BY <1>t DEF IsFile, IsLine
    <3> QED
      BY <1>1, <3>1 DEF Open, SeenIn
  <2>4. seq' \in 0..appends'
    BY <1>t, <2>2 DEF AppendInv
  <2>5. undisturbed' \in BOOLEAN /\ up' \in BOOLEAN
    BY <1>1 DEF Open
  <2> QED
    BY <1>1, <2>1, <2>2, <2>3, <2>4, <2>5 DEF Open, AppendInv, files, spent
<1>2. CASE WriteLine
  <2>1. op # <<>> /\ op[1] = "write"
    BY <1>2 DEF WriteLine
  <2>2. IsLine(op[2]) /\ IsRec(op[2])
    BY <2>1, OpIsLine
  <2>3. /\ head' = head /\ snapshot' = snapshot /\ seq' = seq /\ prev' = prev /\ up' = up
        /\ seen' = seen /\ verdict' = verdict /\ undisturbed' = undisturbed
        /\ recorded' = recorded /\ damaged' = damaged /\ appends' = appends
    BY <1>2 DEF WriteLine, auditor
  <2>w. /\ IsFile(log') /\ Len(log') <= appends
        /\ tail' \in Tails /\ (tail' = "unended" => Len(log') > 0)
    BY <1>2, <2>1, WriteKeeps DEF WriteLine
  <2>4. CASE op' = <<"anchor", op[2]>> /\ UNCHANGED faults
    <3>1. op' # <<>> /\ op'[1] = "anchor" /\ op'[2] = op[2]
      BY <2>4
    <3> QED
      BY <2>1, <2>3, <2>4, <2>w, <3>1 DEF AppendInv
  <2>5. CASE Fail("log")
    <3>1. op' = <<>> /\ faults' \in Nat
      BY <1>t, <2>5 DEF Fail
    <3> QED
      BY <2>3, <2>w, <3>1 DEF AppendInv
  <2> QED
    BY <1>2, <2>4, <2>5 DEF WriteLine
<1>3. CASE WriteHead
  <2>1. op # <<>> /\ op[1] = "anchor"
    BY <1>3 DEF WriteHead
  <2>2. /\ log' = log /\ tail' = tail /\ up' = up /\ snapshot' = snapshot /\ verdict' = verdict
        /\ undisturbed' = undisturbed /\ damaged' = damaged /\ appends' = appends
    BY <1>3 DEF WriteHead, auditor
  <2>3. op[2].seq \in 1..MaxAppends /\ op[2].seq = seq + 1 /\ seq < appends
           /\ op[2].body \in Bodies
    BY <2>1, OpIsLine DEF AppendInv
  <2>4. op' = <<>>
    BY <1>3 DEF WriteHead, Fail
  <2>5. faults' \in Nat
    BY <1>t, <1>3 DEF WriteHead, Fail
  <2>6. head'.seq \in 0..MaxAppends /\ seq' \in 0..appends
    <3>1. CASE UNCHANGED <<head, seq>>
      BY <3>1 DEF AppendInv
    <3>2. CASE head' = [seq |-> op[2].seq, hash |-> op[2].hash] /\ seq' = op[2].seq
      BY <1>t, <2>3, <3>2
    <3> QED
      BY <1>3, <3>1, <3>2 DEF WriteHead
  <2>7. seen' \subseteq Jobs /\ recorded' \subseteq Jobs
    <3>1. op[2].body.job \in Jobs
      BY <2>3 DEF Bodies
    <3> QED
      BY <1>3, <3>1 DEF WriteHead, AppendInv
  <2> QED
    BY <2>2, <2>4, <2>5, <2>6, <2>7 DEF AppendInv
<1>4. CASE Close \/ Crash
  <2>1. op' = <<>> /\ up' \in BOOLEAN /\ seen' \subseteq Jobs
    BY <1>4 DEF Close, Crash, Ends
  <2>2. seq' \in 0..appends' /\ appends' = appends /\ faults' = faults
    BY <1>4, <1>t DEF Close, Crash, Ends, spent
  <2>3. /\ head' = head /\ snapshot' = snapshot /\ verdict' = verdict
        /\ undisturbed' = undisturbed /\ recorded' = recorded /\ damaged' = damaged
    BY <1>4 DEF Close, Crash, files, auditor
  <2>4. /\ IsFile(log') /\ Len(log') <= appends
        /\ tail' \in Tails /\ (tail' = "unended" => Len(log') > 0)
    <3>1. CASE UNCHANGED <<log, tail>>
      BY <3>1 DEF AppendInv
    <3>2. CASE op # <<>> /\ op[1] = "write" /\ PartWritten(op[2])
      BY <3>2, WriteKeeps
    <3> QED
      BY <1>4, <3>1, <3>2 DEF Close, Crash, files
  <2> QED
    BY <2>1, <2>2, <2>3, <2>4 DEF AppendInv
<1>5. ASSUME NEW j \in Jobs, Record(j) PROVE AppendInv'
  <2>1. CASE j \in seen
    BY <1>5, <2>1 DEF Record, files, auditor, AppendInv
  <2>2. CASE j \notin seen
    <3>1. [job |-> j, kind |-> "verdict"] \in Bodies
      BY DEF Bodies
    <3>2. Begin([job |-> j, kind |-> "verdict"]) /\ up /\ recorded' = recorded
             /\ UNCHANGED <<files, up, seq, prev, seen, auditor>>
             /\ faults' = faults /\ damaged' = damaged
      BY <1>5, <2>2 DEF Record
    <3>3. recorded' \subseteq Jobs
      BY <3>2 DEF AppendInv
    <3> QED
      BY <3>1, <3>2, <3>3, BeginAppend
  <2> QED
    BY <2>1, <2>2
<1>6. ASSUME NEW j \in Jobs, AppendEvent(j) PROVE AppendInv'
  <2>1. [job |-> j, kind |-> "event"] \in Bodies
    BY DEF Bodies
  <2>2. Begin([job |-> j, kind |-> "event"]) /\ up /\ recorded' = recorded
           /\ UNCHANGED <<files, up, seq, prev, seen, auditor>>
           /\ faults' = faults /\ damaged' = damaged
    BY <1>6 DEF AppendEvent
  <2>3. recorded' \subseteq Jobs
    BY <2>2 DEF AppendInv
  <2> QED
    BY <2>1, <2>2, <2>3, BeginAppend
<1>7. ASSUME NEW n \in 1..Len(log), LoseTail(n) PROVE AppendInv'
  <2>1. log' = SubSeq(log, 1, Len(log) - n)
    BY <1>7 DEF LoseTail
  <2>2. IsFile(log') /\ Len(log') = Len(log) - n
    BY <1>t, <2>1, FileCut
  <2>3. Len(log') \in Nat /\ Len(log') < Len(log)
    BY <1>t, <2>2
  <2>4. Len(log') <= appends /\ (Len(log) < appends => Len(log') < appends)
    BY <1>t, <2>3 DEF AppendInv
  <2>5. /\ head' = head /\ up' = up /\ seq' = seq /\ prev' = prev /\ seen' = seen /\ op' = op
        /\ snapshot' = snapshot /\ verdict' = verdict /\ undisturbed' = undisturbed
        /\ recorded' = recorded /\ appends' = appends /\ faults' = faults
        /\ tail' \in Tails /\ tail' # "unended" /\ damaged' = TRUE
    BY <1>7 DEF LoseTail, memory, auditor, Tails
  <2> QED
    BY <2>2, <2>4, <2>5 DEF AppendInv
<1>8. CASE VerifyRead
  BY <1>8 DEF VerifyRead, files, memory, spent, AppendInv
<1>9. CASE VerifyAnchor
  BY <1>9 DEF VerifyAnchor, files, memory, spent, AppendInv
<1>10. CASE UNCHANGED vars
  BY <1>10 DEF vars, files, memory, auditor, spent, AppendInv
<1> QED
  BY <1>1, <1>2, <1>3, <1>4, <1>5, <1>6, <1>7, <1>8, <1>9, <1>10 DEF Next

\* Every variable has its type and the chain in memory stays within the
\* appends begun, for every number of jobs, appends and failures.
THEOREM TypeCorrect == Spec => []TypeOK
<1>1. AppendInv => TypeOK
  <2> SUFFICES ASSUME AppendInv PROVE TypeOK
    OBVIOUS
  <2>1. op = <<>> \/ (op[1] \in {"write", "anchor"} /\ IsLine(op[2]))
    BY OpIsLine DEF AppendInv
  <2>2. seq \in 0..MaxAppends
    BY AuditLogAssumption DEF AppendInv
  <2> QED
    BY <2>1, <2>2 DEF AppendInv, TypeOK, IsFile
<1> QED
  BY <1>1, InitAppend, StepAppend, PTL DEF Spec

\* Write errors and losses are never forgotten.
LEMMA Monotone ==
  ASSUME AppendInv, [Next]_vars
  PROVE  (faults' = 0 => faults' = faults) /\ (damaged => damaged')
<1>1. faults \in Nat
  BY DEF AppendInv
<1>2. CASE WriteLine \/ WriteHead
  <2>1. faults' = faults \/ faults' = faults + 1
    BY <1>2 DEF WriteLine, WriteHead, Fail
  <2>2. damaged' = damaged
    BY <1>2 DEF WriteLine, WriteHead
  <2> QED
    BY <1>1, <2>1, <2>2
<1>3. ASSUME NEW n \in 1..Len(log), LoseTail(n) PROVE faults' = faults /\ damaged'
  BY <1>3 DEF LoseTail
<1>4. ASSUME NEW j \in Jobs, Record(j) \/ AppendEvent(j)
      PROVE  faults' = faults /\ damaged' = damaged
  BY <1>4 DEF Record, AppendEvent
<1>5. CASE Open \/ Close \/ Crash \/ VerifyRead \/ VerifyAnchor \/ UNCHANGED vars
  BY <1>5 DEF Open, Close, Crash, VerifyRead, VerifyAnchor, vars, spent
<1> QED
  BY <1>2, <1>3, <1>4, <1>5 DEF Next

-----------------------------------------------------------------------------
(* One verdict per job                                                      *)

\* A write, complete or not, of a record of an unseen job keeps one verdict per
\* job in the log, all of them of jobs seen or the record's.
LEMMA WriteSeen ==
  ASSUME AppendInv, SeenInv, faults = 0, op # <<>>, op[1] = "write", WriteLeaves(op[2])
  PROVE  /\ \A k \in DOMAIN log' : log'[k].body.job \in seen \cup {op[2].body.job}
         /\ \A a, b \in DOMAIN log' :
               Verdict(log'[a]) /\ Verdict(log'[b]) /\ log'[a].body.job = log'[b].body.job => a = b
<1>t. IsSeq(log) /\ Len(log) \in Nat /\ DOMAIN log = 1..Len(log)
  BY SeqFacts DEF AppendInv, IsFile
<1>u. \A a, b \in DOMAIN log :
         Verdict(log[a]) /\ Verdict(log[b]) /\ log[a].body.job = log[b].body.job => a = b
  BY DEF SeenInv
<1>s. \A k \in DOMAIN log : log[k].body.job \in seen
  BY DEF SeenInv, AppendInv, InFlight
<1>n. Verdict(op[2]) => op[2].body.job \notin seen
  BY DEF SeenInv
<1>1. CASE log' = log
  BY <1>s, <1>u, <1>1
<1>2. CASE Len(log) > 0 /\ log' = SubSeq(log, 1, Len(log) - 1)
  <2>1. 1 \in 1..Len(log)
    BY <1>t, <1>2
  <2>2. IsSeq(log') /\ Len(log') = Len(log) - 1 /\ \A k \in 1..Len(log') : log'[k] = log[k]
    BY <1>t, <1>2, <2>1, CutFacts
  <2>3. \A k \in DOMAIN log' : k \in DOMAIN log /\ log'[k] = log[k]
    BY <1>t, <2>2, SeqFacts
  <2> QED
    BY <1>s, <1>u, <2>3
<1>3. CASE log' = Append(log, op[2])
  <2>1. /\ IsSeq(log') /\ Len(log') = Len(log) + 1
        /\ \A k \in 1..Len(log) : log'[k] = log[k]
        /\ log'[Len(log) + 1] = op[2]
    BY <1>t, <1>3, AppendFacts
  <2>2. DOMAIN log' = 1..(Len(log) + 1)
    BY <2>1, SeqFacts
  <2>3. \A k \in DOMAIN log' : log'[k].body.job \in seen \cup {op[2].body.job}
    BY <1>t, <1>s, <2>1, <2>2
  <2>4. ASSUME NEW a \in DOMAIN log', NEW b \in DOMAIN log',
               Verdict(log'[a]), Verdict(log'[b]), log'[a].body.job = log'[b].body.job
        PROVE  a = b
    <3>1. CASE a \in 1..Len(log) /\ b \in 1..Len(log)
      BY <1>t, <1>u, <2>1, <2>4, <3>1
    <3>2. CASE a \in 1..Len(log) /\ b = Len(log) + 1
      BY <1>t, <1>s, <1>n, <2>1, <2>4, <3>2
    <3>3. CASE a = Len(log) + 1 /\ b \in 1..Len(log)
      BY <1>t, <1>s, <1>n, <2>1, <2>4, <3>3
    <3> QED
      BY <1>t, <2>2, <3>1, <3>2, <3>3
  <2> QED
    BY <2>3, <2>4
<1> QED
  BY <1>1, <1>2, <1>3 DEF WriteLeaves

\* Every step keeps the idempotency: the set of seen jobs is rebuilt from the
\* file by Open and is behind it only while an anchor is being written.
LEMMA StepSeen == AppendInv /\ SeenInv /\ [Next]_vars => SeenInv'
<1> SUFFICES ASSUME AppendInv, SeenInv, [Next]_vars, faults' = 0 PROVE SeenInv'
  BY DEF SeenInv
<1>f. faults = 0 /\ faults' = faults
  BY Monotone
<1>t. IsFile(log) /\ IsSeq(log) /\ Len(log) \in Nat /\ DOMAIN log = 1..Len(log)
  BY SeqFacts DEF AppendInv, IsFile
<1>u. \A a, b \in DOMAIN log :
         Verdict(log[a]) /\ Verdict(log[b]) /\ log[a].body.job = log[b].body.job => a = b
  BY <1>f DEF SeenInv
<1>s. up => \A k \in DOMAIN log : log[k].body.job \in seen \cup InFlight
  BY <1>f DEF SeenInv
<1>1. CASE Open
  <2>1. log' = log /\ op' = op /\ op = <<>>
    BY <1>1 DEF Open, files, AppendInv
  <2>2. \A k \in DOMAIN log : log[k].body.job \in seen'
    BY <1>1 DEF Open, SeenIn
  <2> QED
    BY <1>u, <2>1, <2>2 DEF SeenInv
<1>2. CASE WriteLine
  <2>1. op # <<>> /\ op[1] = "write" /\ up /\ up' = up /\ seen' = seen
    BY <1>2 DEF WriteLine, AppendInv
  <2>2. op' = <<"anchor", op[2]>>
    BY <1>2, <1>f DEF WriteLine, Fail
  <2>3. op' # <<>> /\ op'[1] = "anchor" /\ op'[2] = op[2]
    BY <2>2
  <2>4. InFlight' = {op[2].body.job}
    BY <2>3 DEF InFlight
  <2>5. WriteLeaves(op[2])
    BY <1>2, <2>1, WriteKeeps DEF WriteLine
  <2>6. /\ \A k \in DOMAIN log' : log'[k].body.job \in seen' \cup InFlight'
        /\ \A a, b \in DOMAIN log' :
              Verdict(log'[a]) /\ Verdict(log'[b]) /\ log'[a].body.job = log'[b].body.job => a = b
    BY <1>f, <2>1, <2>4, <2>5, WriteSeen
  <2> QED
    BY <2>3, <2>6 DEF SeenInv, Verdict
<1>3. CASE WriteHead
  <2>1. op # <<>> /\ op[1] = "anchor" /\ up
    BY <1>3 DEF WriteHead, AppendInv
  <2>2. op' = <<>> /\ seen' = seen \cup {op[2].body.job} /\ log' = log
    <3>1. ~Fail("head")
      BY <1>f DEF Fail
    <3> QED
      BY <1>3, <3>1 DEF WriteHead
  <2>3. InFlight = {op[2].body.job}
    BY <2>1 DEF InFlight
  <2>4. \A k \in DOMAIN log : log[k].body.job \in seen'
    BY <1>s, <2>1, <2>2, <2>3
  <2> QED
    BY <1>u, <2>2, <2>4 DEF SeenInv
<1>4. CASE Close \/ Crash
  <2>1. ~up' /\ op' = <<>>
    BY <1>4 DEF Close, Crash, Ends
  <2>2. \A a, b \in DOMAIN log' :
           Verdict(log'[a]) /\ Verdict(log'[b]) /\ log'[a].body.job = log'[b].body.job => a = b
    <3>1. CASE log' = log
      BY <1>u, <3>1
    <3>2. CASE op # <<>> /\ op[1] = "write" /\ PartWritten(op[2])
      BY <1>f, <3>2, WriteKeeps, WriteSeen
    <3> QED
      BY <1>4, <3>1, <3>2 DEF Close, Crash, files
  <2> QED
    BY <2>1, <2>2 DEF SeenInv, Verdict
<1>5. ASSUME NEW j \in Jobs, Record(j) PROVE SeenInv'
  <2>1. up /\ op = <<>> /\ log' = log /\ seen' = seen
    BY <1>5 DEF Record, files
  <2>2. \A k \in DOMAIN log : log[k].body.job \in seen'
    BY <1>s, <2>1 DEF InFlight
  <2>3. CASE j \in seen
    <3>1. op' = op
      BY <1>5, <2>3 DEF Record
    <3> QED
      BY <1>u, <2>1, <2>2, <3>1 DEF SeenInv
  <2>4. CASE j \notin seen
    <3>1. op' = <<"write", Rec(seq + 1, appends + 1, prev, [job |-> j, kind |-> "verdict"])>>
      BY <1>5, <2>4 DEF Record, Begin, NextSeq
    <3>2. op'[2].body.job \notin seen'
      BY <2>1, <2>4, <3>1 DEF Rec
    <3> QED
      BY <1>u, <2>1, <2>2, <3>2 DEF SeenInv
  <2> QED
    BY <2>3, <2>4
<1>6. ASSUME NEW j \in Jobs, AppendEvent(j) PROVE SeenInv'
  <2>1. up /\ op = <<>> /\ log' = log /\ seen' = seen
    BY <1>6 DEF AppendEvent, files
  <2>2. \A k \in DOMAIN log : log[k].body.job \in seen'
    BY <1>s, <2>1 DEF InFlight
  <2>3. op' = <<"write", Rec(seq + 1, appends + 1, prev, [job |-> j, kind |-> "event"])>>
    BY <1>6 DEF AppendEvent, Begin, NextSeq
  <2>4. ~Verdict(op'[2])
    BY <2>3 DEF Rec, Verdict
  <2>5. ~Verdict(op[2])'
    BY <2>4 DEF Verdict
  <2> QED
    BY <1>u, <2>1, <2>2, <2>5 DEF SeenInv
<1>7. ASSUME NEW n \in 1..Len(log), LoseTail(n) PROVE SeenInv'
  <2>1. log' = SubSeq(log, 1, Len(log) - n) /\ up' = up /\ op' = op /\ seen' = seen
    BY <1>7 DEF LoseTail, memory
  <2>2. IsSeq(log') /\ Len(log') = Len(log) - n /\ \A k \in 1..Len(log') : log'[k] = log[k]
    BY <1>t, <2>1, CutFacts
  <2>3. DOMAIN log' = 1..Len(log') /\ \A k \in DOMAIN log' : k \in DOMAIN log /\ log'[k] = log[k]
    BY <1>t, <2>2, SeqFacts
  <2>4. InFlight' = InFlight
    BY <2>1 DEF InFlight
  <2>5. up' => \A k \in DOMAIN log' : log'[k].body.job \in seen' \cup InFlight'
    BY <1>s, <2>1, <2>3, <2>4
  <2>6. \A a, b \in DOMAIN log' :
           Verdict(log'[a]) /\ Verdict(log'[b]) /\ log'[a].body.job = log'[b].body.job => a = b
    BY <1>u, <2>3
  <2>7. op' # <<>> /\ op'[1] = "write" /\ Verdict(op'[2]) => op'[2].body.job \notin seen'
    BY <1>f, <2>1 DEF SeenInv
  <2> QED
    BY <2>5, <2>6, <2>7 DEF SeenInv, Verdict
<1>8. CASE VerifyRead \/ VerifyAnchor \/ UNCHANGED vars
  <2>1. UNCHANGED <<log, op, up, seen, faults>>
    BY <1>8 DEF VerifyRead, VerifyAnchor, vars, files, memory, spent
  <2> QED
    BY <2>1 DEF SeenInv, Verdict, InFlight
<1> QED
  BY <1>1, <1>2, <1>3, <1>4, <1>5, <1>6, <1>7, <1>8 DEF Next

\* "The audit log's per-job_id idempotency survives a restart", for any number
\* of jobs, appends, crashes and losses, as long as no write fails.
THEOREM OneVerdict == Spec => []OneVerdictPerJob
<1>1. Init => SeenInv
  BY DEF Init, SeenInv
<1>2. SeenInv => OneVerdictPerJob
  BY DEF SeenInv, OneVerdictPerJob, Verdict
<1> QED
  BY <1>1, <1>2, InitAppend, StepAppend, StepSeen, PTL DEF Spec

-----------------------------------------------------------------------------
(* A failed verification                                                    *)

\* A chain continued by a record on its last hash is a chain, and an anchor it
\* satisfied it still satisfies.
LEMMA ChainExtended ==
  ASSUME NEW l, IsSeq(l), ChainOK(l), NEW r, IsRec(r), r.seq = Len(l) + 1, r.prev = LastHash(l),
         NEW h, h.seq \in Nat, checkAnchor(l, h)
  PROVE  ChainOK(Append(l, r)) /\ checkAnchor(Append(l, r), h)
<1> DEFINE c == Append(l, r)
<1>1. Len(l) \in Nat /\ DOMAIN l = 1..Len(l)
  BY SeqFacts
<1>2. IsSeq(c) /\ Len(c) = Len(l) + 1 /\ (\A k \in 1..Len(l) : c[k] = l[k]) /\ c[Len(l) + 1] = r
  BY AppendFacts
<1> HIDE DEF c
<1>3. DOMAIN c = 1..(Len(l) + 1)
  BY <1>2, SeqFacts
<1>4. ASSUME NEW k \in 1..(Len(l) + 1) PROVE verifyRecord(c[k], k, Before(c, k))
  <2>1. CASE k \in 1..Len(l)
    <3>1. c[k] = l[k] /\ Before(c, k) = Before(l, k)
      BY <1>1, <1>2, <2>1 DEF Before
    <3>2. verifyRecord(l[k], k, Before(l, k))
      BY <1>1, <2>1 DEF ChainOK
    <3> QED
      BY <3>1, <3>2
  <2>2. CASE k = Len(l) + 1
    <3>1. c[k] = r /\ Before(c, k) = LastHash(l)
      BY <1>1, <1>2, <2>2 DEF Before, LastHash
    <3>2. r.hash = entryHash(r.seq, r.ts, r.prev, r.body)
      BY RecFields
    <3> QED
      BY <2>2, <3>1, <3>2 DEF verifyRecord
  <2> QED
    BY <1>1, <2>1, <2>2
<1>5. ChainOK(c)
  BY <1>3, <1>4 DEF ChainOK
<1>6. checkAnchor(c, h)
  BY <1>1, <1>2 DEF checkAnchor
<1> QED
  BY <1>5, <1>6 DEF c

\* What Open takes from the file.
LEMMA ReplayedEnd ==
  ASSUME NEW l, IsSeq(l)
  PROVE  Replayed(l).seq = Len(l) /\ Replayed(l).hash = LastHash(l)
<1>1. PICK S : l \in Seq(S)
  BY DEF IsSeq
<1>2. l = <<>> <=> Len(l) = 0
  BY <1>1
<1> QED
  BY <1>2 DEF Replayed, LastHash, Last

\* A record chained on the end of the file keeps it verifiable.
LEMMA WriteWhole ==
  ASSUME AppendInv, WholeInv, op # <<>>, op[1] = "write", log' = Append(log, op[2]), head' = head
  PROVE  /\ ChainOK(log') /\ checkAnchor(log', head')
         /\ op[2].seq = Len(log') /\ log'[Len(log')] = op[2]
<1>t. IsSeq(log) /\ Len(log) \in Nat /\ head.seq \in Nat
  BY SeqFacts, AuditLogAssumption DEF AppendInv, IsFile
<1>1. IsRec(op[2]) /\ op[2].seq = Len(log) + 1 /\ op[2].prev = LastHash(log)
  BY DEF AppendInv, WholeInv
<1>2. ChainOK(log') /\ checkAnchor(log', head)
  BY <1>t, <1>1, ChainExtended DEF WholeInv
<1>3. Len(log') = Len(log) + 1 /\ log'[Len(log) + 1] = op[2]
  BY <1>t, AppendFacts
<1> QED
  BY <1>1, <1>2, <1>3

\* A verification that fails on a log which nobody had open, without a torn line,
\* would have read files that verify.
LEMMA StepVerdict ==
  ASSUME AppendInv, VerdictInv, tail # "torn" => WholeInv, [Next]_vars, ~damaged'
  PROVE  VerdictInv'
<1>1. CASE Open
  <2>1. UNCHANGED <<verdict, snapshot>> /\ (undisturbed' => undisturbed /\ verdict # "reading")
    BY <1>1 DEF Open
  <2> QED
    BY <2>1 DEF VerdictInv
<1>2. CASE WriteLine \/ WriteHead \/ Close \/ Crash
  <2>1. up
    BY <1>2 DEF WriteLine, WriteHead, Close, Crash, AppendInv
  <2>2. UNCHANGED <<verdict, snapshot, undisturbed>>
    BY <1>2 DEF WriteLine, WriteHead, Close, Crash, auditor
  <2> QED
    BY <2>1, <2>2 DEF VerdictInv
<1>3. ASSUME NEW j \in Jobs, Record(j) \/ AppendEvent(j) PROVE VerdictInv'
  <2>1. UNCHANGED <<log, tail, up, verdict, snapshot, undisturbed>>
    BY <1>3 DEF Record, AppendEvent, files, auditor
  <2> QED
    BY <2>1 DEF VerdictInv
<1>4. ASSUME NEW n \in 1..Len(log), LoseTail(n) PROVE VerdictInv'
  BY <1>4 DEF LoseTail
<1>5. CASE VerifyRead
  <2>1. UNCHANGED <<log, tail, up>>
    BY <1>5 DEF VerifyRead, files, memory
  <2>2. verdict' = "reading" /\ snapshot' = [lines |-> log, tail |-> tail] /\ undisturbed' = ~up
    BY <1>5 DEF VerifyRead
  <2>3. snapshot'.lines = log /\ snapshot'.tail = tail /\ verdict' # "failed"
    BY <2>2
  <2> QED
    BY <2>1, <2>2, <2>3 DEF VerdictInv
<1>6. CASE VerifyAnchor
  <2>1. UNCHANGED <<snapshot, undisturbed>> /\ verdict = "reading" /\ verdict' # "reading"
    BY <1>6 DEF VerifyAnchor
  <2>2. ASSUME undisturbed, snapshot.tail # "torn" PROVE verdict' = "ok"
    <3>1. snapshot.lines = log /\ tail # "torn"
      BY <2>1, <2>2 DEF VerdictInv
    <3>2. ChainOK(snapshot.lines) /\ checkAnchor(snapshot.lines, head)
      BY <3>1 DEF WholeInv
    <3> QED
      BY <1>6, <2>2, <3>2 DEF VerifyAnchor, readRecords
  <2> QED
    BY <2>1, <2>2 DEF VerdictInv
<1>7. CASE UNCHANGED vars
  <2>1. UNCHANGED <<log, tail, up, snapshot, verdict, undisturbed>>
    BY <1>7 DEF vars, files, memory, auditor
  <2> QED
    BY <2>1 DEF VerdictInv
<1> QED
  BY <1>1, <1>2, <1>3, <1>4, <1>5, <1>6, <1>7 DEF Next

\* Every step that leaves no torn line leaves files that verify, while no write
\* fails and nothing is lost, whatever crashes and restarts happen in between.
LEMMA StepWhole ==
  ASSUME AppendInv, tail # "torn" => WholeInv, [Next]_vars,
         faults' = faults, faults' = 0, ~damaged', tail' # "torn"
  PROVE  WholeInv'
<1>t. IsSeq(log) /\ Len(log) \in Nat /\ DOMAIN log = 1..Len(log)
  BY SeqFacts DEF AppendInv, IsFile
<1>1. CASE Open
  <2>1. log' = log /\ tail' = tail /\ head' = head /\ op' = op /\ op = <<>>
    BY <1>1 DEF Open, files, AppendInv
  <2>2. seq' = Len(log) /\ prev' = LastHash(log)
    BY <1>1, <1>t, ReplayedEnd DEF Open
  <2> QED
    BY <2>1, <2>2 DEF WholeInv
<1>2. CASE WriteLine
  <2>1. op # <<>> /\ op[1] = "write" /\ head' = head
    BY <1>2 DEF WriteLine
  <2>2. Written(op[2]) /\ op' = <<"anchor", op[2]>>
    BY <1>2 DEF WriteLine, Fail
  <2>3. tail = "whole" /\ log' = Append(log, op[2])
    BY <2>2 DEF Written
  <2>4. op' # <<>> /\ op'[1] = "anchor" /\ op'[2] = op[2]
    BY <2>2
  <2> QED
    BY <2>1, <2>3, <2>4, WriteWhole DEF WholeInv
<1>3. CASE WriteHead
  <2>1. op # <<>> /\ op[1] = "anchor" /\ log' = log /\ tail' = tail
    BY <1>3 DEF WriteHead
  <2>2. op[2].seq = Len(log) /\ log[Len(log)] = op[2] /\ ChainOK(log)
    BY <2>1 DEF WholeInv
  <2>3. /\ op' = <<>> /\ seq' = op[2].seq /\ prev' = op[2].hash
        /\ head' = [seq |-> op[2].seq, hash |-> op[2].hash]
    BY <1>3 DEF WriteHead, Fail
  <2>4. op[2].seq = seq + 1 /\ seq \in Nat
    BY <2>1, AuditLogAssumption DEF AppendInv
  <2>5. seq' = Len(log) /\ prev' = LastHash(log)
    BY <2>2, <2>3, <2>4 DEF LastHash
  <2>6. checkAnchor(log, head')
    BY <1>t, <2>2, <2>3 DEF checkAnchor
  <2> QED
    BY <2>1, <2>2, <2>3, <2>5, <2>6 DEF WholeInv
<1>4. CASE Close \/ Crash
  <2>1. ~up' /\ op' = <<>> /\ head' = head
    BY <1>4 DEF Close, Crash, Ends, files
  <2>2. CASE UNCHANGED <<log, tail>>
    BY <2>1, <2>2 DEF WholeInv
  <2>3. CASE op # <<>> /\ op[1] = "write" /\ tail = "whole" /\ log' = Append(log, op[2])
    BY <2>1, <2>3, WriteWhole DEF WholeInv
  <2>4. \/ UNCHANGED <<log, tail>>
        \/ op # <<>> /\ op[1] = "write" /\ tail = "whole" /\ log' = Append(log, op[2])
    BY <1>4 DEF Close, Crash, files, PartWritten
  <2> QED
    BY <2>2, <2>3, <2>4
<1>5. ASSUME NEW j \in Jobs, Record(j) \/ AppendEvent(j) PROVE WholeInv'
  <2>1. up /\ op = <<>> /\ UNCHANGED <<log, tail, head, up, seq, prev>>
    BY <1>5 DEF Record, AppendEvent, files
  <2>2. op' = <<>> \/ op'[1] = "write"
    BY <1>5, <2>1 DEF Record, AppendEvent, Begin
  <2> QED
    BY <2>1, <2>2 DEF WholeInv
<1>6. ASSUME NEW n \in 1..Len(log), LoseTail(n) PROVE WholeInv'
  BY <1>6 DEF LoseTail
<1>7. CASE VerifyRead \/ VerifyAnchor \/ UNCHANGED vars
  <2>1. UNCHANGED <<log, tail, head, up, seq, prev, op>>
    BY <1>7 DEF VerifyRead, VerifyAnchor, vars, files, memory
  <2> QED
    BY <2>1 DEF WholeInv
<1> QED
  BY <1>1, <1>2, <1>3, <1>4, <1>5, <1>6, <1>7 DEF Next

\* Both together.
LEMMA StepIntact == AppendInv /\ IntactInv /\ [Next]_vars => IntactInv'
<1> SUFFICES ASSUME AppendInv, IntactInv, [Next]_vars, faults' = 0, ~damaged'
             PROVE  VerdictInv' /\ (tail' # "torn" => WholeInv')
  BY DEF IntactInv
<1>1. faults = 0 /\ faults' = faults /\ ~damaged
  BY Monotone
<1>2. VerdictInv /\ (tail # "torn" => WholeInv)
  BY <1>1 DEF IntactInv
<1>3. VerdictInv'
  BY <1>2, StepVerdict
<1>4. tail' # "torn" => WholeInv'
  BY <1>1, <1>2, StepWhole
<1> QED
  BY <1>3, <1>4

\* The empty files verify.
LEMMA InitIntact == Init => IntactInv
<1> SUFFICES ASSUME Init PROVE IntactInv
  OBVIOUS
<1>1. ChainOK(log) /\ checkAnchor(log, head) /\ Len(log) = 0
  BY DEF Init, ChainOK, checkAnchor, NoHead
<1>2. ~up /\ op = <<>> /\ verdict = "none"
  BY DEF Init
<1> QED
  BY <1>1, <1>2 DEF IntactInv, WholeInv, VerdictInv

\* "Lagging by one after a crash is the safe direction and checkAnchor tolerates
\* it": a crash at rest or between the two file operations, however often, never
\* makes a verification of the closed log fail.  Only a line torn in its write
\* does, without a write error.
THEOREM LaggingRaisesNoAlarm == Spec => []LaggingIsNoLoss
<1>1. IntactInv => LaggingIsNoLoss
  BY DEF IntactInv, VerdictInv, LaggingIsNoLoss, FailureMeansLoss
<1> QED
  BY <1>1, InitAppend, InitIntact, StepAppend, StepIntact, PTL DEF Spec

-----------------------------------------------------------------------------
(* A passed verification                                                    *)

\* A record chained on a hash that covers A covers A and itself.
LEMMA CoversExtended ==
  ASSUME NEW n \in Nat, NEW h, NEW A, Covers(n, h, A),
         NEW r, IsRec(r), r.seq = n + 1, r.prev = h
  PROVE  Covers(n + 1, r.hash, A \cup {r})
<1> SUFFICES ASSUME NEW l, Chain(l), n + 1 <= Len(l), n + 1 > 0 => l[n + 1].hash = r.hash,
                    NEW q \in A \cup {r}
             PROVE  \E k \in DOMAIN l : l[k] = q
  BY DEF Covers
<1>1. Len(l) \in Nat /\ DOMAIN l = 1..Len(l)
  BY SeqFacts DEF Chain
<1>2. n + 1 \in DOMAIN l /\ l[n + 1].hash = r.hash
  BY <1>1
<1>3. l[n + 1] = r
  BY <1>2, SameHash DEF Chain
<1>4. CASE q = r
  BY <1>2, <1>3, <1>4
<1>5. CASE q \in A
  <2>1. n > 0 => l[n].hash = h
    <3>1. l[n + 1].prev = Before(l, n + 1)
      BY <1>2 DEF Chain, ChainOK, verifyRecord
    <3>2. n > 0 => Before(l, n + 1) = l[n].hash
      BY DEF Before
    <3> QED
      BY <1>3, <3>1, <3>2
  <2>2. n <= Len(l)
    BY <1>1
  <2> QED
    BY <1>5, <2>1, <2>2 DEF Covers
<1> QED
  BY <1>4, <1>5

\* The end of a chain covers what a line of it covers.
LEMMA CoversEnd ==
  ASSUME NEW l, Chain(l), NEW h, h.seq \in Nat, NEW A, Covers(h.seq, h.hash, A),
         checkAnchor(l, h)
  PROVE  Covers(Len(l), LastHash(l), A)
<1> SUFFICES ASSUME NEW c, Chain(c), Len(l) <= Len(c), Len(l) > 0 => c[Len(l)].hash = LastHash(l),
                    NEW r \in A
             PROVE  \E k \in DOMAIN c : c[k] = r
  BY DEF Covers
<1>1. Len(l) \in Nat /\ Len(c) \in Nat
  BY SeqFacts DEF Chain
<1>2. h.seq > 0 => h.seq \in 1..Len(l) /\ l[h.seq].hash = h.hash
  BY <1>1 DEF checkAnchor
<1>3. h.seq > 0 => c[h.seq].hash = h.hash
  <2> SUFFICES ASSUME h.seq > 0 PROVE c[h.seq].hash = h.hash
    OBVIOUS
  <2>1. Len(l) \in 1..Len(l) /\ h.seq \in 1..Len(l)
    BY <1>1, <1>2
  <2>2. l[Len(l)].hash = c[Len(l)].hash
    BY <1>1, <2>1 DEF LastHash
  <2>3. l[h.seq] = c[h.seq]
    BY <2>1, <2>2, ChainPrefix
  <2> QED
    BY <1>2, <2>3
<1>4. h.seq <= Len(c)
  BY <1>1, <1>2
<1> QED
  BY <1>3, <1>4 DEF Covers

\* Every step keeps the anchor, and the memory of the running process, covering
\* all records ever anchored, whatever the file has lost meanwhile.
LEMMA StepAnchor == AppendInv /\ AnchorInv /\ [Next]_vars => AnchorInv'
<1> SUFFICES ASSUME AppendInv, AnchorInv, [Next]_vars PROVE AnchorInv'
  OBVIOUS
<1>t. IsFile(log) /\ IsSeq(log) /\ head.seq \in Nat /\ seq \in Nat
  BY AuditLogAssumption DEF AppendInv, IsFile
<1>h. Covers(head.seq, head.hash, anchored)
  BY DEF AnchorInv
<1>m. up => Covers(seq, prev, anchored)
  BY DEF AnchorInv
<1>p. (verdict = "reading" => expect \subseteq anchored) /\ PassMeansIntact
  BY DEF AnchorInv
<1>1. CASE Open
  <2>1. UNCHANGED <<head, anchored, verdict, snapshot, expect>>
    BY <1>1 DEF Open, files
  <2>2. Chain(log)
    BY <1>1, <1>t DEF Open, Chain, IsFile
  <2>3. Covers(Len(log), LastHash(log), anchored)
    BY <1>1, <1>t, <1>h, <2>2, CoversEnd DEF Open
  <2>4. seq' = Len(log) /\ prev' = LastHash(log)
    BY <1>1, <1>t, ReplayedEnd DEF Open
  <2>5. Covers(seq', prev', anchored')
    BY <2>1, <2>3, <2>4
  <2> QED
    BY <1>h, <1>p, <2>1, <2>5 DEF AnchorInv, PassMeansIntact, Covers
<1>2. CASE WriteHead
  <2>1. op # <<>> /\ up /\ IsRec(op[2]) /\ op[2].seq = seq + 1 /\ op[2].prev = prev
    BY <1>2 DEF WriteHead, AppendInv
  <2>2. UNCHANGED <<up, verdict, snapshot, expect>>
    BY <1>2 DEF WriteHead, auditor
  <2>3. CASE Fail("head") /\ UNCHANGED <<head, anchored, seq, prev, seen, recorded>>
    BY <1>h, <1>m, <1>p, <2>2, <2>3 DEF AnchorInv, PassMeansIntact, Covers
  <2>4. CASE /\ head' = [seq |-> op[2].seq, hash |-> op[2].hash]
             /\ anchored' = anchored \cup {op[2]}
             /\ seq' = op[2].seq /\ prev' = op[2].hash
    <3>1. Covers(seq + 1, op[2].hash, anchored \cup {op[2]})
      BY <1>t, <1>m, <2>1, CoversExtended
    <3>2. Covers(seq', prev', anchored') /\ Covers(head'.seq, head'.hash, anchored')
      BY <2>1, <2>4, <3>1
    <3>3. verdict' = "reading" => expect' \subseteq anchored'
      BY <1>p, <2>2, <2>4
    <3>4. PassMeansIntact'
      BY <1>p, <2>2 DEF PassMeansIntact
    <3> QED
      BY <3>2, <3>3, <3>4 DEF AnchorInv, Covers
  <2> QED
    BY <1>2, <2>3, <2>4 DEF WriteHead
<1>3. CASE Close \/ Crash
  <2>1. ~up' /\ UNCHANGED <<head, anchored, verdict, snapshot, expect>>
    BY <1>3 DEF Close, Crash, Ends, files, auditor
  <2> QED
    BY <1>h, <1>p, <2>1 DEF AnchorInv, PassMeansIntact, Covers
<1>4. CASE VerifyRead
  <2>1. UNCHANGED <<head, anchored, up, seq, prev>>
    BY <1>4 DEF VerifyRead, files, memory
  <2>2. verdict' = "reading" /\ expect' = anchored
    BY <1>4 DEF VerifyRead
  <2> QED
    BY <1>h, <1>m, <2>1, <2>2 DEF AnchorInv, PassMeansIntact, Covers
<1>5. CASE VerifyAnchor
  <2>1. UNCHANGED <<head, anchored, up, seq, prev, snapshot, expect>> /\ verdict = "reading"
    BY <1>5 DEF VerifyAnchor, files, memory
  <2>2. verdict' = "ok" => ChainOK(snapshot.lines) /\ checkAnchor(snapshot.lines, head)
    BY <1>5 DEF VerifyAnchor
  <2>3. ASSUME verdict' = "ok", NEW r \in expect
        PROVE  \E k \in DOMAIN snapshot.lines : snapshot.lines[k] = r
    <3>1. Chain(snapshot.lines)
      BY <2>2, <2>3 DEF AppendInv, Chain, IsFile
    <3>2. Len(snapshot.lines) \in Nat
      BY <3>1, SeqFacts DEF Chain
    <3>3. head.seq <= Len(snapshot.lines) /\ (head.seq > 0 => snapshot.lines[head.seq].hash = head.hash)
      BY <1>t, <2>2, <2>3, <3>2 DEF checkAnchor
    <3>4. r \in anchored
      BY <1>p, <2>1
    <3> QED
      BY <1>h, <3>1, <3>3, <3>4 DEF Covers
  <2>4. PassMeansIntact'
    BY <2>1, <2>3 DEF PassMeansIntact
  <2>5. verdict' # "reading"
    BY <1>5 DEF VerifyAnchor
  <2> QED
    BY <1>h, <1>m, <2>1, <2>4, <2>5 DEF AnchorInv, Covers
<1>6. CASE \/ WriteLine \/ UNCHANGED vars
           \/ \E j \in Jobs : Record(j) \/ AppendEvent(j)
           \/ \E n \in 1..Len(log) : LoseTail(n)
  <2>1. UNCHANGED <<head, anchored, up, seq, prev, verdict, snapshot, expect>>
    BY <1>6 DEF WriteLine, Record, AppendEvent, LoseTail, vars, files, memory, auditor
  <2> QED
    BY <1>h, <1>m, <1>p, <2>1 DEF AnchorInv, PassMeansIntact, Covers
<1> QED
  BY <1>1, <1>2, <1>3, <1>4, <1>5, <1>6 DEF Next

\* A passed verification proves that no anchored record is missing, for any
\* number of appends, crashes, failing writes and losses, with the log read
\* before the anchor while the service goes on appending.
THEOREM PassProvesIntact == Spec => []PassMeansIntact
<1>1. Init => AnchorInv
  BY DEF Init, AnchorInv, Covers, PassMeansIntact
<1>2. AnchorInv => PassMeansIntact
  BY DEF AnchorInv
<1> QED
  BY <1>1, <1>2, InitAppend, StepAppend, StepAnchor, PTL DEF Spec
=============================================================================
