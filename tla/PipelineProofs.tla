--------------------------- MODULE PipelineProofs ---------------------------
(***************************************************************************)
(* What ProcessJob promises of one job, for every job, configuration,       *)
(* address rule and number of frames: what it reads was downloaded whole,   *)
(* evidence stays with its frame, an allow covers the video, and nothing is *)
(* left on disk.                                                            *)
(***************************************************************************)
EXTENDS Pipeline, FiniteSetTheorems, SequenceTheorems, WellFoundedInduction,
        NaturalsInduction, TLAPS

-----------------------------------------------------------------------------
(* Nothing is left on disk.                                                 *)

Stages == {"resolve", "fetch", "frames", "workflows", "select", "scan", "emit", "done"}

\* The working directory is there between FramesBegin and the end of the scan of
\* a video that was taken apart, and at no other time.
DiskInv ==
    /\ job \in Jobs /\ conf \in Setups /\ pc \in Stages
    /\ pc \in {"resolve", "fetch", "frames", "emit", "done"} => ~workDir /\ disk = NoFiles
    /\ pc \in {"frames", "workflows", "select"} => ~TakenWhole
    /\ pc = "scan" /\ TakenWhole => ~workDir /\ disk = NoFiles

LEMMA DiskHolds == Spec => []DiskInv
<1>1. Init => DiskInv
  BY DEF Init, ExtractInit, DiskInv, Stages
<1>2. DiskInv /\ [Next]_vars => DiskInv'
  <2> SUFFICES ASSUME DiskInv, [Next]_vars PROVE DiskInv'
    OBVIOUS
  <2>0. job.media \in {"image", "video"}
    BY PipelineAssumption DEF DiskInv, JobOk
  <2> USE DEF Stages
  <2>1. CASE ResolveLocal \/ Fetched
    <3>1. /\ UNCHANGED <<job, conf, disk, workDir>> /\ pc \in {"resolve", "fetch"}
          /\ pc' \in {"emit", Analysis}
      BY <2>1 DEF ResolveLocal, Fetched, Resolved, extractVars
    <3>2. /\ Analysis \in {"emit", "frames", "scan"}
          /\ Analysis = "frames" => ~TakenWhole
          /\ Analysis = "scan" => TakenWhole
      BY <2>0 DEF Analysis, TakenWhole
    <3> QED BY <3>1, <3>2 DEF DiskInv, TakenWhole
  <2>2. CASE ResolveUrl
    BY <2>2 DEF ResolveUrl, extractVars, DiskInv
  <2>3. CASE Fetching
    BY <2>3 DEF Fetching, extractVars, DiskInv, TakenWhole
  <2>4. ASSUME NEW err, VideoFails(err) PROVE DiskInv'
    BY <2>4 DEF VideoFails, RemoveWorkDir, DiskInv
  <2>5. CASE FramesStart
    BY <2>5 DEF FramesStart, DiskInv, TakenWhole
  <2>6. CASE WorkflowRuns
    BY <2>6 DEF WorkflowRuns, DiskInv, TakenWhole
  <2>7. CASE FramesReturned
    BY <2>7 DEF FramesReturned, DiskInv, TakenWhole
  <2>8. CASE SelectFrames
    BY <2>8 DEF SelectFrames, DiskInv, TakenWhole
  <2>9. CASE FrameStarts \/ \E i \in 1..Len(fs) : FrameAnswered(i) \/ FrameFails(i)
    <3>1. UNCHANGED <<job, conf, pc, disk, workDir>>
      BY <2>9 DEF FrameStarts, FrameAnswered, FrameFails, extractVars
    <3> QED BY <3>1 DEF DiskInv, TakenWhole
  <2>10. CASE FramesDone
    BY <2>10 DEF FramesDone, RemoveWorkDir, DiskInv
  <2>11. CASE DirectAnswered \/ DirectFails
    <3>1. UNCHANGED <<job, conf, disk, workDir>> /\ pc' = "emit" /\ Direct
      BY <2>11 DEF DirectAnswered, DirectFails, extractVars
    <3> QED BY <3>1 DEF DiskInv, Direct
  <2>12. ASSUME NEW env, NEW disp, Returns(env, disp), pc = "emit" \/ Direct PROVE DiskInv'
    <3>1. UNCHANGED <<job, conf, disk, workDir>> /\ pc' = "done"
      BY <2>12 DEF Returns, extractVars
    <3> QED BY <3>1, <2>12 DEF DiskInv, Direct
  <2>13. CASE Skips \/ SinkFails \/ AuditFails \/ Recorded \/ Panics
    BY <2>12, <2>13 DEF Skips, SinkFails, AuditFails, Recorded, Panics
  <2>14. CASE Expire \/ UNCHANGED vars
    BY <2>14 DEF Expire, vars, extractVars, DiskInv, TakenWhole
  <2> QED
    BY <2>1, <2>2, <2>3, <2>4, <2>5, <2>6, <2>7, <2>8, <2>9, <2>10, <2>11, <2>13, <2>14
       DEF Next, Work, FramesFail, WorkflowFails, NoFrames
<1> QED BY <1>1, <1>2, PTL DEF Spec

-----------------------------------------------------------------------------
(* A download is whole, or gone.                                            *)

\* The closure that removes the download has not fired while the job runs; there
\* is a file only while a body is read and after a download that succeeded, from
\* an address the host may have.
FetchInv ==
    /\ fetchPc \in {"idle", "get", "body", "backoff", "done"}
    /\ file.bytes \in 0..(MaxBytes + 1) /\ file.state \in {"absent", "partial", "broken", "copied"}
    /\ origin \in Addresses \cup {"none"}
    /\ pc # "done" => spent = FALSE
    /\ pc = "resolve" => fetchDir = FALSE
    /\ pc = "done" => file = NoFile /\ fetchDir = FALSE
    /\ fetchPc \in {"idle", "get", "backoff"} => file = NoFile
    /\ fetchPc = "body" \/ (fetchPc = "done" /\ fetchErr = NoError) =>
            origin \notin Denied(job.url.host)
    /\ fetchPc = "done" /\ fetchErr = NoError /\ pc # "done" =>
            file.state = "copied" /\ file.bytes <= MaxBytes
    /\ fetchPc = "done" /\ fetchErr # NoError => file = NoFile
    /\ pc \in {"frames", "workflows", "select", "scan"} /\ job.kind = "url" =>
            fetchPc = "done" /\ fetchErr = NoError

\* An attempt that fails removes its file, and is no success.
LEMMA AttemptFailsLeaves ==
    ASSUME spent = FALSE, NEW e, e # NoError, AttemptFails(e)
    PROVE  /\ file' = NoFile /\ spent' = FALSE /\ attempt' = attempt
           /\ fetchPc' \in {"done", "backoff"}
           /\ fetchPc' = "done" => fetchErr' # NoError
           /\ fetchPc' = "backoff" => attempt < MaxFetches
<1>1. file' = NoFile /\ spent' = FALSE /\ attempt' = attempt
  BY DEF AttemptFails, Discard, Cleanup
<1>2. ContextEnded # NoError
  BY DEF ContextEnded, NoError
<1>3. \/ fetchPc' = "done" /\ fetchErr' = e
      \/ fetchPc' = "done" /\ fetchErr' = ContextEnded
      \/ fetchPc' = "backoff" /\ AttemptsLeft
  BY DEF AttemptFails, FetchReturns
<1> QED BY <1>1, <1>2, <1>3 DEF AttemptsLeft

\* Every way a GET or a body fails is an error.
LEMMA FailuresAreErrors ==
    ASSUME NEW u, GetFails(u) \/ BodyRefused
    PROVE  /\ \E e : e # NoError /\ AttemptFails(e)
           /\ fetchPc \in {"get", "body"} /\ UNCHANGED <<expired, origin>>
<1>1. CASE GetFails(u)
  <2>1. PICK c, w : /\ c # "none"
                    /\ AttemptFails(Terminal(c, w)) \/ AttemptFails(Again(c, w))
    BY <1>1, Zenon DEF GetFails
  <2>2. Terminal(c, w) # NoError /\ Again(c, w) # NoError
    BY <2>1 DEF Terminal, Again, NoError
  <2> QED BY <1>1, <2>1, <2>2 DEF GetFails
<1>2. CASE BodyRefused
  <2>1. PICK c, w : /\ c # "none"
                    /\ AttemptFails(Terminal(c, w)) \/ AttemptFails(Again(c, w))
    BY <1>2, Zenon DEF BodyRefused
  <2>2. Terminal(c, w) # NoError /\ Again(c, w) # NoError
    BY <2>1 DEF Terminal, Again, NoError
  <2> QED BY <1>2, <2>1, <2>2 DEF BodyRefused
<1> QED BY <1>1, <1>2

\* The steps of the download keep it.
LEMMA FetchingKeeps ==
    ASSUME FetchInv, Fetching
    PROVE  FetchInv'
<1> USE DEF FetchInv
<1>0. /\ pc = "fetch" /\ spent = FALSE /\ FetchStep(job.url)
      /\ UNCHANGED <<job, pc, fetchDir>> /\ MaxBytes \in Nat \ {0}
  BY FetchAssumption DEF Fetching
<1>1. CASE BeginFetch(job.url)
  <2>1. Terminal("rejected_url", {"rejected_url"}) # NoError
    BY DEF Terminal, NoError
  <2> HIDE DEF FetchInv
  <2>2. /\ UNCHANGED <<file, spent, origin>> /\ fetchPc = "idle"
        /\ \/ fetchPc' = "get"
           \/ fetchPc' = "done" /\ fetchErr' # NoError
    BY <1>1, <2>1 DEF BeginFetch, FetchReturns
  <2> QED BY <1>0, <2>2 DEF FetchInv
<1>2. CASE GetFails(job.url) \/ BodyRefused
  <2>1. /\ file' = NoFile /\ spent' = FALSE /\ fetchPc' \in {"done", "backoff"}
        /\ fetchPc' = "done" => fetchErr' # NoError
        /\ UNCHANGED origin
    BY <1>0, <1>2, FailuresAreErrors, AttemptFailsLeaves
  <2> QED BY <1>0, <2>1 DEF NoFile
<1>3. CASE GetAnswered(job.url)
  BY <1>0, <1>3 DEF GetAnswered
<1>4. CASE BodyArrives
  BY <1>0, <1>4 DEF BodyArrives
<1>5. CASE BodyTaken
  BY <1>0, <1>5 DEF BodyTaken, TooLarge, FetchReturns
<1>6. CASE BackoffOver
  <2>1. ContextEnded # NoError
    BY DEF ContextEnded, NoError
  <2> HIDE DEF FetchInv
  <2>2. /\ UNCHANGED <<file, spent, origin>> /\ fetchPc = "backoff"
        /\ \/ fetchPc' = "get"
           \/ fetchPc' = "done" /\ fetchErr' # NoError
    BY <1>6, <2>1 DEF BackoffOver, FetchReturns
  <2> QED BY <1>0, <2>2 DEF FetchInv
<1> QED BY <1>0, <1>1, <1>2, <1>3, <1>4, <1>5, <1>6 DEF FetchStep

\* A step after the source is resolved leaves the download alone.
LEMMA DownloadUntouched ==
    ASSUME FetchInv, UNCHANGED <<fetchVars, job, fetchDir>>,
           pc # "done" /\ pc' # "done" /\ pc' # "resolve",
           pc' \in {"frames", "workflows", "select", "scan"} /\ job.kind = "url" =>
               fetchPc = "done" /\ fetchErr = NoError
    PROVE  FetchInv'
BY DEF FetchInv, fetchVars

LEMMA FetchHolds == Spec => []FetchInv
<1>1. Init => FetchInv
  BY FetchAssumption DEF Init, FetchInit, FetchInv, NoFile
<1>2. DiskInv /\ FetchInv /\ [Next]_vars => FetchInv'
  <2> SUFFICES ASSUME DiskInv, FetchInv, [Next]_vars PROVE FetchInv'
    OBVIOUS
  <2>1. CASE ResolveLocal
    <3>1. /\ UNCHANGED <<fetchVars, job, fetchDir>> /\ pc = "resolve"
          /\ pc' \in {"emit", Analysis}
          /\ job.kind = "url" => pc' = "emit"
      BY <2>1 DEF ResolveLocal, Resolved
    <3>2. Analysis \in {"emit", "frames", "scan"}
      BY DEF Analysis
    <3> QED BY <3>1, <3>2, DownloadUntouched
  <2>2. CASE Fetched
    <3>1. /\ UNCHANGED <<fetchVars, job, fetchDir>> /\ pc = "fetch" /\ fetchPc = "done"
          /\ pc' \in {"emit", Analysis}
          /\ fetchErr # NoError => pc' = "emit"
      BY <2>2 DEF Fetched, Resolved
    <3>2. Analysis \in {"emit", "frames", "scan"}
      BY DEF Analysis
    <3> QED BY <3>1, <3>2, DownloadUntouched
  <2>3. CASE ResolveUrl
    BY <2>3 DEF ResolveUrl, FetchInv, fetchVars
  <2>4. CASE Fetching
    BY <2>4, FetchingKeeps
  <2>5. ASSUME NEW err, VideoFails(err), pc # "done" PROVE FetchInv'
    BY <2>5, DownloadUntouched DEF VideoFails
  <2>6. CASE FramesStart \/ WorkflowRuns \/ FramesReturned \/ SelectFrames
    <3>1. /\ UNCHANGED <<fetchVars, job, fetchDir>>
          /\ pc \in {"frames", "workflows", "select"} /\ pc' \in {"workflows", "select", "scan"}
      BY <2>6 DEF FramesStart, WorkflowRuns, FramesReturned, SelectFrames
    <3> QED BY <3>1, DownloadUntouched DEF FetchInv
  <2>7. CASE \/ FrameStarts \/ FramesDone \/ DirectAnswered \/ DirectFails
             \/ \E i \in 1..Len(fs) : FrameAnswered(i) \/ FrameFails(i)
    <3>1. UNCHANGED <<fetchVars, job, fetchDir>> /\ pc = "scan" /\ pc' \in {"scan", "emit"}
      BY <2>7 DEF FrameStarts, FramesDone, DirectAnswered, DirectFails, Direct, FrameAnswered,
                  FrameFails
    <3> QED BY <3>1, DownloadUntouched DEF FetchInv
  <2>8. ASSUME NEW env, NEW disp, Returns(env, disp), pc # "done" PROVE FetchInv'
    <3>1. /\ file' = NoFile /\ fetchDir' = FALSE /\ pc' = "done"
          /\ UNCHANGED <<fetchPc, fetchErr, origin, job>>
      BY <2>8 DEF Returns, SourceCleanup, Cleanup, FetchInv
    <3> QED BY <3>1, FetchAssumption DEF FetchInv, NoFile
  <2>9. CASE Skips \/ SinkFails \/ AuditFails \/ Recorded \/ Panics
    BY <2>8, <2>9 DEF Skips, SinkFails, AuditFails, Recorded, Panics, Direct
  <2>10. CASE Expire \/ UNCHANGED vars
    BY <2>10 DEF Expire, vars, fetchVars, FetchInv
  <2> QED
    BY <2>1, <2>2, <2>3, <2>4, <2>5, <2>6, <2>7, <2>9, <2>10
       DEF Next, Work, FramesFail, WorkflowFails, NoFrames
<1> QED BY <1>1, <1>2, DiskHolds, PTL DEF Spec

\* resolveSource and Fetch: analysis reads only a download that is complete, within
\* max_bytes and from an address its host may resolve to, for every rule on
\* addresses and every number of attempts, and no other download outlives its
\* attempt.
THEOREM DownloadsWhole == Spec => []WholeOrGone
<1>1. FetchInv => WholeOrGone
  BY DEF FetchInv, WholeOrGone
<1> QED BY <1>1, FetchHolds, PTL

\* The extracted frames are gone before anything is emitted, and the download when
\* ProcessJob returns, on every exit path.
THEOREM DiskLeftClean == Spec => []NothingLeftOnDisk
<1>1. DiskInv /\ FetchInv => NothingLeftOnDisk
  BY DEF DiskInv, FetchInv, NothingLeftOnDisk
<1> QED BY <1>1, DiskHolds, FetchHolds, PTL

-----------------------------------------------------------------------------
(* Deduplication.                                                           *)

\* A nonempty set of numbers has a least element.
LEMMA LeastElement ==
    ASSUME NEW T \in SUBSET Nat, T # {}
    PROVE  \E m \in T : \A l \in T : m <= l
<1> DEFINE R == OpToRel(<, Nat)
<1>1. IsWellFoundedOn(R, Nat)
  BY NatLessThanWellFounded
<1> HIDE DEF R
<1>2. \A x, y \in Nat : x < y => <<x, y>> \in R
  BY DEF R, OpToRel
<1>3. PICK m \in T : \A y \in T : ~ (<<y, m>> \in R)
  BY <1>1, WFMin
<1>4. \A l \in T : m <= l
  <2> SUFFICES ASSUME NEW l \in T, ~ (m <= l) PROVE FALSE
    OBVIOUS
  <2>1. l < m /\ l \in Nat /\ m \in Nat
    OBVIOUS
  <2> QED BY <2>1, <1>2, <1>3
<1> QED BY <1>4

Before(d) == [kept |-> <<>>, hashes |-> {}, disk |-> d]

\* The passes over the frames, one after another.
LEMMA PassesFollow ==
    ASSUME NEW frames, Len(frames) \in Nat, NEW t, NEW d
    PROVE  /\ DedupPasses(frames, t, d)[0] = Before(d)
           /\ \A n \in 1..Len(frames) :
                DedupPasses(frames, t, d)[n] =
                    DedupFrame(DedupPasses(frames, t, d)[n - 1], frames[n], t)
<1> DEFINE N == Len(frames)
           Step(f, n) == IF n = 0 THEN Before(d) ELSE DedupFrame(f[n - 1], frames[n], t)
           Rec(f, m) == f = [n \in 0..m |-> Step(f, n)]
           T == {m \in 0..N : ~ \E f : Rec(f, m)}
<1>1. T = {}
  <2> SUFFICES ASSUME T # {} PROVE FALSE
    OBVIOUS
  <2>1. T \in SUBSET Nat
    OBVIOUS
  <2>2. PICK m \in T : \A l \in T : m <= l
    <3> HIDE DEF T
    <3> QED BY <2>1, LeastElement
  <2>3. m # 0
    <3> DEFINE g == [n \in 0..0 |-> Before(d)]
    <3>1. Rec(g, 0)
      OBVIOUS
    <3> QED BY <3>1
  <2>4. m \in Nat /\ m - 1 \in 0..N /\ ~ (m <= m - 1) /\ m \in 0..N
    BY <2>2, <2>3
  <2>5. m - 1 \notin T
    <3> HIDE DEF T
    <3> QED BY <2>2, <2>4
  <2>6. PICK f : Rec(f, m - 1)
    BY <2>4, <2>5
  <2> DEFINE g == [n \in 0..m |-> IF n = m THEN DedupFrame(f[m - 1], frames[m], t) ELSE f[n]]
  <2>7. ASSUME NEW n \in 0..m PROVE g[n] = Step(g, n)
    <3>1. CASE n = 0
      <4>1. 0 \in 0..(m - 1) /\ 0 # m
        BY <2>4, <2>3
      <4>2. f[0] = Before(d)
        BY <4>1, <2>6
      <4> QED BY <3>1, <4>1, <4>2
    <3>2. CASE n # 0
      <4>1. n - 1 \in 0..m /\ n - 1 # m
        BY <3>2, <2>4
      <4>2. g[n - 1] = f[n - 1]
        BY <4>1
      <4>3. CASE n = m
        <5>1. g[n] = DedupFrame(f[m - 1], frames[m], t)
          BY <4>3
        <5> HIDE DEF g
        <5> QED BY <5>1, <3>2, <4>2, <4>3
      <4>4. CASE n # m
        <5>1. n \in 0..(m - 1)
          BY <4>4, <2>4
        <5>2. g[n] = f[n]
          BY <4>4
        <5> HIDE DEF g
        <5>3. f[n] = DedupFrame(f[n - 1], frames[n], t)
          BY <5>1, <2>6, <3>2
        <5> QED BY <5>2, <5>3, <3>2, <4>2
      <4> QED BY <4>3, <4>4
    <3> QED BY <3>1, <3>2
  <2>8. Rec(g, m)
    <3>1. g = [n \in 0..m |-> g[n]]
      OBVIOUS
    <3> HIDE DEF g, Step
    <3> QED BY <3>1, <2>7
  <2> HIDE DEF Rec, g
  <2> QED BY <2>2, <2>8
<1>2. \E f : Rec(f, N)
  <2> HIDE DEF Rec
  <2>1. N \in 0..N
    OBVIOUS
  <2> QED BY <1>1, <2>1
<1>3. DedupPasses(frames, t, d) = CHOOSE f : Rec(f, N)
  BY DEF DedupPasses, Before
<1>4. PICK f : f = DedupPasses(frames, t, d)
  OBVIOUS
<1>5. Rec(f, N)
  <2> HIDE DEF Rec
  <2> QED BY <1>2, <1>3, <1>4
<1>6. f[0] = Before(d)
  <2>1. 0 \in 0..N
    OBVIOUS
  <2> QED BY <1>5, <2>1
<1>7. ASSUME NEW n \in 1..N PROVE f[n] = DedupFrame(f[n - 1], frames[n], t)
  <2>1. n \in 0..N /\ n # 0
    OBVIOUS
  <2> QED BY <1>5, <2>1
<1> QED BY <1>4, <1>6, <1>7

Paths == {sanitizeDirName(w) : w \in Workflows} \X (Nat \ {0})
FrameType == [path : Paths, ts : Int]

\* The files of a working directory.
Files(d) == DOMAIN d \subseteq Paths /\ IsFiniteSet(DOMAIN d) /\ d \in [DOMAIN d -> Pictures]

PathsDistinct(frames) ==
    \A i, j \in 1..Len(frames) : frames[i].path = frames[j].path => i = j

\* What is kept are some of the first n frames, and files are only removed.
Shape(s, frames, n, d) ==
    /\ DOMAIN s = {"kept", "hashes", "disk"}
    /\ s.kept \in Seq(FrameType)
    /\ \A i \in 1..Len(s.kept) : \E m \in 1..n : s.kept[i] = frames[m]
    /\ DOMAIN s.disk \subseteq DOMAIN d /\ s.disk = [p \in DOMAIN s.disk |-> d[p]]

\* A picture close to one that is kept and on disk.
Near(s, x, d, t) ==
    \E i \in 1..Len(s.kept) : s.kept[i].path \in DOMAIN s.disk /\ Distance(x, d[s.kept[i].path]) <= t

\* The files of the frames to come are there, every hash is that of a kept frame
\* on disk, and every one of the first n frames is near such a one.
Covers(s, frames, n, d, t) ==
    /\ \A m \in (n + 1)..Len(frames) :
            frames[m].path \in DOMAIN d => frames[m].path \in DOMAIN s.disk
    /\ \A h \in s.hashes : \E i \in 1..Len(s.kept) :
            s.kept[i].path \in DOMAIN s.disk /\ d[s.kept[i].path] = h
    /\ \A m \in 1..n : frames[m].path \in DOMAIN d => Near(s, d[frames[m].path], d, t)

\* Distances of pictures are numbers, the same both ways, none to itself.
LEMMA Distances ==
    ASSUME NEW a \in Pictures, NEW b \in Pictures
    PROVE  /\ Distance(a, b) \in Nat /\ Distance(a, b) = Distance(b, a) /\ Distance(a, a) = 0
<1>1. a \in Nat /\ b \in Nat
  BY PipelineAssumption
<1> QED BY <1>1 DEF Distance

\* One frame more.
LEMMA OneMoreFrame ==
    ASSUME NEW frames \in Seq(FrameType), NEW n \in Nat, n < Len(frames),
           NEW d, Files(d), NEW t \in Nat, NEW s,
           Shape(s, frames, n, d),
           PathsDistinct(frames) => Covers(s, frames, n, d, t)
    PROVE  LET r == DedupFrame(s, frames[n + 1], t) IN
           /\ Shape(r, frames, n + 1, d)
           /\ PathsDistinct(frames) => Covers(r, frames, n + 1, d, t)
<1> DEFINE f == frames[n + 1]
           r == DedupFrame(s, f, t)
           hashable == f.path \in DOMAIN s.disk /\ s.disk[f.path] \notin Undecodable
           near == hashable /\ \E h \in s.hashes : Distance(h, s.disk[f.path]) <= t
<1>1. /\ f \in FrameType /\ n + 1 \in 1..Len(frames) /\ Len(frames) \in Nat
      /\ \A m \in 1..n : m \in 1..(n + 1) /\ m \in 1..Len(frames) /\ m # n + 1
      /\ \A m \in 1..(n + 1) : m \in 1..n \/ m = n + 1
      /\ n + 1 \in 1..(n + 1)
      /\ \A m \in (n + 2)..Len(frames) : m \in (n + 1)..Len(frames) /\ m \in 1..Len(frames)
  OBVIOUS
<1>2. /\ s.kept \in Seq(FrameType) /\ Len(s.kept) \in Nat
      /\ \A i \in 1..Len(s.kept) : \E m \in 1..n : s.kept[i] = frames[m]
      /\ DOMAIN s.disk \subseteq DOMAIN d /\ s.disk = [p \in DOMAIN s.disk |-> d[p]]
      /\ DOMAIN s = {"kept", "hashes", "disk"}
      /\ \A p \in DOMAIN d : d[p] \in Pictures
  BY DEF Shape, Files
<1> HIDE DEF f
<1>3. CASE near
  <2> DEFINE e == Without(s.disk, {f.path})
  <2>1. r = [s EXCEPT !.disk = e]
    BY <1>3 DEF DedupFrame
  <2> HIDE DEF near
  <2>2. /\ DOMAIN e = DOMAIN s.disk \ {f.path} /\ e = [p \in DOMAIN e |-> d[p]]
    BY <1>2 DEF Without
  <2> HIDE DEF e, r
  <2>3. r.kept = s.kept /\ r.hashes = s.hashes /\ r.disk = e
        /\ DOMAIN r = {"kept", "hashes", "disk"}
    BY <2>1, <1>2
  <2>4. Shape(r, frames, n + 1, d)
    BY <2>2, <2>3, <1>1, <1>2 DEF Shape
  <2>5. ASSUME PathsDistinct(frames) PROVE Covers(r, frames, n + 1, d, t)
    <3>1. Covers(s, frames, n, d, t)
      BY <2>5
    <3>2. ASSUME NEW i \in 1..Len(s.kept), s.kept[i].path \in DOMAIN s.disk
          PROVE  s.kept[i].path \in DOMAIN e
      <4>1. PICK m \in 1..n : s.kept[i] = frames[m]
        BY <1>2
      <4>2. frames[m].path # f.path
        BY <4>1, <1>1, <2>5 DEF PathsDistinct, f
      <4> QED BY <4>1, <4>2, <3>2, <2>2
    <3>3. ASSUME NEW m \in (n + 2)..Len(frames), frames[m].path \in DOMAIN d
          PROVE  frames[m].path \in DOMAIN e
      <4>1. m \in 1..Len(frames) /\ m # n + 1 /\ m \in (n + 1)..Len(frames)
        BY <1>1
      <4>2. frames[m].path # f.path
        BY <4>1, <1>1, <2>5 DEF PathsDistinct, f
      <4>3. frames[m].path \in DOMAIN s.disk
        BY <4>1, <3>1, <3>3 DEF Covers
      <4> QED BY <4>2, <4>3, <2>2
    <3>4. \A h \in r.hashes : \E i \in 1..Len(r.kept) :
            r.kept[i].path \in DOMAIN r.disk /\ d[r.kept[i].path] = h
      BY <3>1, <3>2, <2>3 DEF Covers
    <3>5. ASSUME NEW x, Near(s, x, d, t) PROVE Near(r, x, d, t)
      BY <3>5, <3>2, <2>3 DEF Near
    <3>6. ASSUME f.path \in DOMAIN d PROVE Near(r, d[f.path], d, t)
      <4>1. PICK h \in s.hashes : Distance(h, s.disk[f.path]) <= t
        BY <1>3 DEF near
      <4>2. f.path \in DOMAIN s.disk /\ s.disk[f.path] = d[f.path]
        BY <1>3, <1>2 DEF near
      <4>3. PICK i \in 1..Len(s.kept) : s.kept[i].path \in DOMAIN s.disk /\ d[s.kept[i].path] = h
        BY <3>1 DEF Covers
      <4>4. Distance(h, d[f.path]) = Distance(d[f.path], h)
        BY <4>2, <4>3, <1>2, Distances
      <4>5. Near(s, d[f.path], d, t)
        BY <4>1, <4>2, <4>3, <4>4 DEF Near
      <4> QED BY <4>5, <3>5
    <3>7. ASSUME NEW m \in 1..(n + 1), frames[m].path \in DOMAIN d
          PROVE  Near(r, d[frames[m].path], d, t)
      <4>1. CASE m \in 1..n
        BY <4>1, <3>1, <3>5, <3>7 DEF Covers
      <4>2. CASE m = n + 1
        BY <4>2, <3>6, <3>7 DEF f
      <4> QED BY <4>1, <4>2, <1>1
    <3>8. n + 1 + 1 = n + 2
      OBVIOUS
    <3> QED BY <3>3, <3>4, <3>7, <3>8, <2>3 DEF Covers
  <2> QED BY <2>4, <2>5 DEF r, f
<1>4. CASE ~ near
  <2> DEFINE k == Append(s.kept, f)
             hs == IF hashable THEN s.hashes \cup {s.disk[f.path]} ELSE s.hashes
  <2>1. r = [s EXCEPT !.kept = k, !.hashes = hs]
    BY <1>4 DEF DedupFrame
  <2>2. /\ k \in Seq(FrameType) /\ Len(k) = Len(s.kept) + 1 /\ k[Len(s.kept) + 1] = f
        /\ \A i \in 1..Len(s.kept) : k[i] = s.kept[i]
    BY <1>1, <1>2
  <2> HIDE DEF near, k, r, hs
  <2>3. r.kept = k /\ r.hashes = hs /\ r.disk = s.disk
        /\ DOMAIN r = {"kept", "hashes", "disk"}
    BY <2>1, <1>2
  <2>9. \A i \in 1..Len(k) : i \in 1..Len(s.kept) \/ i = Len(s.kept) + 1
    BY <2>2, <1>2
  <2>10. Len(s.kept) + 1 \in 1..Len(k) /\ \A i \in 1..Len(s.kept) : i \in 1..Len(k)
    BY <2>2, <1>2
  <2>4. Shape(r, frames, n + 1, d)
    <3>1. ASSUME NEW i \in 1..Len(k) PROVE \E m \in 1..(n + 1) : k[i] = frames[m]
      <4>1. CASE i \in 1..Len(s.kept)
        <5>1. PICK m \in 1..n : s.kept[i] = frames[m]
          BY <4>1, <1>2
        <5>2. k[i] = frames[m] /\ m \in 1..(n + 1)
          BY <5>1, <4>1, <2>2, <1>1
        <5> QED BY <5>2
      <4>2. CASE i = Len(s.kept) + 1
        <5>1. k[i] = frames[n + 1] /\ n + 1 \in 1..(n + 1)
          BY <4>2, <2>2, <1>1 DEF f
        <5> QED BY <5>1
      <4> QED BY <4>1, <4>2, <2>9
    <3> QED BY <3>1, <2>2, <2>3, <1>2 DEF Shape
  <2>5. ASSUME PathsDistinct(frames) PROVE Covers(r, frames, n + 1, d, t)
    <3>1. Covers(s, frames, n, d, t)
      BY <2>5
    <3>2. \A m \in (n + 2)..Len(frames) :
            frames[m].path \in DOMAIN d => frames[m].path \in DOMAIN r.disk
      BY <3>1, <1>1, <2>3 DEF Covers
    <3>3. ASSUME NEW h \in r.hashes
          PROVE  \E i \in 1..Len(k) : k[i].path \in DOMAIN s.disk /\ d[k[i].path] = h
      <4>1. CASE h \in s.hashes
        <5>1. PICK i \in 1..Len(s.kept) : s.kept[i].path \in DOMAIN s.disk /\ d[s.kept[i].path] = h
          BY <4>1, <3>1 DEF Covers
        <5> QED BY <5>1, <2>2, <2>10
      <4>2. CASE h \notin s.hashes
        <5>1. f.path \in DOMAIN s.disk /\ h = d[f.path]
          BY <4>2, <2>3, <1>2 DEF hs
        <5> QED BY <5>1, <2>2, <2>10
      <4> QED BY <4>1, <4>2
    <3>5. ASSUME NEW x, Near(s, x, d, t) PROVE Near(r, x, d, t)
      <4>1. PICK i \in 1..Len(s.kept) :
                s.kept[i].path \in DOMAIN s.disk /\ Distance(x, d[s.kept[i].path]) <= t
        BY <3>5 DEF Near
      <4>2. i \in 1..Len(k) /\ k[i] = s.kept[i]
        BY <2>2, <2>10
      <4> QED BY <4>1, <4>2, <2>3 DEF Near
    <3>6. ASSUME f.path \in DOMAIN d PROVE Near(r, d[f.path], d, t)
      <4>1. f.path \in DOMAIN s.disk
        <5>1. n + 1 \in (n + 1)..Len(frames)
          BY <1>1
        <5> QED BY <5>1, <3>1, <3>6 DEF Covers, f
      <4>2. Distance(d[f.path], d[f.path]) <= t
        <5>1. Distance(d[f.path], d[f.path]) = 0
          BY <3>6, <1>2, Distances
        <5> QED BY <5>1
      <4> QED BY <4>1, <4>2, <2>2, <2>3, <2>10 DEF Near
    <3>7. ASSUME NEW m \in 1..(n + 1), frames[m].path \in DOMAIN d
          PROVE  Near(r, d[frames[m].path], d, t)
      <4>1. CASE m \in 1..n
        BY <4>1, <3>1, <3>5, <3>7 DEF Covers
      <4>2. CASE m = n + 1
        BY <4>2, <3>6, <3>7 DEF f
      <4> QED BY <4>1, <4>2, <1>1
    <3>8. n + 1 + 1 = n + 2
      OBVIOUS
    <3> QED BY <3>2, <3>3, <3>7, <3>8, <2>3 DEF Covers
  <2> QED BY <2>4, <2>5 DEF r, f
<1> QED BY <1>3, <1>4

\* The whole of Dedup: what is kept are frames it was given, and a file that is
\* gone was near one that is still there.
THEOREM DedupCovers ==
    ASSUME NEW frames \in Seq(FrameType), NEW d, Files(d), NEW t \in Int, NEW u \in Nat, t <= u
    PROVE  LET r == Dedup(frames, t, d) IN
           /\ Shape(r, frames, Len(frames), d)
           /\ PathsDistinct(frames) =>
                \A m \in 1..Len(frames) :
                    frames[m].path \in DOMAIN d => Near(r, d[frames[m].path], d, u)
<1> DEFINE r == Dedup(frames, t, d)
           N == Len(frames)
<1>1. N \in Nat /\ \A m \in 1..N : frames[m] \in FrameType
  OBVIOUS
<1>2. \A p \in DOMAIN d : d[p] \in Pictures
  BY DEF Files
<1>3. CASE t < 0 \/ N < 2
  <2>1. r = [kept |-> frames, hashes |-> {}, disk |-> d]
    BY <1>3 DEF Dedup
  <2>2. d = [p \in DOMAIN d |-> d[p]]
    BY DEF Files
  <2> HIDE DEF r
  <2>3. r.kept = frames /\ r.disk = d /\ DOMAIN r = {"kept", "hashes", "disk"}
    BY <2>1
  <2>4. Shape(r, frames, N, d)
    BY <2>2, <2>3 DEF Shape
  <2>5. ASSUME NEW m \in 1..N, frames[m].path \in DOMAIN d
        PROVE  Near(r, d[frames[m].path], d, u)
    <3>1. Distance(d[frames[m].path], d[frames[m].path]) <= u
      <4>1. Distance(d[frames[m].path], d[frames[m].path]) = 0
        BY <2>5, <1>2, Distances
      <4> QED BY <4>1
    <3> QED BY <3>1, <2>3, <2>5 DEF Near
  <2> QED BY <2>4, <2>5 DEF r
<1>4. CASE ~ (t < 0 \/ N < 2)
  <2> DEFINE f == DedupPasses(frames, t, d)
             Good(n) == /\ Shape(f[n], frames, n, d)
                        /\ PathsDistinct(frames) => Covers(f[n], frames, n, d, t)
             T == {n \in 0..N : ~ Good(n)}
  <2>1. t \in Nat /\ r = f[N]
    BY <1>4 DEF Dedup
  <2>2. f[0] = Before(d) /\ \A n \in 1..N : f[n] = DedupFrame(f[n - 1], frames[n], t)
    BY <1>1, PassesFollow
  <2> HIDE DEF f
  <2>3. Good(0)
    <3>1. /\ f[0].kept = <<>> /\ f[0].hashes = {} /\ f[0].disk = d
          /\ DOMAIN f[0] = {"kept", "hashes", "disk"}
      BY <2>2 DEF Before
    <3>2. \A m \in (0 + 1)..N : m \in 1..N
      BY <1>1
    <3>3. d = [p \in DOMAIN d |-> d[p]]
      BY DEF Files
    <3>4. Shape(f[0], frames, 0, d)
      BY <3>1, <3>3 DEF Shape
    <3>5. 1..0 = {}
      OBVIOUS
    <3>6. Covers(f[0], frames, 0, d, t)
      BY <3>1, <3>2, <3>5 DEF Covers
    <3> QED BY <3>4, <3>6
  <2>4. ASSUME NEW n \in 0..(N - 1), Good(n) PROVE Good(n + 1)
    <3>1. n \in Nat /\ n < N /\ n + 1 \in 1..N /\ (n + 1) - 1 = n
      BY <1>1
    <3>2. f[n + 1] = DedupFrame(f[n], frames[n + 1], t)
      BY <2>2, <3>1
    <3> QED BY <3>1, <3>2, <2>1, <2>4, OneMoreFrame
  <2> HIDE DEF Good
  <2>5. T = {}
    <3> SUFFICES ASSUME T # {} PROVE FALSE
      OBVIOUS
    <3>1. T \in SUBSET Nat
      BY <1>1
    <3>2. PICK m \in T : \A l \in T : m <= l
      <4> HIDE DEF T
      <4> QED BY <3>1, LeastElement
    <3>3. m # 0
      BY <2>3
    <3>4. m \in Nat /\ m - 1 \in 0..(N - 1) /\ m - 1 \in 0..N /\ ~ (m <= m - 1) /\ (m - 1) + 1 = m
      BY <3>2, <3>3, <1>1
    <3>5. m - 1 \notin T
      <4> HIDE DEF T
      <4> QED BY <3>2, <3>4
    <3>6. Good(m - 1)
      BY <3>4, <3>5
    <3>7. Good((m - 1) + 1)
      BY <3>4, <3>6, <2>4
    <3> QED BY <3>4, <3>7
  <2>6. Good(N)
    <3>1. N \in 0..N
      BY <1>1
    <3> QED BY <3>1, <2>5
  <2>7. Shape(r, frames, N, d) /\ (PathsDistinct(frames) => Covers(r, frames, N, d, t))
    BY <2>1, <2>6 DEF Good
  <2> HIDE DEF r
  <2>8. ASSUME PathsDistinct(frames), NEW m \in 1..N, frames[m].path \in DOMAIN d
        PROVE  Near(r, d[frames[m].path], d, u)
    <3>1. Near(r, d[frames[m].path], d, t)
      BY <2>7, <2>8 DEF Covers
    <3>2. PICK i \in 1..Len(r.kept) : /\ r.kept[i].path \in DOMAIN r.disk
                                      /\ Distance(d[frames[m].path], d[r.kept[i].path]) <= t
      BY <3>1 DEF Near
    <3>3. r.kept[i].path \in DOMAIN d
      BY <3>2, <2>7 DEF Shape
    <3>4. Distance(d[frames[m].path], d[r.kept[i].path]) \in Nat
      BY <3>3, <2>8, <1>2, Distances
    <3>5. Distance(d[frames[m].path], d[r.kept[i].path]) <= u
      BY <3>2, <3>4
    <3> QED BY <3>2, <3>5 DEF Near
  <2> QED BY <2>7, <2>8 DEF r
<1> QED BY <1>3, <1>4

-----------------------------------------------------------------------------
(* Extraction.                                                              *)

Directories == {sanitizeDirName(w) : w \in Workflows}

\* The numbers in the names of a directory's files.
Entries(d, dir) == {p[2] : p \in {q \in DOMAIN d : q[1] = dir}}

\* The size of an interval.
LEMMA IntervalSize ==
    ASSUME NEW k \in Nat
    PROVE  IsFiniteSet(1..k) /\ Cardinality(1..k) = k
<1>1. IsFiniteSet(1..k) /\ Cardinality(1..k) = IF 1 > k THEN 0 ELSE k - 1 + 1
  BY FS_Interval
<1> QED BY <1>1

\* A finite set of files has finitely many numbers.
LEMMA EntriesFinite ==
    ASSUME NEW d, Files(d), NEW dir
    PROVE  IsFiniteSet(Entries(d, dir)) /\ Cardinality(Entries(d, dir)) \in Nat
<1> DEFINE S == {q \in DOMAIN d : q[1] = dir}
           E == Entries(d, dir)
           g == [q \in S |-> q[2]]
<1>1. IsFiniteSet(S)
  BY FS_Subset DEF Files
<1>2. g \in Surjection(S, E)
  BY DEF Surjection, Entries
<1> HIDE DEF S, E, g
<1>3. IsFiniteSet(E)
  BY <1>1, <1>2, FS_Surjection
<1>4. Cardinality(E) \in Nat
  BY <1>3, FS_CardinalityType
<1> QED BY <1>3, <1>4 DEF E

\* Writing pictures leaves files.
LEMMA WrittenFiles ==
    ASSUME NEW d, Files(d), NEW dir \in Directories, NEW pics \in Seq(Pictures)
    PROVE  Files(Written(d, dir, pics))
<1> DEFINE w == Written(d, dir, pics)
           N == {<<dir, n>> : n \in 1..Len(pics)}
           h == [n \in 1..Len(pics) |-> <<dir, n>>]
<1>1. DOMAIN w = DOMAIN d \cup N
  BY DEF Written
<1>2. Len(pics) \in Nat /\ \A n \in 1..Len(pics) : n \in Nat \ {0} /\ pics[n] \in Pictures
  OBVIOUS
<1>3. IsFiniteSet(1..Len(pics)) /\ h \in Surjection(1..Len(pics), N)
  <2>1. IsFiniteSet(1..Len(pics))
    BY <1>2, FS_Interval
  <2>2. h \in [1..Len(pics) -> N] /\ \A x \in N : \E n \in 1..Len(pics) : h[n] = x
    OBVIOUS
  <2> QED BY <2>1, <2>2, Zenon DEF Surjection
<1>4. N \subseteq Paths
  BY <1>2 DEF Paths, Directories
<1>5. IsFiniteSet(N)
  <2> HIDE DEF N, h
  <2> QED BY <1>3, FS_Surjection
<1>6. IsFiniteSet(DOMAIN d \cup N)
  <2> HIDE DEF N
  <2> QED BY <1>5, FS_Union DEF Files
<1>7. ASSUME NEW p \in DOMAIN w PROVE w[p] \in Pictures
  <2>1. p \in Paths
    BY <1>1, <1>4 DEF Files
  <2>2. w[p] = IF p[1] = dir /\ p[2] <= Len(pics) THEN pics[p[2]] ELSE d[p]
    BY DEF Written
  <2>3. CASE p[1] = dir /\ p[2] <= Len(pics)
    <3>1. p[2] \in 1..Len(pics)
      BY <2>1, <2>3, <1>2 DEF Paths
    <3> QED BY <3>1, <2>2, <2>3, <1>2
  <2>4. CASE ~ (p[1] = dir /\ p[2] <= Len(pics))
    <3>1. p \notin N
      BY <2>4, <1>2
    <3>2. p \in DOMAIN d
      BY <3>1, <1>1
    <3> QED BY <3>2, <2>2, <2>4 DEF Files
  <2> QED BY <2>3, <2>4
<1>8. w = [p \in DOMAIN w |-> w[p]]
  BY DEF Written
<1> HIDE DEF w, N
<1> QED BY <1>1, <1>4, <1>6, <1>7, <1>8 DEF Files, w

\* What collect finds in a directory.
LEMMA CollectFrames ==
    ASSUME NEW d, Files(d), NEW dir \in Directories, NEW ts \in Seq(Int)
    PROVE  /\ collect(d, dir, ts) \in Seq(FrameType)
           /\ Len(collect(d, dir, ts)) = Cardinality(Entries(d, dir))
           /\ \A n \in 1..Cardinality(Entries(d, dir)) : collect(d, dir, ts)[n].path = <<dir, n>>
<1> DEFINE K == Cardinality(Entries(d, dir))
           c == collect(d, dir, ts)
           F(n) == [path |-> <<dir, n>>, ts |-> IF n <= Len(ts) THEN ts[n] ELSE n - 1]
<1>1. K \in Nat
  BY EntriesFinite
<1>2. c = [n \in 1..K |-> F(n)]
  BY DEF collect, Entries
<1> HIDE DEF K, c
<1>3. ASSUME NEW n \in 1..K PROVE F(n) \in FrameType
  <2>1. n \in Nat \ {0} /\ n - 1 \in Int /\ Len(ts) \in Nat
    BY <1>1
  <2>2. (IF n <= Len(ts) THEN ts[n] ELSE n - 1) \in Int
    BY <2>1
  <2>3. <<dir, n>> \in Paths
    BY <2>1 DEF Paths, Directories
  <2> QED BY <2>2, <2>3 DEF FrameType
<1> HIDE DEF F
<1>4. c \in [1..K -> FrameType]
  BY <1>2, <1>3
<1>5. c \in Seq(FrameType) /\ Len(c) = K
  BY <1>1, <1>4
<1>6. ASSUME NEW n \in 1..K PROVE c[n].path = <<dir, n>>
  BY <1>2 DEF F
<1> QED BY <1>5, <1>6 DEF c, K

\* A workflow whose directory is its own: each picture it wrote is a frame, and
\* the other files are as they were.
LEMMA FreshDirectory ==
    ASSUME NEW d, Files(d), NEW dir \in Directories, NEW pics \in Seq(Pictures),
           NEW ts \in Seq(Int), \A p \in DOMAIN d : p[1] # dir
    PROVE  LET w == Written(d, dir, pics)
               c == collect(w, dir, ts)
           IN  /\ c \in Seq(FrameType) /\ Len(c) = Len(pics)
               /\ \A n \in 1..Len(pics) :
                    c[n].path = <<dir, n>> /\ <<dir, n>> \in DOMAIN w /\ w[<<dir, n>>] = pics[n]
               /\ \A p \in DOMAIN d : p \in DOMAIN w /\ w[p] = d[p]
               /\ \A p \in DOMAIN w : p \in DOMAIN d \/ p[1] = dir
<1> DEFINE w == Written(d, dir, pics)
           c == collect(w, dir, ts)
           N == {<<dir, n>> : n \in 1..Len(pics)}
<1>1. DOMAIN w = DOMAIN d \cup N
  BY DEF Written
<1>2. Len(pics) \in Nat
  OBVIOUS
<1>3. ASSUME NEW p \in DOMAIN d PROVE p \in DOMAIN w /\ w[p] = d[p]
  BY <1>1 DEF Written
<1>4. ASSUME NEW n \in 1..Len(pics) PROVE <<dir, n>> \in DOMAIN w /\ w[<<dir, n>>] = pics[n]
  <2>1. <<dir, n>> \in DOMAIN w
    BY <1>1
  <2>2. <<dir, n>>[1] = dir /\ <<dir, n>>[2] = n /\ n <= Len(pics)
    BY <1>2
  <2>3. w[<<dir, n>>] = IF <<dir, n>>[1] = dir /\ <<dir, n>>[2] <= Len(pics)
                        THEN pics[<<dir, n>>[2]] ELSE d[<<dir, n>>]
    BY <2>1 DEF Written
  <2> QED BY <2>1, <2>2, <2>3
<1>5. Entries(w, dir) = 1..Len(pics)
  <2>1. ASSUME NEW n \in Entries(w, dir) PROVE n \in 1..Len(pics)
    BY <2>1, <1>1 DEF Entries
  <2>2. ASSUME NEW n \in 1..Len(pics) PROVE n \in Entries(w, dir)
    <3>1. <<dir, n>> \in {q \in DOMAIN w : q[1] = dir} /\ <<dir, n>>[2] = n
      BY <1>1
    <3> DEFINE S == {q \in DOMAIN w : q[1] = dir}
    <3>2. \E q \in S : q[2] = n
      BY <3>1
    <3>3. Entries(w, dir) = {q[2] : q \in S}
      BY DEF Entries
    <3> HIDE DEF S
    <3> QED BY <3>2, <3>3
  <2> QED BY <2>1, <2>2
<1>6. Cardinality(Entries(w, dir)) = Len(pics)
  BY <1>2, <1>5, IntervalSize
<1>7. Files(w)
  BY WrittenFiles
<1>8. ASSUME NEW p \in DOMAIN w PROVE p \in DOMAIN d \/ p[1] = dir
  BY <1>1
<1> HIDE DEF w
<1>9. /\ c \in Seq(FrameType) /\ Len(c) = Len(pics)
      /\ \A n \in 1..Len(pics) : c[n].path = <<dir, n>>
  BY <1>6, <1>7, CollectFrames
<1> HIDE DEF c
<1> QED BY <1>3, <1>4, <1>8, <1>9 DEF w, c

\* Some of the files are files.
LEMMA FewerFiles ==
    ASSUME NEW d, Files(d), NEW e, DOMAIN e \subseteq DOMAIN d,
           e = [p \in DOMAIN e |-> d[p]]
    PROVE  Files(e)
<1>1. IsFiniteSet(DOMAIN e)
  BY FS_Subset DEF Files
<1>2. \A p \in DOMAIN e : d[p] \in Pictures
  BY DEF Files
<1>3. e \in [DOMAIN e -> Pictures]
  BY <1>2
<1>4. DOMAIN e \subseteq Paths
  BY DEF Files
<1> QED BY <1>1, <1>3, <1>4 DEF Files

\* An empty directory.
LEMMA NoFilesAreFiles == Files(NoFiles)
<1>1. DOMAIN NoFiles = {} /\ NoFiles \in [{} -> Pictures]
  BY DEF NoFiles
<1>2. IsFiniteSet(DOMAIN NoFiles)
  BY <1>1, FS_EmptySet
<1> QED BY <1>1, <1>2 DEF Files

\* The first n of a sequence.
LEMMA FirstOf ==
    ASSUME NEW S, NEW q \in Seq(S), NEW n \in 0..Len(q)
    PROVE  /\ SubSeq(q, 1, n) \in Seq(S) /\ Len(SubSeq(q, 1, n)) = n
           /\ \A i \in 1..n : SubSeq(q, 1, n)[i] = q[i]
<1>1. n \in Nat /\ \A i \in 1..n : q[i] \in S
  OBVIOUS
<1>2. /\ SubSeq(q, 1, n) \in Seq(S) /\ Len(SubSeq(q, 1, n)) = IF 1 <= n THEN n - 1 + 1 ELSE 0
      /\ \A i \in 1..(n - 1 + 1) : SubSeq(q, 1, n)[i] = q[1 + i - 1]
  BY <1>1, SubSeqProperties
<1>3. n - 1 + 1 = n /\ \A i \in 1..n : 1 + i - 1 = i
  BY <1>1
<1>4. Len(SubSeq(q, 1, n)) = n
  BY <1>1, <1>2
<1> QED BY <1>2, <1>3, <1>4

\* What SelectFrames leaves of the frames before max_frames cuts, and how far a
\* picture may be from one that stands for it.
Deduped == IF DedupOn THEN Dedup(fs, Threshold, disk) ELSE [kept |-> fs, disk |-> disk]
Limit == IF DedupOn THEN conf.ceiling ELSE 0

\* Whatever threshold the job asks for, the operator's is the most.
LEMMA ThresholdBounded ==
    ASSUME DiskInv
    PROVE  Limit \in Nat /\ (DedupOn => Threshold \in Int /\ Threshold <= Limit)
<1>1. conf.ceiling \in 0..64 /\ job.dedup \in Int \cup {Null}
  BY PipelineAssumption DEF DiskInv, JobOk, SetupType
<1> QED BY <1>1 DEF Limit, Threshold

LEMMA DedupedCovers ==
    ASSUME DiskInv, fs \in Seq(FrameType), Files(disk)
    PROVE  /\ Deduped.kept \in Seq(FrameType)
           /\ DOMAIN Deduped.disk \subseteq DOMAIN disk
           /\ Deduped.disk = [p \in DOMAIN Deduped.disk |-> disk[p]]
           /\ PathsDistinct(fs) =>
                \A m \in 1..Len(fs) :
                    fs[m].path \in DOMAIN disk => Near(Deduped, disk[fs[m].path], disk, Limit)
<1>1. CASE DedupOn
  <2>1. Deduped = Dedup(fs, Threshold, disk)
    BY <1>1 DEF Deduped
  <2>2. Limit \in Nat /\ Threshold \in Int /\ Threshold <= Limit
    BY <1>1, ThresholdBounded
  <2> QED BY <2>1, <2>2, DedupCovers DEF Shape
<1>2. CASE ~ DedupOn
  <2>1. Deduped.kept = fs /\ Deduped.disk = disk /\ Limit = 0
    BY <1>2 DEF Deduped, Limit
  <2>2. disk = [p \in DOMAIN disk |-> disk[p]] /\ \A p \in DOMAIN disk : disk[p] \in Pictures
    BY DEF Files
  <2>3. ASSUME NEW m \in 1..Len(fs), fs[m].path \in DOMAIN disk
        PROVE  Near(Deduped, disk[fs[m].path], disk, Limit)
    <3>1. Distance(disk[fs[m].path], disk[fs[m].path]) <= 0
      <4>1. Distance(disk[fs[m].path], disk[fs[m].path]) = 0
        BY <2>2, <2>3, Distances
      <4> QED BY <4>1
    <3> QED BY <3>1, <2>1, <2>3 DEF Near
  <2> QED BY <2>1, <2>2, <2>3
<1> QED BY <1>1, <1>2

\* The frames and the files, whatever the stage; nothing is cut before
\* the workflows are through, and only known ones run.
FramesInv ==
    /\ fs \in Seq(FrameType) /\ Files(disk)
    /\ ran \in 0..Len(Selected(job.workflows)) /\ produced \subseteq Pictures
    /\ pc \in {"resolve", "fetch", "frames"} => fs = <<>> /\ ran = 0 /\ produced = {} /\ ~cut
    /\ pc = "workflows" => Known(job.workflows) /\ ~cut

\* A step that leaves extraction alone.
LEMMA FramesUntouched ==
    ASSUME FramesInv, UNCHANGED <<fs, disk, ran, produced, cut, job>>,
           pc' # "workflows" \/ pc' = pc,
           pc' \in {"resolve", "fetch", "frames"} => pc \in {"resolve", "fetch", "frames"}
    PROVE  FramesInv'
BY DEF FramesInv, Files, Known, Selected

LEMMA FramesHold == Spec => []FramesInv
<1>1. Init => FramesInv
  <2> SUFFICES ASSUME Init PROVE FramesInv
    OBVIOUS
  <2>1. /\ fs = <<>> /\ ran = 0 /\ produced = {} /\ ~cut /\ disk = NoFiles /\ pc = "resolve"
        /\ job \in Jobs
    BY DEF Init, ExtractInit
  <2>2. Len(Selected(job.workflows)) \in Nat
    BY <2>1, PipelineAssumption DEF JobOk, Selected
  <2> QED BY <2>1, <2>2, NoFilesAreFiles DEF FramesInv
<1>2. DiskInv /\ FramesInv /\ [Next]_vars => FramesInv'
  <2> SUFFICES ASSUME DiskInv, FramesInv, [Next]_vars PROVE FramesInv'
    OBVIOUS
  <2>1. CASE ResolveLocal \/ Fetched
    <3>1. /\ UNCHANGED <<fs, disk, ran, produced, cut, job>> /\ pc \in {"resolve", "fetch"}
          /\ pc' \in {"emit", Analysis}
      BY <2>1 DEF ResolveLocal, Fetched, Resolved, extractVars
    <3>2. Analysis \in {"emit", "frames", "scan"}
      BY DEF Analysis
    <3> QED BY <3>1, <3>2, FramesUntouched
  <2>2. CASE ResolveUrl \/ Fetching
    <3>1. UNCHANGED <<fs, disk, ran, produced, cut, job>> /\ pc' = "fetch" /\ pc \in {"resolve", "fetch"}
      BY <2>2 DEF ResolveUrl, Fetching, extractVars
    <3> QED BY <3>1, FramesUntouched
  <2>3. ASSUME NEW err, VideoFails(err) PROVE FramesInv'
    <3>1. UNCHANGED <<fs, ran, produced, job>> /\ disk' = NoFiles /\ pc' = "emit"
      BY <2>3 DEF VideoFails, RemoveWorkDir
    <3> QED BY <3>1, NoFilesAreFiles DEF FramesInv, Files
  <2>4. CASE FramesStart
    <3>1. UNCHANGED <<fs, disk, ran, produced, cut, job>> /\ Known(job.workflows) /\ pc = "frames"
          /\ pc' = "workflows"
      BY <2>4 DEF FramesStart, FramesBegin
    <3> QED BY <3>1 DEF FramesInv, Files, Known, Selected
  <2>5. CASE WorkflowRuns
    <3> DEFINE name == Selected(job.workflows)[ran + 1]
               dir == sanitizeDirName(name)
               out == job.video[name]
               w == Written(disk, dir, out.pics)
               c == collect(w, dir, out.ts)
    <3>1. /\ disk' = w /\ fs' = fs \o c /\ ran' = ran + 1 /\ produced' = produced \cup Range(out.pics)
          /\ UNCHANGED <<cut, job, pc>> /\ pc = "workflows" /\ ran < Len(Selected(job.workflows))
      BY <2>5 DEF WorkflowRuns, RunWorkflow
    <3>2. Len(Selected(job.workflows)) \in Nat /\ ran \in Nat /\ ran + 1 \in 1..Len(Selected(job.workflows))
      <4>1. Len(Selected(job.workflows)) \in Nat
        BY PipelineAssumption DEF DiskInv, JobOk, Selected
      <4>2. ran \in 0..Len(Selected(job.workflows)) /\ ran < Len(Selected(job.workflows))
        BY <3>1 DEF FramesInv
      <4> HIDE DEF name
      <4> QED BY ONLY <4>1, <4>2
    <3>3. name \in Workflows
      BY <3>1, <3>2 DEF FramesInv, Known
    <3>4. dir \in Directories /\ out.pics \in Seq(Pictures) /\ out.ts \in Seq(Int)
      BY <3>3, PipelineAssumption DEF DiskInv, JobOk, Directories
    <3> HIDE DEF name, dir, out
    <3>5. Files(w)
      BY <3>4, WrittenFiles DEF FramesInv
    <3>6. c \in Seq(FrameType)
      BY <3>4, <3>5, CollectFrames
    <3> HIDE DEF w, c
    <3>7. fs' \in Seq(FrameType)
      BY <3>1, <3>6 DEF FramesInv
    <3>8. produced' \subseteq Pictures
      BY <3>1, <3>4 DEF FramesInv, Range
    <3>9. ran' \in 0..Len(Selected(job.workflows))
      BY <3>1, <3>2
    <3>10. Files(disk)'
      BY <3>1, <3>5 DEF Files
    <3>11. Known(job.workflows)' /\ ~cut'
      BY <3>1 DEF FramesInv, Known, Selected
    <3> QED BY <3>1, <3>7, <3>8, <3>9, <3>10, <3>11 DEF FramesInv, Selected
  <2>6. CASE FramesReturned
    <3> DEFINE keep == IF Len(fs) > conf.budget THEN conf.budget ELSE Len(fs)
               gone == PathsOf(SubSeq(fs, keep + 1, Len(fs)))
    <3>1. /\ disk' = Without(disk, gone) /\ fs' = SubSeq(fs, 1, keep)
          /\ UNCHANGED <<ran, produced, job>> /\ pc' = "select"
      BY <2>6 DEF FramesReturned, FramesEnd
    <3>2. keep \in 0..Len(fs)
      <4>1. Len(fs) \in Nat /\ conf.budget \in Nat
        BY PipelineAssumption DEF DiskInv, SetupType, FramesInv
      <4> QED BY <4>1
    <3> HIDE DEF keep, gone
    <3>3. fs' \in Seq(FrameType)
      BY <3>1, <3>2, FirstOf DEF FramesInv
    <3>4. Files(Without(disk, gone))
      <4>1. DOMAIN Without(disk, gone) \subseteq DOMAIN disk
            /\ Without(disk, gone) = [p \in DOMAIN Without(disk, gone) |-> disk[p]]
        BY DEF Without
      <4> HIDE DEF gone
      <4> QED BY <4>1, FewerFiles DEF FramesInv
    <3>5. Files(disk)'
      BY <3>1, <3>4 DEF Files
    <3> QED BY <3>1, <3>3, <3>5 DEF FramesInv, Selected
  <2>7. CASE SelectFrames
    <3> DEFINE n == IF conf.maxScan > 0 /\ Len(Deduped.kept) > conf.maxScan
                    THEN conf.maxScan ELSE Len(Deduped.kept)
    <3>1. /\ disk' = Deduped.disk /\ fs' = SubSeq(Deduped.kept, 1, n)
          /\ UNCHANGED <<ran, produced, job>> /\ pc' = "scan"
      BY <2>7 DEF SelectFrames, Deduped
    <3>2. /\ Deduped.kept \in Seq(FrameType) /\ DOMAIN Deduped.disk \subseteq DOMAIN disk
          /\ Deduped.disk = [p \in DOMAIN Deduped.disk |-> disk[p]]
      BY DedupedCovers DEF FramesInv
    <3>3. n \in 0..Len(Deduped.kept)
      <4>1. Len(Deduped.kept) \in Nat /\ conf.maxScan \in Nat
        BY <3>2, PipelineAssumption DEF DiskInv, SetupType
      <4> QED BY <4>1
    <3> HIDE DEF n
    <3>4. fs' \in Seq(FrameType)
      BY <3>1, <3>2, <3>3, FirstOf
    <3>5. Files(Deduped.disk)
      BY <3>2, FewerFiles DEF FramesInv
    <3>6. Files(disk)'
      BY <3>1, <3>5 DEF Files
    <3> QED BY <3>1, <3>4, <3>6 DEF FramesInv, Selected
  <2>8. CASE \/ FrameStarts \/ DirectAnswered \/ DirectFails
             \/ \E i \in 1..Len(fs) : FrameAnswered(i) \/ FrameFails(i)
    <3>1. UNCHANGED <<fs, disk, ran, produced, cut, job>> /\ pc' \in {"scan", "emit"}
      BY <2>8 DEF FrameStarts, DirectAnswered, DirectFails, Direct, FrameAnswered, FrameFails,
                  extractVars
    <3> QED BY <3>1, FramesUntouched
  <2>9. CASE FramesDone
    <3>1. UNCHANGED <<fs, ran, produced, job>> /\ disk' = NoFiles /\ pc' = "emit"
      BY <2>9 DEF FramesDone, RemoveWorkDir
    <3> QED BY <3>1, NoFilesAreFiles DEF FramesInv, Files
  <2>10. ASSUME NEW env, NEW disp, Returns(env, disp) PROVE FramesInv'
    <3>1. UNCHANGED <<fs, disk, ran, produced, cut, job>> /\ pc' = "done"
      BY <2>10 DEF Returns, extractVars
    <3> QED BY <3>1, FramesUntouched
  <2>11. CASE Skips \/ SinkFails \/ AuditFails \/ Recorded \/ Panics
    BY <2>10, <2>11 DEF Skips, SinkFails, AuditFails, Recorded, Panics
  <2>12. CASE Expire \/ UNCHANGED vars
    <3>1. UNCHANGED <<fs, disk, ran, produced, cut, job, pc>>
      BY <2>12 DEF Expire, vars, extractVars
    <3> QED BY <3>1, FramesUntouched
  <2> QED
    BY <2>1, <2>2, <2>3, <2>4, <2>5, <2>6, <2>7, <2>8, <2>9, <2>11, <2>12
       DEF Next, Work, FramesFail, WorkflowFails, NoFrames
<1> QED BY <1>1, <1>2, DiskHolds, PTL DEF Spec

-----------------------------------------------------------------------------
(* The scan, and what is made of its outcomes.                              *)

OutcomeType ==
    [at : {"todo", "running", "done"}, ts : Int, ok : BOOLEAN, class : Classes,
     pic : Pictures \cup {Null}, raw : Pictures \cup {Null}]

\* What an outcome says of its frame: when it is, that it was read from disk if it
\* was answered, and evidence only of an answer about that picture.
OutcomeOf(o, f, d) ==
    /\ o \in OutcomeType
    /\ o.at = "done" => o.ts = f.ts
    /\ o.ok => o.at = "done" /\ f.path \in DOMAIN d /\ o.pic = d[f.path]
    /\ o.raw # Null => o.ok /\ o.raw = o.pic

\* There is no error and no result before the analysis is over, and while frames
\* are scanned there is an outcome for each of them.
ScanInv ==
    /\ pc \notin {"emit", "done"} => result = NoResult /\ procErr = "none"
    /\ pc \notin {"scan", "emit", "done"} => outcomes = <<>>
    /\ pc = "scan" /\ ~TakenWhole =>
          /\ outcomes \in [1..Len(fs) -> OutcomeType]
          /\ \A i \in 1..Len(fs) : OutcomeOf(outcomes[i], fs[i], disk)
    /\ \A i \in DOMAIN outcomes : outcomes[i] \in OutcomeType
    /\ \A i \in DOMAIN result.frames : result.frames[i] \in OutcomeType

\* The answers and failures are outcomes.
LEMMA OutcomesTyped ==
    /\ \A t \in Int : Failed(t) \in OutcomeType
    /\ \A t \in Int, p \in Pictures : \A r \in {p, Null} : Answered(t, p, r) \in OutcomeType
<1>1. Class \in [Pictures -> Classes] /\ "noscore" \in Classes
  BY PipelineAssumption DEF Classes
<1>2. ASSUME NEW t \in Int PROVE Failed(t) \in OutcomeType
  BY <1>1 DEF Failed, OutcomeType
<1>3. ASSUME NEW t \in Int, NEW p \in Pictures, NEW r \in {p, Null}
      PROVE  Answered(t, p, r) \in OutcomeType
  BY <1>1 DEF Answered, OutcomeType
<1> QED BY <1>2, <1>3

\* A step outside the scan that leaves outcomes and result alone.
LEMMA ScanUntouched ==
    ASSUME ScanInv, UNCHANGED <<outcomes, result, job, conf>>, pc' # "scan" \/ TakenWhole,
           pc' \notin {"emit", "done"} => pc \notin {"emit", "done"} /\ procErr' = "none",
           pc' \notin {"scan", "emit", "done"} => pc \notin {"scan", "emit", "done"}
    PROVE  ScanInv'
BY DEF ScanInv, TakenWhole

\* One outcome replaced while frames are scanned.
LEMMA OneOutcome ==
    ASSUME ScanInv, ~TakenWhole, pc = "scan", NEW i \in 1..Len(fs), NEW o,
           outcomes' = [outcomes EXCEPT ![i] = o], OutcomeOf(o, fs[i], disk),
           UNCHANGED <<fs, disk, result, procErr, pc, job, conf>>
    PROVE  ScanInv'
<1>1. /\ outcomes \in [1..Len(fs) -> OutcomeType]
      /\ \A j \in 1..Len(fs) : OutcomeOf(outcomes[j], fs[j], disk)
  BY DEF ScanInv
<1>2. o \in OutcomeType
  BY DEF OutcomeOf
<1>3. outcomes' \in [1..Len(fs) -> OutcomeType]
  BY <1>1, <1>2
<1>4. ASSUME NEW j \in 1..Len(fs) PROVE OutcomeOf(outcomes'[j], fs[j], disk)
  BY <1>1
<1>5. \A j \in 1..Len(fs') : OutcomeOf(outcomes'[j], fs'[j], disk')
  BY <1>4
<1>6. \A j \in DOMAIN outcomes' : outcomes'[j] \in OutcomeType
  BY <1>3
<1>7. outcomes' \in [1..Len(fs') -> OutcomeType]
  BY <1>3
<1>8. /\ result' = NoResult /\ procErr' = "none" /\ pc' = "scan"
      /\ \A j \in DOMAIN result'.frames : result'.frames[j] \in OutcomeType
  BY DEF ScanInv
<1> QED BY <1>5, <1>6, <1>7, <1>8 DEF ScanInv

LEMMA ScanHolds == Spec => []ScanInv
<1>1. Init => ScanInv
  BY DEF Init, ScanInv, NoResult
<1>2. DiskInv /\ FramesInv /\ ScanInv /\ [Next]_vars => ScanInv'
  <2> SUFFICES ASSUME DiskInv, FramesInv, ScanInv, [Next]_vars PROVE ScanInv'
    OBVIOUS
  <2>0. \A n \in 1..Len(fs) : fs[n] \in FrameType /\ fs[n].ts \in Int
    <3>1. fs \in Seq(FrameType)
      BY DEF FramesInv
    <3>2. ASSUME NEW n \in 1..Len(fs) PROVE fs[n] \in FrameType
      BY <3>1
    <3>3. ASSUME NEW f \in FrameType PROVE f.ts \in Int
      BY DEF FrameType
    <3> QED BY <3>2, <3>3
  <2>1. CASE ResolveLocal \/ Fetched
    <3>1. PICK err \in {"none", "fetch"} : Resolved(err)
      BY <2>1 DEF ResolveLocal, Fetched
    <3>2. UNCHANGED <<outcomes, result, job, conf>> /\ pc \in {"resolve", "fetch"}
      BY <2>1 DEF ResolveLocal, Fetched
    <3>3. job.media \in {"image", "video"} /\ job.metaOk \in BOOLEAN
      BY PipelineAssumption DEF DiskInv, JobOk
    <3>4. /\ pc' \in {"emit", "frames", "scan"}
          /\ pc' = "scan" => TakenWhole
          /\ pc' # "emit" => procErr' = "none"
      BY <3>1, <3>3 DEF Resolved, Analysis, TakenWhole
    <3> QED BY <3>2, <3>4, ScanUntouched
  <2>2. CASE ResolveUrl \/ Fetching \/ FramesStart \/ WorkflowRuns \/ FramesReturned
    <3>1. /\ UNCHANGED <<outcomes, result, procErr, job, conf>>
          /\ pc \notin {"scan", "emit", "done"} /\ pc' \notin {"scan", "emit", "done"}
      BY <2>2 DEF ResolveUrl, Fetching, FramesStart, WorkflowRuns, FramesReturned
    <3> QED BY <3>1, ScanUntouched DEF ScanInv
  <2>3. ASSUME NEW err, VideoFails(err) PROVE ScanInv'
    BY <2>3, ScanUntouched DEF VideoFails
  <2>4. CASE SelectFrames
    <3> DEFINE n == IF conf.maxScan > 0 /\ Len(Deduped.kept) > conf.maxScan
                    THEN conf.maxScan ELSE Len(Deduped.kept)
               todo == [Failed(0) EXCEPT !.at = "todo"]
    <3>1. /\ fs' = SubSeq(Deduped.kept, 1, n) /\ outcomes' = [i \in 1..n |-> todo]
          /\ pc = "select" /\ pc' = "scan" /\ UNCHANGED <<result, procErr>>
      BY <2>4 DEF SelectFrames, Deduped
    <3>2. Deduped.kept \in Seq(FrameType)
      BY DedupedCovers DEF FramesInv
    <3>3. n \in 0..Len(Deduped.kept)
      <4>1. Len(Deduped.kept) \in Nat /\ conf.maxScan \in Nat
        BY <3>2, PipelineAssumption DEF DiskInv, SetupType
      <4> QED BY <4>1
    <3>4. todo \in OutcomeType /\ todo.at = "todo" /\ todo.ok = FALSE /\ todo.raw = Null
      <4>1. Failed(0) \in OutcomeType
        BY OutcomesTyped
      <4> QED BY <4>1 DEF Failed, OutcomeType
    <3> HIDE DEF n, todo
    <3>5. Len(fs') = n
      BY <3>1, <3>2, <3>3, FirstOf
    <3>6. outcomes' \in [1..Len(fs') -> OutcomeType] /\ \A i \in DOMAIN outcomes' : outcomes'[i] \in OutcomeType
      BY <3>1, <3>4, <3>5
    <3>7. ASSUME NEW i \in 1..Len(fs') PROVE OutcomeOf(outcomes'[i], fs'[i], disk')
      <4>1. outcomes'[i] = todo
        BY <3>1, <3>5
      <4> QED BY <3>4, <4>1 DEF OutcomeOf
    <3> QED BY <3>1, <3>6, <3>7 DEF ScanInv
  <2>5. CASE FrameStarts
    <3>1. PICK i \in DOMAIN outcomes :
            outcomes[i].at = "todo" /\ outcomes' = [outcomes EXCEPT ![i].at = "running"]
      BY <2>5 DEF FrameStarts
    <3>2. pc = "scan" /\ ~TakenWhole /\ UNCHANGED <<fs, disk, result, procErr, pc, job, conf>>
      BY <2>5 DEF FrameStarts, extractVars
    <3> DEFINE o == [outcomes[i] EXCEPT !.at = "running"]
    <3>3. i \in 1..Len(fs) /\ OutcomeOf(outcomes[i], fs[i], disk)
      BY <3>2 DEF ScanInv
    <3>4. outcomes' = [outcomes EXCEPT ![i] = o]
      BY <3>1
    <3>5. /\ o \in OutcomeType /\ o.at = "running" /\ o.ok = outcomes[i].ok
          /\ o.raw = outcomes[i].raw
      BY <3>3 DEF OutcomeOf, OutcomeType
    <3>6. ~ outcomes[i].ok /\ outcomes[i].raw = Null
      BY <3>1, <3>3 DEF OutcomeOf
    <3> HIDE DEF o
    <3>7. OutcomeOf(o, fs[i], disk)
      BY <3>5, <3>6 DEF OutcomeOf
    <3> QED BY <3>2, <3>3, <3>4, <3>7, OneOutcome
  <2>6. ASSUME NEW i \in 1..Len(fs), FrameAnswered(i) \/ FrameFails(i) PROVE ScanInv'
    <3>1. pc = "scan" /\ UNCHANGED <<fs, disk, result, procErr, pc, job, conf>> /\ i \in Running
      BY <2>6 DEF FrameAnswered, FrameFails, extractVars
    <3>2. CASE TakenWhole
      <4>1. disk = NoFiles /\ DOMAIN NoFiles = {}
        BY <3>1, <3>2 DEF DiskInv, NoFiles
      <4>2. FrameFails(i)
        BY <2>6, <4>1 DEF FrameAnswered
      <4>3. outcomes' = [outcomes EXCEPT ![i] = Failed(fs[i].ts)] /\ Failed(fs[i].ts) \in OutcomeType
        BY <4>2, <2>0, OutcomesTyped DEF FrameFails
      <4>4. \A j \in DOMAIN outcomes' : outcomes'[j] \in OutcomeType
        BY <4>3 DEF ScanInv
      <4> QED BY <3>1, <3>2, <4>4 DEF ScanInv, TakenWhole
    <3>3. CASE ~TakenWhole /\ FrameFails(i)
      <4>1. outcomes' = [outcomes EXCEPT ![i] = Failed(fs[i].ts)]
        BY <3>3 DEF FrameFails
      <4>2. Failed(fs[i].ts) \in OutcomeType
        BY <2>0, OutcomesTyped
      <4>3. OutcomeOf(Failed(fs[i].ts), fs[i], disk)
        BY <4>2 DEF OutcomeOf, Failed
      <4> QED BY <3>1, <3>3, <4>1, <4>3, OneOutcome
    <3>4. CASE ~TakenWhole /\ FrameAnswered(i)
      <4> DEFINE p == disk[fs[i].path]
      <4>1. PICK raw \in {p, Null} : outcomes' = [outcomes EXCEPT ![i] = Answered(fs[i].ts, p, raw)]
        BY <3>4 DEF FrameAnswered
      <4>2. fs[i].path \in DOMAIN disk /\ p \in Pictures
        BY <3>4 DEF FrameAnswered, FramesInv, Files
      <4>3. Answered(fs[i].ts, p, raw) \in OutcomeType
        BY <2>0, <4>2, OutcomesTyped
      <4>4. OutcomeOf(Answered(fs[i].ts, p, raw), fs[i], disk)
        BY <4>2, <4>3 DEF OutcomeOf, Answered
      <4> HIDE DEF p
      <4> QED BY <3>1, <3>4, <4>1, <4>4, OneOutcome
    <3> QED BY <2>6, <3>2, <3>3, <3>4
  <2>7. CASE FramesDone
    <3>1. PICK order \in ByTimestamp(outcomes) : \E raw :
            result' = [frames |-> [i \in DOMAIN outcomes |-> outcomes[order[i]]], raw |-> raw]
      BY <2>7 DEF FramesDone
    <3>2. pc' = "emit" /\ UNCHANGED <<outcomes, job, conf>>
      BY <2>7 DEF FramesDone
    <3>3. \A i \in DOMAIN outcomes : order[i] \in DOMAIN outcomes
      BY <3>1 DEF ByTimestamp, Bijection, Injection
    <3>4. \A i \in DOMAIN result'.frames : result'.frames[i] \in OutcomeType
      BY <3>1, <3>3 DEF ScanInv
    <3> QED BY <3>2, <3>4 DEF ScanInv
  <2>8. CASE DirectAnswered
    <3>1. PICK raw \in {job.picture, Null} :
            result' = [frames |-> <<Answered(0, job.picture, raw)>>,
                       raw |-> IF raw = Null THEN Null ELSE <<raw>>]
      BY <2>8 DEF DirectAnswered
    <3>2. pc' = "emit" /\ UNCHANGED <<outcomes, job, conf>>
      BY <2>8 DEF DirectAnswered
    <3>3. Answered(0, job.picture, raw) \in OutcomeType
      <4>1. job.picture \in Pictures
        BY PipelineAssumption DEF DiskInv, JobOk
      <4> QED BY <4>1, OutcomesTyped
    <3>4. \A i \in DOMAIN result'.frames : result'.frames[i] \in OutcomeType
      BY <3>1, <3>3
    <3> QED BY <3>2, <3>4 DEF ScanInv
  <2>9. CASE DirectFails
    BY <2>9, ScanUntouched DEF DirectFails
  <2>10. ASSUME NEW env, NEW disp, Returns(env, disp) PROVE ScanInv'
    BY <2>10, ScanUntouched DEF Returns
  <2>11. CASE Skips \/ SinkFails \/ AuditFails \/ Recorded \/ Panics
    BY <2>10, <2>11 DEF Skips, SinkFails, AuditFails, Recorded, Panics
  <2>12. CASE Expire \/ UNCHANGED vars
    <3>1. UNCHANGED <<fs, disk, outcomes, result, procErr, pc, job, conf>>
      BY <2>12 DEF Expire, vars, extractVars
    <3> QED BY <3>1 DEF ScanInv, TakenWhole
  <2> QED
    BY <2>1, <2>2, <2>3, <2>4, <2>5, <2>6, <2>7, <2>8, <2>9, <2>11, <2>12
       DEF Next, Work, FramesFail, WorkflowFails, NoFrames
<1> QED BY <1>1, <1>2, DiskHolds, FramesHold, PTL DEF Spec

\* EvidenceAligned as a relation of a result, the frames and whether there are any.
Count(frames, t) == Cardinality({i \in DOMAIN frames : frames[i].ts = t})
Aligned(res, frames, whole) ==
    res # NoResult =>
        LET r == res.frames IN
        /\ \A i, j \in DOMAIN r : i < j => r[i].ts <= r[j].ts
        /\ ~whole => \A t \in {r[i].ts : i \in DOMAIN r} \cup {frames[i].ts : i \in DOMAIN frames} :
              Count(r, t) = Count(frames, t)
        /\ res.raw # Null =>
              /\ DOMAIN res.raw = DOMAIN r
              /\ \A i \in DOMAIN r : res.raw[i] # Null => r[i].ok /\ res.raw[i] = r[i].pic
              /\ \E i \in DOMAIN r : res.raw[i] # Null

\* As many of a kind before sorting as after.
LEMMA SortedAlike ==
    ASSUME NEW N \in Nat, NEW order \in Bijection(1..N, 1..N),
           NEW A \in SUBSET (1..N), NEW B \in SUBSET (1..N),
           \A i \in 1..N : i \in A <=> order[i] \in B
    PROVE  Cardinality(A) = Cardinality(B)
<1> DEFINE h == [i \in A |-> order[i]]
<1>1. /\ order \in [1..N -> 1..N] /\ \A i, j \in 1..N : order[i] = order[j] => i = j
      /\ \A j \in 1..N : \E i \in 1..N : order[i] = j
  BY DEF Bijection, Injection, Surjection, IsInjective
<1>2. h \in [A -> B]
  BY <1>1
<1>3. \A i, j \in A : h[i] = h[j] => i = j
  BY <1>1
<1>4. ASSUME NEW j \in B PROVE \E i \in A : h[i] = j
  <2>1. PICK i \in 1..N : order[i] = j
    BY <1>1
  <2>2. i \in A /\ h[i] = j
    BY <2>1
  <2> QED BY <2>2
<1>5. IsFiniteSet(A)
  BY IntervalSize, FS_Subset
<1> HIDE DEF h
<1>6. h \in Bijection(A, B)
  BY <1>2, <1>3, <1>4 DEF Bijection, Injection, Surjection, IsInjective
<1> QED BY <1>5, <1>6, FS_Bijection DEF ExistsBijection

\* Results and evidence put together from the outcomes.
LEMMA FramesDoneAligns ==
    ASSUME DiskInv, FramesInv, ScanInv, FramesDone
    PROVE  EvidenceAligned'
<1> DEFINE N == Len(fs)
<1>1. /\ pc = "scan" /\ ~TakenWhole /\ UNCHANGED <<fs, job, conf>>
      /\ \A i \in DOMAIN outcomes : outcomes[i].at = "done"
  BY DEF FramesDone
<1>2. /\ outcomes \in [1..N -> OutcomeType] /\ N \in Nat
      /\ \A i \in 1..N : OutcomeOf(outcomes[i], fs[i], disk)
  BY <1>1 DEF ScanInv, FramesInv
<1>3. DOMAIN outcomes = 1..N /\ DOMAIN fs = 1..N
  BY <1>2 DEF FramesInv
<1> HIDE DEF N
<1>4. PICK order \in ByTimestamp(outcomes) :
        \E raw \in {buildRawEvidence([i \in DOMAIN outcomes |-> outcomes[order[i]]]), Null} :
            result' = [frames |-> [i \in DOMAIN outcomes |-> outcomes[order[i]]], raw |-> raw]
  BY DEF FramesDone
<1> DEFINE r == [i \in 1..N |-> outcomes[order[i]]]
<1>5. PICK raw \in {buildRawEvidence(r), Null} : result' = [frames |-> r, raw |-> raw]
  BY <1>3, <1>4
<1>6. /\ order \in Bijection(1..N, 1..N)
      /\ \A i, j \in 1..N : i < j =>
            \/ outcomes[order[i]].ts < outcomes[order[j]].ts
            \/ outcomes[order[i]].ts = outcomes[order[j]].ts /\ order[i] < order[j]
  BY <1>3, <1>4 DEF ByTimestamp
<1>7. order \in [1..N -> 1..N]
  BY <1>6 DEF Bijection, Injection
<1>8. ASSUME NEW i \in 1..N
      PROVE  /\ outcomes[i] \in OutcomeType /\ outcomes[i].ts \in Int /\ outcomes[i].ts = fs[i].ts
             /\ outcomes[i].raw # Null => outcomes[i].ok /\ outcomes[i].raw = outcomes[i].pic
  <2>1. OutcomeOf(outcomes[i], fs[i], disk) /\ outcomes[i].at = "done"
    BY <1>1, <1>2, <1>3
  <2>2. outcomes[i] \in OutcomeType
    BY <1>2
  <2>3. outcomes[i].ts \in Int
    BY <2>2 DEF OutcomeType
  <2> QED BY <2>1, <2>2, <2>3 DEF OutcomeOf
<1>9. \A i \in 1..N : order[i] \in 1..N /\ r[i] = outcomes[order[i]]
  BY <1>7
<1>10. DOMAIN r = 1..N
  OBVIOUS
<1> HIDE DEF r
<1>11. ASSUME NEW i \in 1..N, NEW j \in 1..N, i < j PROVE r[i].ts <= r[j].ts
  <2>1. outcomes[order[i]].ts \in Int /\ outcomes[order[j]].ts \in Int
    BY <1>8, <1>9
  <2>2. outcomes[order[i]].ts < outcomes[order[j]].ts \/ outcomes[order[i]].ts = outcomes[order[j]].ts
    BY <1>6, <1>11
  <2>3. outcomes[order[i]].ts <= outcomes[order[j]].ts
    BY <2>1, <2>2
  <2> QED BY <2>3, <1>9
<1>12. ASSUME NEW t
       PROVE  Count(r, t) = Count(fs, t)
  <2> DEFINE A == {i \in 1..N : r[i].ts = t}
             B == {i \in 1..N : fs[i].ts = t}
  <2>1. \A i \in 1..N : i \in A <=> order[i] \in B
    BY <1>8, <1>9
  <2>2. A \in SUBSET (1..N) /\ B \in SUBSET (1..N)
    OBVIOUS
  <2>3. Cardinality(A) = Cardinality(B)
    <3> HIDE DEF A, B
    <3> QED BY <1>2, <1>6, <2>1, <2>2, SortedAlike
  <2> QED BY <2>3, <1>3, <1>10 DEF Count
<1>13. ASSUME raw # Null
       PROVE  /\ DOMAIN raw = 1..N
              /\ \A i \in 1..N : raw[i] # Null => r[i].ok /\ raw[i] = r[i].pic
              /\ \E i \in 1..N : raw[i] # Null
  <2>1. raw = [i \in 1..N |-> r[i].raw] /\ \E i \in 1..N : r[i].raw # Null
    BY <1>5, <1>10, <1>13 DEF buildRawEvidence
  <2> QED BY <2>1, <1>8, <1>9
<1>14. result'.frames = r /\ result'.raw = raw /\ DOMAIN fs' = 1..N /\ fs' = fs
  BY <1>1, <1>3, <1>5
<1>15. /\ \A i, j \in DOMAIN r : i < j => r[i].ts <= r[j].ts
       /\ \A t : Count(r, t) = Count(fs, t)
       /\ raw # Null => /\ DOMAIN raw = DOMAIN r
                        /\ \A i \in DOMAIN r : raw[i] # Null => r[i].ok /\ raw[i] = r[i].pic
                        /\ \E i \in DOMAIN r : raw[i] # Null
  BY <1>3, <1>10, <1>11, <1>12, <1>13
<1>16. Aligned(result', fs', TakenWhole')
  BY <1>14, <1>15 DEF Aligned
<1> QED BY <1>16 DEF EvidenceAligned, Aligned, Count

\* processVideo, processImage and buildRawEvidence: "Position i in the array always
\* names the same frame as position i in Frames", for every number of frames and
\* every order their tasks finish or fail in.
THEOREM EvidenceStaysAligned == Spec => []EvidenceAligned
<1>1. Init => EvidenceAligned
  BY DEF Init, EvidenceAligned
<1>2. DiskInv /\ FramesInv /\ ScanInv /\ EvidenceAligned /\ [Next]_vars => EvidenceAligned'
  <2> SUFFICES ASSUME DiskInv, FramesInv, ScanInv, EvidenceAligned, [Next]_vars
               PROVE  EvidenceAligned'
    OBVIOUS
  <2>1. CASE FramesDone
    BY <2>1, FramesDoneAligns
  <2>2. CASE DirectAnswered
    <3>1. PICK raw \in {job.picture, Null} :
            result' = [frames |-> <<Answered(0, job.picture, raw)>>,
                       raw |-> IF raw = Null THEN Null ELSE <<raw>>]
      BY <2>2 DEF DirectAnswered
    <3>2. TakenWhole'
      BY <2>2 DEF DirectAnswered, Direct, TakenWhole
    <3> DEFINE a == Answered(0, job.picture, raw)
    <3>3. a.ok /\ a.pic = job.picture
      BY DEF Answered
    <3> HIDE DEF a
    <3>4. result'.frames = <<a>> /\ result'.raw = IF raw = Null THEN Null ELSE <<raw>>
      BY <3>1 DEF a
    <3>5. \A i, j \in DOMAIN <<a>> : ~ (i < j)
      OBVIOUS
    <3>6. ASSUME result'.raw # Null
          PROVE  /\ DOMAIN result'.raw = DOMAIN <<a>>
                 /\ \A i \in DOMAIN <<a>> : result'.raw[i] # Null => <<a>>[i].ok /\ result'.raw[i] = <<a>>[i].pic
                 /\ \E i \in DOMAIN <<a>> : result'.raw[i] # Null
      <4>1. raw # Null /\ raw = job.picture /\ result'.raw = <<raw>>
        BY <3>1, <3>4, <3>6
      <4> QED BY <4>1, <3>3
    <3> QED BY <3>2, <3>4, <3>5, <3>6 DEF EvidenceAligned
  <2>3. ASSUME UNCHANGED result, pc \notin {"emit", "done"} PROVE EvidenceAligned'
    BY <2>3 DEF ScanInv, EvidenceAligned
  <2>4. ASSUME UNCHANGED <<result, fs, job, conf>> PROVE EvidenceAligned'
    <3>1. Aligned(result, fs, TakenWhole)
      BY DEF EvidenceAligned, Aligned, Count
    <3>2. Aligned(result', fs', TakenWhole')
      BY <3>1, <2>4 DEF TakenWhole
    <3> QED BY <3>2 DEF EvidenceAligned, Aligned, Count
  <2>5. CASE \/ ResolveLocal \/ ResolveUrl \/ Fetching \/ Fetched
             \/ FramesFail \/ FramesStart \/ WorkflowFails \/ WorkflowRuns \/ FramesReturned
             \/ NoFrames \/ SelectFrames
             \/ FrameStarts \/ \E i \in 1..Len(fs) : FrameAnswered(i) \/ FrameFails(i)
             \/ DirectFails
    <3>1. UNCHANGED result /\ pc \notin {"emit", "done"}
      BY <2>5 DEF ResolveLocal, ResolveUrl, Fetching, Fetched, FramesFail, FramesStart,
                  WorkflowFails, WorkflowRuns, FramesReturned, NoFrames, SelectFrames, VideoFails,
                  FrameStarts, FrameAnswered, FrameFails, DirectFails, Direct
    <3> QED BY <3>1, <2>3
  <2>6. ASSUME NEW env, NEW disp, Returns(env, disp) PROVE UNCHANGED <<result, fs, job, conf>>
    BY <2>6 DEF Returns, extractVars
  <2>7. CASE Skips \/ SinkFails \/ AuditFails \/ Recorded \/ Panics
    <3>1. UNCHANGED <<result, fs, job, conf>>
      BY <2>6, <2>7 DEF Skips, SinkFails, AuditFails, Recorded, Panics
    <3> QED BY <3>1, <2>4
  <2>8. CASE Expire \/ UNCHANGED vars
    <3>1. UNCHANGED <<result, fs, job, conf>>
      BY <2>8 DEF Expire, vars, extractVars
    <3> QED BY <3>1, <2>4
  <2> QED BY <2>1, <2>2, <2>5, <2>7, <2>8 DEF Next, Work
<1> QED BY <1>1, <1>2, DiskHolds, FramesHold, ScanHolds, PTL DEF Spec

-----------------------------------------------------------------------------
(* An allow is about the whole video.                                       *)

Dir(n) == sanitizeDirName(Selected(job.workflows)[n])

\* No two of the selected workflows share a directory; where two do, the second
\* overwrites what the first wrote.
DistinctDirs ==
    \A m, n \in 1..Len(Selected(job.workflows)) : Dir(m) = Dir(n) => m = n

\* Every picture is a frame on disk.
OnDisk(pictures, frames, d) ==
    \A p \in pictures : \E i \in 1..Len(frames) : frames[i].path \in DOMAIN d /\ d[frames[i].path] = p

\* Every picture is within a distance of a frame on disk.
Represented(pictures, frames, d, limit) ==
    \A p \in pictures : \E i \in 1..Len(frames) :
        frames[i].path \in DOMAIN d /\ Distance(p, d[frames[i].path]) <= limit

\* Every picture is within a distance of one that was looked at.
Seen(pictures, results, limit) ==
    \A p \in pictures : \E f \in Range(results) : Distance(p, f.pic) <= limit

\* What is left of the pictures from stage to stage: each is a frame of its own
\* until the frames are selected, then near one, and near one that was answered
\* when every frame was.
CoverInv ==
    DistinctDirs =>
        /\ pc = "workflows" =>
              /\ PathsDistinct(fs) /\ OnDisk(produced, fs, disk)
              /\ \A p \in DOMAIN disk : \E n \in 1..ran : p[1] = Dir(n)
              /\ \A i \in 1..Len(fs) : fs[i].path \in DOMAIN disk
        /\ pc = "select" /\ ~cut => PathsDistinct(fs) /\ OnDisk(produced, fs, disk)
        /\ pc = "scan" /\ ~TakenWhole /\ ~cut => Represented(produced, fs, disk, Limit)
        /\ /\ pc \in {"emit", "done"} /\ ~TakenWhole /\ ~cut /\ procErr = "none"
           /\ \A f \in Range(result.frames) : f.ok
           => Seen(produced, result.frames, Limit)

\* One more workflow, in a directory of its own.
LEMMA OneMoreWorkflow ==
    ASSUME NEW frames \in Seq(FrameType), NEW d, Files(d), NEW pictures,
           NEW dir \in Directories, NEW pics \in Seq(Pictures), NEW ts \in Seq(Int),
           \A p \in DOMAIN d : p[1] # dir, PathsDistinct(frames),
           \A i \in 1..Len(frames) : frames[i].path \in DOMAIN d, OnDisk(pictures, frames, d)
    PROVE  LET w == Written(d, dir, pics)
               all == frames \o collect(w, dir, ts)
           IN  /\ PathsDistinct(all) /\ OnDisk(pictures \cup Range(pics), all, w)
               /\ \A i \in 1..Len(all) : all[i].path \in DOMAIN w
               /\ \A p \in DOMAIN w : p \in DOMAIN d \/ p[1] = dir
<1> DEFINE w == Written(d, dir, pics)
           c == collect(w, dir, ts)
           all == frames \o c
           L == Len(frames)
           K == Len(pics)
<1>1. /\ c \in Seq(FrameType) /\ Len(c) = K
      /\ \A n \in 1..K : c[n].path = <<dir, n>> /\ <<dir, n>> \in DOMAIN w /\ w[<<dir, n>>] = pics[n]
      /\ \A p \in DOMAIN d : p \in DOMAIN w /\ w[p] = d[p]
      /\ \A p \in DOMAIN w : p \in DOMAIN d \/ p[1] = dir
  BY FreshDirectory
<1> HIDE DEF w, c
<1>2. L \in Nat /\ K \in Nat
  OBVIOUS
<1>3. /\ Len(all) = L + K
      /\ \A i \in 1..L : all[i] = frames[i]
      /\ \A n \in 1..K : all[L + n] = c[n]
  <2>1. Len(all) = L + Len(c) /\ \A i \in 1..(L + Len(c)) : all[i] = IF i <= L THEN frames[i] ELSE c[i - L]
    <3>1. c \in Seq(FrameType) /\ frames \in Seq(FrameType)
      BY <1>1
    <3> QED BY <3>1, ConcatProperties
  <2>2. ASSUME NEW i \in 1..L PROVE all[i] = frames[i]
    <3>1. i \in 1..(L + K) /\ i <= L
      BY <1>2
    <3> QED BY <3>1, <2>1, <1>1
  <2>3. ASSUME NEW n \in 1..K PROVE all[L + n] = c[n]
    <3>1. L + n \in 1..(L + K) /\ ~ (L + n <= L) /\ (L + n) - L = n
      BY <1>2
    <3> QED BY <3>1, <2>1, <1>1
  <2> QED BY <2>1, <2>2, <2>3, <1>1
<1> HIDE DEF all
<1>4. ASSUME NEW i \in 1..(L + K) PROVE i \in 1..L \/ \E n \in 1..K : i = L + n
  <2>1. CASE i <= L
    BY <2>1, <1>2
  <2>2. CASE i > L
    <3>1. i - L \in 1..K /\ i = L + (i - L)
      BY <2>2, <1>2
    <3> QED BY <3>1
  <2> QED BY <2>1, <2>2, <1>2
<1>5. \A i \in 1..L : all[i].path \in DOMAIN d /\ all[i].path[1] # dir
  BY <1>3
<1>6. ASSUME NEW n \in 1..K PROVE all[L + n].path = <<dir, n>> /\ all[L + n].path[1] = dir
  <2>1. all[L + n] = c[n] /\ c[n].path = <<dir, n>>
    BY <1>1, <1>3
  <2>2. <<dir, n>>[1] = dir
    OBVIOUS
  <2> QED BY <2>1, <2>2
<1>7. \A i \in 1..Len(all) : all[i].path \in DOMAIN w
  <2> SUFFICES ASSUME NEW i \in 1..(L + K) PROVE all[i].path \in DOMAIN w
    BY <1>3
  <2>1. CASE i \in 1..L
    BY <2>1, <1>1, <1>5
  <2>2. ASSUME NEW n \in 1..K, i = L + n PROVE all[i].path \in DOMAIN w
    BY <2>2, <1>1, <1>6
  <2> QED BY <2>1, <2>2, <1>4
<1>8. ASSUME NEW i \in 1..(L + K), NEW j \in 1..(L + K), all[i].path = all[j].path PROVE i = j
  <2>1. CASE i \in 1..L /\ j \in 1..L
    BY <2>1, <1>3, <1>8 DEF PathsDistinct
  <2>2. ASSUME NEW n \in 1..K, i = L + n PROVE i = j
    <3>1. PICK m \in 1..K : j = L + m
      BY <2>2, <1>4, <1>5, <1>6, <1>8
    <3>2. <<dir, n>> = <<dir, m>>
      BY <2>2, <3>1, <1>6, <1>8
    <3> QED BY <2>2, <3>1, <3>2
  <2>3. ASSUME NEW n \in 1..K, j = L + n PROVE i = j
    <3>1. PICK m \in 1..K : i = L + m
      BY <2>3, <1>4, <1>5, <1>6, <1>8
    <3>2. <<dir, n>> = <<dir, m>>
      BY <2>3, <3>1, <1>6, <1>8
    <3> QED BY <2>3, <3>1, <3>2
  <2> QED BY <2>1, <2>2, <2>3, <1>4
<1>9. PathsDistinct(all)
  BY <1>3, <1>8 DEF PathsDistinct
<1>10. ASSUME NEW p \in pictures \cup Range(pics)
       PROVE  \E i \in 1..(L + K) : all[i].path \in DOMAIN w /\ w[all[i].path] = p
  <2>1. CASE p \in pictures
    <3>1. PICK i \in 1..L : frames[i].path \in DOMAIN d /\ d[frames[i].path] = p
      BY <2>1 DEF OnDisk
    <3>2. i \in 1..(L + K)
      BY <1>2
    <3> QED BY <3>1, <3>2, <1>1, <1>3
  <2>2. CASE p \in Range(pics)
    <3>1. PICK n \in 1..K : pics[n] = p
      BY <2>2 DEF Range
    <3>2. L + n \in 1..(L + K)
      BY <1>2
    <3> QED BY <3>1, <3>2, <1>1, <1>6
  <2> QED BY <2>1, <2>2
<1>11. OnDisk(pictures \cup Range(pics), all, w)
  BY <1>3, <1>10 DEF OnDisk
<1> QED BY <1>1, <1>7, <1>9, <1>11 DEF all, w, c

\* Selection keeps every picture near one of the frames, when it cuts none off.
LEMMA SelectionCovers ==
    ASSUME DiskInv, FramesInv, PathsDistinct(fs), NEW pictures, pictures \subseteq Pictures,
           OnDisk(pictures, fs, disk)
    PROVE  Represented(pictures, Deduped.kept, Deduped.disk, Limit)
<1>1. /\ DOMAIN Deduped.disk \subseteq DOMAIN disk
      /\ Deduped.disk = [p \in DOMAIN Deduped.disk |-> disk[p]]
      /\ \A m \in 1..Len(fs) :
            fs[m].path \in DOMAIN disk => Near(Deduped, disk[fs[m].path], disk, Limit)
  BY DedupedCovers DEF FramesInv
<1>2. ASSUME NEW p \in pictures
      PROVE  \E i \in 1..Len(Deduped.kept) :
                /\ Deduped.kept[i].path \in DOMAIN Deduped.disk
                /\ Distance(p, Deduped.disk[Deduped.kept[i].path]) <= Limit
  <2>1. PICK m \in 1..Len(fs) : fs[m].path \in DOMAIN disk /\ disk[fs[m].path] = p
    BY DEF OnDisk
  <2>2. Near(Deduped, p, disk, Limit)
    BY <1>1, <2>1
  <2>3. PICK i \in 1..Len(Deduped.kept) :
            Deduped.kept[i].path \in DOMAIN Deduped.disk /\ Distance(p, disk[Deduped.kept[i].path]) <= Limit
    BY <2>2 DEF Near
  <2>4. Deduped.disk[Deduped.kept[i].path] = disk[Deduped.kept[i].path]
    BY <1>1, <2>3
  <2> QED BY <2>3, <2>4
<1> QED BY <1>2 DEF Represented

\* All frames were answered: what stood for a picture was looked at.
LEMMA ScanCovers ==
    ASSUME DiskInv, FramesInv, ScanInv, FramesDone, NEW limit,
           Represented(produced, fs, disk, limit), \A f \in Range(result'.frames) : f.ok
    PROVE  Seen(produced, result'.frames, limit)
<1> DEFINE N == Len(fs)
<1>1. pc = "scan" /\ ~TakenWhole
  BY DEF FramesDone
<1>2. /\ DOMAIN outcomes = 1..N
      /\ \A i \in 1..N : OutcomeOf(outcomes[i], fs[i], disk)
  BY <1>1 DEF ScanInv
<1> HIDE DEF N
<1>3. PICK order \in ByTimestamp(outcomes) : \E raw :
        result' = [frames |-> [i \in DOMAIN outcomes |-> outcomes[order[i]]], raw |-> raw]
  BY DEF FramesDone
<1>4. result'.frames = [i \in 1..N |-> outcomes[order[i]]]
  BY <1>2, <1>3
<1>5. \A i \in 1..N : \E k \in 1..N : order[k] = i
  BY <1>2, <1>3 DEF ByTimestamp, Bijection, Surjection
<1>6. ASSUME NEW i \in 1..N
      PROVE  outcomes[i] \in Range(result'.frames) /\ outcomes[i].pic = disk[fs[i].path]
  <2>1. PICK k \in 1..N : order[k] = i
    BY <1>5
  <2>2. k \in DOMAIN result'.frames /\ result'.frames[k] = outcomes[i]
    BY <1>4, <2>1
  <2>3. outcomes[i] \in Range(result'.frames)
    BY <2>2 DEF Range
  <2> QED BY <2>3, <1>2 DEF OutcomeOf
<1>7. ASSUME NEW p \in produced PROVE \E f \in Range(result'.frames) : Distance(p, f.pic) <= limit
  <2>1. PICK i \in 1..N : Distance(p, disk[fs[i].path]) <= limit
    BY DEF Represented, N
  <2> QED BY <2>1, <1>6
<1> QED BY <1>7 DEF Seen

\* A step that leaves all of it alone.
LEMMA CoverUntouched ==
    ASSUME CoverInv, UNCHANGED <<fs, disk, ran, produced, cut, job, conf, result, procErr>>,
           pc' = pc \/ (pc = "emit" /\ pc' = "done")
    PROVE  CoverInv'
<1>1. UNCHANGED <<DistinctDirs, TakenWhole, Limit>> /\ \A n : Dir(n)' = Dir(n)
  BY DEF DistinctDirs, Dir, Selected, TakenWhole, Limit, DedupOn
<1> QED BY <1>1 DEF CoverInv, OnDisk, Represented, Seen, PathsDistinct

LEMMA CoverHolds == Spec => []CoverInv
<1>1. Init => CoverInv
  BY DEF Init, CoverInv
<1>2. DiskInv /\ FramesInv /\ ScanInv /\ CoverInv /\ [Next]_vars => CoverInv'
  <2> SUFFICES ASSUME DiskInv, FramesInv, ScanInv, CoverInv, [Next]_vars PROVE CoverInv'
    OBVIOUS
  <2>0. UNCHANGED <<job, conf>>
    BY DEF Next, Work, ResolveLocal, ResolveUrl, Fetching, Fetched, FramesFail, FramesStart,
           WorkflowFails, WorkflowRuns, FramesReturned, NoFrames, SelectFrames, VideoFails,
           FrameStarts, FrameAnswered, FrameFails, FramesDone, DirectAnswered, DirectFails,
           Skips, SinkFails, AuditFails, Recorded, Panics, Returns, Expire, vars
  <2>00. UNCHANGED <<TakenWhole, Limit, DistinctDirs>> /\ Selected(job.workflows)' = Selected(job.workflows)
    BY <2>0 DEF DistinctDirs, Dir, Selected, TakenWhole, Limit, DedupOn
  <2>1. ASSUME pc' \in {"emit", "done"}, procErr' # "none" \/ TakenWhole PROVE CoverInv'
    BY <2>1, <2>00 DEF CoverInv
  <2>2. ASSUME pc' \in {"resolve", "fetch", "frames"} PROVE CoverInv'
    BY <2>2 DEF CoverInv
  <2>3. CASE ResolveLocal \/ Fetched
    <3>1. PICK err \in {"none", "fetch"} : Resolved(err)
      BY <2>3 DEF ResolveLocal, Fetched
    <3>2. job.media \in {"image", "video"} /\ job.metaOk \in BOOLEAN
      BY PipelineAssumption DEF DiskInv, JobOk
    <3>3. /\ pc' \in {"emit", "frames", "scan"}
          /\ pc' = "scan" => TakenWhole
          /\ pc' = "emit" => procErr' # "none"
      BY <3>1, <3>2 DEF Resolved, Analysis, TakenWhole
    <3>4. CASE pc' = "scan"
      BY <3>3, <3>4, <2>00 DEF CoverInv
    <3> QED BY <3>3, <3>4, <2>1, <2>2
  <2>4. CASE ResolveUrl \/ Fetching
    BY <2>4, <2>2 DEF ResolveUrl, Fetching
  <2>5. CASE FramesFail \/ WorkflowFails \/ NoFrames
    <3>1. PICK err \in {"extract", "ffmpeg", "skip", "zero frames"} : VideoFails(err)
      BY <2>5 DEF FramesFail, WorkflowFails, NoFrames
    <3> QED BY <3>1, <2>1 DEF VideoFails
  <2>6. CASE FramesStart
    <3>1. /\ UNCHANGED <<fs, disk, ran, produced>> /\ pc = "frames" /\ pc' = "workflows"
      BY <2>6 DEF FramesStart, FramesBegin
    <3>2. fs' = <<>> /\ disk' = NoFiles /\ produced' = {} /\ DOMAIN NoFiles = {} /\ Len(fs') = 0
      BY <3>1 DEF FramesInv, DiskInv, NoFiles
    <3> QED BY <3>1, <3>2 DEF CoverInv, PathsDistinct, OnDisk
  <2>7. CASE WorkflowRuns
    <3> SUFFICES ASSUME DistinctDirs
                 PROVE  /\ PathsDistinct(fs)' /\ OnDisk(produced, fs, disk)'
                        /\ \A p \in DOMAIN disk' : \E n \in 1..ran' : p[1] = Dir(n)
                        /\ \A i \in 1..Len(fs') : fs'[i].path \in DOMAIN disk'
      <4>1. pc' = "workflows" /\ \A n : Dir(n)' = Dir(n)
        BY <2>7, <2>0 DEF WorkflowRuns, Dir, Selected
      <4> QED BY <4>1, <2>00 DEF CoverInv
    <3> DEFINE name == Selected(job.workflows)[ran + 1]
               out == job.video[name]
               dir == sanitizeDirName(name)
               w == Written(disk, dir, out.pics)
               all == fs \o collect(w, dir, out.ts)
    <3>1. /\ disk' = w /\ fs' = all /\ ran' = ran + 1 /\ produced' = produced \cup Range(out.pics)
          /\ pc = "workflows" /\ ran < Len(Selected(job.workflows))
      BY <2>7 DEF WorkflowRuns, RunWorkflow
    <3>2. ran \in Nat /\ ran + 1 \in 1..Len(Selected(job.workflows))
          /\ \A n \in 1..ran : n \in 1..Len(Selected(job.workflows)) /\ n # ran + 1 /\ n \in 1..(ran + 1)
      <4>1. Len(Selected(job.workflows)) \in Nat
        BY PipelineAssumption DEF DiskInv, JobOk, Selected
      <4>2. ran \in 0..Len(Selected(job.workflows)) /\ ran < Len(Selected(job.workflows))
        BY <3>1 DEF FramesInv
      <4> QED BY ONLY <4>1, <4>2
    <3>3. dir = Dir(ran + 1)
      BY DEF Dir
    <3>4. name \in Workflows
      BY <3>1, <3>2 DEF FramesInv, Known
    <3>5. dir \in Directories /\ out.pics \in Seq(Pictures) /\ out.ts \in Seq(Int)
      BY <3>4, PipelineAssumption DEF DiskInv, JobOk, Directories
    <3>6. \A p \in DOMAIN disk : \E n \in 1..ran : p[1] = Dir(n)
      BY <3>1 DEF CoverInv
    <3> HIDE DEF name, dir, out
    <3>7. ASSUME NEW p \in DOMAIN disk PROVE p[1] # dir
      <4>1. PICK n \in 1..ran : p[1] = Dir(n)
        BY <3>6
      <4> QED BY <4>1, <3>2, <3>3 DEF DistinctDirs
    <3>8. /\ fs \in Seq(FrameType) /\ Files(disk) /\ PathsDistinct(fs) /\ OnDisk(produced, fs, disk)
          /\ \A i \in 1..Len(fs) : fs[i].path \in DOMAIN disk
      BY <3>1 DEF FramesInv, CoverInv
    <3>9. /\ PathsDistinct(all) /\ OnDisk(produced \cup Range(out.pics), all, w)
          /\ \A i \in 1..Len(all) : all[i].path \in DOMAIN w
          /\ \A p \in DOMAIN w : p \in DOMAIN disk \/ p[1] = dir
      BY <3>5, <3>7, <3>8, OneMoreWorkflow
    <3> HIDE DEF w, all
    <3>10. ASSUME NEW p \in DOMAIN w PROVE \E n \in 1..(ran + 1) : p[1] = Dir(n)
      <4>1. CASE p \in DOMAIN disk
        BY <4>1, <3>2, <3>6
      <4>2. CASE p[1] = dir
        <5>1. ran + 1 \in 1..(ran + 1)
          BY <3>2
        <5> QED BY <4>2, <5>1, <3>3
      <4> QED BY <4>1, <4>2, <3>9
    <3>11. PathsDistinct(fs)' /\ OnDisk(produced, fs, disk)'
      BY <3>1, <3>9 DEF PathsDistinct, OnDisk
    <3> QED BY <3>1, <3>9, <3>10, <3>11
  <2>8. CASE FramesReturned
    <3> SUFFICES ASSUME DistinctDirs, ~cut' PROVE PathsDistinct(fs)' /\ OnDisk(produced, fs, disk)'
      <4>1. pc' = "select"
        BY <2>8 DEF FramesReturned
      <4> QED BY <4>1, <2>00 DEF CoverInv
    <3> DEFINE keep == IF Len(fs) > conf.budget THEN conf.budget ELSE Len(fs)
    <3>1. /\ disk' = Without(disk, PathsOf(SubSeq(fs, keep + 1, Len(fs))))
          /\ fs' = SubSeq(fs, 1, keep) /\ UNCHANGED produced /\ pc = "workflows"
          /\ ~ (keep < Len(fs))
      BY <2>8 DEF FramesReturned, FramesEnd
    <3>2. Len(fs) \in Nat /\ conf.budget \in Nat /\ fs \in Seq(FrameType)
      BY PipelineAssumption DEF DiskInv, SetupType, FramesInv
    <3>3. keep = Len(fs)
      BY <3>1, <3>2
    <3> HIDE DEF keep
    <3>4. fs' = fs
      BY <3>1, <3>2, <3>3, SubSeqFull
    <3>5. SubSeq(fs, keep + 1, Len(fs)) = <<>>
      <4>1. keep + 1 \in Int /\ Len(fs) \in Int /\ Len(fs) < keep + 1
        BY <3>2, <3>3
      <4> QED BY <4>1, SubSeqEmpty
    <3>6. PathsOf(<<>>) = {}
      BY DEF PathsOf
    <3>7. disk = [p \in DOMAIN disk |-> disk[p]]
      BY DEF FramesInv, Files
    <3>8. disk' = disk
      BY <3>1, <3>5, <3>6, <3>7 DEF Without
    <3> QED BY <3>1, <3>4, <3>8 DEF CoverInv, PathsDistinct, OnDisk
  <2>9. CASE SelectFrames
    <3> SUFFICES ASSUME DistinctDirs, ~cut' PROVE Represented(produced, fs, disk, Limit)'
      <4>1. pc' = "scan"
        BY <2>9 DEF SelectFrames
      <4> QED BY <4>1, <2>00 DEF CoverInv
    <3> DEFINE n == IF conf.maxScan > 0 /\ Len(Deduped.kept) > conf.maxScan
                    THEN conf.maxScan ELSE Len(Deduped.kept)
    <3>1. /\ disk' = Deduped.disk /\ fs' = SubSeq(Deduped.kept, 1, n) /\ UNCHANGED produced
          /\ pc = "select" /\ ~cut /\ ~ (n < Len(Deduped.kept))
      BY <2>9 DEF SelectFrames, Deduped
    <3>2. Deduped.kept \in Seq(FrameType) /\ Len(Deduped.kept) \in Nat
      BY DedupedCovers DEF FramesInv
    <3>3. n = Len(Deduped.kept)
      <4>1. conf.maxScan \in Nat
        BY PipelineAssumption DEF DiskInv, SetupType
      <4> QED BY <4>1, <3>1, <3>2
    <3> HIDE DEF n
    <3>4. fs' = Deduped.kept
      BY <3>1, <3>2, <3>3, SubSeqFull
    <3>5. PathsDistinct(fs) /\ OnDisk(produced, fs, disk) /\ produced \subseteq Pictures
      BY <3>1 DEF CoverInv, FramesInv
    <3>6. Represented(produced, Deduped.kept, Deduped.disk, Limit)
      BY <3>5, SelectionCovers
    <3>7. Represented(produced', fs', disk', Limit')
      BY <3>1, <3>4, <3>6, <2>00
    <3> QED BY <3>7 DEF Represented
  <2>10. CASE FrameStarts \/ \E i \in 1..Len(fs) : FrameAnswered(i) \/ FrameFails(i)
    <3>1. UNCHANGED <<fs, disk, ran, produced, cut, result, procErr, pc>>
      BY <2>10 DEF FrameStarts, FrameAnswered, FrameFails, extractVars
    <3> QED BY <3>1, <2>0, CoverUntouched
  <2>11. CASE FramesDone
    <3> SUFFICES ASSUME DistinctDirs, ~TakenWhole, ~cut', \A f \in Range(result'.frames) : f.ok
                 PROVE  Seen(produced, result.frames, Limit)'
      <4>1. pc' = "emit"
        BY <2>11 DEF FramesDone
      <4> QED BY <4>1, <2>00 DEF CoverInv
    <3>1. UNCHANGED <<produced, cut>> /\ pc = "scan"
      BY <2>11 DEF FramesDone
    <3>2. Represented(produced, fs, disk, Limit)
      BY <3>1 DEF CoverInv
    <3>3. Seen(produced, result'.frames, Limit)
      BY <3>2, <2>11, ScanCovers
    <3>4. Seen(produced', result'.frames, Limit')
      BY <3>1, <3>3, <2>00
    <3> QED BY <3>4 DEF Seen
  <2>12. CASE DirectAnswered \/ DirectFails \/ Panics
    <3>1. pc' \in {"emit", "done"} /\ TakenWhole
      BY <2>12 DEF DirectAnswered, DirectFails, Panics, Direct, Returns
    <3> QED BY <3>1, <2>1
  <2>13. CASE Skips \/ SinkFails \/ AuditFails \/ Recorded
    <3>1. PICK env, disp : Returns(env, disp)
      BY <2>13 DEF Skips, SinkFails, AuditFails, Recorded
    <3>2. /\ UNCHANGED <<fs, disk, ran, produced, cut, job, conf, result, procErr>>
          /\ pc = "emit" /\ pc' = "done"
      BY <3>1, <2>13 DEF Skips, SinkFails, AuditFails, Recorded, Returns, extractVars
    <3> QED BY <3>2, CoverUntouched
  <2>14. CASE Expire \/ UNCHANGED vars
    <3>1. UNCHANGED <<fs, disk, ran, produced, cut, result, procErr, pc>>
      BY <2>14 DEF Expire, vars, extractVars
    <3> QED BY <3>1, <2>0, CoverUntouched
  <2> QED
    BY <2>3, <2>4, <2>5, <2>6, <2>7, <2>8, <2>9, <2>10, <2>11, <2>12, <2>13, <2>14
       DEF Next, Work
<1> QED BY <1>1, <1>2, DiskHolds, FramesHold, ScanHolds, PTL DEF Spec

\* What Rollup makes of the frames is one of its verdicts, and an allow only when
\* the analysis got through, no frame failed and none is over a threshold.
LEMMA VerdictSays ==
    ASSUME ScanInv
    PROVE  /\ Verdict \in {"block", "error", "flag", "allow"}
           /\ Verdict = "allow" =>
                /\ procErr = "none"
                /\ \A f \in Range(result.frames) : f.ok /\ f.class \in {"clean", "noscore"}
<1> DEFINE S == Range(IF procErr = "none" THEN result.frames ELSE <<Failed(0)>>)
           V(T) == CASE \E f \in T : f.class = "block" -> "block"
                     [] /\ \A f \in T : f.class # "block"
                        /\ (\E f \in T : ~f.ok) \/ \A f \in T : f.class = "noscore" -> "error"
                     [] OTHER -> IF \E f \in T : f.class = "flag" THEN "flag" ELSE "allow"
<1>1. Verdict = V(S)
  BY DEF Verdict
<1>2. ASSUME NEW T
      PROVE  /\ V(T) \in {"block", "error", "flag", "allow"}
             /\ V(T) = "allow" => \A f \in T : f.ok /\ f.class # "block" /\ f.class # "flag"
  OBVIOUS
<1>3. ASSUME procErr # "none" PROVE Failed(0) \in S /\ ~ Failed(0).ok
  <2>1. S = Range(<<Failed(0)>>)
    BY <1>3
  <2>2. 1 \in DOMAIN <<Failed(0)>> /\ <<Failed(0)>>[1] = Failed(0)
    OBVIOUS
  <2>3. Failed(0) \in Range(<<Failed(0)>>)
    BY <2>2 DEF Range
  <2> QED BY <2>1, <2>3 DEF Failed
<1>4. ASSUME procErr = "none" PROVE S = Range(result.frames)
  BY <1>4
<1>5. ASSUME NEW f \in Range(result.frames) PROVE f.class \in Classes
  BY DEF ScanInv, OutcomeType, Range
<1> HIDE DEF S, V
<1> QED BY <1>1, <1>2, <1>3, <1>4, <1>5 DEF Classes

\* An allow that was handed on is the verdict of what was found.
EnvelopeInv ==
    /\ pc # "done" => envelope = "none"
    /\ envelope \in {"none", "block", "error", "flag", "allow"}
    /\ envelope = "allow" => pc = "done" /\ Verdict = "allow"

LEMMA EnvelopeHolds == Spec => []EnvelopeInv
<1>1. Init => EnvelopeInv
  BY DEF Init, EnvelopeInv
<1>2. ScanInv /\ EnvelopeInv /\ [Next]_vars => EnvelopeInv'
  <2> SUFFICES ASSUME ScanInv, EnvelopeInv, [Next]_vars PROVE EnvelopeInv'
    OBVIOUS
  <2>1. ASSUME UNCHANGED envelope, pc # "done" PROVE EnvelopeInv'
    BY <2>1 DEF EnvelopeInv
  <2>2. CASE \/ ResolveLocal \/ ResolveUrl \/ Fetching \/ Fetched
             \/ FramesFail \/ FramesStart \/ WorkflowFails \/ WorkflowRuns \/ FramesReturned
             \/ NoFrames \/ SelectFrames
             \/ FrameStarts \/ \E i \in 1..Len(fs) : FrameAnswered(i) \/ FrameFails(i)
             \/ FramesDone \/ DirectAnswered \/ DirectFails \/ Expire
    <3>1. UNCHANGED envelope /\ pc # "done"
      BY <2>2 DEF ResolveLocal, ResolveUrl, Fetching, Fetched, FramesFail, FramesStart,
                  WorkflowFails, WorkflowRuns, FramesReturned, NoFrames, SelectFrames, VideoFails,
                  FrameStarts, FrameAnswered, FrameFails, FramesDone, DirectAnswered, DirectFails,
                  Direct, Expire
    <3> QED BY <3>1, <2>1
  <2>3. CASE Skips \/ SinkFails \/ AuditFails \/ Recorded \/ Panics
    <3>1. PICK env \in {"none", Verdict} : \E disp : Returns(env, disp)
      BY <2>3 DEF Skips, SinkFails, AuditFails, Recorded, Panics
    <3>2. envelope' = env /\ pc' = "done" /\ UNCHANGED <<procErr, result>>
      BY <3>1 DEF Returns
    <3>3. Verdict' = Verdict
      BY <3>2 DEF Verdict
    <3>4. Verdict \in {"block", "error", "flag", "allow"}
      BY VerdictSays
    <3> QED BY <3>1, <3>2, <3>3, <3>4 DEF EnvelopeInv
  <2>4. CASE UNCHANGED vars
    <3>1. UNCHANGED <<envelope, pc, procErr, result>>
      BY <2>4 DEF vars
    <3>2. Verdict' = Verdict
      BY <3>1 DEF Verdict
    <3> QED BY <3>1, <3>2 DEF EnvelopeInv
  <2> QED BY <2>2, <2>3, <2>4 DEF Next, Work
<1> QED BY <1>1, <1>2, ScanHolds, PTL DEF Spec

\* Frames: "the result is the union of their frames" (ffmpeg.go:58-59), provided
\* no two selected workflows share a directory: every picture one of them wrote is a
\* frame on disk when the workflows are through, unless a cap cut frames off.
THEOREM FramesAreTheUnion == Spec => [](DistinctDirs => FramesAreUnion)
<1>1. CoverInv => (DistinctDirs => FramesAreUnion)
  <2> SUFFICES ASSUME CoverInv, DistinctDirs, pc = "select", ~cut PROVE FramesAreUnion
    BY DEF FramesAreUnion
  <2>1. OnDisk(produced, fs, disk)
    BY DEF CoverInv
  <2> QED
    BY <2>1 DEF OnDisk, FramesAreUnion
<1> QED BY <1>1, CoverHolds, PTL

\* ProcessJob, Frames and Dedup: an allow that went out is about every picture any
\* selected workflow extracted, within the operator's dedup threshold, unless a cap
\* cut frames off; for every video, configuration and threshold a job asks for,
\* provided its workflows have directories of their own.
THEOREM AllowCoversTheVideo == Spec => [](DistinctDirs => AllowMeansCovered)
<1>1. ScanInv /\ CoverInv /\ EnvelopeInv /\ DistinctDirs => AllowMeansCovered
  <2> SUFFICES ASSUME ScanInv, CoverInv, EnvelopeInv, DistinctDirs, envelope = "allow", ~TakenWhole
               PROVE  /\ \A f \in Range(result.frames) : f.ok /\ f.class \in {"clean", "noscore"}
                      /\ ~cut => Seen(produced, result.frames, Limit)
    BY DEF AllowMeansCovered, Seen, Limit
  <2>1. pc = "done" /\ Verdict = "allow"
    BY DEF EnvelopeInv
  <2>2. procErr = "none" /\ \A f \in Range(result.frames) : f.ok /\ f.class \in {"clean", "noscore"}
    BY <2>1, VerdictSays
  <2> QED BY <2>1, <2>2 DEF CoverInv
<1> QED BY <1>1, ScanHolds, CoverHolds, EnvelopeHolds, PTL

-----------------------------------------------------------------------------
(* Types.                                                                   *)

\* The rest of the types; an attempt that waits for the next has one left.
RestInv ==
    /\ expired \in BOOLEAN /\ spent \in BOOLEAN
    /\ workDir \in BOOLEAN /\ fetchDir \in BOOLEAN /\ cut \in BOOLEAN
    /\ attempt \in 0..MaxFetches
    /\ fetchPc = "backoff" => attempt < MaxFetches
    /\ disposition \in {"none", "ack", "retry", "dead_letter"}

\* The number of the attempt stays within max_attempts.
LEMMA AttemptsBounded ==
    ASSUME FetchInv, RestInv, Fetching
    PROVE  /\ attempt' \in 0..MaxFetches /\ spent' = FALSE
           /\ fetchPc' = "backoff" => attempt' < MaxFetches
<1>0. spent = FALSE /\ FetchStep(job.url)
  BY DEF Fetching, FetchInv
<1>1. MaxFetches \in Nat \ {0} /\ attempt \in 0..MaxFetches
  BY FetchAssumption DEF RestInv
<1>2. CASE BeginFetch(job.url)
  <2>1. attempt' \in {1, attempt} /\ fetchPc' \in {"get", "done"} /\ UNCHANGED spent
    BY <1>2 DEF BeginFetch, FetchReturns
  <2> QED BY <2>1, <1>0, <1>1
<1>3. CASE GetFails(job.url) \/ BodyRefused
  <2>1. PICK e : e # NoError /\ AttemptFails(e)
    BY <1>3, FailuresAreErrors
  <2>2. attempt' = attempt /\ spent' = FALSE /\ (fetchPc' = "backoff" => attempt < MaxFetches)
    BY <2>1, <1>0, AttemptFailsLeaves
  <2> QED BY <2>2, <1>1
<1>4. CASE GetAnswered(job.url) \/ BodyArrives \/ BodyTaken
  <2>1. UNCHANGED <<attempt, spent>> /\ fetchPc' \in {"body", "done"}
    BY <1>4 DEF GetAnswered, BodyArrives, BodyTaken, FetchReturns
  <2> QED BY <2>1, <1>0, <1>1
<1>5. CASE BackoffOver
  <2>1. /\ attempt' \in {attempt, attempt + 1} /\ fetchPc' \in {"get", "done"}
        /\ UNCHANGED spent /\ fetchPc = "backoff"
    BY <1>5 DEF BackoffOver, FetchReturns
  <2>2. attempt < MaxFetches
    BY <2>1 DEF RestInv
  <2> QED BY <2>1, <2>2, <1>0, <1>1
<1> QED BY <1>0, <1>2, <1>3, <1>4, <1>5 DEF FetchStep

LEMMA RestHolds == Spec => []RestInv
<1>1. Init => RestInv
  <2> SUFFICES ASSUME Init PROVE RestInv
    OBVIOUS
  <2>1. /\ expired = FALSE /\ spent = FALSE /\ workDir = FALSE /\ fetchDir = FALSE /\ cut = FALSE
        /\ attempt = 0 /\ fetchPc = "idle" /\ disposition = "none"
    BY DEF Init, FetchInit, ExtractInit
  <2>2. attempt \in 0..MaxFetches
    BY <2>1, FetchAssumption
  <2> QED BY <2>1, <2>2 DEF RestInv
<1>2. FetchInv /\ RestInv /\ [Next]_vars => RestInv'
  <2> SUFFICES ASSUME FetchInv, RestInv, [Next]_vars PROVE RestInv'
    OBVIOUS
  <2>1. CASE Fetching
    <3>1. /\ attempt' \in 0..MaxFetches /\ spent' = FALSE
          /\ fetchPc' = "backoff" => attempt' < MaxFetches
      BY <2>1, AttemptsBounded
    <3>2. UNCHANGED <<workDir, fetchDir, cut, disposition>>
      BY <2>1 DEF Fetching, extractVars
    <3>3. UNCHANGED expired
      <4>1. CASE GetFails(job.url) \/ BodyRefused
        BY <4>1, FailuresAreErrors
      <4>2. CASE \/ BeginFetch(job.url) \/ GetAnswered(job.url) \/ BodyArrives \/ BodyTaken
                 \/ BackoffOver
        BY <4>2 DEF BeginFetch, GetAnswered, BodyArrives, BodyTaken, BackoffOver
      <4> QED BY <2>1, <4>1, <4>2 DEF Fetching, FetchStep
    <3> QED BY <3>1, <3>2, <3>3 DEF RestInv
  <2>2. ASSUME UNCHANGED <<expired, spent, attempt, fetchPc, disposition>>,
               workDir' \in BOOLEAN, fetchDir' \in BOOLEAN, cut' \in BOOLEAN
        PROVE  RestInv'
    BY <2>2 DEF RestInv
  <2>3. CASE \/ ResolveLocal \/ Fetched \/ FrameStarts \/ DirectAnswered \/ DirectFails
             \/ \E i \in 1..Len(fs) : FrameAnswered(i) \/ FrameFails(i)
    <3>1. UNCHANGED <<expired, spent, attempt, fetchPc, disposition, workDir, fetchDir, cut>>
      BY <2>3 DEF ResolveLocal, Fetched, FrameStarts, DirectAnswered, DirectFails, FrameAnswered,
                  FrameFails, extractVars, fetchVars
    <3> QED BY <3>1, <2>2 DEF RestInv
  <2>4. CASE ResolveUrl
    <3>1. /\ UNCHANGED <<expired, spent, attempt, fetchPc, disposition, workDir, cut>>
          /\ fetchDir' = TRUE
      BY <2>4 DEF ResolveUrl, extractVars, fetchVars
    <3> QED BY <3>1, <2>2 DEF RestInv
  <2>5. ASSUME NEW err, VideoFails(err) PROVE RestInv'
    <3>1. /\ UNCHANGED <<expired, spent, attempt, fetchPc, disposition, fetchDir, cut>>
          /\ workDir' = FALSE
      BY <2>5 DEF VideoFails, RemoveWorkDir, fetchVars
    <3> QED BY <3>1, <2>2 DEF RestInv
  <2>6. CASE FramesStart \/ WorkflowRuns \/ FramesDone
    <3>1. /\ UNCHANGED <<expired, spent, attempt, fetchPc, disposition, fetchDir, cut>>
          /\ workDir' \in {TRUE, FALSE, workDir}
      BY <2>6 DEF FramesStart, FramesBegin, WorkflowRuns, RunWorkflow, FramesDone, RemoveWorkDir,
                  fetchVars
    <3>2. workDir' \in BOOLEAN
      BY <3>1 DEF RestInv
    <3> QED BY <3>1, <3>2, <2>2 DEF RestInv
  <2>7. CASE FramesReturned \/ SelectFrames
    <3>1. UNCHANGED <<expired, spent, attempt, fetchPc, disposition, fetchDir, workDir>>
      BY <2>7 DEF FramesReturned, FramesEnd, SelectFrames, fetchVars
    <3>2. cut' \in BOOLEAN
      BY <2>7, Zenon DEF FramesReturned, FramesEnd, SelectFrames
    <3> QED BY <3>1, <3>2, <2>2 DEF RestInv
  <2>8. ASSUME NEW env, NEW disp \in {"ack", "retry", "dead_letter"}, Returns(env, disp)
        PROVE  RestInv'
    <3>1. /\ UNCHANGED <<expired, attempt, fetchPc, workDir, cut>> /\ disposition' = disp
          /\ spent' = TRUE /\ fetchDir' = FALSE
      BY <2>8 DEF Returns, SourceCleanup, extractVars
    <3> QED BY <3>1 DEF RestInv
  <2>9. CASE Skips \/ SinkFails \/ AuditFails \/ Recorded \/ Panics
    BY <2>8, <2>9 DEF Skips, SinkFails, AuditFails, Recorded, Panics
  <2>10. CASE Expire \/ UNCHANGED vars
    <3>1. /\ UNCHANGED <<spent, attempt, fetchPc, disposition, workDir, fetchDir, cut>>
          /\ expired' \in {TRUE, expired}
      BY <2>10 DEF Expire, vars, extractVars, fetchVars
    <3> QED BY <3>1 DEF RestInv
  <2> QED
    BY <2>1, <2>3, <2>4, <2>5, <2>6, <2>7, <2>9, <2>10
       DEF Next, Work, FramesFail, WorkflowFails, NoFrames
<1> QED BY <1>1, <1>2, FetchHolds, PTL DEF Spec

\* The type of every variable of ProcessJob; the download makes at most max_attempts
\* attempts and copies at most a byte more than max_bytes.
THEOREM TypeCorrect == Spec => []TypeOK
<1>1. DiskInv /\ FetchInv /\ FramesInv /\ ScanInv /\ EnvelopeInv /\ RestInv => TypeOK
  <2> SUFFICES ASSUME DiskInv, FetchInv, FramesInv, ScanInv, EnvelopeInv, RestInv PROVE TypeOK
    OBVIOUS
  <2>1. \A p \in DOMAIN disk : disk[p] \in Pictures
    BY DEF FramesInv, Files
  <2>2. ran \in 0..Len(Selected(job.workflows)) /\ produced \subseteq Pictures
    BY DEF FramesInv
  <2>3. ASSUME NEW i \in DOMAIN outcomes
        PROVE  /\ outcomes[i].at \in {"todo", "running", "done"}
               /\ outcomes[i].ok \in BOOLEAN /\ outcomes[i].class \in Classes
    <3>1. outcomes[i] \in OutcomeType
      BY DEF ScanInv
    <3> QED BY <3>1, Zenon DEF OutcomeType
  <2>4. /\ pc \in Stages /\ envelope \in {"none", "block", "error", "flag", "allow"}
        /\ disposition \in {"none", "ack", "retry", "dead_letter"}
    BY DEF DiskInv, EnvelopeInv, RestInv
  <2>5. /\ fetchPc \in {"idle", "get", "body", "backoff", "done"}
        /\ file.bytes \in 0..(MaxBytes + 1) /\ file.state \in {"absent", "partial", "broken", "copied"}
        /\ origin \in Addresses \cup {"none"} /\ attempt \in 0..MaxFetches
    BY DEF FetchInv, RestInv
  <2>6. /\ expired \in BOOLEAN /\ spent \in BOOLEAN
        /\ workDir \in BOOLEAN /\ fetchDir \in BOOLEAN /\ cut \in BOOLEAN
    BY DEF RestInv
  <2> QED BY <2>1, <2>2, <2>3, <2>4, <2>5, <2>6, Zenon DEF TypeOK, Stages
<1> QED BY <1>1, DiskHolds, FetchHolds, FramesHold, ScanHolds, EnvelopeHolds, RestHolds, PTL

=============================================================================
