------------------------------ MODULE Pipeline ------------------------------
(***************************************************************************)
(* pipeline.ProcessJob for one job, from its source to its disposition: the *)
(* download (Fetch), frame extraction and deduplication (Extraction), the   *)
(* concurrent evaluation of the frames, the result and the evidence put     *)
(* together from their outcomes, and what is left on disk when it returns.  *)
(*                                                                          *)
(* The moderator is external: it answers with the class of the picture, or  *)
(* fails, or panics.  A class stands for what thresholds make of the scores *)
(* (Rollup); what sinks and audit do in detail is in Delivery.              *)
(***************************************************************************)
EXTENDS Fetch, Extraction

CONSTANTS
    Jobs,          \* what may be submitted
    Setups,        \* configurations
    Class,         \* picture -> "block", "flag", "clean" or "noscore"
    Oversize,      \* pictures over the adapter's limit
    Null

Classes == {"block", "flag", "clean", "noscore"}

\* A job: its kind and media type, whether its metadata is valid, its URL, the
\* picture (a still, or a video taken whole), what each workflow makes of its
\* video, the workflows selected, and its own dedup_threshold or Null.
JobFields ==
    {"kind", "media", "metaOk", "url", "picture", "video", "workflows", "dedup"}

\* A configuration: is a fetcher wired, does the adapter take videos, the
\* extraction budget, deduplication and its threshold, max_frames,
\* concurrency, and allow_empty_video_skip.
SetupType ==
    [fetcher : BOOLEAN, native : BOOLEAN, budget : Nat \ {0}, dedup : BOOLEAN,
     ceiling : 0..64, maxScan : Nat, workers : Nat, skipEmpty : BOOLEAN]

\* ffmpeg writes pictures, and logs a timestamp for some of them.
JobOk(j) ==
    /\ DOMAIN j = JobFields
    /\ j.kind \in {"file", "url"} /\ j.media \in {"image", "video"} /\ j.metaOk \in BOOLEAN
    /\ j.picture \in Pictures /\ j.dedup \in Int \cup {Null}
    /\ j.workflows \in Seq(ToSet(j.workflows))
    /\ \A w \in Workflows : j.video[w].pics \in Seq(Pictures) /\ j.video[w].ts \in Seq(Int)

ASSUME PipelineAssumption ==
    /\ \A j \in Jobs : JobOk(j)
    /\ Pictures \subseteq Nat
    /\ Setups \subseteq SetupType
    /\ Class \in [Pictures -> Classes] /\ Oversize \subseteq Pictures
    /\ Undecodable \subseteq Pictures /\ Null \notin Pictures

VARIABLES
    job, conf,
    pc,        \* "resolve", "fetch", "frames", "workflows", "select", "scan", "emit" or "done"
    fetchDir,  \* the download directory exists
    outcomes,  \* per frame: "todo", "running", or "done" and what came of it
    procErr,   \* "none", "skip" or the error that ended the analysis
    result,    \* the frame results and the raw evidence
    envelope,  \* the verdict of what was handed to the sinks and the audit log
    disposition

vars == <<expired, fetchVars, extractVars, job, conf, pc, fetchDir, outcomes, procErr, result,
          envelope, disposition>>

\* A result with the evidence behind it; pic: what was read from disk.
Answered(ts, pic, raw) ==
    [at |-> "done", ts |-> ts, ok |-> TRUE, class |-> Class[pic], pic |-> pic, raw |-> raw]
Failed(ts) ==
    [at |-> "done", ts |-> ts, ok |-> FALSE, class |-> "noscore", pic |-> Null, raw |-> Null]

NoResult == [frames |-> <<>>, raw |-> Null]

Init ==
    /\ FetchInit /\ ExtractInit
    /\ job \in Jobs /\ conf \in Setups
    /\ pc = "resolve" /\ fetchDir = FALSE
    /\ outcomes = <<>> /\ procErr = "none" /\ result = NoResult
    /\ envelope = "none" /\ disposition = "none"

\* job_timeout or shutdown, at any time.
Expire ==
    /\ ~expired /\ pc # "done"
    /\ expired' = TRUE
    /\ UNCHANGED <<fetchVars, extractVars, job, conf, pc, fetchDir, outcomes, procErr, result,
                   envelope, disposition>>

-----------------------------------------------------------------------------
(* resolveSource                                                            *)

\* Where the switch of ProcessJob goes once the source is there.
Analysis ==
    CASE ~job.metaOk -> "emit"
      [] job.metaOk /\ job.media = "video" /\ ~conf.native -> "frames"
      [] OTHER -> "scan"

\* With invalid metadata the job is over, though its source is resolved.
Resolved(err) ==
    /\ procErr' = IF ~job.metaOk THEN "metadata" ELSE err
    /\ pc' = IF err = "none" THEN Analysis ELSE "emit"

ResolveLocal ==
    /\ pc = "resolve"
    /\ \/ job.kind = "file" /\ Resolved("none")
       \/ job.kind = "url" /\ Resolved("fetch")   \* no fetcher, or no directory
    /\ UNCHANGED <<expired, fetchVars, extractVars, job, conf, fetchDir, outcomes, result,
                   envelope, disposition>>

ResolveUrl ==
    /\ pc = "resolve"
    /\ job.kind = "url" /\ conf.fetcher
    /\ fetchDir' = TRUE
    /\ pc' = "fetch"
    /\ UNCHANGED <<expired, fetchVars, extractVars, job, conf, outcomes, procErr, result,
                   envelope, disposition>>

Fetching ==
    /\ pc = "fetch"
    /\ FetchStep(job.url)
    /\ UNCHANGED <<extractVars, job, conf, pc, fetchDir, outcomes, procErr, result, envelope,
                   disposition>>

Fetched ==
    /\ pc = "fetch" /\ fetchPc = "done"
    /\ Resolved(IF fetchErr = NoError THEN "none" ELSE "fetch")
    /\ UNCHANGED <<expired, fetchVars, extractVars, job, conf, fetchDir, outcomes, result,
                   envelope, disposition>>

-----------------------------------------------------------------------------
(* processVideo: extraction and selection                                   *)

\* An error ends processVideo; its deferred cleanup removes the directory.
VideoFails(err) ==
    /\ procErr' = err /\ pc' = "emit"
    /\ RemoveWorkDir
    /\ UNCHANGED <<expired, fetchVars, fs, ran, produced, cut, job, conf, fetchDir, outcomes,
                   result, envelope, disposition>>

\* An unknown workflow, no directory, or an input ffprobe does not read.
FramesFail == pc = "frames" /\ VideoFails("extract")

FramesStart ==
    /\ pc = "frames"
    /\ FramesBegin(job.workflows)
    /\ pc' = "workflows"
    /\ UNCHANGED <<expired, fetchVars, job, conf, fetchDir, outcomes, procErr, result, envelope,
                   disposition>>

\* ffmpeg exits with an error, or its timeout or the job's kills it.
WorkflowFails == pc = "workflows" /\ ran < Len(Selected(job.workflows)) /\ VideoFails("ffmpeg")

WorkflowRuns ==
    /\ pc = "workflows"
    /\ ran < Len(Selected(job.workflows))
    /\ LET name == Selected(job.workflows)[ran + 1]
       IN  RunWorkflow(name, job.video[name], conf.budget)
    /\ UNCHANGED <<expired, fetchVars, job, conf, pc, fetchDir, outcomes, procErr, result,
                   envelope, disposition>>

FramesReturned ==
    /\ pc = "workflows"
    /\ FramesEnd(job.workflows, conf.budget)
    /\ pc' = "select"
    /\ UNCHANGED <<expired, fetchVars, job, conf, fetchDir, outcomes, procErr, result, envelope,
                   disposition>>

NoFrames ==
    /\ pc = "select" /\ fs = <<>>
    /\ VideoFails(IF conf.skipEmpty THEN "skip" ELSE "zero frames")

\* A job may turn deduplication on or off, never past the ceiling.
DedupOn == IF job.dedup = Null THEN conf.dedup ELSE job.dedup >= 0
AsRequested == IF job.dedup = Null THEN conf.ceiling ELSE job.dedup
Threshold ==
    IF job.dedup = Null \/ job.dedup > conf.ceiling THEN conf.ceiling ELSE job.dedup

SelectFrames ==
    /\ pc = "select" /\ fs # <<>>
    /\ LET d == IF DedupOn THEN Dedup(fs, Threshold, disk) ELSE [kept |-> fs, disk |-> disk]
           n == IF conf.maxScan > 0 /\ Len(d.kept) > conf.maxScan
                THEN conf.maxScan ELSE Len(d.kept)
       IN  /\ disk' = d.disk
           /\ fs' = SubSeq(d.kept, 1, n)
           /\ cut' = (cut \/ n < Len(d.kept))
           /\ outcomes' = [i \in 1..n |-> [Failed(0) EXCEPT !.at = "todo"]]
    /\ pc' = "scan"
    /\ UNCHANGED <<expired, fetchVars, workDir, ran, produced, job, conf, fetchDir, procErr,
                   result, envelope, disposition>>

-----------------------------------------------------------------------------
(* The fan-out, evaluateFrame and what is made of the outcomes              *)

AsConfigured == conf.workers
concurrency == IF conf.workers > 0 THEN conf.workers ELSE 4

TakenWhole == job.media = "image" \/ conf.native

Running == {i \in DOMAIN outcomes : outcomes[i].at = "running"}

\* g.Go, in the order of the frames, blocks at the limit.
FrameStarts ==
    /\ pc = "scan" /\ ~TakenWhole
    /\ Cardinality(Running) < concurrency
    /\ \E i \in DOMAIN outcomes :
          /\ outcomes[i].at = "todo"
          /\ \A j \in 1..(i - 1) : outcomes[j].at # "todo"
          /\ outcomes' = [outcomes EXCEPT ![i].at = "running"]
    /\ UNCHANGED <<expired, fetchVars, extractVars, job, conf, pc, fetchDir, procErr, result,
                   envelope, disposition>>

\* The file is read, is not over the limit, and the moderator answers, with
\* a raw response or without.
FrameAnswered(i) ==
    /\ pc = "scan" /\ i \in Running
    /\ fs[i].path \in DOMAIN disk /\ disk[fs[i].path] \notin Oversize
    /\ \E raw \in {disk[fs[i].path], Null} :
          outcomes' = [outcomes EXCEPT ![i] = Answered(fs[i].ts, disk[fs[i].path], raw)]
    /\ UNCHANGED <<expired, fetchVars, extractVars, job, conf, pc, fetchDir, procErr, result,
                   envelope, disposition>>

\* Unreadable, oversize, refused, cancelled, answered with no frame, or the
\* task panicked: this frame has failed, its siblings go on.
FrameFails(i) ==
    /\ pc = "scan" /\ i \in Running
    /\ outcomes' = [outcomes EXCEPT ![i] = Failed(fs[i].ts)]
    /\ UNCHANGED <<expired, fetchVars, extractVars, job, conf, pc, fetchDir, procErr, result,
                   envelope, disposition>>

\* The stable order by timestamp, as positions in the outcomes: there is one.
ByTimestamp(os) ==
    {order \in Bijection(DOMAIN os, DOMAIN os) :
        \A i, j \in DOMAIN os : i < j =>
            \/ os[order[i]].ts < os[order[j]].ts
            \/ os[order[i]].ts = os[order[j]].ts /\ order[i] < order[j]}

AnsweredOnly(os) == SelectSeq(os, LAMBDA o : o.raw # Null)
SkippingFailed(os) ==
    IF AnsweredOnly(os) = <<>> THEN Null
    ELSE [i \in DOMAIN AnsweredOnly(os) |-> AnsweredOnly(os)[i].raw]

\* One entry per frame; nothing at all when no frame has any.
buildRawEvidence(os) ==
    IF \A i \in DOMAIN os : os[i].raw = Null THEN Null ELSE [i \in DOMAIN os |-> os[i].raw]

\* All tasks are done: the pairs are sorted, then taken apart; evidence that
\* cannot be marshalled is left out.
FramesDone ==
    /\ pc = "scan" /\ ~TakenWhole
    /\ \A i \in DOMAIN outcomes : outcomes[i].at = "done"
    /\ \E order \in ByTimestamp(outcomes) :
          LET inOrder == [i \in DOMAIN outcomes |-> outcomes[order[i]]]
          IN  \E raw \in {buildRawEvidence(inOrder), Null} :
                 result' = [frames |-> inOrder, raw |-> raw]
    /\ pc' = "emit"
    /\ RemoveWorkDir
    /\ UNCHANGED <<expired, fetchVars, fs, ran, produced, cut, job, conf, fetchDir, outcomes,
                   procErr, envelope, disposition>>

\* processImage, or an adapter that takes the video whole: one answer.
Direct == pc = "scan" /\ TakenWhole

DirectAnswered ==
    /\ Direct
    /\ job.picture \notin Oversize \/ job.media = "video"
    /\ \E raw \in {job.picture, Null} :
          result' = [frames |-> <<Answered(0, job.picture, raw)>>,
                     raw |-> IF raw = Null THEN Null ELSE <<raw>>]
    /\ pc' = "emit"
    /\ UNCHANGED <<expired, fetchVars, extractVars, job, conf, fetchDir, outcomes, procErr,
                   envelope, disposition>>

DirectFails ==
    /\ Direct
    /\ procErr' = "analyze" /\ pc' = "emit"
    /\ UNCHANGED <<expired, fetchVars, extractVars, job, conf, fetchDir, outcomes, result,
                   envelope, disposition>>

-----------------------------------------------------------------------------
(* The rest of ProcessJob                                                   *)

\* What Rollup decides over the frames; an error before any is one failed
\* frame.
Verdict ==
    LET frames == Range(IF procErr = "none" THEN result.frames ELSE <<Failed(0)>>)
    IN  CASE \E f \in frames : f.class = "block" -> "block"
          [] /\ \A f \in frames : f.class # "block"
             /\ (\E f \in frames : ~f.ok) \/ \A f \in frames : f.class = "noscore" -> "error"
          [] OTHER -> IF \E f \in frames : f.class = "flag" THEN "flag" ELSE "allow"

\* The deferred cleanup of the source, whatever way ProcessJob is left.
FileCleanup ==
    /\ Cleanup /\ spent' = TRUE
    /\ UNCHANGED <<fetchDir, fetchPc, attempt, fetchErr, origin>>
SourceCleanup ==
    /\ Cleanup /\ spent' = TRUE
    /\ fetchDir' = FALSE
    /\ UNCHANGED <<fetchPc, attempt, fetchErr, origin>>

Returns(env, disp) ==
    /\ envelope' = env
    /\ disposition' = disp
    /\ pc' = "done"
    /\ SourceCleanup
    /\ UNCHANGED <<expired, extractVars, job, conf, outcomes, procErr, result>>

\* An empty video is skipped with an audit event, or the event fails.
Skips == pc = "emit" /\ procErr = "skip" /\ \E d \in {"ack", "dead_letter"} : Returns("none", d)

SinkFails == pc = "emit" /\ procErr # "skip" /\ Returns(Verdict, "retry")

AuditFails == pc = "emit" /\ procErr # "skip" /\ Returns(Verdict, "dead_letter")

Recorded ==
    /\ pc = "emit" /\ procErr # "skip"
    /\ Returns(Verdict, IF Verdict = "error" THEN "dead_letter" ELSE "ack")

\* An adapter panics outside a frame task: the deferred calls run, and the
\* queue's own recover dead-letters the job.
Panics == Direct /\ Returns("none", "dead_letter")

Work ==
    \/ ResolveLocal \/ ResolveUrl \/ Fetching \/ Fetched
    \/ FramesFail \/ FramesStart \/ WorkflowFails \/ WorkflowRuns \/ FramesReturned
    \/ NoFrames \/ SelectFrames
    \/ FrameStarts \/ \E i \in 1..Len(fs) : FrameAnswered(i) \/ FrameFails(i)
    \/ FramesDone \/ DirectAnswered \/ DirectFails
    \/ Skips \/ SinkFails \/ AuditFails \/ Recorded \/ Panics

Next == Work \/ Expire

Spec == Init /\ [][Next]_vars

\* Every call made here has a timeout of its own or ends with the context.
FairSpec == Spec /\ WF_vars(Work)

-----------------------------------------------------------------------------
(* Properties                                                               *)

\* The type of every variable.
TypeOK ==
    /\ expired \in BOOLEAN /\ spent \in BOOLEAN
    /\ fetchPc \in {"idle", "get", "body", "backoff", "done"}
    /\ attempt \in 0..MaxFetches
    /\ file.bytes \in 0..(MaxBytes + 1) /\ file.state \in {"absent", "partial", "broken", "copied"}
    /\ origin \in Addresses \cup {"none"}
    /\ \A p \in DOMAIN disk : disk[p] \in Pictures
    /\ workDir \in BOOLEAN /\ fetchDir \in BOOLEAN /\ cut \in BOOLEAN
    /\ ran \in 0..Len(Selected(job.workflows))
    /\ produced \subseteq Pictures
    /\ \A i \in DOMAIN outcomes :
          /\ outcomes[i].at \in {"todo", "running", "done"}
          /\ outcomes[i].ok \in BOOLEAN /\ outcomes[i].class \in Classes
    /\ pc \in {"resolve", "fetch", "frames", "workflows", "select", "scan", "emit", "done"}
    /\ envelope \in {"none", "block", "error", "flag", "allow"}
    /\ disposition \in {"none", "ack", "retry", "dead_letter"}

\* "Never leave a partial file between attempts", "Report it as retryable
\* rather than scanning a partial asset", and the address rule: analysis only
\* reads a download that is complete, within the cap and from an address its
\* host may resolve to, and no other download outlives its attempt.
WholeOrGone ==
    /\ pc \in {"frames", "workflows", "select", "scan"} /\ job.kind = "url" =>
          /\ file.state = "copied" /\ file.bytes <= MaxBytes
          /\ origin \notin Denied(job.url.host)
    /\ fetchPc = "backoff" \/ (fetchPc = "done" /\ fetchErr # NoError) => file = NoFile

\* An acked allow is about the whole video: unless a cap cut frames off (which
\* the code warns of), every picture any selected workflow extracted is within
\* the operator's dedup threshold of one the moderator saw and found clean,
\* whatever threshold the job asked for, and no frame failed.
AllowMeansCovered ==
    envelope = "allow" /\ ~TakenWhole =>
        /\ \A f \in Range(result.frames) : f.ok /\ f.class \in {"clean", "noscore"}
        /\ ~cut => \A p \in produced : \E f \in Range(result.frames) :
                       Distance(p, f.pic) <= (IF DedupOn THEN conf.ceiling ELSE 0)

\* "Position i in the array always names the same frame as position i in
\* Frames": whatever order tasks finish or fail in, results come in the order of
\* time, one per scanned frame, and evidence, if there is any, is per frame the
\* answer about that very picture and null where the frame failed.
EvidenceAligned ==
    result # NoResult =>
        LET r == result.frames IN
        /\ \A i, j \in DOMAIN r : i < j => r[i].ts <= r[j].ts
        /\ ~TakenWhole => \A t \in {r[i].ts : i \in DOMAIN r} \cup {fs[i].ts : i \in DOMAIN fs} :
              Cardinality({i \in DOMAIN r : r[i].ts = t}) = Cardinality({i \in DOMAIN fs : fs[i].ts = t})
        /\ result.raw # Null =>
              /\ DOMAIN result.raw = DOMAIN r
              /\ \A i \in DOMAIN r : result.raw[i] # Null => r[i].ok /\ result.raw[i] = r[i].pic
              /\ \E i \in DOMAIN r : result.raw[i] # Null

\* "The download is removed on every exit path - error, ctx-cancel, panic -
\* before ack", and so are the extracted frames, before anything is emitted.
NothingLeftOnDisk ==
    /\ pc \in {"emit", "done"} => ~workDir /\ disk = NoFiles
    /\ pc = "done" => ~fetchDir /\ file = NoFile

\* Every job gets its disposition, whatever fails, hangs until a timeout or
\* panics on the way.
EventuallyReturned == <>(pc = "done")

-----------------------------------------------------------------------------
(* A statement of a comment that this code does not keep; no configuration  *)
(* checks it, the README tells how it fails.                                *)

\* "Multiple workflows run in order into per-workflow subdirectories of the job
\* WorkDir; the result is the union of their frames": within the budget, each
\* picture a workflow wrote is a frame of the result.
FramesAreUnion ==
    pc = "select" /\ ~cut =>
        \A p \in produced : \E i \in DOMAIN fs : fs[i].path \in DOMAIN disk /\ disk[fs[i].path] = p
=============================================================================
