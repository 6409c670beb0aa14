------------------------------ MODULE AuditLog ------------------------------
(***************************************************************************)
(* The decision log (internal/audit/audit.go): one file of hash-chained     *)
(* records, and beside it the head anchor, replaced after every append.     *)
(* One process appends, under a mutex, and may die between its two file     *)
(* operations or inside the first, which is not one step of the file system *)
(* (the second is a rename); whoever runs "vismod audit verify" reads both files from     *)
(* another process, one after the other; and the tail of the file may get   *)
(* lost (a partial copy, a rotation, a truncated restore).                  *)
(*                                                                          *)
(* SHA-256 is taken to be injective: a hash is the tuple of what is hashed. *)
(***************************************************************************)
EXTENDS Naturals, Sequences, SequencesExt

CONSTANTS
    Jobs,                 \* job ids
    AllowEmptyVideoSkip,  \* failsafe.allow_empty_video_skip: events occur
    FailingWrites,        \* the files whose writes may fail
    MaxAppends,           \* bound: appends begun
    MaxCrashes,           \* bound: crashes of the service
    MaxFaults,            \* bound: writes that report an error
    MaxLosses             \* bound: losses of the file's tail

ASSUME AuditLogAssumption ==
    /\ AllowEmptyVideoSkip \in BOOLEAN
    /\ FailingWrites \subseteq {"log", "head"}
    /\ MaxAppends \in Nat /\ MaxCrashes \in Nat /\ MaxFaults \in Nat /\ MaxLosses \in Nat

VARIABLES
    (* the two files: the lines of the log that parse, what follows them, the *)
    (* anchor.  tail: "whole", nothing; "unended", the last line lacks its    *)
    (* newline; "torn", text that is no record.                               *)
    log, tail, head,
    (* the Log object of the running process, and the append it is in *)
    up, seq, prev, seen, op,
    (* a run of "vismod audit verify" *)
    verdict, snapshot,
    (* history, read by the properties only *)
    recorded, anchored, expect, damaged, undisturbed,
    (* what has been spent; appends is the clock of the timestamps too *)
    appends, crashes, faults, losses

files   == <<log, tail, head>>
memory  == <<up, seq, prev, seen, op>>
auditor == <<verdict, snapshot, expect, undisturbed>>
spent   == <<appends, crashes, faults, losses>>
vars    == <<files, memory, auditor, recorded, anchored, damaged, spent>>

-----------------------------------------------------------------------------
(* The file formats                                                         *)

genesisPrev == <<>>

entryHash(n, ts, p, body) == <<n, ts, p, body>>

Rec(n, ts, p, body) ==
    [seq |-> n, ts |-> ts, prev |-> p, body |-> body, hash |-> entryHash(n, ts, p, body)]

NoHead == [seq |-> 0, hash |-> genesisPrev]

Tails == {"whole", "unended", "torn"}

\* json.Unmarshal rejects what is no record, now and whenever the file is read
\* again; that the last newline is missing bufio.Scanner does not mind.
readRecords(file) == file.tail # "torn"

\* O_APPEND: what is written starts where the file ends, so text behind a line
\* without a newline, or behind a torn line, becomes part of that line.
Spoiled == IF tail = "unended" THEN Front(log) ELSE log

Written(r) ==
    /\ log' = IF tail = "whole" THEN Append(log, r) ELSE Spoiled
    /\ tail' = IF tail = "whole" THEN "whole" ELSE "torn"

\* A write that stops on the way: before the first byte, inside the record, or
\* between the record and its newline.
PartWritten(r) ==
    \/ UNCHANGED <<log, tail>>
    \/ log' = Spoiled /\ tail' = "torn"
    \/ tail = "whole" /\ log' = Append(log, r) /\ tail' = "unended"

verifyRecord(r, wantSeq, p) ==
    /\ r.seq = wantSeq
    /\ r.prev = p
    /\ r.hash = entryHash(r.seq, r.ts, p, r.body)

Before(l, k) == IF k = 1 THEN genesisPrev ELSE l[k - 1].hash

ChainOK(l) == \A k \in DOMAIN l : verifyRecord(l[k], k, Before(l, k))

NoAnchorCheck(l, h) == TRUE
checkAnchor(l, h) == h.seq # 0 => h.seq <= Len(l) /\ l[h.seq].hash = h.hash

Init ==
    /\ log = <<>> /\ tail = "whole" /\ head = NoHead
    /\ up = FALSE /\ seq = 0 /\ prev = genesisPrev /\ seen = {} /\ op = <<>>
    /\ verdict = "none" /\ snapshot = [lines |-> <<>>, tail |-> "whole"] /\ expect = {}
    /\ undisturbed = TRUE
    /\ recorded = {} /\ anchored = {} /\ damaged = FALSE
    /\ appends = 0 /\ crashes = 0 /\ faults = 0 /\ losses = 0

-----------------------------------------------------------------------------
(* Open: replay the file, refuse a broken or truncated one (no step).       *)

FromAnchor(l) == head
Replayed(l) == [seq |-> Len(l), hash |-> IF l = <<>> THEN genesisPrev ELSE Last(l).hash]

SeenNothing(l) == {}
SeenIn(l) == {l[k].body.job : k \in DOMAIN l}

Open ==
    /\ ~up
    /\ readRecords([lines |-> log, tail |-> tail]) /\ ChainOK(log) /\ checkAnchor(log, head)
    /\ up' = TRUE
    /\ seq' = Replayed(log).seq
    /\ prev' = Replayed(log).hash
    /\ seen' = SeenIn(log)
    /\ undisturbed' = (undisturbed /\ verdict # "reading")
    /\ UNCHANGED <<files, op, verdict, snapshot, expect, recorded, anchored, damaged, spent>>

-----------------------------------------------------------------------------
(* Record and AppendEvent.  op is the record being appended, with what has  *)
(* been done of it.                                                         *)

\* appendLocked up to the writes: the next seq, chained on the hash in memory.
SameSeq == seq
NextSeq == seq + 1

Begin(body) ==
    /\ appends < MaxAppends
    /\ appends' = appends + 1
    /\ op' = <<"write", Rec(NextSeq, appends + 1, prev, body)>>

Record(j) ==
    /\ up /\ op = <<>>
    /\ IF j \in seen
       THEN recorded' = recorded \cup {j} /\ UNCHANGED <<op, appends>>
       ELSE Begin([job |-> j, kind |-> "verdict"]) /\ UNCHANGED recorded
    /\ UNCHANGED <<files, up, seq, prev, seen, auditor, anchored, damaged,
                   crashes, faults, losses>>

AppendEvent(j) ==
    /\ up /\ op = <<>>
    /\ AllowEmptyVideoSkip
    /\ Begin([job |-> j, kind |-> "event"])
    /\ UNCHANGED <<files, up, seq, prev, seen, auditor, recorded, anchored, damaged,
                   crashes, faults, losses>>

\* The append fails: the error is returned and the memory does not advance.
Fail(file) ==
    /\ file \in FailingWrites
    /\ faults < MaxFaults
    /\ faults' = faults + 1
    /\ op' = <<>>

\* f.Write of the whole line.
WriteLine ==
    /\ op # <<>> /\ op[1] = "write"
    /\ \/ /\ Written(op[2])
          /\ op' = <<"anchor", op[2]>>
          /\ UNCHANGED faults
       \/ /\ PartWritten(op[2])
          /\ Fail("log")
    /\ UNCHANGED <<head, up, seq, prev, seen, auditor, recorded, anchored, damaged,
                   appends, crashes, losses>>

\* writeHead, atomic by rename; only then does the memory advance.
WriteHead ==
    /\ op # <<>> /\ op[1] = "anchor"
    /\ LET r == op[2] IN
       \/ /\ head' = [seq |-> r.seq, hash |-> r.hash]
          /\ anchored' = anchored \cup {r}
          /\ op' = <<>>
          /\ seq' = r.seq
          /\ prev' = r.hash
          /\ seen' = seen \cup {r.body.job}
          /\ recorded' = IF r.body.kind = "verdict" THEN recorded \cup {r.body.job}
                         ELSE recorded
          /\ UNCHANGED faults
       \/ /\ Fail("head")
          /\ UNCHANGED <<head, anchored, seq, prev, seen, recorded>>
    /\ UNCHANGED <<log, tail, up, auditor, damaged, appends, crashes, losses>>

\* The process ends and its Log object with it.
Ends == up' = FALSE /\ op' = <<>> /\ seq' = 0 /\ prev' = genesisPrev /\ seen' = {}

\* Close waits for the mutex.
Close ==
    /\ up /\ op = <<>>
    /\ Ends
    /\ UNCHANGED <<files, auditor, recorded, anchored, damaged, spent>>

\* A crash anywhere: at rest, between the two file operations, or inside the
\* write of the line, which may then be in the file in part.
Crash ==
    /\ up
    /\ crashes < MaxCrashes
    /\ crashes' = crashes + 1
    /\ IF op # <<>> /\ op[1] = "write" THEN PartWritten(op[2]) ELSE UNCHANGED <<log, tail>>
    /\ Ends
    /\ UNCHANGED <<head, auditor, recorded, anchored, damaged, appends, faults, losses>>

\* The last n lines are gone; a process that has the file open notices nothing.
LoseTail(n) ==
    /\ losses < MaxLosses
    /\ losses' = losses + 1
    /\ log' = SubSeq(log, 1, Len(log) - n)
    /\ tail' = "whole"
    /\ damaged' = TRUE
    /\ UNCHANGED <<head, memory, auditor, recorded, anchored, appends, crashes, faults>>

-----------------------------------------------------------------------------
(* VerifyWith with the default options: the log is read first, the anchor   *)
(* after the whole chain has been recomputed.                               *)

VerifyRead ==
    /\ verdict # "reading"
    /\ undisturbed' = ~up
    /\ snapshot' = [lines |-> log, tail |-> tail]
    /\ expect' = anchored
    /\ verdict' = "reading"
    /\ UNCHANGED <<files, memory, recorded, anchored, damaged, spent>>

VerifyAnchor ==
    /\ verdict = "reading"
    /\ verdict' = IF /\ readRecords(snapshot)
                     /\ ChainOK(snapshot.lines)
                     /\ checkAnchor(snapshot.lines, head)
                  THEN "ok" ELSE "failed"
    /\ UNCHANGED <<files, memory, snapshot, expect, undisturbed, recorded, anchored, damaged, spent>>

Next ==
    \/ Open \/ WriteLine \/ WriteHead \/ Close \/ Crash
    \/ \E j \in Jobs : Record(j) \/ AppendEvent(j)
    \/ \E n \in 1..Len(log) : LoseTail(n)
    \/ VerifyRead \/ VerifyAnchor

Spec == Init /\ [][Next]_vars

-----------------------------------------------------------------------------
(* Properties                                                               *)

IsLine(r) ==
    /\ r.seq \in 1..MaxAppends /\ r.ts \in 1..MaxAppends
    /\ r.body \in [job : Jobs, kind : {"verdict", "event"}]

\* The type of every variable (hashes are tuples of any depth).
TypeOK ==
    /\ \A k \in DOMAIN log : IsLine(log[k])
    /\ \A k \in DOMAIN snapshot.lines : IsLine(snapshot.lines[k])
    /\ tail \in Tails /\ snapshot.tail \in Tails
    /\ head.seq \in 0..MaxAppends
    /\ up \in BOOLEAN /\ seq \in 0..MaxAppends /\ seen \subseteq Jobs
    /\ op = <<>> \/ (op[1] \in {"write", "anchor"} /\ IsLine(op[2]))
    /\ verdict \in {"none", "reading", "ok", "failed"}
    /\ recorded \subseteq Jobs
    /\ damaged \in BOOLEAN /\ undisturbed \in BOOLEAN
    /\ appends \in 0..MaxAppends

\* "The audit log's per-job_id idempotency survives a restart": however the
\* service crashes inside an append and jobs are redelivered afterwards, no
\* job has two verdict records in the file, as long as no write fails.
OneVerdictPerJob ==
    faults = 0 =>
        \A a, b \in DOMAIN log :
            /\ log[a].body.kind = "verdict" /\ log[b].body.kind = "verdict"
            /\ log[a].body.job = log[b].body.job
            => a = b

\* A failed verification "proves: Records were lost or altered", if the
\* service was down meanwhile.
FailureMeansLoss == verdict = "failed" /\ undisturbed => damaged

\* Lagging by one after a crash is the safe direction and checkAnchor tolerates
\* it: a crash at rest or between the two file operations, however often, makes
\* no later verification fail.  While no write reports an error, the log gets a
\* torn line only from a crash inside the write of a line (or from the append
\* after one); of these CrashesAreNoLoss tells.
LaggingIsNoLoss == faults = 0 /\ snapshot.tail # "torn" => FailureMeansLoss

\* A passed verification proves that no record "past the anchored seq" is
\* missing: all records that had been anchored when the log was read were in
\* it, even if the service went on appending to a file that had lost them.
PassMeansIntact ==
    verdict = "ok" => \A r \in expect : \E k \in DOMAIN snapshot.lines : snapshot.lines[k] = r

-----------------------------------------------------------------------------
(* Statements of comments or documents that this code does not keep; no     *)
(* configuration checks them, the README tells how they fail.               *)

\* "Every decision appends one record": while nothing is lost, a job for
\* which Record returned without an error has its verdict in the file.
DecisionRecorded ==
    ~damaged => \A j \in recorded :
        \E k \in DOMAIN log : log[k].body = [job |-> j, kind |-> "verdict"]

\* "Records were lost or altered", of a log whose service crashed and whose
\* writes never reported an error: a crash may leave half a line, of a record
\* that was never returned as appended, and verification and Open refuse it.
CrashesAreNoLoss == faults = 0 => FailureMeansLoss

\* "Advance the anchor after the record is on disk, never before": a crash, or a
\* write that failed, may leave a record without its newline, which reads well
\* until the next append, which returns no error, spoils it and itself.
RecordedIsRead ==
    ~damaged => \A r \in anchored : \E k \in DOMAIN log : log[k] = r
=============================================================================
