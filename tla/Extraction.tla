----------------------------- MODULE Extraction -----------------------------
(***************************************************************************)
(* frames.FFmpegSource and frames.Dedup: the selected workflows run one     *)
(* after another into subdirectories of the job's working directory, and    *)
(* what they leave there becomes the frames to scan.                        *)
(*                                                                          *)
(* A picture is a number, and the Hamming distance of two hashes their      *)
(* difference.  A path is a directory and the number in the file name.  A   *)
(* workflow name is a pair: what is left of it when every character that is *)
(* not a letter, a digit, - or _ becomes _, and what tells it from others.  *)
(* ffmpeg is external: what a workflow makes of a video is a constant, and  *)
(* it may fail at any time.                                                 *)
(***************************************************************************)
EXTENDS Integers, Sequences, FiniteSets, SequencesExt

CONSTANTS
    Workflows,        \* names of the configured workflows
    DefaultWorkflow,
    Pictures,         \* a set of naturals
    Undecodable       \* the pictures dhashFile fails on

VARIABLES
    disk,      \* the files of the working directory: path -> picture
    workDir,   \* the working directory exists
    fs,        \* the frames so far: their timestamp and path
    ran,       \* how many of the selected workflows have run
    produced,  \* history: every picture a workflow wrote
    cut        \* history: a budget or a cap left something unscanned

extractVars == <<disk, workDir, fs, ran, produced, cut>>

NoFiles == [p \in {} |-> 0]

ExtractInit ==
    /\ disk = NoFiles /\ workDir = FALSE
    /\ fs = <<>> /\ ran = 0
    /\ produced = {} /\ cut = FALSE

-----------------------------------------------------------------------------
(* FFmpegSource.Frames                                                      *)

Selected(names) == IF names = <<>> THEN <<DefaultWorkflow>> ELSE names

Known(names) == \A n \in 1..Len(Selected(names)) : Selected(names)[n] \in Workflows

sanitizeDirName(name) == name[1]

\* Pictures written as dir/000001.png, ... over whatever is there.
Written(d, dir, pics) ==
    [p \in DOMAIN d \cup {<<dir, n>> : n \in 1..Len(pics)} |->
        IF p[1] = dir /\ p[2] <= Len(pics) THEN pics[p[2]] ELSE d[p]]

\* Every picture of the directory in the order of its number, with the
\* timestamp showinfo logged or, beyond those, its position.
collect(d, dir, ts) ==
    LET entries == {p[2] : p \in {q \in DOMAIN d : q[1] = dir}}
    IN  [n \in 1..Cardinality(entries) |->
            [path |-> <<dir, n>>, ts |-> IF n <= Len(ts) THEN ts[n] ELSE n - 1]]

\* Removing files by path.
Without(d, paths) == [p \in DOMAIN d \ paths |-> d[p]]

PathsOf(frames) == {frames[n].path : n \in 1..Len(frames)}

\* The directory is made and ffprobe reads the input.
FramesBegin(names) ==
    /\ Known(names)
    /\ workDir' = TRUE
    /\ UNCHANGED <<disk, fs, ran, produced, cut>>

\* One workflow: its directory, ffmpeg, and what is in the directory after.
\* out is what ffmpeg writes for this video: pictures and timestamps.
RunWorkflow(name, out, budget) ==
    /\ Len(fs) < budget
    /\ LET dir == sanitizeDirName(name)
           d == Written(disk, dir, out.pics)
       IN  /\ disk' = d
           /\ fs' = fs \o collect(d, dir, out.ts)
    /\ ran' = ran + 1
    /\ produced' = produced \cup Range(out.pics)
    /\ UNCHANGED <<workDir, cut>>

\* The loop ends, having run all or filled the budget; what exceeds the
\* budget is removed from disk.
FramesEnd(names, budget) ==
    /\ ran = Len(Selected(names)) \/ Len(fs) >= budget
    /\ LET keep == IF Len(fs) > budget THEN budget ELSE Len(fs)
       IN  /\ disk' = Without(disk, PathsOf(SubSeq(fs, keep + 1, Len(fs))))
           /\ fs' = SubSeq(fs, 1, keep)
           /\ cut' = (cut \/ keep < Len(fs) \/ ran < Len(Selected(names)))
    /\ UNCHANGED <<workDir, ran, produced>>

-----------------------------------------------------------------------------
(* Dedup                                                                    *)

Distance(a, b) == IF a > b THEN a - b ELSE b - a

\* One frame against those kept: not comparable or far from all of them, it
\* is kept; else its file is removed.  s is [kept, hashes, disk].
DedupFrame(s, f, threshold) ==
    LET hashable == f.path \in DOMAIN s.disk /\ s.disk[f.path] \notin Undecodable
        near == hashable /\ \E h \in s.hashes : Distance(h, s.disk[f.path]) <= threshold
    IN  IF near
        THEN [s EXCEPT !.disk = Without(@, {f.path})]
        ELSE [s EXCEPT !.kept = Append(@, f),
                       !.hashes = IF hashable THEN @ \cup {s.disk[f.path]} ELSE @]

\* After each of the frames.
DedupPasses(frames, threshold, d) ==
    LET after[n \in 0..Len(frames)] ==
            IF n = 0 THEN [kept |-> <<>>, hashes |-> {}, disk |-> d]
            ELSE DedupFrame(after[n - 1], frames[n], threshold)
    IN  after

Dedup(frames, threshold, d) ==
    IF threshold < 0 \/ Len(frames) < 2 THEN [kept |-> frames, hashes |-> {}, disk |-> d]
    ELSE DedupPasses(frames, threshold, d)[Len(frames)]

\* The cleanup closure of Frames.
RemoveWorkDir ==
    /\ workDir' = FALSE
    /\ disk' = NoFiles
=============================================================================
