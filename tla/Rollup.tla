------------------------------- MODULE Rollup -------------------------------
(***************************************************************************)
(* From scores to a verdict: the threshold map config.Load builds           *)
(* (Thresholds.Merge), its one resolution path (ResolveFor), the flagging   *)
(* pass (pipeline.ApplyThresholds) and the loop of pipeline.Rollup, one     *)
(* step per frame and per category result.                                  *)
(*                                                                          *)
(* Scores and boundaries are numbers of an arbitrary set; only their order  *)
(* matters.  Null is the nil pointer.                                       *)
(***************************************************************************)
EXTENDS Naturals, Sequences

CONSTANTS
    Categories,  \* what an adapter may name a category
    Canonical,   \* the canonical ones among them
    Labels,      \* provider labels, matched case-insensitively
    Scores,      \* scores and boundaries
    Null,        \* no score, no boundary, no label
    Inputs,      \* frame results as the adapters return them
    Settings     \* what the operator wrote: thresholds and provider_thresholds

CategoryThreshold == [FlagAt : Scores \cup {Null}, BlockAt : Scores \cup {Null}]
NoBoundaries == [FlagAt |-> Null, BlockAt |-> Null]

CategoryResults == [cat : Categories, label : Labels \cup {Null}, score : Scores \cup {Null}]
FrameResults == [ok : BOOLEAN, cats : Seq(CategoryResults)]

\* The keys of the one map; Null in the place of an entry: there is none.
CategoryKeys == Canonical \cup {"default"}
Keys == CategoryKeys \cup Labels
Thresholds == [Keys -> CategoryThreshold \cup {Null}]

\* What is configured, after Validate: labels only in a mode that uses them,
\* armed or deliberately unarmed, not both.
Configurations ==
    {s \in [thresholds : [CategoryKeys -> CategoryThreshold \cup {Null}],
            mode : {"off", "hybrid", "override"},
            labels : [Labels -> CategoryThreshold \cup {Null}],
            unarmed : SUBSET Labels] :
        /\ s.mode = "off" => s.unarmed = {} /\ \A l \in Labels : s.labels[l] = Null
        /\ s.mode = "override" => \E l \in Labels : s.labels[l] # Null
        /\ \A l \in s.unarmed : s.labels[l] = Null}

ASSUME RollupAssumption ==
    /\ Scores \subseteq Nat /\ Null \notin Scores
    /\ Null \notin CategoryThreshold /\ Null \notin Labels
    /\ Canonical \subseteq Categories
    /\ "OTHER" \in Canonical /\ "default" \notin Canonical
    /\ Labels \cap CategoryKeys = {}
    /\ Inputs \subseteq Seq(FrameResults)
    /\ Settings \subseteq Configurations

VARIABLES
    setting, th,     \* the configuration and the merged map
    frames,          \* the frame results
    i, k,            \* loop positions; k = 0 before a frame is entered
    anyError, okFrames, anyFlagged, block, maxScore, topCat,
    verdict          \* "none" until the loop is over

counters == <<anyError, okFrames, anyFlagged, block, maxScore, topCat>>
vars == <<setting, th, frames, i, k, counters, verdict>>

-----------------------------------------------------------------------------
(* The thresholds                                                           *)

\* withUnarmed, then Merge.
Merge(s) ==
    [key \in Keys |->
        CASE key \in CategoryKeys /\ s.mode # "override" -> s.thresholds[key]
          [] key \in Labels /\ key \in s.unarmed -> NoBoundaries
          [] key \in Labels /\ key \notin s.unarmed -> s.labels[key]
          [] OTHER -> Null]

Canonicalize(c) == IF c \in Canonical THEN c ELSE "OTHER"

\* One boundary of one entry, Null without the entry.
Boundary(t, key, field) ==
    IF key \in DOMAIN t /\ t[key] # Null THEN t[key][field] ELSE Null

Else(a, b) == IF a # Null THEN a ELSE b

\* Provider label, then category, then default, field by field.
ResolveFor(t, c, l, field) ==
    Else(Boundary(t, l, field),
         Else(Boundary(t, Canonicalize(c), field), Boundary(t, "default", field)))

\* A score reaches a boundary; without either it does not.
Reaches(t, x, field) ==
    LET b == ResolveFor(t, x.cat, x.label, field)
    IN  x.score # Null /\ b # Null /\ x.score >= b

\* ApplyThresholds computes Flagged, Rollup the block check.
Flagged(t, x) == Reaches(t, x, "FlagAt")

Blocks(t, x) == Reaches(t, x, "BlockAt")

-----------------------------------------------------------------------------
(* The loop                                                                 *)

Init ==
    /\ setting \in Settings
    /\ th = Merge(setting)
    /\ frames \in Inputs
    /\ i = 1 /\ k = 0
    /\ anyError = FALSE /\ okFrames = 0 /\ anyFlagged = FALSE /\ block = FALSE
    /\ maxScore = Null /\ topCat = Null
    /\ verdict = "none"

FrameErrored ==
    /\ verdict = "none" /\ i <= Len(frames) /\ k = 0
    /\ ~frames[i].ok
    /\ anyError' = TRUE
    /\ i' = i + 1
    /\ UNCHANGED <<setting, th, frames, k, okFrames, anyFlagged, block, maxScore, topCat,
                   verdict>>

FrameOk ==
    /\ verdict = "none" /\ i <= Len(frames) /\ k = 0
    /\ frames[i].ok
    /\ okFrames' = okFrames + 1
    /\ k' = 1
    /\ UNCHANGED <<setting, th, frames, i, anyError, anyFlagged, block, maxScore, topCat,
                   verdict>>

Later(s) == maxScore = Null \/ s >= maxScore
Higher(s) == maxScore = Null \/ s > maxScore

NextSkips == k + 2
NextPosition == k + 1

CategoryResult ==
    /\ verdict = "none" /\ k > 0
    /\ k <= Len(frames[i].cats)
    /\ LET x == frames[i].cats[k] IN
       /\ anyFlagged' = (anyFlagged \/ Flagged(th, x))
       /\ IF x.score # Null /\ Higher(x.score)
          THEN maxScore' = x.score /\ topCat' = x.cat
          ELSE UNCHANGED <<maxScore, topCat>>
       /\ block' = (block \/ Blocks(th, x))
    /\ k' = NextPosition
    /\ UNCHANGED <<setting, th, frames, i, anyError, okFrames, verdict>>

FrameDone ==
    /\ verdict = "none" /\ k > 0
    /\ k > Len(frames[i].cats)
    /\ i' = i + 1
    /\ k' = 0
    /\ UNCHANGED <<setting, th, frames, counters, verdict>>

\* The switch after the loop.
ScoresIgnored == anyError \/ okFrames = 0
CouldNotEvaluate == anyError \/ okFrames = 0 \/ maxScore = Null

Decide ==
    /\ verdict = "none" /\ i > Len(frames)
    /\ verdict' = CASE block -> "block"
                    [] ~block /\ CouldNotEvaluate -> "error"
                    [] ~block /\ ~CouldNotEvaluate /\ anyFlagged -> "flag"
                    [] OTHER -> "allow"
    /\ UNCHANGED <<setting, th, frames, i, k, counters>>

Next == FrameErrored \/ FrameOk \/ CategoryResult \/ FrameDone \/ Decide

Spec == Init /\ [][Next]_vars

-----------------------------------------------------------------------------
(* Properties                                                               *)

AllOk == \A a \in 1..Len(frames) : frames[a].ok

\* The category results of frame a, if it was evaluated.
Results(fs, a) == IF fs[a].ok THEN 1..Len(fs[a].cats) ELSE {}

SomeReaches(field) ==
    \E a \in 1..Len(frames) : \E b \in Results(frames, a) : Reaches(th, frames[a].cats[b], field)

SomeScore ==
    \E a \in 1..Len(frames) : \E b \in Results(frames, a) : frames[a].cats[b].score # Null

\* The type of every variable.
TypeOK ==
    /\ setting \in Settings /\ th = Merge(setting)
    /\ frames \in Seq(FrameResults)
    /\ i \in 1..Len(frames) + 1
    /\ k \in Nat /\ (k > 0 => i <= Len(frames) /\ k <= Len(frames[i].cats) + 1)
    /\ anyError \in BOOLEAN /\ anyFlagged \in BOOLEAN /\ block \in BOOLEAN
    /\ okFrames \in Nat
    /\ maxScore \in Scores \cup {Null} /\ topCat \in Categories \cup {Null}
    /\ verdict \in {"none", "block", "error", "flag", "allow"}

\* "Verdict precedence is STRICT: block > error > flag > allow", and "a
\* partially-errored or unevaluable asset is never allow", over all frames
\* and whatever order scores, nil scores and failed frames come in.
VerdictSound ==
    verdict # "none" =>
        /\ verdict = "block" <=> SomeReaches("BlockAt")
        /\ verdict = "error" => ~AllOk \/ ~SomeScore
        /\ verdict = "flag" => AllOk /\ SomeScore /\ SomeReaches("FlagAt")
        /\ verdict = "allow" => AllOk /\ SomeScore /\ ~SomeReaches("FlagAt")

\* Overall.MaxScore and TopCategory: the highest score of any evaluated
\* frame, with the category of the first result that has it.
TopIsMax ==
    verdict # "none" =>
        IF ~SomeScore THEN maxScore = Null /\ topCat = Null
        ELSE /\ \A a \in 1..Len(frames) : \A b \in Results(frames, a) :
                   frames[a].cats[b].score # Null => frames[a].cats[b].score <= maxScore
             /\ \E a \in 1..Len(frames) : \E b \in Results(frames, a) :
                   /\ frames[a].cats[b].score = maxScore /\ frames[a].cats[b].cat = topCat
                   /\ \A c \in 1..a : \A d \in Results(frames, c) :
                         c < a \/ d < b => frames[c].cats[d].score # maxScore

-----------------------------------------------------------------------------
(* A statement of a comment or document that this code does not keep; no    *)
(* configuration checks it, the README tells how it fails.                  *)

\* "Unarmed labels ... can never flag or block (that is the request)".
UnarmedNeverFires ==
    verdict \in {"flag", "block"} =>
        \E a \in 1..Len(frames) : \E b \in Results(frames, a) :
            LET x == frames[a].cats[b] IN
            x.label \notin setting.unarmed /\ (Reaches(th, x, "FlagAt") \/ Reaches(th, x, "BlockAt"))
=============================================================================
