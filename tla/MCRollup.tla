------------------------------ MODULE MCRollup ------------------------------
(* Rollup for TLC: all short frame results over a few scores, under the     *)
(* threshold files an operator could write.                                 *)
EXTENDS Rollup, SequencesExt

CONSTANTS
    MaxFrames,   \* bound: frame results per asset
    MaxResults,  \* bound: category results per frame
    Modes        \* the provider_thresholds modes of this instance

FramesUpTo(n) ==
    [ok : {TRUE}, cats : BoundedSeq(CategoryResults, n)] \cup [ok : {FALSE}, cats : {<<>>}]

\* Several frames with one result at most, or one frame with several.
SmallInputs == BoundedSeq(FramesUpTo(1), MaxFrames) \cup BoundedSeq(FramesUpTo(MaxResults), 1)

Set(f, b) == [FlagAt |-> f, BlockAt |-> b]

\* A default, a category that may set one boundary only, a label that may be
\* armed in part, or deliberately not at all.
SmallSettings ==
    {s \in [thresholds : [CategoryKeys -> {Null, Set(1, 2), Set(2, Null)}],
            mode : Modes,
            labels : [Labels -> {Null, Set(Null, 1), Set(0, 2)}],
            unarmed : SUBSET Labels] : s \in Configurations}
=============================================================================
