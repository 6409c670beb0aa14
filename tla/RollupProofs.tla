---------------------------- MODULE RollupProofs ----------------------------
(***************************************************************************)
(* Proofs about Rollup: for every threshold file and every list of frame    *)
(* results the loop ends with the verdict the precedence demands.           *)
(***************************************************************************)
EXTENDS Rollup, TLAPS

\* Result b of frame a has been visited when the loop stands at (p, q).
Visited(fs, p, q, a, b) == b \in Results(fs, a) /\ (a < p \/ (a = p /\ b < q))

SeenReaching(field) ==
    \E a \in 1..Len(frames), b \in Nat :
        Visited(frames, i, k, a, b) /\ Reaches(th, frames[a].cats[b], field)

SeenScore ==
    \E a \in 1..Len(frames), b \in Nat :
        Visited(frames, i, k, a, b) /\ frames[a].cats[b].score # Null

\* What each variable of the loop says about the part already visited.
LoopInv ==
    /\ k > 0 => frames[i].ok
    /\ anyError <=> \E a \in 1..Len(frames) : a < i /\ ~frames[a].ok
    /\ anyFlagged <=> SeenReaching("FlagAt")
    /\ block <=> SeenReaching("BlockAt")
    /\ maxScore # Null <=> SeenScore
    /\ okFrames = 0 => k = 0 /\ ~SeenScore

\* What the switch made of them.
VerdictInv ==
    verdict # "none" =>
        /\ i > Len(frames) /\ k = 0
        /\ verdict = "block" <=> block
        /\ verdict = "error" => CouldNotEvaluate
        /\ verdict = "flag" => ~CouldNotEvaluate /\ anyFlagged
        /\ verdict = "allow" => ~CouldNotEvaluate /\ ~anyFlagged

IInv == TypeOK /\ LoopInv /\ VerdictInv

\* The parts of a typed list of frame results.
LEMMA CatsTyped ==
  ASSUME NEW fs \in Seq(FrameResults), NEW a \in 1..Len(fs)
  PROVE  /\ Len(fs) \in Nat
         /\ fs[a].ok \in BOOLEAN
         /\ fs[a].cats \in Seq(CategoryResults)
         /\ Len(fs[a].cats) \in Nat
         /\ \A b \in 1..Len(fs[a].cats) :
               /\ fs[a].cats[b].score \in Scores \cup {Null}
               /\ fs[a].cats[b].cat \in Categories
<1>1. fs[a] \in FrameResults
  OBVIOUS
<1>2. fs[a].ok \in BOOLEAN /\ fs[a].cats \in Seq(CategoryResults)
  BY <1>1 DEF FrameResults
<1>3. \A b \in 1..Len(fs[a].cats) : fs[a].cats[b] \in CategoryResults
  BY <1>2
<1>4. \A b \in 1..Len(fs[a].cats) :
         /\ fs[a].cats[b].score \in Scores \cup {Null}
         /\ fs[a].cats[b].cat \in Categories
  BY <1>3 DEF CategoryResults
<1>5. Len(fs[a].cats) \in Nat
  BY <1>2
<1>6. Len(fs) \in Nat
  OBVIOUS
<1> QED
  BY <1>2, <1>4, <1>5, <1>6

\* The loop starts with typed variables.
LEMMA InitTyped == Init => TypeOK
<1> SUFFICES ASSUME Init PROVE TypeOK
  OBVIOUS
<1>1. frames \in Seq(FrameResults)
  BY RollupAssumption DEF Init
<1>2. i \in 1..Len(frames) + 1
  BY <1>1 DEF Init
<1>3. k \in Nat /\ ~(k > 0) /\ okFrames \in Nat
  BY DEF Init
<1>4. anyError \in BOOLEAN /\ anyFlagged \in BOOLEAN /\ block \in BOOLEAN
  BY DEF Init
<1>5. /\ maxScore \in Scores \cup {Null} /\ topCat \in Categories \cup {Null}
      /\ verdict \in {"none", "block", "error", "flag", "allow"}
  BY DEF Init
<1>6. setting \in Settings /\ th = Merge(setting)
  BY DEF Init
<1> QED
  BY <1>1, <1>2, <1>3, <1>4, <1>5, <1>6 DEF TypeOK

\* Every step keeps the types and the loop positions within the frame results.
LEMMA StepTyped == TypeOK /\ [Next]_vars => TypeOK'
<1> SUFFICES ASSUME TypeOK, [Next]_vars PROVE TypeOK'
  OBVIOUS
<1>t. frames \in Seq(FrameResults) /\ Len(frames) \in Nat /\ i \in 1..Len(frames) + 1
  BY DEF TypeOK
<1>1. CASE FrameErrored
  BY <1>1, <1>t DEF FrameErrored, TypeOK
<1>2. CASE FrameOk
  <2>1. i \in 1..Len(frames)
    BY <1>2, <1>t DEF FrameOk
  <2>2. Len(frames[i].cats) \in Nat
    BY <1>t, <2>1, CatsTyped
  <2> QED
    BY <1>2, <1>t, <2>1, <2>2 DEF FrameOk, TypeOK
<1>3. CASE CategoryResult
  <2>1. i \in 1..Len(frames) /\ k \in Nat
    BY <1>3, <1>t DEF CategoryResult, TypeOK
  <2>2. Len(frames[i].cats) \in Nat
    BY <1>t, <2>1, CatsTyped
  <2>3. k \in 1..Len(frames[i].cats)
    BY <1>3, <2>1, <2>2 DEF CategoryResult
  <2>4. /\ frames[i].cats[k].score \in Scores \cup {Null}
        /\ frames[i].cats[k].cat \in Categories
    BY <1>t, <2>1, <2>3, CatsTyped
  <2>5. maxScore' \in Scores \cup {Null} /\ topCat' \in Categories \cup {Null}
    BY <1>3, <2>4 DEF CategoryResult, TypeOK
  <2>6. anyFlagged' \in BOOLEAN /\ block' \in BOOLEAN
    BY <1>3 DEF CategoryResult
  <2> QED
    BY <1>3, <1>t, <2>1, <2>2, <2>5, <2>6 DEF CategoryResult, NextPosition, TypeOK
<1>4. CASE FrameDone
  BY <1>4, <1>t DEF FrameDone, counters, TypeOK
<1>5. CASE Decide
  BY <1>5, <1>t DEF Decide, counters, TypeOK
<1>6. CASE UNCHANGED vars
  BY <1>6 DEF vars, counters, TypeOK
<1> QED
  BY <1>1, <1>2, <1>3, <1>4, <1>5, <1>6 DEF Next

\* Rollup's variables have their types and its loop positions stay within
\* the frame results, for every input and every threshold file.
THEOREM TypeCorrect == Spec => []TypeOK
<1> QED
  BY InitTyped, StepTyped, PTL DEF Spec

\* What becomes visited when the loop goes on.
LEMMA VisitStep ==
  ASSUME NEW fs \in Seq(FrameResults), NEW p \in 1..Len(fs), NEW q \in Nat,
         NEW a \in 1..Len(fs), NEW b \in Nat
  PROVE  /\ ~fs[p].ok => (Visited(fs, p + 1, 0, a, b) <=> Visited(fs, p, 0, a, b))
         /\ Visited(fs, p, 1, a, b) <=> Visited(fs, p, 0, a, b)
         /\ fs[p].ok /\ q \in 1..Len(fs[p].cats) =>
               (Visited(fs, p, q + 1, a, b) <=> Visited(fs, p, q, a, b) \/ (a = p /\ b = q))
         /\ fs[p].ok /\ q > Len(fs[p].cats) =>
               (Visited(fs, p + 1, 0, a, b) <=> Visited(fs, p, q, a, b))
<1>1. Len(fs) \in Nat /\ Len(fs[a].cats) \in Nat /\ Len(fs[p].cats) \in Nat
  BY CatsTyped
<1>2. b \in Results(fs, a) => b >= 1
  BY <1>1 DEF Results
<1>3. ~fs[p].ok /\ a = p => b \notin Results(fs, a)
  BY DEF Results
<1>4. fs[p].ok /\ a = p /\ b \in Results(fs, a) => b <= Len(fs[p].cats)
  BY <1>1 DEF Results
<1>5. fs[p].ok /\ a = p /\ b = q /\ q \in 1..Len(fs[p].cats) => b \in Results(fs, a)
  BY DEF Results
<1> HIDE DEF Results
<1> QED
  BY <1>1, <1>2, <1>3, <1>4, <1>5 DEF Visited

\* After the last frame every result of an evaluated frame has been visited.
LEMMA VisitedAll ==
  ASSUME NEW fs \in Seq(FrameResults), NEW p, p = Len(fs) + 1, NEW a \in 1..Len(fs), NEW b
  PROVE  /\ Visited(fs, p, 0, a, b) <=> b \in Results(fs, a)
         /\ b \in Results(fs, a) => b \in Nat
<1>1. Len(fs) \in Nat /\ Len(fs[a].cats) \in Nat
  BY CatsTyped
<1> QED
  BY <1>1 DEF Visited, Results

\* The loop starts with nothing visited and nothing decided.
LEMMA InitInv == Init => IInv
<1> SUFFICES ASSUME Init, TypeOK PROVE LoopInv /\ VerdictInv
  BY InitTyped DEF IInv
<1>1. i = 1 /\ k = 0 /\ frames \in Seq(FrameResults)
  BY DEF Init, TypeOK
<1>2. \A a \in 1..Len(frames), b \in Nat : ~Visited(frames, i, k, a, b)
  <2> TAKE a \in 1..Len(frames), b \in Nat
  <2>1. Len(frames) \in Nat /\ Len(frames[a].cats) \in Nat
    BY <1>1, CatsTyped
  <2> QED
    BY <1>1, <2>1 DEF Visited
<1>3. ~SeenReaching("FlagAt") /\ ~SeenReaching("BlockAt") /\ ~SeenScore
  BY <1>2 DEF SeenReaching, SeenScore
<1>4. ~\E a \in 1..Len(frames) : a < i /\ ~frames[a].ok
  BY <1>1
<1> QED
  BY <1>1, <1>3, <1>4 DEF Init, LoopInv, VerdictInv

\* The visited part says the same before and after a step that visits nothing.
LEMMA SameSeen ==
  ASSUME UNCHANGED <<frames, th>>,
         \A a \in 1..Len(frames), b \in Nat :
            Visited(frames, i, k, a, b)' <=> Visited(frames, i, k, a, b)
  PROVE  /\ SeenReaching("FlagAt")' <=> SeenReaching("FlagAt")
         /\ SeenReaching("BlockAt")' <=> SeenReaching("BlockAt")
         /\ SeenScore' <=> SeenScore
  BY DEF SeenReaching, SeenScore

\* Every step keeps what the loop's variables say about the visited part.
LEMMA StepLoop == IInv /\ [Next]_vars => LoopInv'
<1> SUFFICES ASSUME TypeOK, LoopInv, VerdictInv, [Next]_vars PROVE LoopInv'
  BY DEF IInv
<1>t. /\ frames \in Seq(FrameResults) /\ Len(frames) \in Nat /\ i \in 1..Len(frames) + 1
      /\ k \in Nat /\ okFrames \in Nat
      /\ anyError \in BOOLEAN /\ anyFlagged \in BOOLEAN /\ block \in BOOLEAN
  BY DEF TypeOK
<1>1. CASE FrameErrored
  <2>1. i \in 1..Len(frames) /\ k = 0 /\ ~frames[i].ok
    BY <1>1, <1>t DEF FrameErrored
  <2>2. i' = i + 1 /\ k' = k /\ frames' = frames /\ th' = th
    BY <1>1 DEF FrameErrored
  <2>3. \A a \in 1..Len(frames), b \in Nat :
           Visited(frames, i, k, a, b)' <=> Visited(frames, i, k, a, b)
    BY <1>t, <2>1, <2>2, VisitStep
  <2>4. /\ SeenReaching("FlagAt")' <=> SeenReaching("FlagAt")
        /\ SeenReaching("BlockAt")' <=> SeenReaching("BlockAt")
        /\ SeenScore' <=> SeenScore
    BY <2>2, <2>3, SameSeen
  <2>5. anyError' /\ \E a \in 1..Len(frames') : a < i' /\ ~frames'[a].ok
    BY <1>1, <1>t, <2>1, <2>2 DEF FrameErrored
  <2> QED
    BY <1>1, <2>1, <2>2, <2>4, <2>5 DEF FrameErrored, LoopInv
<1>2. CASE FrameOk
  <2>1. i \in 1..Len(frames) /\ k = 0 /\ frames[i].ok
    BY <1>2, <1>t DEF FrameOk
  <2>2. i' = i /\ k' = 1 /\ frames' = frames /\ th' = th /\ okFrames' # 0
    BY <1>2, <1>t DEF FrameOk
  <2>3. \A a \in 1..Len(frames), b \in Nat :
           Visited(frames, i, k, a, b)' <=> Visited(frames, i, k, a, b)
    BY <1>t, <2>1, <2>2, VisitStep
  <2>4. /\ SeenReaching("FlagAt")' <=> SeenReaching("FlagAt")
        /\ SeenReaching("BlockAt")' <=> SeenReaching("BlockAt")
        /\ SeenScore' <=> SeenScore
    BY <2>2, <2>3, SameSeen
  <2> QED
    BY <1>2, <2>1, <2>2, <2>4 DEF FrameOk, LoopInv
<1>3. CASE CategoryResult
  <2> DEFINE x == frames[i].cats[k]
  <2>1. i \in 1..Len(frames) /\ frames[i].ok
    BY <1>3, <1>t DEF CategoryResult, TypeOK, LoopInv
  <2>2. k \in 1..Len(frames[i].cats)
    BY <1>3, <1>t, <2>1, CatsTyped DEF CategoryResult
  <2>3. i' = i /\ k' = k + 1 /\ frames' = frames /\ th' = th
    BY <1>3 DEF CategoryResult, NextPosition
  <2>4. \A a \in 1..Len(frames), b \in Nat :
           Visited(frames, i, k, a, b)' <=>
              Visited(frames, i, k, a, b) \/ (a = i /\ b = k)
    BY <1>t, <2>1, <2>2, <2>3, VisitStep
  <2>5. SeenReaching("FlagAt")' <=> SeenReaching("FlagAt") \/ Reaches(th, x, "FlagAt")
    BY <1>t, <2>1, <2>3, <2>4 DEF SeenReaching
  <2>6. SeenReaching("BlockAt")' <=> SeenReaching("BlockAt") \/ Reaches(th, x, "BlockAt")
    BY <1>t, <2>1, <2>3, <2>4 DEF SeenReaching
  <2>7. SeenScore' <=> SeenScore \/ x.score # Null
    BY <1>t, <2>1, <2>3, <2>4 DEF SeenScore
  <2>8. anyFlagged' <=> anyFlagged \/ Reaches(th, x, "FlagAt")
    BY <1>3 DEF CategoryResult, Flagged
  <2>9. block' <=> block \/ Reaches(th, x, "BlockAt")
    BY <1>3 DEF CategoryResult, Blocks
  <2>10. maxScore' # Null <=> maxScore # Null \/ x.score # Null
    BY <1>3 DEF CategoryResult, Higher
  <2>11. okFrames' = okFrames /\ okFrames # 0 /\ anyError' = anyError
    BY <1>3, <1>t, <2>2 DEF CategoryResult, LoopInv
  <2> HIDE DEF x
  <2> QED
    BY <2>1, <2>3, <2>5, <2>6, <2>7, <2>8, <2>9, <2>10, <2>11 DEF LoopInv
<1>4. CASE FrameDone
  <2>1. i \in 1..Len(frames) /\ frames[i].ok /\ k > Len(frames[i].cats) /\ k > 0
    BY <1>4, <1>t DEF FrameDone, TypeOK, LoopInv
  <2>2. i' = i + 1 /\ k' = 0 /\ frames' = frames /\ th' = th
    BY <1>4 DEF FrameDone
  <2>3. \A a \in 1..Len(frames), b \in Nat :
           Visited(frames, i, k, a, b)' <=> Visited(frames, i, k, a, b)
    BY <1>t, <2>1, <2>2, VisitStep
  <2>4. /\ SeenReaching("FlagAt")' <=> SeenReaching("FlagAt")
        /\ SeenReaching("BlockAt")' <=> SeenReaching("BlockAt")
        /\ SeenScore' <=> SeenScore
    BY <2>2, <2>3, SameSeen
  <2>5. (\E a \in 1..Len(frames') : a < i' /\ ~frames'[a].ok)
           <=> \E a \in 1..Len(frames) : a < i /\ ~frames[a].ok
    BY <1>t, <2>1, <2>2
  <2> QED
    BY <1>4, <1>t, <2>1, <2>2, <2>4, <2>5 DEF FrameDone, counters, LoopInv
<1>5. CASE Decide \/ UNCHANGED vars
  <2>1. UNCHANGED <<th, frames, i, k, counters>>
    BY <1>5 DEF Decide, vars
  <2> QED
    BY <2>1 DEF counters, LoopInv, SeenReaching, SeenScore, Visited
<1> QED
  BY <1>1, <1>2, <1>3, <1>4, <1>5 DEF Next

\* A verdict is given once, and nothing it rests on changes afterwards.
LEMMA StepVerdict == IInv /\ [Next]_vars => VerdictInv'
<1> SUFFICES ASSUME TypeOK, LoopInv, VerdictInv, [Next]_vars PROVE VerdictInv'
  BY DEF IInv
<1>1. CASE Decide
  <2>1. i > Len(frames) /\ k = 0
    <3>1. k > 0 => i <= Len(frames)
      BY DEF TypeOK
    <3> QED
      BY <1>1, <3>1 DEF Decide, TypeOK
  <2>2. UNCHANGED <<frames, i, k, counters>>
    BY <1>1 DEF Decide
  <2>3. CouldNotEvaluate' = CouldNotEvaluate /\ block' = block /\ anyFlagged' = anyFlagged
    BY <2>2 DEF counters, CouldNotEvaluate
  <2>4. /\ verdict' = "block" <=> block
        /\ verdict' = "error" => CouldNotEvaluate
        /\ verdict' = "flag" => ~CouldNotEvaluate /\ anyFlagged
        /\ verdict' = "allow" => ~CouldNotEvaluate /\ ~anyFlagged
    BY <1>1 DEF Decide
  <2> QED
    BY <2>1, <2>2, <2>3, <2>4 DEF VerdictInv
<1>2. CASE FrameErrored \/ FrameOk \/ CategoryResult \/ FrameDone
  BY <1>2 DEF FrameErrored, FrameOk, CategoryResult, FrameDone, VerdictInv
<1>3. CASE UNCHANGED vars
  BY <1>3 DEF vars, counters, VerdictInv, CouldNotEvaluate
<1> QED
  BY <1>1, <1>2, <1>3 DEF Next

\* When the loop is over the visited part is everything.
LEMMA InvSound == IInv => VerdictSound
<1> SUFFICES ASSUME TypeOK, LoopInv, VerdictInv, verdict # "none"
             PROVE  /\ verdict = "block" <=> SomeReaches("BlockAt")
                    /\ verdict = "error" => ~AllOk \/ ~SomeScore
                    /\ verdict = "flag" => AllOk /\ SomeScore /\ SomeReaches("FlagAt")
                    /\ verdict = "allow" => AllOk /\ SomeScore /\ ~SomeReaches("FlagAt")
  BY DEF IInv, VerdictSound
<1>1. i = Len(frames) + 1 /\ k = 0 /\ frames \in Seq(FrameResults) /\ Len(frames) \in Nat
  BY DEF TypeOK, VerdictInv
<1>2. \A a \in 1..Len(frames) : \A b :
         /\ Visited(frames, i, k, a, b) <=> b \in Results(frames, a)
         /\ b \in Results(frames, a) => b \in Nat
  BY <1>1, VisitedAll
<1>3. SeenReaching("FlagAt") <=> SomeReaches("FlagAt")
  BY <1>2 DEF SeenReaching, SomeReaches
<1>4. SeenReaching("BlockAt") <=> SomeReaches("BlockAt")
  BY <1>2 DEF SeenReaching, SomeReaches
<1>5. SeenScore <=> SomeScore
  BY <1>2 DEF SeenScore, SomeScore
<1>6. ~anyError <=> AllOk
  BY <1>1 DEF LoopInv, AllOk
<1>7. (anyFlagged <=> SomeReaches("FlagAt")) /\ (block <=> SomeReaches("BlockAt"))
  BY <1>3, <1>4 DEF LoopInv
<1>8. (maxScore # Null <=> SomeScore) /\ (okFrames = 0 => ~SomeScore)
  BY <1>5 DEF LoopInv
<1> QED
  BY <1>6, <1>7, <1>8 DEF VerdictInv, CouldNotEvaluate

\* Rollup's verdict, for every threshold file and every list of frame results:
\* block exactly when a score reaches its block boundary, error only when a
\* frame failed or nothing was scored, flag and allow only when every frame
\* was evaluated.
THEOREM VerdictsSound == Spec => []VerdictSound
<1>1. Init => IInv
  BY InitInv
<1>2. IInv /\ [Next]_vars => IInv'
  BY StepTyped, StepLoop, StepVerdict DEF IInv
<1>3. IInv => VerdictSound
  BY InvSound
<1> QED
  BY <1>1, <1>2, <1>3, PTL DEF Spec

-----------------------------------------------------------------------------
(* The highest score and its category                                       *)

\* Half-way: maxScore bounds the scores of the results visited so far, and
\* topCat is the category of a visited result that has it, before which no
\* result has it.
BoundsSeen ==
    \A a \in 1..Len(frames), b \in Nat :
        Visited(frames, i, k, a, b) /\ frames[a].cats[b].score # Null =>
            frames[a].cats[b].score <= maxScore

FirstTop(a, b) ==
    /\ Visited(frames, i, k, a, b)
    /\ frames[a].cats[b].score = maxScore /\ frames[a].cats[b].cat = topCat
    /\ \A c \in 1..Len(frames), d \in Nat :
          Visited(frames, a, b, c, d) => frames[c].cats[d].score # maxScore

TopInv ==
    /\ maxScore = Null => topCat = Null
    /\ maxScore # Null => BoundsSeen /\ \E a \in 1..Len(frames), b \in Nat : FirstTop(a, b)

\* A step that visits nothing leaves the highest score so far what it was.
LEMMA SameTop ==
  ASSUME TopInv, UNCHANGED <<frames, maxScore, topCat>>,
         \A a \in 1..Len(frames), b \in Nat :
            Visited(frames, i, k, a, b)' <=> Visited(frames, i, k, a, b)
  PROVE  TopInv'
<1>1. CASE maxScore = Null
  BY <1>1 DEF TopInv
<1>2. CASE maxScore # Null
  <2>1. BoundsSeen'
    BY <1>2 DEF TopInv, BoundsSeen
  <2>2. PICK a \in 1..Len(frames), b \in Nat : FirstTop(a, b)
    BY <1>2 DEF TopInv
  <2>3. FirstTop(a, b)'
    <3>1. Visited(frames, i, k, a, b)' /\ (frames[a].cats[b].score = maxScore)'
             /\ (frames[a].cats[b].cat = topCat)'
      BY <2>2 DEF FirstTop
    <3>2. \A c \in 1..Len(frames'), d \in Nat :
             Visited(frames', a, b, c, d) => frames'[c].cats[d].score # maxScore'
      BY <2>2 DEF FirstTop
    <3> QED
      BY <3>1, <3>2 DEF FirstTop
  <2> QED
    BY <1>2, <2>1, <2>3 DEF TopInv
<1> QED
  BY <1>1, <1>2

\* One category result: only a strictly higher score replaces the top, so the
\* first of several equal scores keeps its category.
LEMMA ResultTop ==
  ASSUME TypeOK, LoopInv, TopInv, CategoryResult
  PROVE  TopInv'
<1> DEFINE x == frames[i].cats[k]
<1>t. frames \in Seq(FrameResults) /\ Len(frames) \in Nat /\ k \in Nat
         /\ i \in 1..Len(frames) + 1 /\ maxScore \in Scores \cup {Null}
  BY DEF TypeOK
<1>1. i \in 1..Len(frames) /\ frames[i].ok
  BY <1>t DEF CategoryResult, TypeOK, LoopInv
<1>2. k \in 1..Len(frames[i].cats)
  BY <1>t, <1>1, CatsTyped DEF CategoryResult
<1>3. i' = i /\ k' = k + 1 /\ frames' = frames
  BY DEF CategoryResult, NextPosition
<1>4. \A a \in 1..Len(frames), b \in Nat :
         Visited(frames, i, k, a, b)' <=>
            Visited(frames, i, k, a, b) \/ (a = i /\ b = k)
  BY <1>t, <1>1, <1>2, <1>3, VisitStep
<1>5. x.score \in Scores \cup {Null} /\ Scores \subseteq Nat /\ Null \notin Scores
  BY <1>t, <1>1, <1>2, CatsTyped, RollupAssumption
<1>6. \A a \in 1..Len(frames), b \in Nat :
         Visited(frames, i, k, a, b) => frames[a].cats[b].score \in Scores \cup {Null}
  <2> SUFFICES ASSUME NEW a \in 1..Len(frames), NEW b \in Nat, Visited(frames, i, k, a, b)
               PROVE  frames[a].cats[b].score \in Scores \cup {Null}
    OBVIOUS
  <2>1. b \in 1..Len(frames[a].cats)
    BY DEF Visited, Results
  <2> QED
    BY <1>t, <2>1, CatsTyped
<1>7. \A a \in 1..Len(frames), b \in Nat :
         Visited(frames, i, k, a, b) /\ frames[a].cats[b].score # Null =>
            maxScore # Null /\ frames[a].cats[b].score <= maxScore
  BY DEF TopInv, BoundsSeen, LoopInv, SeenScore
<1>8. CASE x.score # Null /\ Higher(x.score)
  <2>1. maxScore' = x.score /\ topCat' = x.cat
    BY <1>8 DEF CategoryResult
  <2>2. (maxScore # Null => x.score > maxScore) /\ x.score \in Nat
    BY <1>5, <1>8 DEF Higher
  <2> HIDE DEF x
  <2>3. \A a \in 1..Len(frames), b \in Nat :
           Visited(frames, i, k, a, b) /\ frames[a].cats[b].score # Null =>
              frames[a].cats[b].score < x.score
    <3> SUFFICES ASSUME NEW a \in 1..Len(frames), NEW b \in Nat,
                        Visited(frames, i, k, a, b), frames[a].cats[b].score # Null
                 PROVE  frames[a].cats[b].score < x.score
      OBVIOUS
    <3>1. frames[a].cats[b].score \in Nat /\ maxScore \in Nat
      BY <1>t, <1>5, <1>6, <1>7
    <3>2. frames[a].cats[b].score <= maxScore /\ maxScore < x.score
      BY <1>7, <2>2, <3>1
    <3> QED
      BY <2>2, <3>1, <3>2
  <2>4. BoundsSeen'
    <3> SUFFICES ASSUME NEW a \in 1..Len(frames), NEW b \in Nat,
                        Visited(frames, i, k, a, b)', frames[a].cats[b].score # Null
                 PROVE  frames[a].cats[b].score <= x.score
      BY <1>3, <2>1 DEF BoundsSeen
    <3>1. CASE Visited(frames, i, k, a, b)
      <4>1. frames[a].cats[b].score < x.score /\ frames[a].cats[b].score \in Nat
        BY <3>1, <2>3, <1>5, <1>6
      <4> QED
        BY <4>1, <2>2
    <3>2. CASE a = i /\ b = k
      BY <3>2, <2>2 DEF x
    <3> QED
      BY <1>4, <3>1, <3>2
  <2>p. PICK p \in 1..Len(frames), q \in Nat : p = i /\ q = k
    BY <1>t, <1>1
  <2>5. FirstTop(p, q)'
    <3>1. Visited(frames, i, k, p, q)'
      BY <1>4, <2>p
    <3>2. \A c \in 1..Len(frames), d \in Nat :
             Visited(frames, p, q, c, d) => frames[c].cats[d].score # x.score
      <4> SUFFICES ASSUME NEW c \in 1..Len(frames), NEW d \in Nat,
                          Visited(frames, p, q, c, d), frames[c].cats[d].score = x.score
                   PROVE  FALSE
        OBVIOUS
      <4>1. x.score < x.score
        BY <1>8, <2>3, <2>p
      <4> QED
        BY <4>1, <2>2
    <3>3. frames[p].cats[q].score = maxScore' /\ frames[p].cats[q].cat = topCat'
      BY <2>1, <2>p DEF x
    <3> QED
      BY <1>3, <2>1, <3>1, <3>2, <3>3 DEF FirstTop
  <2>6. maxScore' # Null
    BY <1>8, <2>1
  <2> QED
    BY <1>3, <2>4, <2>5, <2>6 DEF TopInv
<1>9. CASE ~(x.score # Null /\ Higher(x.score))
  <2>1. maxScore' = maxScore /\ topCat' = topCat
    BY <1>9 DEF CategoryResult
  <2>2. x.score # Null => maxScore # Null /\ x.score <= maxScore
    <3> SUFFICES ASSUME x.score # Null
                 PROVE  maxScore # Null /\ x.score <= maxScore
      OBVIOUS
    <3>1. ~Higher(x.score) /\ x.score \in Nat
      BY <1>5, <1>9
    <3>2. maxScore # Null /\ ~(x.score > maxScore) /\ maxScore \in Nat
      BY <1>5, <1>t, <3>1 DEF Higher
    <3> HIDE DEF x
    <3> QED
      BY <3>1, <3>2
  <2> HIDE DEF x
  <2>3. CASE maxScore = Null
    BY <2>1, <2>3 DEF TopInv
  <2>4. CASE maxScore # Null
    <3>1. BoundsSeen'
      <4> SUFFICES ASSUME NEW a \in 1..Len(frames), NEW b \in Nat,
                          Visited(frames, i, k, a, b)', frames[a].cats[b].score # Null
                   PROVE  frames[a].cats[b].score <= maxScore
        BY <1>3, <2>1 DEF BoundsSeen
      <4>1. CASE Visited(frames, i, k, a, b)
        BY <4>1, <1>7
      <4>2. CASE a = i /\ b = k
        BY <4>2, <2>2 DEF x
      <4> QED
        BY <1>4, <4>1, <4>2
    <3>2. PICK a \in 1..Len(frames), b \in Nat : FirstTop(a, b)
      BY <2>4 DEF TopInv
    <3>3. FirstTop(a, b)'
      BY <3>2, <1>3, <1>4, <2>1 DEF FirstTop
    <3> QED
      BY <1>3, <2>1, <2>4, <3>1, <3>3 DEF TopInv
  <2> QED
    BY <2>3, <2>4
<1> QED
  BY <1>8, <1>9

\* Every step keeps what the loop says about the highest score.
LEMMA StepTop == IInv /\ TopInv /\ [Next]_vars => TopInv'
<1> SUFFICES ASSUME TypeOK, LoopInv, TopInv, [Next]_vars PROVE TopInv'
  BY DEF IInv
<1>t. /\ frames \in Seq(FrameResults) /\ Len(frames) \in Nat /\ i \in 1..Len(frames) + 1
      /\ k \in Nat
  BY DEF TypeOK
<1>1. CASE FrameErrored
  <2>1. i \in 1..Len(frames) /\ k = 0 /\ ~frames[i].ok
    BY <1>1, <1>t DEF FrameErrored
  <2>2. i' = i + 1 /\ k' = k /\ UNCHANGED <<frames, maxScore, topCat>>
    BY <1>1 DEF FrameErrored
  <2>3. \A a \in 1..Len(frames), b \in Nat :
           Visited(frames, i, k, a, b)' <=> Visited(frames, i, k, a, b)
    BY <1>t, <2>1, <2>2, VisitStep
  <2> QED
    BY <2>2, <2>3, SameTop
<1>2. CASE FrameOk
  <2>1. i \in 1..Len(frames) /\ k = 0
    BY <1>2, <1>t DEF FrameOk
  <2>2. i' = i /\ k' = 1 /\ UNCHANGED <<frames, maxScore, topCat>>
    BY <1>2 DEF FrameOk
  <2>3. \A a \in 1..Len(frames), b \in Nat :
           Visited(frames, i, k, a, b)' <=> Visited(frames, i, k, a, b)
    BY <1>t, <2>1, <2>2, VisitStep
  <2> QED
    BY <2>2, <2>3, SameTop
<1>3. CASE CategoryResult
  BY <1>3, ResultTop
<1>4. CASE FrameDone
  <2>1. i \in 1..Len(frames) /\ frames[i].ok /\ k > Len(frames[i].cats) /\ k > 0
    BY <1>4, <1>t DEF FrameDone, TypeOK, LoopInv
  <2>2. i' = i + 1 /\ k' = 0 /\ UNCHANGED <<frames, maxScore, topCat>>
    BY <1>4 DEF FrameDone, counters
  <2>3. \A a \in 1..Len(frames), b \in Nat :
           Visited(frames, i, k, a, b)' <=> Visited(frames, i, k, a, b)
    BY <1>t, <2>1, <2>2, VisitStep
  <2> QED
    BY <2>2, <2>3, SameTop
<1>5. CASE Decide \/ UNCHANGED vars
  <2>1. UNCHANGED <<frames, i, k, maxScore, topCat>>
    BY <1>5 DEF Decide, vars, counters
  <2>2. \A a \in 1..Len(frames), b \in Nat :
           Visited(frames, i, k, a, b)' <=> Visited(frames, i, k, a, b)
    BY <2>1
  <2> QED
    BY <2>1, <2>2, SameTop
<1> QED
  BY <1>1, <1>2, <1>3, <1>4, <1>5 DEF Next

\* When the loop is over the highest score visited is the highest of all.
LEMMA TopSound == IInv /\ TopInv => TopIsMax
<1> SUFFICES ASSUME TypeOK, LoopInv, VerdictInv, TopInv, verdict # "none"
             PROVE  TopIsMax
  BY DEF IInv, TopIsMax
<1>1. i = Len(frames) + 1 /\ k = 0 /\ frames \in Seq(FrameResults) /\ Len(frames) \in Nat
  BY DEF TypeOK, VerdictInv
<1>2. \A a \in 1..Len(frames) : \A b :
         /\ Visited(frames, i, k, a, b) <=> b \in Results(frames, a)
         /\ b \in Results(frames, a) => b \in Nat
  BY <1>1, VisitedAll
<1>3. maxScore # Null <=> SomeScore
  <2>1. SeenScore <=> SomeScore
    BY <1>2 DEF SeenScore, SomeScore
  <2> QED
    BY <2>1 DEF LoopInv
<1>4. CASE ~SomeScore
  BY <1>3, <1>4 DEF TopInv, TopIsMax
<1>5. CASE SomeScore
  <2>1. \A a \in 1..Len(frames) : \A b \in Results(frames, a) :
           frames[a].cats[b].score # Null => frames[a].cats[b].score <= maxScore
    BY <1>2, <1>3, <1>5 DEF TopInv, BoundsSeen
  <2>2. PICK a \in 1..Len(frames), b \in Nat : FirstTop(a, b)
    BY <1>3, <1>5 DEF TopInv
  <2>3. b \in Results(frames, a)
    BY <1>2, <2>2 DEF FirstTop
  <2>4. frames[a].cats[b].score = maxScore /\ frames[a].cats[b].cat = topCat
    BY <2>2 DEF FirstTop
  <2>5. ASSUME NEW c \in 1..a, NEW d \in Results(frames, c), c < a \/ d < b
        PROVE  frames[c].cats[d].score # maxScore
    <3>1. c \in 1..Len(frames)
      BY <1>1
    <3>2. d \in Nat
      BY <1>2, <3>1
    <3>3. Visited(frames, a, b, c, d)
      BY <2>5 DEF Visited
    <3> QED
      BY <2>2, <3>1, <3>2, <3>3 DEF FirstTop
  <2> QED
    BY <1>5, <2>1, <2>3, <2>4, <2>5 DEF TopIsMax
<1> QED
  BY <1>4, <1>5

\* Overall.MaxScore and Overall.TopCategory, for every threshold file and every
\* list of frame results: no evaluated frame has a higher score, and the
\* category is that of the first result with this score, nil scores and failed
\* frames in between notwithstanding.
THEOREM TopIsHighest == Spec => []TopIsMax
<1>1. Init => IInv /\ TopInv
  BY InitInv DEF Init, TopInv
<1>2. IInv /\ TopInv /\ [Next]_vars => (IInv /\ TopInv)'
  BY StepTyped, StepLoop, StepVerdict, StepTop DEF IInv
<1>3. IInv /\ TopInv => TopIsMax
  BY TopSound
<1> QED
  BY <1>1, <1>2, <1>3, PTL DEF Spec

-----------------------------------------------------------------------------
(* Labels the operator has switched off.                                    *)

\* "Unarmed labels ... can never flag or block" (config.go:142), except in
\* hybrid mode, where such a label inherits the boundaries of its category: a
\* flag or a block has a result behind it whose label is not unarmed.
THEOREM UnarmedStaysQuiet == Spec => [](setting.mode # "hybrid" => UnarmedNeverFires)
<1>1. TypeOK /\ VerdictSound => (setting.mode # "hybrid" => UnarmedNeverFires)
  <2> SUFFICES ASSUME TypeOK, VerdictSound, setting.mode # "hybrid", verdict \in {"flag", "block"}
               PROVE  UnarmedNeverFires
    BY DEF UnarmedNeverFires
  <2> setting \in Configurations /\ th = Merge(setting)
    BY RollupAssumption DEF TypeOK
  <2>1. PICK field \in {"FlagAt", "BlockAt"} : SomeReaches(field)
    BY DEF VerdictSound
  <2>2. PICK a \in 1..Len(frames) : \E b \in Results(frames, a) : Reaches(th, frames[a].cats[b], field)
    BY <2>1 DEF SomeReaches
  <2>3. PICK b \in Results(frames, a) : Reaches(th, frames[a].cats[b], field)
    BY <2>2
  <2> DEFINE x == frames[a].cats[b]
  <2>4. x.label \notin setting.unarmed
    <3> SUFFICES ASSUME x.label \in setting.unarmed PROVE FALSE
      OBVIOUS
    <3>1. setting.mode = "override" /\ x.label \in Labels
      BY DEF Configurations
    <3>2. \A key \in DOMAIN th : th[key] = Null \/ key \in Labels
      BY <3>1 DEF Merge, Keys
    <3>3. ResolveFor(th, x.cat, x.label, field) = Null
      <4>1. th[x.label] = NoBoundaries /\ Boundary(th, x.label, field) = Null
        BY <3>1, RollupAssumption DEF Merge, Keys, Boundary, NoBoundaries
      <4>2. Canonicalize(x.cat) \in CategoryKeys /\ "default" \in CategoryKeys
        BY RollupAssumption DEF Canonicalize, CategoryKeys
      <4>3. \A key \in CategoryKeys : Boundary(th, key, field) = Null
        BY <3>2, RollupAssumption DEF Boundary
      <4> QED
        BY <4>1, <4>2, <4>3 DEF ResolveFor, Else
    <3> QED
      BY <2>3, <3>3 DEF Reaches
  <2> QED
    BY <2>2, <2>3, <2>4 DEF UnarmedNeverFires
<1> QED
  BY <1>1, TypeCorrect, VerdictsSound, PTL
=============================================================================
