---------------------------- MODULE ServerProofs ----------------------------
(***************************************************************************)
(* What the server promises, for every configuration an operator may write, *)
(* every number of jobs, requests and workers and every size of the result  *)
(* store: a boot that succeeds has a sound configuration and one that fails *)
(* gives back what it opened; what is shown as done is on record; an answer *)
(* is not taken back.                                                       *)
(***************************************************************************)
EXTENDS Server, FiniteSetTheorems, SequenceTheorems, WellFoundedInduction, NaturalsInduction, TLAPS

-----------------------------------------------------------------------------
(* A boot that fails gives back what it opened.                             *)

\* What may be open before each step, and after the boot.
MayBeOpen(p) ==
    CASE p \in {"load", "frames", "moderator"} -> {}
      [] p \in {"labels", "decorator", "audit"} -> {"moderator"}
      [] p \in {"sinks", "queue"} -> {"moderator", "audit", "sinks"}
      [] p = "refused" -> {"redis"}
      [] OTHER -> {"moderator", "audit", "sinks", "redis"}

Stages == BootSteps \cup {"booted", "refused", "serving", "intake", "drain", "close", "stopped"}

OpenInv == phase \in Stages /\ open \subseteq MayBeOpen(phase)

\* What is open is never more than its stage allows.
LEMMA OpenHolds == Spec => []OpenInv
<1> USE DEF OpenInv, MayBeOpen, Stages, BootSteps
<1>1. Init => OpenInv
  BY DEF Init, BootInit
<1>2. OpenInv /\ [Next]_vars => OpenInv'
  <2> SUFFICES ASSUME OpenInv, [Next]_vars PROVE OpenInv'
    OBVIOUS
  <2>1. CASE BootStep
    <3>1. CASE LoadConfig
      BY <3>1 DEF LoadConfig, Proceed, Refuse
    <3>2. CASE validateFrameBoot
      BY <3>2 DEF validateFrameBoot, Proceed, Refuse
    <3>3. CASE buildModerator
      BY <3>3 DEF buildModerator, Proceed, Refuse
    <3>4. CASE LabelBoot
      BY <3>4 DEF LabelBoot, Proceed, Refuse
    <3>5. CASE applyModeratorDecorator
      BY <3>5 DEF applyModeratorDecorator, Proceed, Refuse
    <3>6. CASE openAudit
      BY <3>6 DEF openAudit, Proceed, Refuse
    <3>7. CASE BuildSink
      BY <3>7 DEF BuildSink, Proceed, Refuse
    <3>8. CASE SinksBuilt
      BY <3>8 DEF SinksBuilt, Proceed, Refuse
    <3>9. CASE newQueue
      BY <3>9 DEF newQueue, Proceed, Refuse, QueueGivesBack
    <3> QED
      BY <2>1, <3>1, <3>2, <3>3, <3>4, <3>5, <3>6, <3>7, <3>8, <3>9 DEF BootStep
  <2>2. CASE Run
    BY <2>2 DEF Run
  <2>3. CASE StartFails
    BY <2>3 DEF StartFails
  <2>4. CASE Cancel
    BY <2>4 DEF Cancel
  <2>5. CASE IntakeShutdown
    BY <2>5 DEF IntakeShutdown
  <2>6. CASE QueueClose
    BY <2>6 DEF QueueClose
  <2>7. CASE Close
    BY <2>7 DEF Close
  <2>8. CASE UNCHANGED bootVars
    BY <2>8 DEF bootVars
  <2> QED
    BY <2>1, <2>2, <2>3, <2>4, <2>5, <2>6, <2>7, <2>8
       DEF Next, Stopping, vars, DrainTimeout, Expire, Get, Post, Enqueue, EnqueueFails,
           Accepted202, Claim, Deliver, DeliverFails, Finish, Redeliver
<1> QED BY <1>1, <1>2, PTL DEF Spec

\* newServer gives back the moderator, the audit log and the sinks wherever it
\* fails.
THEOREM FailedBootReleases == Spec => []BootReleases
<1>1. OpenInv => BootReleases
  BY DEF OpenInv, BootReleases, MayBeOpen
<1> QED BY <1>1, OpenHolds, PTL

-----------------------------------------------------------------------------
(* A boot that succeeds has a sound configuration.                          *)

AfterLabels == {"decorator", "audit", "sinks", "queue", "booted"}
AfterFrames == AfterLabels \cup {"moderator", "labels"}
AfterLoad == AfterFrames \cup {"frames"}

\* What each checkpoint has established is still true of the configuration at
\* the later ones.
CheckedInv ==
    /\ phase = "load" => asked \in Configs
    /\ phase \in AfterLoad => asked \in Configs /\ Accepted(asked) /\ cfg = Load(asked)
    /\ phase \in AfterFrames => ValidateAll(cfg.workflows, cfg.default, cfg.maxFrames)
    /\ phase \in AfterLabels => validateProviderLabelBoot(cfg)

LEMMA CheckedHolds == Spec => []CheckedInv
<1> USE DEF CheckedInv, AfterLabels, AfterFrames, AfterLoad
<1>1. Init => CheckedInv
  BY DEF Init, BootInit
<1>2. CheckedInv /\ [Next]_vars => CheckedInv'
  <2> SUFFICES ASSUME CheckedInv, [Next]_vars PROVE CheckedInv'
    OBVIOUS
  <2>1. CASE BootStep
    <3>1. CASE LoadConfig
      BY <3>1 DEF LoadConfig, Proceed, Refuse
    <3>2. CASE validateFrameBoot
      BY <3>2 DEF validateFrameBoot, Proceed, Refuse
    <3>3. CASE buildModerator
      BY <3>3 DEF buildModerator, Proceed, Refuse
    <3>4. CASE LabelBoot
      BY <3>4 DEF LabelBoot, Proceed, Refuse
    <3>5. CASE applyModeratorDecorator
      BY <3>5 DEF applyModeratorDecorator, Proceed, Refuse
    <3>6. CASE openAudit
      BY <3>6 DEF openAudit, Proceed, Refuse
    <3>7. CASE BuildSink
      BY <3>7 DEF BuildSink, Refuse
    <3>8. CASE SinksBuilt
      BY <3>8 DEF SinksBuilt, Proceed, Refuse
    <3>9. CASE newQueue
      BY <3>9 DEF newQueue, Proceed
    <3> QED
      BY <2>1, <3>1, <3>2, <3>3, <3>4, <3>5, <3>6, <3>7, <3>8, <3>9 DEF BootStep
  <2>2. CASE Run
    BY <2>2 DEF Run
  <2>3. CASE StartFails
    BY <2>3 DEF StartFails
  <2>4. CASE Cancel
    BY <2>4 DEF Cancel
  <2>5. CASE IntakeShutdown
    BY <2>5 DEF IntakeShutdown
  <2>6. CASE QueueClose
    BY <2>6 DEF QueueClose
  <2>7. CASE Close
    BY <2>7 DEF Close
  <2>8. CASE UNCHANGED bootVars
    BY <2>8 DEF bootVars
  <2> QED
    BY <2>1, <2>2, <2>3, <2>4, <2>5, <2>6, <2>7, <2>8
       DEF Next, Stopping, vars, DrainTimeout, Expire, Get, Post, Enqueue, EnqueueFails,
           Accepted202, Claim, Deliver, DeliverFails, Finish, Redeliver
<1> QED BY <1>1, <1>2, PTL DEF Spec

\* Normalizing a predicate changes how it is spelt and not what it takes.
LEMMA NormalizeKeepsMeaning ==
    ASSUME NEW p, Normalizable(p), NEW env
    PROVE  Match(Normalize(p), env) <=> Wanted(p, env)
<1> DEFINE q == Normalize(p)
<1>1. /\ q.verdicts = {v[1] : v \in p.verdicts}
      /\ q.kinds = {k[1] : k \in p.kinds}
      /\ DOMAIN q.cats = {c[1] : c \in DOMAIN p.cats}
  BY DEF Normalize, TrimLower
<1>2. ASSUME NEW c \in DOMAIN p.cats PROVE q.cats[c[1]] = p.cats[c]
  <2> DEFINE d == CHOOSE d \in DOMAIN p.cats : d[1] = c[1]
  <2>1. d \in DOMAIN p.cats /\ d[1] = c[1]
    OBVIOUS
  <2>2. d = c
    BY <2>1 DEF Normalizable, TrimLower
  <2>3. q.cats[c[1]] = p.cats[d]
    BY DEF Normalize, TrimLower
  <2> QED BY <2>2, <2>3
<1> HIDE DEF q
<1>3. (q.verdicts # {} => verdictOf(env) \in q.verdicts)
      <=> (p.verdicts = {} \/ \E v \in p.verdicts : v[1] = verdictOf(env))
  BY <1>1
<1>4. (q.kinds # {} => env.kind \in q.kinds)
      <=> (p.kinds = {} \/ \E k \in p.kinds : k[1] = env.kind)
  BY <1>1
<1> DEFINE W(c) == \E s \in env.scores : /\ env.verdict # Null /\ s.score # Null
                                         /\ Canonicalize(s.cat) = c[1] /\ s.score >= p.cats[c]
           M(n) == anyFrameScoreAtLeast(env, n, q.cats[n])
<1>5. ASSUME NEW c \in DOMAIN p.cats PROVE M(c[1]) <=> W(c)
  BY <1>2 DEF anyFrameScoreAtLeast
<1> HIDE DEF M, W
<1>6. (\A n \in DOMAIN q.cats : M(n)) <=> (\A c \in DOMAIN p.cats : W(c))
  BY <1>1, <1>5
<1> QED BY <1>3, <1>4, <1>6 DEF Match, Wanted, M, W, q

\* Only a placeholder renders to a path, and one without spaces is the one that
\* the checks on the literal text look for.
LEMMA RendersPath ==
    ASSUME NEW node \in Nodes, ~ node.spaced, NEW name \in {"Input", "WorkDir"},
           Rendered(node) = Path(name)
    PROVE  node = Literal(name)
<1>1. Path(name).kind = "path" /\ Path(name).v = name
  BY DEF Path
<1>2. Rendered(node).kind = "path"
  BY <1>1
<1>3. \A t : Text(t).kind = "text"
  BY DEF Text
<1>4. node.kind = "field" /\ node.v \in {"Input", "WorkDir"}
  BY <1>2, <1>3 DEF Rendered
<1>5. Rendered(node) = Path(node.v)
  BY <1>4 DEF Rendered
<1>6. node.v = name
  BY <1>1, <1>5 DEF Path
<1> QED BY <1>4, <1>6 DEF Nodes, Literal, Field

\* What ValidateWorkflow gives, for any template: what it passes renders to a
\* guarded command line; and when the placeholders are written without spaces,
\* the job's file is the input only and the working directory in the output only.
THEOREM ValidatedIsGuarded ==
    ASSUME NEW args \in Seq(Seq(Nodes)), NEW m, ValidateWorkflow(args, m)
    PROVE  /\ Guarded(RenderWorkflow(args))
           /\ Unspaced(args) => /\ InputOnce(RenderWorkflow(args))
                                /\ OutputOnly(RenderWorkflow(args))
<1> DEFINE n == Len(args)
           out == [i \in 1..n |-> [k \in 1..Len(args[i]) |-> Rendered(args[i][k])]]
           quiet == <<Text("-nostdin")>>
           sh == IF quiet \in ToSet(out) THEN 0 ELSE 1
           all == RenderWorkflow(args)
           dash == <<Text("-i")>>
<1>1. n \in Nat /\ n > 0 /\ out \in Seq(ToSet(out)) /\ DOMAIN out = 1..n /\ Len(out) = n
  <2>1. n \in Nat /\ n > 0
    BY DEF ValidateWorkflow
  <2>2. DOMAIN out = 1..n /\ \A i \in 1..n : out[i] \in ToSet(out)
    BY DEF ToSet
  <2>3. out \in [1..n -> ToSet(out)]
    BY <2>2
  <2> HIDE DEF n, out
  <2>4. out \in Seq(ToSet(out))
    BY <2>1, <2>3, SeqDef
  <2> QED BY <2>1, <2>2, <2>4
<1>0. /\ sh = 0 => quiet \in ToSet(out) /\ all = out
      /\ sh = 1 => all = <<quiet>> \o out
  BY DEF RenderWorkflow
<1>7. sh \in {0, 1}
  OBVIOUS
<1>13. /\ \A i \in 1..Len(all) :
            /\ checkForbidden(all[i])
            /\ ~ Shows(all[i], "..")
            /\ looksAbsolutePath(all[i]) => all[i] = <<Path("Input")>> \/ UnderWorkDir(all[i])
       /\ Count(all, dash) = 1
       /\ UnderWorkDir(Last(all))
  BY DEF ValidateWorkflow, checkRenderedArgs
<1>14. ASSUME NEW i \in 1..n
       PROVE  out[i] = [k \in 1..Len(args[i]) |-> Rendered(args[i][k])]
  OBVIOUS
<1> HIDE DEF out, sh, all
<1>2. /\ Len(all) = n + sh
      /\ \A i \in 1..n : all[i + sh] = out[i]
      /\ \A i \in 1..sh : all[i] = quiet
      /\ quiet \in ToSet(all)
  <2> HIDE DEF n, quiet
  <2>1. CASE sh = 0
    BY <2>1, <1>0, <1>1
  <2>2. CASE sh = 1
    <3> DEFINE S == ToSet(out) \cup {quiet}
    <3>1. out \in Seq(S) /\ <<quiet>> \in Seq(S) /\ Len(<<quiet>>) = 1 /\ <<quiet>>[1] = quiet
      BY <1>1
    <3>2. all = <<quiet>> \o out
      BY <2>2, <1>0
    <3>3. /\ all \in Seq(S) /\ Len(all) = 1 + n
          /\ \A i \in 1..(1 + n) : all[i] = IF i <= 1 THEN quiet ELSE out[i - 1]
      BY <3>1, <3>2, <1>1, ConcatProperties
    <3>4. all[1] = quiet /\ 1 \in DOMAIN all
      BY <3>3, <1>1
    <3>5. quiet \in ToSet(all)
      BY <3>4 DEF ToSet
    <3> HIDE DEF S
    <3>6. \A i \in 1..sh : all[i] = quiet
      BY <3>4, <2>2
    <3>7. Len(all) = n + sh /\ \A i \in 1..n : all[i + sh] = out[i]
      BY <3>3, <2>2, <1>1
    <3> QED BY <3>5, <3>6, <3>7
  <2> QED BY <2>1, <2>2, <1>7
<1>3. /\ \A i \in 1..Len(all) :
            /\ checkForbidden(all[i])
            /\ ~ Shows(all[i], "..")
            /\ looksAbsolutePath(all[i]) => all[i] = <<Path("Input")>> \/ UnderWorkDir(all[i])
      /\ Count(all, dash) = 1
      /\ UnderWorkDir(Last(all))
  BY <1>13
<1>4. PICK i \in 2..n : args[i] = <<Literal("Input")>> /\ args[i - 1] = <<Text("-i")>>
  <2> DEFINE I == {i \in 1..n : args[i] = <<Literal("Input")>>}
  <2>1. Cardinality(I) = 1
    BY DEF ValidateWorkflow, Count
  <2>2. IsFiniteSet(1..n)
    BY <1>1, FS_Interval
  <2>3. IsFiniteSet(I)
    BY <2>2, FS_Subset
  <2>4. PICK x : I = {x}
    BY <2>1, <2>3, FS_Singleton
  <2>5. x \in 1..n /\ args[x] = <<Literal("Input")>>
    BY <2>4
  <2>6. Mentions(args[x], "Input")
    BY <2>5 DEF Mentions
  <2>7. x > 1 /\ args[x - 1] = <<Text("-i")>>
    BY <2>5, <2>6 DEF ValidateWorkflow
  <2>8. x \in 2..n
    BY <2>5, <2>7, <1>1
  <2> QED BY <2>5, <2>7, <2>8
<1>5. out[i] = <<Path("Input")>> /\ out[i - 1] = dash
  <2>1. i \in 1..n /\ i - 1 \in 1..n
    BY <1>4, <1>1
  <2>2. Rendered(Literal("Input")) = Path("Input") /\ Rendered(Text("-i")) = Text("-i")
    BY DEF Rendered, Literal, Field, Text
  <2>3. /\ Len(args[i]) = 1 /\ args[i][1] = Literal("Input")
        /\ Len(args[i - 1]) = 1 /\ args[i - 1][1] = Text("-i")
    BY <1>4
  <2>4. /\ out[i] = [k \in 1..1 |-> Rendered(args[i][k])]
        /\ out[i - 1] = [k \in 1..1 |-> Rendered(args[i - 1][k])]
    BY <2>1, <2>3, <1>14
  <2>5. out[i] = [k \in 1..1 |-> Path("Input")]
    BY <2>2, <2>3, <2>4
  <2>6. out[i - 1] = [k \in 1..1 |-> Text("-i")]
    BY <2>2, <2>3, <2>4
  <2> QED BY <2>5, <2>6
<1>6. /\ Last(all) = out[n] /\ Len(out[n]) > 1
      /\ out[n][2] = Text("/abs")
  <2>1. Last(all) = out[n]
    BY <1>1, <1>2, <1>7 DEF Last
  <2>2. Len(args[n]) \in Nat /\ Len(args[n]) >= 2 /\ args[n][2] = Text("/abs")
    BY <1>1 DEF ValidateWorkflow, Last
  <2>3. n \in 1..n
    BY <1>1
  <2>4. out[n] = [k \in 1..Len(args[n]) |-> Rendered(args[n][k])]
    BY <2>3, <1>14
  <2>5. Len(out[n]) = Len(args[n]) /\ out[n][2] = Rendered(args[n][2])
    BY <2>2, <2>4
  <2> QED BY <2>1, <2>2, <2>5 DEF Rendered, Text
<1>8. /\ i - 1 + sh \in 1..(Len(all) - 1)
      /\ all[i - 1 + sh] = dash
      /\ all[i - 1 + sh + 1] = <<Path("Input")>>
  <2> DEFINE a == i - 1
  <2>1. /\ i \in 1..n /\ a \in 1..n /\ a + 1 = i /\ Len(all) = n + sh
    BY <1>1, <1>2, <1>4
  <2>2. all[i + sh] = out[i] /\ all[a + sh] = out[a]
    BY <1>2, <2>1
  <2>3. a + sh \in 1..(Len(all) - 1) /\ a + sh + 1 = i + sh
    BY <2>1, <1>1, <1>7
  <2>4. out[a] = dash
    BY <1>5
  <2> HIDE DEF a
  <2>5. all[a + sh] = dash /\ all[a + sh + 1] = <<Path("Input")>>
    BY <2>2, <2>3, <2>4, <1>5
  <2> QED BY <2>3, <2>5 DEF a
<1>9. ASSUME NEW j \in 1..Len(all), all[j] = dash PROVE j = i - 1 + sh
  <2> DEFINE I == {k \in 1..Len(all) : all[k] = dash}
  <2>1. Cardinality(I) = 1
    BY <1>3 DEF Count
  <2>4. IsFiniteSet(1..Len(all))
    <3>1. 1 \in Int /\ Len(all) \in Int
      BY <1>1, <1>2, <1>7
    <3> QED BY <3>1, FS_Interval
  <2>2. IsFiniteSet(I)
    BY <2>4, FS_Subset
  <2>3. PICK x : I = {x}
    BY <2>1, <2>2, FS_Singleton
  <2>5. j \in I /\ i - 1 + sh \in I
    BY <1>9, <1>8, <1>1, <1>2, <1>7
  <2> QED BY <2>3, <2>5
<1>10. ASSUME NEW j \in 1..Len(all)
       PROVE  /\ ~ Shows(all[j], "://") /\ ~ Shows(all[j], "..")
              /\ Len(all[j]) > 0 => all[j][1] \notin {Text("/abs"), Text("tcp:")}
              /\ Len(all[j]) > 0 /\ all[j][1].kind = "path" =>
                    all[j] = <<Path("Input")>> \/ all[j][1] = Path("WorkDir")
  <2>1. /\ ~ Shows(all[j], "://") /\ ~ Shows(all[j], "..")
        /\ all[j] # <<>> => all[j][1] # Text("tcp:")
    BY <1>3 DEF checkForbidden
  <2>2. CASE all[j] = <<>>
    BY <2>1, <2>2
  <2>3. CASE all[j] # <<>>
    <3>1. looksAbsolutePath(all[j]) => all[j] = <<Path("Input")>> \/ all[j][1] = Path("WorkDir")
      BY <1>3 DEF UnderWorkDir
    <3>2. Path("Input") # Text("/abs") /\ Path("WorkDir") # Text("/abs")
      BY DEF Path, Text
    <3> QED BY <2>1, <2>3, <3>1, <3>2 DEF looksAbsolutePath
  <2> QED BY <2>2, <2>3
<1>11. Guarded(all)
  <2>1. \E a \in 1..Len(all) - 1 :
            /\ all[a] = dash /\ all[a + 1] = <<Path("Input")>>
            /\ \A j \in 1..Len(all) : all[j] = dash => j = a
    BY <1>8, <1>9
  <2>2. UnderWorkDir(Last(all)) /\ Len(Last(all)) > 1 /\ Last(all)[2] = Text("/abs")
    BY <1>3, <1>6
  <2> HIDE DEF dash
  <2> QED BY <2>1, <2>2, <1>10, <1>2 DEF Guarded, dash
<1>12. ASSUME Unspaced(args), NEW x \in 1..n, NEW k \in 1..Len(args[x]),
              NEW name \in {"Input", "WorkDir"}, out[x][k] = Path(name)
       PROVE  args[x][k] = Literal(name) /\ Mentions(args[x], name)
  <2>1. out[x][k] = Rendered(args[x][k])
    BY <1>14
  <2>2. args[x] \in Seq(Nodes)
    BY <1>1
  <2>3. args[x][k] \in Nodes
    BY <2>2
  <2>4. ~ args[x][k].spaced
    BY <1>12 DEF Unspaced
  <2>5. args[x][k] = Literal(name)
    BY <1>12, <2>1, <2>3, <2>4, RendersPath
  <2> QED BY <2>5 DEF Mentions
<1>15. ASSUME Unspaced(args), NEW x \in 1..n, NEW k \in 1..Len(args[x]),
              out[x][k] = Path("Input")
       PROVE  x = i
  <2> DEFINE I == {y \in 1..n : args[y] = <<Literal("Input")>>}
  <2>1. Mentions(args[x], "Input")
    BY <1>12, <1>15
  <2>2. args[x] = <<Literal("Input")>>
    BY <2>1 DEF ValidateWorkflow
  <2>3. Cardinality(I) = 1
    BY DEF ValidateWorkflow, Count
  <2>4. IsFiniteSet(1..n)
    BY <1>1, FS_Interval
  <2>5. IsFiniteSet(I)
    BY <2>4, FS_Subset
  <2>6. PICK y : I = {y}
    BY <2>3, <2>5, FS_Singleton
  <2>7. i \in 1..n
    BY <1>1, <1>4
  <2>8. x \in I /\ i \in I
    BY <2>2, <2>7, <1>4
  <2> QED BY <2>6, <2>8
<1>16. ASSUME Unspaced(args), NEW x \in 1..n - 1, NEW k \in 1..Len(args[x])
       PROVE  out[x][k] # Path("WorkDir")
  <2> SUFFICES ASSUME out[x][k] = Path("WorkDir") PROVE FALSE
    OBVIOUS
  <2>1. x \in 1..n
    BY <1>1
  <2>2. args[x][k] = Literal("WorkDir") /\ Mentions(args[x], "WorkDir")
    BY <2>1, <1>12, <1>16
  <2>3. args[x] # <<Literal("Input")>>
    <3>1. Literal("WorkDir").v = "WorkDir" /\ Literal("Input").v = "Input"
      BY DEF Literal, Field
    <3>2. ASSUME args[x] = <<Literal("Input")>> PROVE FALSE
      <4>1. k = 1
        BY <3>2
      <4> QED BY <3>1, <3>2, <4>1, <2>2
    <3> QED BY <3>2
  <2>4. ~ Mentions(args[x], "WorkDir")
    BY <2>3 DEF ValidateWorkflow
  <2> QED BY <2>2, <2>4
<1>17. ASSUME NEW j \in 1..Len(all), NEW k \in 1..Len(all[j]),
              NEW name, all[j][k] = Path(name)
       PROVE  /\ j - sh \in 1..n
              /\ k \in 1..Len(args[j - sh])
              /\ out[j - sh][k] = Path(name)
  <2>1. j \notin 1..sh
    <3> SUFFICES ASSUME j \in 1..sh PROVE FALSE
      OBVIOUS
    <3>1. all[j] = quiet
      BY <1>2
    <3>2. all[j][k] = Text("-nostdin")
      BY <3>1
    <3>3. Text("-nostdin").kind = "text" /\ Path(name).kind = "path"
      BY DEF Text, Path
    <3> QED BY <3>2, <3>3, <1>17
  <2>2. j - sh \in 1..n
    BY <2>1, <1>1, <1>2, <1>7
  <2> DEFINE x == j - sh
  <2>3. x \in 1..n /\ x + sh = j
    BY <2>2, <1>1, <1>7
  <2> HIDE DEF x
  <2>4. all[j] = out[x]
    BY <2>3, <1>2
  <2>5. out[x] = [l \in 1..Len(args[x]) |-> Rendered(args[x][l])]
    BY <2>3, <1>14
  <2>6. Len(args[x]) \in Nat
    BY <2>3, <1>1
  <2>7. Len(out[x]) = Len(args[x])
    BY <2>5, <2>6
  <2> QED BY <2>2, <2>4, <2>7, <1>17 DEF x
<1>18. ASSUME Unspaced(args) PROVE InputOnce(all)
  <2>1. /\ i + sh \in 2..Len(all) /\ all[i + sh - 1] = dash /\ all[i + sh] = <<Path("Input")>>
    <3>1. i - 1 + sh = i + sh - 1 /\ i - 1 + sh + 1 = i + sh /\ i + sh \in 2..Len(all)
      BY <1>1, <1>2, <1>4, <1>7
    <3> QED BY <3>1, <1>8
  <2>2. ASSUME NEW j \in 1..Len(all), NEW k \in 1..Len(all[j]), all[j][k] = Path("Input")
        PROVE  j = i + sh
    <3>1. j - sh \in 1..n /\ k \in 1..Len(args[j - sh]) /\ out[j - sh][k] = Path("Input")
      BY <2>2, <1>17
    <3>2. j - sh = i
      BY <3>1, <1>15, <1>18
    <3> QED BY <3>2, <1>1, <1>2, <1>4, <1>7
  <2>3. PICK b \in Int : b = i + sh /\ b - 1 = i - 1 + sh /\ b - 1 + 1 = b
    BY <1>1, <1>4, <1>7
  <2> HIDE DEF dash
  <2>4. all[b - 1] = dash
    BY <1>8, <2>3
  <2>5. b \in 2..Len(all) /\ all[b - 1] = <<Text("-i")>> /\ all[b] = <<Path("Input")>>
    BY <2>1, <2>3, <2>4 DEF dash
  <2>6. ASSUME NEW j \in 1..Len(all), NEW k \in 1..Len(all[j])
        PROVE  all[j][k] = Path("Input") => j = b
    BY <2>2, <2>3
  <2> QED BY <2>5, <2>6 DEF InputOnce
<1>19. ASSUME Unspaced(args) PROVE OutputOnly(all)
  <2> SUFFICES ASSUME NEW j \in 1..Len(all) - 1, NEW k \in 1..Len(all[j]),
                      all[j][k] = Path("WorkDir")
               PROVE  FALSE
    BY DEF OutputOnly
  <2>1. j \in 1..Len(all)
    BY <1>1, <1>2, <1>7
  <2>2. j - sh \in 1..n /\ k \in 1..Len(args[j - sh]) /\ out[j - sh][k] = Path("WorkDir")
    BY <2>1, <1>17
  <2>3. j - sh \in 1..n - 1
    BY <2>2, <1>1, <1>2, <1>7
  <2> QED BY <2>2, <2>3, <1>16, <1>19
<1> QED BY <1>11, <1>18, <1>19 DEF all

\* Loading keeps the list of sinks, the workflows, the adapter and its policies;
\* it normalizes the predicates.
LEMMA LoadKeeps ==
    ASSUME NEW c, WellFormed(c)
    PROVE  /\ Load(c).workflows = c.workflows
           /\ Load(c).adapter = c.adapter /\ Load(c).policies = c.policies
           /\ Load(c).unarmed = c.unarmed /\ Load(c).labels = withUnarmed(c)
           /\ \A i \in 1..Len(c.sinks) :
                Load(c).sinks[i].predicate = Normalize(c.sinks[i].predicate)
<1>1. {"adapter", "labels", "policies", "sinks", "unarmed", "workflows"} \subseteq DOMAIN c
  BY DEF WellFormed
<1> DEFINE sk == [i \in DOMAIN c.sinks |-> [c.sinks[i] EXCEPT !.predicate = Normalize(@)]]
           lb == withUnarmed(c)
<1>2. Load(c) = [c EXCEPT !.labels = lb, !.sinks = sk]
  BY DEF Load
<1>3. ASSUME NEW i \in 1..Len(c.sinks)
      PROVE  sk[i].predicate = Normalize(c.sinks[i].predicate)
  <2>1. i \in DOMAIN c.sinks /\ "predicate" \in DOMAIN c.sinks[i]
    BY DEF WellFormed
  <2> QED BY <2>1
<1> HIDE DEF sk, lb
<1>4. /\ Load(c).workflows = c.workflows
      /\ Load(c).adapter = c.adapter /\ Load(c).policies = c.policies
      /\ Load(c).unarmed = c.unarmed /\ Load(c).labels = lb
      /\ Load(c).sinks = sk
  BY <1>1, <1>2
<1> QED BY <1>3, <1>4 DEF lb

\* A configuration that passed every checkpoint is sound.
LEMMA CheckedIsSound ==
    ASSUME CheckedInv, phase = "booted"
    PROVE  EveryResultRouted /\ EveryLabelDecided /\ WorkflowsGuarded
<1>1. /\ asked \in Configs /\ Accepted(asked) /\ cfg = Load(asked)
      /\ ValidateAll(cfg.workflows, cfg.default, cfg.maxFrames)
      /\ validateProviderLabelBoot(cfg)
  BY DEF CheckedInv, AfterLoad, AfterFrames, AfterLabels
<1>2. WellFormed(asked)
  BY <1>1, ConfigsAssumption
<1>3. /\ cfg.workflows = asked.workflows
      /\ cfg.adapter = asked.adapter /\ cfg.policies = asked.policies
      /\ cfg.unarmed = asked.unarmed /\ cfg.labels = withUnarmed(asked)
      /\ \A i \in 1..Len(asked.sinks) :
            cfg.sinks[i].predicate = Normalize(asked.sinks[i].predicate)
  BY <1>1, <1>2, LoadKeeps
<1>4. EveryResultRouted
  <2>1. validateOutput(asked)
    BY <1>1 DEF Accepted, Validate
  <2> SUFFICES ASSUME NEW env \in Envelopes
               PROVE  /\ \A i \in 1..Len(asked.sinks) :
                            Match(cfg.sinks[i].predicate, env)
                                <=> Wanted(asked.sinks[i].predicate, env)
                      /\ asked.allowUnrouted
                         \/ \E i \in 1..Len(asked.sinks) : Wanted(asked.sinks[i].predicate, env)
    BY DEF EveryResultRouted
  <2>2. ASSUME NEW i \in 1..Len(asked.sinks)
        PROVE  Match(cfg.sinks[i].predicate, env) <=> Wanted(asked.sinks[i].predicate, env)
    <3>1. Normalizable(asked.sinks[i].predicate)
      BY <2>1 DEF validateOutput, SinkOk
    <3> QED BY <1>3, <3>1, NormalizeKeepsMeaning
  <2>3. ASSUME NEW p, IsEmpty(p) PROVE Wanted(p, env)
    BY <2>3 DEF IsEmpty, Wanted
  <2> QED BY <2>1, <2>2, <2>3 DEF validateOutput, Unconditional
<1>5. EveryLabelDecided
  <2>1. DOMAIN cfg.labels = DOMAIN asked.labels \cup {TrimLower(w) : w \in asked.unarmed}
    BY <1>3 DEF withUnarmed
  <2> QED BY <1>1, <1>3, <2>1 DEF EveryLabelDecided, validateProviderLabelBoot
<1>6. WorkflowsGuarded
  <2> SUFFICES ASSUME NEW w \in DOMAIN cfg.workflows
               PROVE  LET out == RenderWorkflow(cfg.workflows[w]) IN
                      /\ Guarded(out)
                      /\ Unspaced(cfg.workflows[w]) => InputOnce(out) /\ OutputOnly(out)
    BY DEF WorkflowsGuarded
  <2>1. cfg.workflows[w] \in Seq(Seq(Nodes))
    BY <1>2, <1>3 DEF WellFormed
  <2>2. ValidateWorkflow(cfg.workflows[w], cfg.maxFrames)
    BY <1>1 DEF ValidateAll
  <2> QED BY <2>1, <2>2, ValidatedIsGuarded
<1> QED BY <1>4, <1>5, <1>6

\* A server that is about to run has a sound configuration, whatever the operator
\* wrote: the checkpoints of the boot together refuse every configuration that
\* would route a result nowhere or to a sink it was not written for, leave a label
\* of the adapter undecided, or run a workflow without a guardrail of
\* WorkflowsGuarded.
THEOREM AcceptedIsSound == Spec => []BootedIsSound
<1>1. CheckedInv => BootedIsSound
  BY CheckedIsSound DEF BootedIsSound
<1> QED BY <1>1, CheckedHolds, PTL

-----------------------------------------------------------------------------
(* What is done is on record.                                               *)

DocStates == {"none", "queued", "processing", "done", "dead_lettered"}
Answers == {"none", "done", "dead_lettered"}

\* The functions of the model, and their ranges.
Types ==
    /\ req \in [Jobs -> {"new", "checked", "enqueued", "202", "refused"}]
    /\ job \in [Jobs -> {"none", "ready", "analysing", "audit", "acked", "dead"}]
    /\ again \subseteq Repeated
    /\ doc \in [Jobs -> DocStates]
    /\ answer \in [Jobs -> Answers]
    /\ since \in [Jobs -> SUBSET Jobs]

\* A touch changes answers and what was touched since within their types.
LEMMA TouchedTypes ==
    ASSUME Types, NEW j \in Jobs, NEW final \in Answers, Touched(j, final)
    PROVE  answer' \in [Jobs -> Answers] /\ since' \in [Jobs -> SUBSET Jobs]
<1> DEFINE now == [k \in Jobs |-> IF k = j \/ answer[k] = "none" THEN {} ELSE since[k] \cup {j}]
<1>1. now \in [Jobs -> SUBSET Jobs]
  BY DEF Types
<1> HIDE DEF now
<1>2. answer' = [k \in Jobs |->
                  IF Cardinality(now[k]) >= MaxEntries THEN "none"
                  ELSE IF k = j /\ answer[k] = "none" THEN final
                  ELSE answer[k]]
  BY DEF Touched, now
<1>3. since' = [k \in Jobs |-> IF answer'[k] = "none" THEN {} ELSE now[k]]
  BY DEF Touched, now
<1>4. answer' \in [Jobs -> Answers]
  BY <1>2 DEF Types, Answers
<1>5. since' \in [Jobs -> SUBSET Jobs]
  BY <1>1, <1>3
<1> QED BY <1>4, <1>5

\* What a transition leaves in the store: the recorded state, or what was there,
\* or nothing.  Without a read side it leaves everything.
LEMMA RecordDoc ==
    ASSUME Types, NEW j \in Jobs, NEW s \in DocStates \ {"none"}, record(j, s)
    PROVE  /\ doc' \in [Jobs -> DocStates]
           /\ answer' \in [Jobs -> Answers] /\ since' \in [Jobs -> SUBSET Jobs]
           /\ \A k \in Jobs : doc'[k] \in {"none", doc[k]} \/ (k = j /\ doc'[k] = s)
           /\ "api" \notin has => UNCHANGED store
<1>1. CASE UNCHANGED store
  <2>1. UNCHANGED <<doc, answer, since>>
    BY <1>1 DEF store
  <2>2. \A k \in Jobs : doc'[k] \in {"none", doc[k]}
    BY <2>1
  <2>3. /\ doc' \in [Jobs -> DocStates]
        /\ answer' \in [Jobs -> Answers] /\ since' \in [Jobs -> SUBSET Jobs]
    BY <2>1 DEF Types
  <2> QED BY <1>1, <2>2, <2>3
<1>2. CASE /\ "api" \in has
           /\ doc' = [k \in Jobs |-> IF k \notin ToSet(Capped(ToFront(lru, j))) THEN "none"
                                     ELSE IF k = j THEN s ELSE doc[k]]
           /\ Touched(j, IF Terminal(s) THEN s ELSE "none")
  <2> DEFINE final == IF Terminal(s) THEN s ELSE "none"
             T == ToSet(Capped(ToFront(lru, j)))
  <2>1. final \in Answers
    BY DEF Answers, Terminal
  <2>2. Touched(j, final)
    BY <1>2
  <2> HIDE DEF final
  <2>3. answer' \in [Jobs -> Answers] /\ since' \in [Jobs -> SUBSET Jobs]
    BY <2>1, <2>2, TouchedTypes
  <2>4. doc' = [k \in Jobs |-> IF k \notin T THEN "none" ELSE IF k = j THEN s ELSE doc[k]]
    BY <1>2
  <2> HIDE DEF T
  <2>5. \A k \in Jobs : doc'[k] \in {"none", doc[k]} \/ (k = j /\ doc'[k] = s)
    BY <2>4
  <2>6. doc' \in [Jobs -> DocStates]
    <3>1. "none" \in DocStates /\ s \in DocStates /\ \A k \in Jobs : doc[k] \in DocStates
      BY DEF DocStates, Types
    <3> QED BY <2>4, <3>1
  <2> QED BY <2>3, <2>5, <2>6, <1>2
<1> QED BY <1>1, <1>2 DEF record

\* Reading a job, and the end of a time to live, keep the types, and change no
\* state but to none.
LEMMA ReadDoc ==
    ASSUME Types, (\E j \in Jobs : Get(j)) \/ Expire
    PROVE  /\ doc' \in [Jobs -> DocStates]
           /\ answer' \in [Jobs -> Answers] /\ since' \in [Jobs -> SUBSET Jobs]
           /\ \A k \in Jobs : doc'[k] \in {"none", doc[k]}
<1>1. ASSUME NEW j \in Jobs, Get(j)
      PROVE  /\ doc' \in [Jobs -> DocStates]
             /\ answer' \in [Jobs -> Answers] /\ since' \in [Jobs -> SUBSET Jobs]
             /\ \A k \in Jobs : doc'[k] \in {"none", doc[k]}
  <2>1. CASE Live(j)
    <3>1. Touched(j, "none") /\ UNCHANGED doc
      BY <1>1, <2>1 DEF Get
    <3> QED BY <3>1, TouchedTypes DEF Answers, Types
  <2>2. CASE ~ Live(j)
    <3>1. /\ doc' = [doc EXCEPT ![j] = "none"]
          /\ since' = [k \in Jobs |-> since[k] \ {j}]
          /\ UNCHANGED answer
      BY <1>1, <2>2 DEF Get
    <3> QED BY <3>1 DEF Types, DocStates
  <2> QED BY <2>1, <2>2
<1>2. ASSUME Expire
      PROVE  /\ doc' \in [Jobs -> DocStates]
             /\ answer' \in [Jobs -> Answers] /\ since' \in [Jobs -> SUBSET Jobs]
             /\ \A k \in Jobs : doc'[k] \in {"none", doc[k]}
  <2>1. /\ answer' = [answer EXCEPT ![Head(byAge)] = "none"]
        /\ since' = [since EXCEPT ![Head(byAge)] = {}]
        /\ UNCHANGED doc
    BY <1>2 DEF Expire
  <2> QED BY <2>1 DEF Types, Answers
<1> QED BY <1>1, <1>2

\* Every step keeps the types.
LEMMA TypesHold == Spec => []Types
<1>1. Init => Types
  BY ServerAssumption DEF Init, Types, NoState, DocStates, Answers
<1>2. Types /\ [Next]_vars => Types'
  <2> SUFFICES ASSUME Types, [Next]_vars PROVE Types'
    OBVIOUS
  <2>1. CASE UNCHANGED rest
    BY <2>1 DEF rest, store, Types
  <2>2. CASE Expire
    BY <2>2, ReadDoc DEF Expire, Types
  <2>3. CASE IntakeShutdown
    BY <2>3 DEF IntakeShutdown, Types, NoState, DocStates, Answers
  <2>4. ASSUME NEW j \in Jobs, Get(j) PROVE Types'
    BY <2>4, ReadDoc DEF Get, Types
  <2>5. ASSUME NEW j \in Jobs, Post(j) PROVE Types'
    <3>1. PICK a \in {"checked", "refused"} : req' = [req EXCEPT ![j] = a]
      BY <2>5 DEF Post, Answer
    <3> QED BY <3>1, <2>5 DEF Post, Types, store
  <2>6. ASSUME NEW j \in Jobs, Enqueue(j) \/ EnqueueFails(j) PROVE Types'
    BY <2>6 DEF Enqueue, EnqueueFails, Answer, Types, store
  <2>7. ASSUME NEW j \in Jobs, Accepted202(j) PROVE Types'
    <3>1. record(j, "queued")
      BY <2>7 DEF Accepted202
    <3>2. "queued" \in DocStates \ {"none"}
      BY DEF DocStates
    <3> QED BY <2>7, <3>1, <3>2, RecordDoc DEF Accepted202, Answer, Types
  <2>8. ASSUME NEW j \in Jobs, Claim(j) PROVE Types'
    <3>1. record(j, "processing")
      BY <2>8 DEF Claim
    <3>2. "processing" \in DocStates \ {"none"}
      BY DEF DocStates
    <3> QED BY <2>8, <3>1, <3>2, RecordDoc DEF Claim, MoveTo, Types
  <2>9. ASSUME NEW j \in Jobs, Deliver(j) \/ DeliverFails(j) \/ Redeliver(j) PROVE Types'
    BY <2>9 DEF Deliver, DeliverFails, Redeliver, MoveTo, Types, store
  <2>10. ASSUME NEW j \in Jobs, Finish(j) PROVE Types'
    <3>1. PICK fate \in {"acked", "dead"} :
            /\ record(j, IF fate = "acked" THEN "done" ELSE "dead_lettered")
            /\ MoveTo(j, fate)
      BY <2>10 DEF Finish
    <3> DEFINE s == IF fate = "acked" THEN "done" ELSE "dead_lettered"
    <3>2. s \in DocStates \ {"none"} /\ record(j, s)
      BY <3>1 DEF DocStates
    <3> HIDE DEF s
    <3>3. /\ doc' \in [Jobs -> DocStates]
          /\ answer' \in [Jobs -> Answers] /\ since' \in [Jobs -> SUBSET Jobs]
      BY <3>2, RecordDoc
    <3> QED BY <2>10, <3>1, <3>3 DEF Finish, MoveTo, Types
  <2> QED
    BY <2>1, <2>2, <2>3, <2>4, <2>5, <2>6, <2>7, <2>8, <2>9, <2>10
       DEF Next, Stopping, vars, rest, Run, StartFails, Cancel, DrainTimeout, QueueClose, Close
<1> QED BY <1>1, <1>2, PTL DEF Spec

BeforeServing == BootSteps \cup {"booted", "refused"}

\* Before the server serves there are no jobs, and no parts that could have
\* missed one.  A job that went past its sinks is with them, and what was
\* audited before the disposition is still in the log.
RecordInv ==
    /\ phase \in BeforeServing => has = {} /\ \A j \in Jobs : job[j] = "none" /\ doc[j] = "none"
    /\ \A j \in Jobs :
        /\ job[j] = "audit" \/ job[j] = "acked" \/ doc[j] = "done" => j \in delivered
        /\ (job[j] = "acked" \/ doc[j] = "done") /\ "audit" \in has => j \in audited

\* A step that touches no job's state, has no parts to add and takes back nothing
\* from the sinks or the audit log.
LEMMA QuietStep ==
    ASSUME RecordInv, phase' \in BeforeServing => phase \in BeforeServing,
           has' = has, job' = job, delivered \subseteq delivered', audited \subseteq audited',
           \A k \in Jobs : doc'[k] \in {"none", doc[k]}
    PROVE  RecordInv'
BY DEF RecordInv

\* Every step keeps the record complete.
LEMMA RecordHolds == Spec => []RecordInv
<1>1. Init => RecordInv
  BY DEF Init, RecordInv, NoState
<1>2. Types /\ RecordInv /\ [Next]_vars => RecordInv'
  <2> SUFFICES ASSUME Types, RecordInv, [Next]_vars PROVE RecordInv'
    OBVIOUS
  <2> USE DEF BeforeServing
  <2>1. CASE BootStep /\ UNCHANGED <<has, expired, rest>>
    <3>1. phase \in BeforeServing
      BY <2>1 DEF BootStep, LoadConfig, validateFrameBoot, buildModerator, LabelBoot,
                  applyModeratorDecorator, openAudit, BuildSink, SinksBuilt, newQueue, BootSteps
    <3>2. UNCHANGED <<has, job, doc, delivered, audited>>
      BY <2>1 DEF rest, store
    <3> QED BY <3>1, <3>2, QuietStep
  <2>2. CASE Run
    <3>1. /\ \A j \in Jobs : job[j] = "none" /\ doc[j] = "none"
          /\ phase' = "serving"
      BY <2>2 DEF Run, RecordInv
    <3>2. UNCHANGED <<job, doc>>
      BY <2>2 DEF Run, rest, store
    <3> QED BY <3>1, <3>2 DEF RecordInv, BootSteps
  <2>3. CASE StartFails \/ Cancel \/ DrainTimeout \/ QueueClose \/ Close
    <3>1. phase' \in BeforeServing => phase \in BeforeServing
      BY <2>3 DEF StartFails, Cancel, DrainTimeout, QueueClose, Close, BootSteps, bootVars
    <3>2. UNCHANGED <<has, job, doc, delivered, audited>>
      BY <2>3 DEF StartFails, Cancel, DrainTimeout, QueueClose, Close, rest, store
    <3> QED BY <3>1, <3>2, QuietStep
  <2>4. CASE IntakeShutdown
    <3>1. /\ phase' = "drain" /\ has' = has \ {"api", "readers"}
          /\ UNCHANGED <<job, delivered, audited>>
          /\ \A j \in Jobs : doc'[j] = "none"
      BY <2>4 DEF IntakeShutdown, NoState
    <3> QED BY <3>1 DEF RecordInv, BootSteps
  <2>5. CASE Expire
    BY <2>5, QuietStep DEF Expire, bootVars
  <2>6. ASSUME NEW j \in Jobs, Get(j) PROVE RecordInv'
    BY <2>6, ReadDoc, QuietStep DEF Get, bootVars
  <2>7. ASSUME NEW j \in Jobs, Post(j) \/ EnqueueFails(j) PROVE RecordInv'
    BY <2>7, QuietStep DEF Post, EnqueueFails, bootVars, store
  <2>8. ASSUME NEW j \in Jobs, Enqueue(j) PROVE RecordInv'
    <3>1. /\ phase \notin BeforeServing /\ UNCHANGED <<phase, has, doc, delivered, audited>>
          /\ job' = [job EXCEPT ![j] = "ready"]
      BY <2>8 DEF Enqueue, QueueOpen, bootVars, store, BootSteps
    <3> QED BY <3>1 DEF RecordInv, Types
  <2>9. ASSUME NEW j \in Jobs, Accepted202(j) PROVE RecordInv'
    <3>1. /\ record(j, "queued") /\ "queued" \in DocStates \ {"none"}
          /\ UNCHANGED <<phase, has, job, delivered, audited>>
      BY <2>9 DEF Accepted202, DocStates, bootVars
    <3>2. /\ \A k \in Jobs : doc'[k] \in {"none", doc[k]} \/ (k = j /\ doc'[k] = "queued")
          /\ "api" \notin has => UNCHANGED doc
      BY <3>1, RecordDoc DEF store
    <3> QED BY <3>1, <3>2 DEF RecordInv
  <2>10. ASSUME NEW j \in Jobs, Claim(j) PROVE RecordInv'
    <3>1. /\ record(j, "processing") /\ "processing" \in DocStates \ {"none"}
          /\ UNCHANGED <<phase, has, delivered, audited>>
          /\ phase \notin BeforeServing /\ job' = [job EXCEPT ![j] = "analysing"]
      BY <2>10 DEF Claim, Pulling, MoveTo, DocStates, bootVars, BootSteps
    <3>2. \A k \in Jobs : doc'[k] \in {"none", doc[k]} \/ (k = j /\ doc'[k] = "processing")
      BY <3>1, RecordDoc
    <3> QED BY <3>1, <3>2 DEF RecordInv, Types
  <2>11. ASSUME NEW j \in Jobs, Deliver(j) \/ DeliverFails(j) \/ Redeliver(j)
         PROVE  RecordInv'
    <3>1. /\ phase \notin BeforeServing
          /\ UNCHANGED <<phase, has, doc, audited>> /\ delivered \subseteq delivered'
      BY <2>11 DEF Deliver, DeliverFails, Redeliver, bootVars, store, RecordInv
    <3>2. PICK p \in {"audit", "ready", "dead"} :
            job' = [job EXCEPT ![j] = p] /\ (p = "audit" => j \in delivered')
      BY <2>11 DEF Deliver, DeliverFails, Redeliver, MoveTo
    <3> QED BY <3>1, <3>2 DEF RecordInv, Types
  <2>12. ASSUME NEW j \in Jobs, Finish(j) PROVE RecordInv'
    <3>1. PICK fate \in {"acked", "dead"} :
            /\ \/ audited' = IF "audit" \in has THEN audited \cup {j} ELSE audited
               \/ fate = "dead" /\ audited' = audited
            /\ record(j, IF fate = "acked" THEN "done" ELSE "dead_lettered")
            /\ MoveTo(j, fate)
      BY <2>12 DEF Finish, UnauditedFate
    <3>2. /\ job[j] = "audit" /\ phase \notin BeforeServing /\ j \in delivered
          /\ UNCHANGED <<phase, has, delivered>>
      BY <2>12 DEF Finish, bootVars, RecordInv
    <3> DEFINE s == IF fate = "acked" THEN "done" ELSE "dead_lettered"
    <3>3. s \in DocStates \ {"none"} /\ record(j, s)
      BY <3>1 DEF DocStates
    <3>4. s = "done" => fate = "acked"
      OBVIOUS
    <3> HIDE DEF s
    <3>5. \A k \in Jobs : doc'[k] \in {"none", doc[k]} \/ (k = j /\ doc'[k] = s)
      BY <3>3, RecordDoc
    <3>6. audited \subseteq audited' /\ (fate = "acked" /\ "audit" \in has => j \in audited')
      BY <3>1
    <3>7. job' = [job EXCEPT ![j] = fate]
      BY <3>1 DEF MoveTo
    <3> QED BY <3>2, <3>4, <3>5, <3>6, <3>7 DEF RecordInv, Types
  <2>13. CASE UNCHANGED vars
    BY <2>13, QuietStep DEF vars, bootVars, store
  <2> QED
    BY <2>1, <2>2, <2>3, <2>4, <2>5, <2>6, <2>7, <2>8, <2>9, <2>10, <2>11, <2>12, <2>13
       DEF Next, Stopping
<1> QED BY <1>1, <1>2, TypesHold, PTL DEF Spec

\* What the read side shows as done, and what the queue has acknowledged, is with
\* every sink and in the audit log, for any number of jobs, whatever the order in
\* which handlers, drain and close run.
THEOREM DoneOnRecord == Spec => []DoneIsOnRecord
<1>1. RecordInv => DoneIsOnRecord
  BY DEF RecordInv, DoneIsOnRecord
<1> QED BY <1>1, RecordHolds, PTL

-----------------------------------------------------------------------------
(* Lists without duplicates: what taking an element out, putting it at the  *)
(* front and cutting off the back do to them.                               *)

List(s) == s \in Seq(Jobs) /\ IsInjective(s)
InFront(s, y, z) == \E a, b \in DOMAIN s : a < b /\ s[a] = y /\ s[b] = z

\* Every nonempty set of numbers has a least element.
LEMMA MinOf ==
    ASSUME NEW T \in SUBSET Nat, T # {}
    PROVE  Min(T) \in T
<1> DEFINE R == OpToRel(<, Nat)
<1>1. IsWellFoundedOn(R, Nat)
  BY NatLessThanWellFounded
<1> HIDE DEF R
<1>2. \A x, y \in Nat : x < y => <<x, y>> \in R
  BY DEF R, OpToRel
<1>3. PICK m \in T : \A y \in T : ~ (<<y, m>> \in R)
  BY <1>1, WFMin
<1>4. \A l \in T : m <= l
  <2> SUFFICES ASSUME NEW l \in T, ~ (m <= l) PROVE FALSE
    OBVIOUS
  <2>1. l < m /\ l \in Nat /\ m \in Nat
    OBVIOUS
  <2> QED BY <2>1, <1>2, <1>3
<1> QED BY <1>4 DEF Min

\* Taking out an element that is there closes the gap it leaves.
LEMMA TakeOut ==
    ASSUME NEW q \in Seq(Jobs), NEW x \in ToSet(q)
    PROVE  \E n \in 1..Len(q) :
            /\ q[n] = x
            /\ Without(q, x) \in Seq(Jobs)
            /\ Len(Without(q, x)) = Len(q) - 1
            /\ \A k \in 1..(Len(q) - 1) :
                Without(q, x)[k] = IF k < n THEN q[k] ELSE q[k + 1]
<1> DEFINE I == {k \in 1..Len(q) : q[k] = x}
           n == Min(I)
           a == SubSeq(q, 1, n - 1)
           b == SubSeq(q, n + 1, Len(q))
           r == a \o b
<1>1. \E k \in 1..Len(q) : q[k] = x
  BY DEF ToSet
<1>2. Without(q, x) = r
  BY <1>1 DEF Without, RemoveFirst, RemoveAt, SelectInSeq
<1>3. n \in 1..Len(q) /\ q[n] = x
  <2>1. I \in SUBSET Nat /\ I # {}
    BY <1>1
  <2> QED BY <2>1, MinOf
<1> HIDE DEF n
<1>4. /\ a \in Seq(Jobs) /\ Len(a) = n - 1
      /\ \A k \in 1..(n - 1) : a[k] = q[k]
  BY <1>3
<1>5. /\ b \in Seq(Jobs) /\ Len(b) = Len(q) - n
      /\ \A k \in 1..(Len(q) - n) : b[k] = q[k + n]
  BY <1>3
<1> HIDE DEF a, b
<1>6. /\ r \in Seq(Jobs) /\ Len(r) = Len(q) - 1
      /\ \A k \in 1..(Len(q) - 1) : r[k] = IF k < n THEN a[k] ELSE b[k - (n - 1)]
  <2>1. /\ r \in Seq(Jobs) /\ Len(r) = Len(a) + Len(b)
        /\ \A k \in 1..(Len(a) + Len(b)) : r[k] = IF k <= Len(a) THEN a[k] ELSE b[k - Len(a)]
    BY <1>4, <1>5, ConcatProperties
  <2> QED BY <2>1, <1>3, <1>4, <1>5
<1> HIDE DEF r
<1>7. ASSUME NEW k \in 1..(Len(q) - 1)
      PROVE  r[k] = IF k < n THEN q[k] ELSE q[k + 1]
  <2>1. CASE k < n
    BY <2>1, <1>3, <1>4, <1>6
  <2>2. CASE ~ (k < n)
    <3> DEFINE l == k - (n - 1)
    <3>1. l \in 1..(Len(q) - n) /\ l + n = k + 1
      BY <2>2, <1>3
    <3>2. r[k] = b[l]
      BY <2>2, <1>6
    <3>3. b[l] = q[l + n]
      BY <3>1, <1>5
    <3> QED BY <3>1, <3>2, <3>3, <2>2
  <2> QED BY <2>1, <2>2
<1> QED BY <1>2, <1>3, <1>6, <1>7

\* Taking out x leaves the others in their order.
LEMMA WithoutList ==
    ASSUME NEW q, List(q), NEW x
    PROVE  /\ List(Without(q, x))
           /\ ToSet(Without(q, x)) = ToSet(q) \ {x}
           /\ Len(Without(q, x)) = IF x \in ToSet(q) THEN Len(q) - 1 ELSE Len(q)
           /\ \A y, z : InFront(Without(q, x), y, z) => InFront(q, y, z)
<1> DEFINE r == Without(q, x)
<1>1. CASE x \notin ToSet(q)
  <2>1. r = q
    BY <1>1 DEF Without, RemoveFirst, ToSet, List
  <2> HIDE DEF r
  <2> QED BY <1>1, <2>1 DEF r
<1>2. CASE x \in ToSet(q)
  <2>1. PICK n \in 1..Len(q) :
            /\ q[n] = x
            /\ r \in Seq(Jobs)
            /\ Len(r) = Len(q) - 1
            /\ \A k \in 1..(Len(q) - 1) : r[k] = IF k < n THEN q[k] ELSE q[k + 1]
    BY <1>2, TakeOut DEF List
  <2> HIDE DEF r
  <2>2. /\ DOMAIN q = 1..Len(q) /\ DOMAIN r = 1..(Len(q) - 1) /\ Len(q) \in Nat
        /\ \A a, b \in 1..Len(q) : q[a] = q[b] => a = b
    BY <2>1 DEF List, IsInjective
  <2>3. IsInjective(r)
    BY <2>1, <2>2 DEF IsInjective
  <2>4. ASSUME NEW y \in ToSet(q), y # x PROVE y \in ToSet(r)
    <3>1. PICK k \in 1..Len(q) : q[k] = y
      BY <2>2 DEF ToSet
    <3>2. CASE k < n
      <4>1. k \in DOMAIN r /\ r[k] = y
        BY <3>1, <3>2, <2>1, <2>2
      <4> QED BY <4>1 DEF ToSet
    <3>3. CASE k > n
      <4>1. k - 1 \in DOMAIN r /\ r[k - 1] = y
        BY <3>1, <3>3, <2>1, <2>2
      <4> QED BY <4>1 DEF ToSet
    <3> QED BY <3>1, <3>2, <3>3, <2>1, <2>2, <2>4
  <2>5. ASSUME NEW k \in DOMAIN r PROVE r[k] \in ToSet(q) /\ r[k] # x
    <3>1. CASE k < n
      BY <3>1, <2>1, <2>2 DEF ToSet
    <3>2. CASE ~ (k < n)
      <4>1. r[k] = q[k + 1] /\ k + 1 \in 1..Len(q) /\ k + 1 # n
        BY <3>2, <2>1, <2>2
      <4> QED BY <4>1, <2>1, <2>2 DEF ToSet
    <3> QED BY <3>1, <3>2
  <2>6. ToSet(r) = ToSet(q) \ {x}
    <3>1. \A y \in ToSet(r) : y \in ToSet(q) /\ y # x
      BY <2>5 DEF ToSet
    <3> QED BY <3>1, <2>4
  <2>7. ASSUME NEW y, NEW z, InFront(r, y, z) PROVE InFront(q, y, z)
    <3>1. PICK a, b \in DOMAIN r : a < b /\ r[a] = y /\ r[b] = z
      BY <2>7 DEF InFront
    <3> DEFINE c == IF a < n THEN a ELSE a + 1
               d == IF b < n THEN b ELSE b + 1
    <3>2. c \in DOMAIN q /\ d \in DOMAIN q /\ c < d
      BY <3>1, <2>1, <2>2
    <3>3. q[c] = y /\ q[d] = z
      BY <3>1, <2>1, <2>2
    <3> QED BY <3>2, <3>3 DEF InFront
  <2> QED BY <1>2, <2>1, <2>3, <2>6, <2>7 DEF List, r
<1> QED BY <1>1, <1>2

\* Putting x at the front leaves the others in their order behind it.
LEMMA ToFrontList ==
    ASSUME NEW q, List(q), NEW x \in Jobs
    PROVE  /\ List(ToFront(q, x))
           /\ ToSet(ToFront(q, x)) = ToSet(q) \cup {x}
           /\ Len(ToFront(q, x)) = IF x \in ToSet(q) THEN Len(q) ELSE Len(q) + 1
           /\ \A y, z : InFront(ToFront(q, x), y, z) => y = x \/ InFront(q, y, z)
           /\ \A y : ~ InFront(ToFront(q, x), y, x)
<1> DEFINE w == Without(q, x)
           f == ToFront(q, x)
<1>1. /\ List(w) /\ ToSet(w) = ToSet(q) \ {x}
      /\ Len(w) = IF x \in ToSet(q) THEN Len(q) - 1 ELSE Len(q)
      /\ \A y, z : InFront(w, y, z) => InFront(q, y, z)
  BY WithoutList
<1>2. f = <<x>> \o w
  BY DEF ToFront
<1> HIDE DEF w, f
<1>3. /\ w \in Seq(Jobs) /\ Len(w) \in Nat /\ DOMAIN w = 1..Len(w)
      /\ \A a, b \in 1..Len(w) : w[a] = w[b] => a = b
  BY <1>1 DEF List, IsInjective
<1>4. /\ f \in Seq(Jobs) /\ Len(f) = Len(w) + 1 /\ DOMAIN f = 1..(Len(w) + 1)
      /\ f[1] = x /\ \A k \in 1..Len(w) : f[k + 1] = w[k]
  <2>1. <<x>> \in Seq(Jobs) /\ Len(<<x>>) = 1 /\ <<x>>[1] = x
    OBVIOUS
  <2>2. /\ f \in Seq(Jobs) /\ Len(f) = 1 + Len(w)
        /\ \A k \in 1..(1 + Len(w)) : f[k] = IF k <= 1 THEN <<x>>[k] ELSE w[k - 1]
    BY <2>1, <1>2, <1>3, ConcatProperties
  <2>3. ASSUME NEW k \in 1..Len(w) PROVE f[k + 1] = w[k]
    BY <2>2, <1>3
  <2> QED BY <2>1, <2>2, <2>3, <1>3
<1>5. ASSUME NEW k \in 2..(Len(w) + 1) PROVE k - 1 \in 1..Len(w) /\ f[k] = w[k - 1] /\ f[k] # x
  <2>1. k - 1 \in 1..Len(w) /\ f[k] = w[k - 1]
    BY <1>3, <1>4
  <2>2. w[k - 1] \in ToSet(w)
    BY <2>1, <1>3 DEF ToSet
  <2> QED BY <2>1, <2>2, <1>1
<1>6. IsInjective(f)
  <2> SUFFICES ASSUME NEW a \in 1..(Len(w) + 1), NEW b \in 1..(Len(w) + 1), f[a] = f[b]
               PROVE  a = b
    BY <1>4 DEF IsInjective
  <2>1. CASE a = 1 \/ b = 1
    BY <2>1, <1>3, <1>4, <1>5
  <2>2. CASE a # 1 /\ b # 1
    <3>1. a - 1 \in 1..Len(w) /\ b - 1 \in 1..Len(w) /\ w[a - 1] = w[b - 1]
      BY <2>2, <1>3, <1>5
    <3> QED BY <3>1, <1>3
  <2> QED BY <2>1, <2>2
<1>7. ToSet(f) = ToSet(q) \cup {x}
  <2>1. ASSUME NEW y \in ToSet(w) PROVE y \in ToSet(f)
    <3>1. PICK k \in 1..Len(w) : w[k] = y
      BY <1>3 DEF ToSet
    <3>2. k + 1 \in DOMAIN f /\ f[k + 1] = y
      BY <3>1, <1>3, <1>4
    <3> QED BY <3>2 DEF ToSet
  <2>2. x \in ToSet(f)
    BY <1>3, <1>4 DEF ToSet
  <2>3. ASSUME NEW k \in DOMAIN f PROVE f[k] = x \/ f[k] \in ToSet(w)
    <3>1. CASE k = 1
      BY <3>1, <1>4
    <3>2. CASE k # 1
      BY <3>2, <1>3, <1>4, <1>5 DEF ToSet
    <3> QED BY <3>1, <3>2
  <2>4. \A y \in ToSet(f) : y = x \/ y \in ToSet(w)
    BY <2>3 DEF ToSet
  <2> QED BY <2>1, <2>2, <2>4, <1>1
<1>8. ASSUME NEW y, NEW z, InFront(f, y, z)
      PROVE  z # x /\ (y = x \/ InFront(q, y, z))
  <2>1. PICK a, b \in 1..(Len(w) + 1) : a < b /\ f[a] = y /\ f[b] = z
    BY <1>8, <1>4 DEF InFront
  <2>2. b # 1 /\ b - 1 \in 1..Len(w) /\ f[b] = w[b - 1] /\ f[b] # x
    BY <2>1, <1>3, <1>5
  <2>3. CASE a = 1
    BY <2>1, <2>2, <2>3, <1>4
  <2>4. CASE a # 1
    <3>1. a - 1 \in 1..Len(w) /\ f[a] = w[a - 1] /\ a - 1 < b - 1
      BY <2>1, <2>4, <1>3, <1>5
    <3>2. InFront(w, y, z)
      BY <3>1, <2>1, <2>2, <1>3 DEF InFront
    <3> QED BY <3>2, <2>1, <2>2, <1>1
  <2> QED BY <2>3, <2>4
<1>9. Len(f) = IF x \in ToSet(q) THEN Len(q) ELSE Len(q) + 1
  <2>1. Len(q) \in Nat
    BY DEF List
  <2> QED BY <2>1, <1>1, <1>4
<1> QED BY <1>4, <1>6, <1>7, <1>8, <1>9 DEF List, f

\* Cutting off the back loses the last element at most, where one too many was
\* there, and keeps the order of the others.
LEMMA CappedList ==
    ASSUME NEW q, List(q), Len(q) <= MaxEntries + 1
    PROVE  /\ List(Capped(q)) /\ Len(Capped(q)) <= MaxEntries
           /\ \A y, z : InFront(Capped(q), y, z) => InFront(q, y, z)
           /\ Capped(q) = q \/ (Last(q) \in Jobs /\ ToSet(Capped(q)) = ToSet(q) \ {Last(q)})
<1> DEFINE c == Capped(q)
<1>1. Len(q) \in Nat /\ q \in Seq(Jobs) /\ MaxEntries \in Nat \ {0} /\ DOMAIN q = 1..Len(q)
  BY ServerAssumption DEF List
<1>2. CASE Len(q) <= MaxEntries
  <2>2. Len(q) \in Nat /\ MaxEntries \in Nat
    BY <1>1
  <2>3. ~ (Len(q) > MaxEntries)
    BY <2>2, <1>2
  <2>1. c = q
    BY <2>3, Zenon DEF Capped
  <2> HIDE DEF c
  <2> QED BY <2>1, <1>2 DEF c
<1>3. CASE Len(q) = MaxEntries + 1
  <2>1. c = SubSeq(q, 1, MaxEntries)
    BY <1>1, <1>3 DEF Capped
  <2>2. /\ c \in Seq(Jobs) /\ Len(c) = MaxEntries /\ DOMAIN c = 1..MaxEntries
        /\ \A k \in 1..MaxEntries : c[k] = q[k]
    BY <1>1, <1>3, <2>1
  <2> HIDE DEF c
  <2>3. \A a, b \in 1..Len(q) : q[a] = q[b] => a = b
    BY <1>1 DEF List, IsInjective
  <2>4. IsInjective(c)
    BY <1>1, <1>3, <2>2, <2>3 DEF IsInjective
  <2>5. ASSUME NEW y, NEW z, InFront(c, y, z) PROVE InFront(q, y, z)
    <3>1. PICK a, b \in 1..MaxEntries : a < b /\ c[a] = y /\ c[b] = z
      BY <2>2, <2>5 DEF InFront
    <3>2. a \in DOMAIN q /\ b \in DOMAIN q /\ q[a] = y /\ q[b] = z
      BY <3>1, <1>1, <1>3, <2>2
    <3> QED BY <3>1, <3>2 DEF InFront
  <2>6. Len(q) \in DOMAIN q /\ q[Len(q)] \in Jobs
    BY <1>1, <1>3
  <2>7. ToSet(c) = ToSet(q) \ {q[Len(q)]}
    <3>1. ASSUME NEW k \in DOMAIN c PROVE c[k] \in ToSet(q) /\ c[k] # q[Len(q)]
      <4>1. k \in 1..Len(q) /\ k # Len(q) /\ c[k] = q[k]
        BY <1>1, <1>3, <2>2
      <4> QED BY <4>1, <2>3, <2>6, <1>1 DEF ToSet
    <3>2. ASSUME NEW k \in DOMAIN q, q[k] # q[Len(q)] PROVE q[k] \in ToSet(c)
      <4>1. k \in DOMAIN c /\ c[k] = q[k]
        BY <3>2, <1>1, <1>3, <2>2
      <4> QED BY <4>1 DEF ToSet
    <3>3. \A y \in ToSet(c) : y \in ToSet(q) /\ y # q[Len(q)]
      BY <3>1 DEF ToSet
    <3>4. \A y \in ToSet(q) : y # q[Len(q)] => y \in ToSet(c)
      BY <3>2 DEF ToSet
    <3> QED BY <3>3, <3>4
  <2> QED BY <2>2, <2>4, <2>5, <2>6, <2>7, <1>1 DEF List, Last, c
<1>4. ASSUME NEW l \in Nat, NEW m \in Nat, l <= m + 1 PROVE l <= m \/ l = m + 1
  BY <1>4
<1>5. Len(q) \in Nat /\ MaxEntries \in Nat
  BY <1>1
<1>6. Len(q) <= MaxEntries \/ Len(q) = MaxEntries + 1
  BY <1>4, <1>5
<1> QED BY <1>2, <1>3, <1>6

\* An element with fewer than MaxEntries others in front of it is not cut off.
LEMMA KeptByCap ==
    ASSUME NEW q, List(q), NEW y \in ToSet(q),
           NEW S, IsFiniteSet(S), Cardinality(S) < MaxEntries,
           \A x : InFront(q, x, y) => x \in S
    PROVE  y \in ToSet(Capped(q))
<1>1. Len(q) \in Nat /\ q \in Seq(Jobs) /\ MaxEntries \in Nat \ {0} /\ DOMAIN q = 1..Len(q)
  BY ServerAssumption DEF List
<1>2. PICK d \in 1..Len(q) : q[d] = y
  BY <1>1 DEF ToSet
<1> DEFINE f == [i \in 1..(d - 1) |-> q[i]]
<1>3. f \in Injection(1..(d - 1), S)
  <2>1. ASSUME NEW i \in 1..(d - 1) PROVE f[i] \in S
    <3>1. i \in DOMAIN q /\ d \in DOMAIN q /\ i < d
      BY <1>1, <1>2
    <3> QED BY <3>1, <1>2 DEF InFront
  <2>2. ASSUME NEW a \in 1..(d - 1), NEW b \in 1..(d - 1), f[a] = f[b] PROVE a = b
    <3>1. a \in DOMAIN q /\ b \in DOMAIN q /\ q[a] = q[b]
      BY <1>1, <1>2, <2>2
    <3> QED BY <3>1 DEF List, IsInjective
  <2> QED BY <2>1, <2>2 DEF Injection, IsInjective
<1>4. Cardinality(1..(d - 1)) <= Cardinality(S)
  BY <1>3, FS_Injection
<1>5. Cardinality(1..(d - 1)) = d - 1
  <2>1. 1 \in Int /\ d - 1 \in Int
    BY <1>1, <1>2
  <2>2. Cardinality(1..(d - 1)) = IF 1 > d - 1 THEN 0 ELSE (d - 1) - 1 + 1
    BY <2>1, FS_Interval
  <2> QED BY <2>2, <1>1, <1>2
<1>6. Cardinality(S) \in Nat
  BY FS_CardinalityType
<1>7. d <= MaxEntries
  BY <1>1, <1>2, <1>4, <1>5, <1>6
<1>8. d \in DOMAIN Capped(q) /\ Capped(q)[d] = y
  <2>1. CASE Len(q) > MaxEntries
    <3>1. Capped(q) = SubSeq(q, 1, MaxEntries)
      BY <2>1 DEF Capped
    <3> QED BY <3>1, <1>1, <1>2, <1>7, <2>1
  <2>2. CASE ~ (Len(q) > MaxEntries)
    <3>1. Capped(q) = q
      BY <2>2 DEF Capped
    <3> QED BY <3>1, <1>1, <1>2
  <2> QED BY <2>1, <2>2
<1> QED BY <1>8 DEF ToSet

\* A list grows at its back by an element that is not in it.
LEMMA AppendList ==
    ASSUME NEW q, List(q), NEW x \in Jobs, x \notin ToSet(q)
    PROVE  List(Append(q, x)) /\ ToSet(Append(q, x)) = ToSet(q) \cup {x}
<1> DEFINE r == Append(q, x)
<1>1. /\ q \in Seq(Jobs) /\ Len(q) \in Nat /\ DOMAIN q = 1..Len(q)
      /\ \A a, b \in 1..Len(q) : q[a] = q[b] => a = b
  BY DEF List, IsInjective
<1>2. /\ r \in Seq(Jobs) /\ DOMAIN r = 1..(Len(q) + 1)
      /\ r[Len(q) + 1] = x /\ \A k \in 1..Len(q) : r[k] = q[k]
  BY <1>1
<1> HIDE DEF r
<1>3. \A k \in 1..Len(q) : q[k] # x
  BY <1>1 DEF ToSet
<1>4. IsInjective(r)
  BY <1>1, <1>2, <1>3 DEF IsInjective
<1>5. ToSet(r) = ToSet(q) \cup {x}
  <2>1. ASSUME NEW k \in DOMAIN r PROVE r[k] \in ToSet(q) \cup {x}
    <3>1. CASE k = Len(q) + 1
      BY <3>1, <1>2
    <3>2. CASE k # Len(q) + 1
      <4>1. k \in DOMAIN q /\ r[k] = q[k]
        BY <3>2, <1>1, <1>2
      <4> QED BY <4>1 DEF ToSet
    <3> QED BY <3>1, <3>2
  <2>2. ASSUME NEW k \in DOMAIN q PROVE q[k] \in ToSet(r)
    <3>1. k \in DOMAIN r /\ r[k] = q[k]
      BY <1>1, <1>2
    <3> QED BY <3>1 DEF ToSet
  <2>3. x \in ToSet(r)
    <3>1. Len(q) + 1 \in DOMAIN r
      BY <1>1, <1>2
    <3> QED BY <3>1, <1>2 DEF ToSet
  <2>4. \A y \in ToSet(r) : y \in ToSet(q) \cup {x}
    BY <2>1 DEF ToSet
  <2>5. \A y \in ToSet(q) : y \in ToSet(r)
    BY <2>2 DEF ToSet
  <2> QED BY <2>3, <2>4, <2>5
<1> QED BY <1>2, <1>4, <1>5 DEF List, r

\* A list loses its front.
LEMMA TailList ==
    ASSUME NEW q, List(q), q # <<>>
    PROVE  /\ List(Tail(q)) /\ Head(q) \in Jobs
           /\ ToSet(Tail(q)) = ToSet(q) \ {Head(q)}
<1> DEFINE r == Tail(q)
<1>1. /\ q \in Seq(Jobs) /\ Len(q) \in Nat /\ Len(q) > 0 /\ DOMAIN q = 1..Len(q)
      /\ \A a, b \in 1..Len(q) : q[a] = q[b] => a = b
  BY DEF List, IsInjective
<1>2. /\ r \in Seq(Jobs) /\ DOMAIN r = 1..(Len(q) - 1) /\ Head(q) = q[1] /\ q[1] \in Jobs
      /\ \A k \in 1..(Len(q) - 1) : r[k] = q[k + 1]
  BY <1>1
<1> HIDE DEF r
<1>3. IsInjective(r)
  BY <1>1, <1>2 DEF IsInjective
<1>4. ToSet(r) = ToSet(q) \ {q[1]}
  <2>1. ASSUME NEW k \in DOMAIN r PROVE r[k] \in ToSet(q) /\ r[k] # q[1]
    <3>1. k + 1 \in DOMAIN q /\ r[k] = q[k + 1] /\ k + 1 # 1 /\ 1 \in DOMAIN q
      BY <1>1, <1>2
    <3> QED BY <3>1, <1>1 DEF ToSet
  <2>2. ASSUME NEW k \in DOMAIN q, q[k] # q[1] PROVE q[k] \in ToSet(r)
    <3>1. k - 1 \in DOMAIN r /\ r[k - 1] = q[k]
      BY <2>2, <1>1, <1>2
    <3> QED BY <3>1 DEF ToSet
  <2>3. \A y \in ToSet(r) : y \in ToSet(q) /\ y # q[1]
    BY <2>1 DEF ToSet
  <2>4. \A y \in ToSet(q) : y # q[1] => y \in ToSet(r)
    BY <2>2 DEF ToSet
  <2> QED BY <2>3, <2>4
<1> QED BY <1>2, <1>3, <1>4 DEF List, r

-----------------------------------------------------------------------------
(* The result store.                                                        *)

\* The store in shape.
StoreInv ==
    /\ List(lru) /\ List(byAge) /\ Len(lru) <= MaxEntries
    /\ ToSet(byAge) \subseteq ToSet(lru)
    /\ \A j \in Jobs : Held(j) <=> doc[j] # "none"

\* An answer that is owed is there and readable, and what is in front of it are
\* jobs touched since, fewer than the store has room for.
Owed(j) ==
    /\ Live(j) /\ doc[j] = answer[j]
    /\ Cardinality(since[j]) < MaxEntries
    /\ \A x : InFront(lru, x, j) => x \in since[j]

OwedInv == \A j \in Jobs : answer[j] # "none" => Owed(j)

\* There are finitely many jobs.
LEMMA JobsFinite ==
    ASSUME NEW S \in SUBSET Jobs
    PROVE  IsFiniteSet(S) /\ Cardinality(S) \in Nat
<1>1. 1 \in Int /\ MaxJobs \in Int
  BY ServerAssumption
<1>2. IsFiniteSet(Jobs)
  BY <1>1, FS_Interval DEF Jobs
<1>3. IsFiniteSet(S)
  BY <1>2, FS_Subset
<1> QED BY <1>3, FS_CardinalityType

\* What a touch of j leaves owed to job k.
LEMMA TouchedOwed ==
    ASSUME Types, NEW j \in Jobs, NEW final, Touched(j, final),
           NEW k \in Jobs, answer'[k] # "none"
    PROVE  /\ IsFiniteSet(since'[k]) /\ Cardinality(since'[k]) < MaxEntries
           /\ k = j => answer'[k] = IF answer[k] = "none" THEN final ELSE answer[k]
           /\ k # j => answer'[k] = answer[k] /\ since'[k] = since[k] \cup {j}
<1> DEFINE now == [l \in Jobs |-> IF l = j \/ answer[l] = "none" THEN {} ELSE since[l] \cup {j}]
<1>1. now[k] \in SUBSET Jobs
  BY DEF Types
<1>2. /\ k = j => now[k] = {}
      /\ k # j /\ answer[k] # "none" => now[k] = since[k] \cup {j}
  OBVIOUS
<1> HIDE DEF now
<1>3. answer' = [l \in Jobs |->
                  IF Cardinality(now[l]) >= MaxEntries THEN "none"
                  ELSE IF l = j /\ answer[l] = "none" THEN final
                  ELSE answer[l]]
  BY DEF Touched, now
<1>4. since' = [l \in Jobs |-> IF answer'[l] = "none" THEN {} ELSE now[l]]
  BY DEF Touched, now
<1>5. since'[k] = now[k]
  BY <1>4
<1>6. /\ ~ (Cardinality(now[k]) >= MaxEntries)
      /\ answer'[k] = IF k = j /\ answer[k] = "none" THEN final ELSE answer[k]
  BY <1>3
<1>7. IsFiniteSet(now[k]) /\ Cardinality(now[k]) \in Nat
  BY <1>1, JobsFinite
<1>8. MaxEntries \in Nat
  BY ServerAssumption
<1>9. Cardinality(now[k]) < MaxEntries
  BY <1>6, <1>7, <1>8
<1>10. /\ k = j => answer'[k] = IF answer[k] = "none" THEN final ELSE answer[k]
       /\ k # j => answer'[k] = answer[k] /\ answer[k] # "none"
  BY <1>6
<1> QED BY <1>2, <1>5, <1>7, <1>9, <1>10

\* A transition keeps the store in shape and takes back no answer: to a live
\* record with a final state it does nothing, and it evicts only a record with
\* MaxEntries others in front of it.
LEMMA RecordStore ==
    ASSUME Types, StoreInv, OwedInv, NEW j \in Jobs, NEW s \in DocStates \ {"none"},
           record(j, s)
    PROVE  StoreInv' /\ OwedInv'
<1>1. CASE UNCHANGED store
  BY <1>1 DEF store, StoreInv, OwedInv, Owed, Held, Live, InFront
<1> DEFINE final == IF Terminal(s) THEN s ELSE "none"
           moved == ToFront(lru, j)
           front == Capped(moved)
           aged == Append(Without(byAge, j), j)
<1>2. CASE /\ ~ (Held(j) /\ ~ Forward(j, s))
           /\ lru' = front
           /\ byAge' = IF front = moved THEN aged ELSE Without(aged, Last(moved))
           /\ doc' = [k \in Jobs |-> IF k \notin ToSet(front) THEN "none"
                                     ELSE IF k = j THEN s ELSE doc[k]]
           /\ Touched(j, final)
  <2>1. /\ List(moved) /\ ToSet(moved) = ToSet(lru) \cup {j}
        /\ \A y, z : InFront(moved, y, z) => y = j \/ InFront(lru, y, z)
        /\ \A y : ~ InFront(moved, y, j)
    BY ToFrontList DEF StoreInv
  <2>2. Len(moved) <= MaxEntries + 1
    <3>1. Len(moved) = IF j \in ToSet(lru) THEN Len(lru) ELSE Len(lru) + 1
      BY ToFrontList DEF StoreInv
    <3>2. Len(lru) \in Nat /\ Len(lru) <= MaxEntries /\ MaxEntries \in Nat
      BY ServerAssumption DEF StoreInv, List
    <3> HIDE DEF moved
    <3> QED BY <3>1, <3>2
  <2> HIDE DEF moved
  <2>3. /\ List(front) /\ Len(front) <= MaxEntries
        /\ \A y, z : InFront(front, y, z) => InFront(moved, y, z)
        /\ front = moved \/ (Last(moved) \in Jobs /\ ToSet(front) = ToSet(moved) \ {Last(moved)})
    BY <2>1, <2>2, CappedList
  <2>4. ASSUME NEW k \in ToSet(moved), NEW S, IsFiniteSet(S), Cardinality(S) < MaxEntries,
               \A x : InFront(moved, x, k) => x \in S
        PROVE  k \in ToSet(front)
    BY <2>1, <2>4, KeptByCap
  <2>5. j \in ToSet(front)
    <3>1. IsFiniteSet({}) /\ Cardinality({}) = 0
      BY FS_EmptySet
    <3>2. Cardinality({}) < MaxEntries
      BY <3>1, ServerAssumption
    <3>3. j \in ToSet(moved) /\ \A x : InFront(moved, x, j) => x \in {}
      BY <2>1
    <3> QED BY <3>1, <3>2, <3>3, <2>4
  <2> HIDE DEF front
  <2>6. List(aged) /\ ToSet(aged) = ToSet(byAge) \cup {j}
    <3> DEFINE w == Without(byAge, j)
    <3>1. List(w) /\ ToSet(w) = ToSet(byAge) \ {j}
      BY WithoutList DEF StoreInv
    <3> HIDE DEF w
    <3>2. List(Append(w, j)) /\ ToSet(Append(w, j)) = ToSet(w) \cup {j}
      BY <3>1, AppendList
    <3> QED BY <3>1, <3>2 DEF w
  <2> HIDE DEF aged
  <2>7. ToSet(aged) \subseteq ToSet(moved)
    BY <2>1, <2>6 DEF StoreInv
  <2>8. List(byAge') /\ ToSet(byAge') = ToSet(aged) \cap ToSet(front)
    <3>1. CASE front = moved
      BY <3>1, <1>2, <2>6, <2>7
    <3>2. CASE front # moved
      <4>1. byAge' = Without(aged, Last(moved))
        BY <3>2, <1>2
      <4>2. ToSet(front) = ToSet(moved) \ {Last(moved)}
        BY <3>2, <2>3
      <4>3. List(byAge') /\ ToSet(byAge') = ToSet(aged) \ {Last(moved)}
        BY <4>1, <2>6, WithoutList
      <4> QED BY <4>2, <4>3, <2>7
    <3> QED BY <3>1, <3>2
  <2>9. ASSUME NEW k \in Jobs
        PROVE  doc'[k] = IF k \notin ToSet(front) THEN "none" ELSE IF k = j THEN s ELSE doc[k]
    BY <1>2
  <2>10. StoreInv'
    <3>1. lru' = front
      BY <1>2
    <3>2. ASSUME NEW k \in Jobs PROVE k \in ToSet(front) <=> doc'[k] # "none"
      <4>1. k \in ToSet(front) /\ k # j => doc[k] # "none"
        BY <2>1, <2>3 DEF StoreInv, Held
      <4> QED BY <4>1, <2>9
    <3> QED BY <3>1, <3>2, <2>3, <2>8 DEF StoreInv, Held
  <2>11. OwedInv'
    <3> SUFFICES ASSUME NEW k \in Jobs, answer'[k] # "none" PROVE Owed(k)'
      BY DEF OwedInv
    <3> HIDE DEF final
    <3>1. /\ IsFiniteSet(since'[k]) /\ Cardinality(since'[k]) < MaxEntries
          /\ k = j => answer'[k] = IF answer[k] = "none" THEN final ELSE answer[k]
          /\ k # j => answer'[k] = answer[k] /\ since'[k] = since[k] \cup {j}
      BY <1>2, TouchedOwed
    <3>2. CASE k = j
      <4>1. answer[j] = "none"
        <5> SUFFICES ASSUME answer[j] # "none" PROVE FALSE
          OBVIOUS
        <5>1. Live(j) /\ doc[j] = answer[j]
          BY DEF OwedInv, Owed
        <5>2. Held(j)
          BY <5>1 DEF StoreInv, Live, Held
        <5>3. answer[j] \in {"done", "dead_lettered"}
          BY DEF Types, Answers
        <5>4. stateRank(doc[j]) = 2 /\ stateRank(s) \in {0, 1, 2}
          BY <5>1, <5>3 DEF stateRank
        <5>5. ~ (stateRank(s) > stateRank(doc[j]))
          BY <5>4
        <5> QED BY <5>1, <5>2, <5>5, <1>2 DEF Forward
      <4>2. answer'[j] = s
        BY <3>1, <3>2, <4>1 DEF final
      <4>3. doc'[j] = s
        BY <2>5, <2>9
      <4>4. j \in ToSet(byAge')
        BY <2>5, <2>6, <2>8
      <4>5. \A x : ~ InFront(lru', x, j)
        BY <1>2, <2>1, <2>3
      <4> QED BY <3>1, <3>2, <4>2, <4>3, <4>4, <4>5 DEF Owed, Live
    <3>3. CASE k # j
      <4>1. answer[k] # "none" /\ answer'[k] = answer[k] /\ since'[k] = since[k] \cup {j}
        BY <3>1, <3>3
      <4>2. Live(k) /\ doc[k] = answer[k] /\ \A x : InFront(lru, x, k) => x \in since[k]
        BY <4>1 DEF OwedInv, Owed
      <4>3. \A x : InFront(moved, x, k) => x \in since'[k]
        BY <4>1, <4>2, <2>1
      <4>4. k \in ToSet(aged) /\ k \in ToSet(moved)
        BY <4>2, <2>6, <2>7 DEF Live
      <4>5. k \in ToSet(front)
        BY <4>3, <4>4, <3>1, <2>4
      <4>6. doc'[k] = answer'[k]
        BY <4>1, <4>2, <4>5, <3>3, <2>9
      <4>7. k \in ToSet(byAge')
        BY <4>4, <4>5, <2>8
      <4>8. \A x : InFront(lru', x, k) => x \in since'[k]
        BY <4>3, <1>2, <2>3
      <4> QED BY <3>1, <4>6, <4>7, <4>8 DEF Owed, Live
    <3> QED BY <3>2, <3>3
  <2> QED BY <2>10, <2>11
<1> QED BY <1>1, <1>2 DEF record

\* Reading a job drops its record only when it has expired, and moves a live one
\* to the front: neither takes an answer back.
LEMMA GetStore ==
    ASSUME Types, StoreInv, OwedInv, NEW j \in Jobs, Get(j)
    PROVE  StoreInv' /\ OwedInv'
<1>1. CASE Live(j)
  <2>1. /\ lru' = ToFront(lru, j) /\ Touched(j, "none") /\ UNCHANGED <<doc, byAge>>
        /\ j \in ToSet(lru)
    BY <1>1 DEF Get, Held
  <2>2. /\ List(lru') /\ ToSet(lru') = ToSet(lru) \cup {j} /\ Len(lru') = Len(lru)
        /\ \A y, z : InFront(lru', y, z) => y = j \/ InFront(lru, y, z)
        /\ \A y : ~ InFront(lru', y, j)
    BY <2>1, ToFrontList DEF StoreInv
  <2>3. ToSet(lru') = ToSet(lru)
    BY <2>1, <2>2
  <2>4. StoreInv'
    BY <2>1, <2>2, <2>3 DEF StoreInv, Held
  <2>5. ASSUME NEW k \in Jobs, answer'[k] # "none" PROVE Owed(k)'
    <3>1. /\ Cardinality(since'[k]) < MaxEntries
          /\ k = j => answer'[k] = IF answer[k] = "none" THEN "none" ELSE answer[k]
          /\ k # j => answer'[k] = answer[k] /\ since'[k] = since[k] \cup {j}
      BY <2>1, <2>5, TouchedOwed
    <3>2. answer'[k] = answer[k] /\ answer[k] # "none"
      BY <3>1, <2>5
    <3>3. Live(k) /\ doc[k] = answer[k] /\ \A x : InFront(lru, x, k) => x \in since[k]
      BY <3>2 DEF OwedInv, Owed
    <3>4. \A x : InFront(lru', x, k) => x \in since'[k]
      BY <3>1, <3>3, <2>2
    <3> QED BY <3>1, <3>2, <3>3, <3>4, <2>1 DEF Owed, Live
  <2> QED BY <2>4, <2>5 DEF OwedInv
<1>2. CASE ~ Live(j)
  <2>1. /\ lru' = Without(lru, j) /\ doc' = [doc EXCEPT ![j] = "none"]
        /\ since' = [k \in Jobs |-> since[k] \ {j}]
        /\ UNCHANGED <<byAge, answer>> /\ j \in ToSet(lru)
    BY <1>2 DEF Get, Held
  <2>2. /\ List(lru') /\ ToSet(lru') = ToSet(lru) \ {j} /\ Len(lru') = Len(lru) - 1
        /\ \A y, z : InFront(lru', y, z) => InFront(lru, y, z)
    BY <2>1, WithoutList DEF StoreInv
  <2>3. StoreInv'
    <3>1. Len(lru') <= MaxEntries
      <4>1. Len(lru) \in Nat /\ Len(lru) <= MaxEntries /\ MaxEntries \in Nat
        BY ServerAssumption DEF StoreInv, List
      <4> QED BY <4>1, <2>2
    <3>2. j \notin ToSet(byAge)
      BY <1>2 DEF Live
    <3>3. ToSet(byAge') \subseteq ToSet(lru') /\ List(byAge')
      BY <3>2, <2>1, <2>2 DEF StoreInv
    <3>4. ASSUME NEW k \in Jobs PROVE k \in ToSet(lru') <=> doc'[k] # "none"
      BY <2>1, <2>2 DEF StoreInv, Held, Types
    <3> QED BY <3>1, <3>3, <3>4, <2>2 DEF StoreInv, Held
  <2>4. ASSUME NEW k \in Jobs, answer'[k] # "none" PROVE Owed(k)'
    <3>1. answer[k] # "none" /\ answer'[k] = answer[k]
      BY <2>1, <2>4
    <3>2. /\ Live(k) /\ doc[k] = answer[k] /\ Cardinality(since[k]) < MaxEntries
          /\ \A x : InFront(lru, x, k) => x \in since[k]
      BY <3>1 DEF OwedInv, Owed
    <3>3. k # j
      BY <3>2, <1>2
    <3>4. doc'[k] = answer'[k] /\ k \in ToSet(byAge') /\ since'[k] = since[k] \ {j}
      BY <3>1, <3>2, <3>3, <2>1 DEF Types, Live
    <3>5. Cardinality(since'[k]) < MaxEntries
      <4>1. since[k] \in SUBSET Jobs
        BY DEF Types
      <4>2. IsFiniteSet(since[k]) /\ Cardinality(since[k]) \in Nat
        BY <4>1, JobsFinite
      <4>3. since'[k] \subseteq since[k] /\ since'[k] \in SUBSET Jobs
        BY <3>4, <4>1
      <4>4. Cardinality(since'[k]) <= Cardinality(since[k]) /\ Cardinality(since'[k]) \in Nat
        BY <4>2, <4>3, FS_Subset, JobsFinite
      <4> QED BY <4>2, <4>4, <3>2, ServerAssumption
    <3>6. ASSUME NEW x, InFront(lru', x, k) PROVE x \in since'[k]
      <4>1. x \in ToSet(lru')
        BY <3>6 DEF InFront, ToSet
      <4> QED BY <4>1, <3>2, <3>4, <3>6, <2>2
    <3> QED BY <3>4, <3>5, <3>6 DEF Owed, Live
  <2> QED BY <2>3, <2>4 DEF OwedInv
<1> QED BY <1>1, <1>2

\* The end of the oldest time to live ends what is owed of that record only.
LEMMA ExpireStore ==
    ASSUME Types, StoreInv, OwedInv, Expire
    PROVE  StoreInv' /\ OwedInv'
<1>1. PICK h : h = Head(byAge)
  OBVIOUS
<1>2. /\ byAge # <<>> /\ byAge' = Tail(byAge)
      /\ answer' = [answer EXCEPT ![h] = "none"] /\ since' = [since EXCEPT ![h] = {}]
      /\ UNCHANGED <<lru, doc>>
  BY <1>1 DEF Expire
<1>3. List(byAge') /\ h \in Jobs /\ ToSet(byAge') = ToSet(byAge) \ {h}
  BY <1>1, <1>2, TailList DEF StoreInv
<1>4. StoreInv'
  BY <1>2, <1>3 DEF StoreInv, Held
<1>5. ASSUME NEW k \in Jobs, answer'[k] # "none" PROVE Owed(k)'
  <2>1. k # h /\ answer'[k] = answer[k] /\ since'[k] = since[k] /\ answer[k] # "none"
    BY <1>2, <1>3, <1>5 DEF Types
  <2>2. Owed(k)
    BY <2>1 DEF OwedInv
  <2> QED BY <2>1, <2>2, <1>2, <1>3 DEF Owed, Live
<1> QED BY <1>4, <1>5 DEF OwedInv

\* A step that leaves the store alone.
LEMMA StoreUntouched ==
    ASSUME StoreInv, OwedInv, UNCHANGED store
    PROVE  StoreInv' /\ OwedInv'
BY DEF store, StoreInv, OwedInv, Owed, Held, Live, InFront

\* Every step keeps the store in shape and its answers.
LEMMA StoreHolds == Spec => [](StoreInv /\ OwedInv)
<1>1. Init => StoreInv /\ OwedInv
  <2> SUFFICES ASSUME Init PROVE StoreInv /\ OwedInv
    OBVIOUS
  <2>1. lru = <<>> /\ byAge = <<>> /\ \A j \in Jobs : doc[j] = "none" /\ answer[j] = "none"
    BY DEF Init, NoState
  <2>2. List(<<>>) /\ ToSet(<<>>) = {} /\ Len(<<>>) = 0
    BY DEF List, IsInjective, ToSet
  <2>3. Len(lru) <= MaxEntries
    BY <2>1, <2>2, ServerAssumption
  <2> QED BY <2>1, <2>2, <2>3 DEF StoreInv, OwedInv, Held
<1>2. Types /\ StoreInv /\ OwedInv /\ [Next]_vars => StoreInv' /\ OwedInv'
  <2> SUFFICES ASSUME Types, StoreInv, OwedInv, [Next]_vars PROVE StoreInv' /\ OwedInv'
    OBVIOUS
  <2>1. CASE UNCHANGED store
    BY <2>1, StoreUntouched
  <2>2. CASE IntakeShutdown
    <3>1. lru' = <<>> /\ byAge' = <<>> /\ \A j \in Jobs : doc'[j] = "none" /\ answer'[j] = "none"
      BY <2>2 DEF IntakeShutdown, NoState
    <3>2. List(<<>>) /\ ToSet(<<>>) = {} /\ Len(<<>>) = 0
      BY DEF List, IsInjective, ToSet
    <3>3. Len(lru') <= MaxEntries
      BY <3>1, <3>2, ServerAssumption
    <3> QED BY <3>1, <3>2, <3>3 DEF StoreInv, OwedInv, Held
  <2>3. ASSUME NEW j \in Jobs, Accepted202(j) PROVE StoreInv' /\ OwedInv'
    <3>1. record(j, "queued") /\ "queued" \in DocStates \ {"none"}
      BY <2>3 DEF Accepted202, DocStates
    <3> QED BY <3>1, RecordStore
  <2>4. ASSUME NEW j \in Jobs, Claim(j) PROVE StoreInv' /\ OwedInv'
    <3>1. record(j, "processing") /\ "processing" \in DocStates \ {"none"}
      BY <2>4 DEF Claim, DocStates
    <3> QED BY <3>1, RecordStore
  <2>5. ASSUME NEW j \in Jobs, Finish(j) PROVE StoreInv' /\ OwedInv'
    <3>1. PICK s \in {"done", "dead_lettered"} : record(j, s)
      BY <2>5 DEF Finish
    <3>2. s \in DocStates \ {"none"}
      BY DEF DocStates
    <3> QED BY <3>1, <3>2, RecordStore
  <2>6. ASSUME NEW j \in Jobs, Get(j) PROVE StoreInv' /\ OwedInv'
    BY <2>6, GetStore
  <2>7. CASE Expire
    BY <2>7, ExpireStore
  <2>8. ASSUME NEW j \in Jobs, \/ Post(j) \/ Enqueue(j) \/ EnqueueFails(j)
                               \/ Deliver(j) \/ DeliverFails(j) \/ Redeliver(j)
        PROVE  UNCHANGED store
    BY <2>8 DEF Post, Enqueue, EnqueueFails, Deliver, DeliverFails, Redeliver
  <2>9. CASE BootStep /\ UNCHANGED <<has, expired, rest>>
    BY <2>9, <2>1 DEF rest
  <2>10. CASE Run \/ StartFails \/ Cancel \/ DrainTimeout \/ QueueClose \/ Close
    BY <2>10, <2>1 DEF Run, StartFails, Cancel, DrainTimeout, QueueClose, Close, rest
  <2>11. CASE UNCHANGED vars
    BY <2>11, <2>1 DEF vars
  <2> QED
    BY <2>1, <2>2, <2>3, <2>4, <2>5, <2>6, <2>7, <2>8, <2>9, <2>10, <2>11
       DEF Next, Stopping
<1> QED BY <1>1, <1>2, TypesHold, PTL DEF Spec

\* The types, and the store in shape: within max_entries, each id once, only
\* records that are held counted as live.
THEOREM TypeCorrect == Spec => []TypeOK
<1>1. Types /\ OpenInv /\ StoreInv => TypeOK
  <2> SUFFICES ASSUME Types, OpenInv, StoreInv PROVE TypeOK
    OBVIOUS
  <2>1. open \subseteq {"moderator", "audit", "sinks", "redis"}
    BY DEF OpenInv, MayBeOpen
  <2> QED BY <2>1 DEF Types, OpenInv, Stages, StoreInv, List, TypeOK
<1> QED BY <1>1, TypesHold, OpenHolds, StoreHolds, PTL

\* resultStore keeps a final answer readable until it expires or max_entries other
\* jobs were touched since: for every size of the store, every number of jobs, and
\* every order of submissions, runs, repeated runs and reads.
THEOREM AnswersStay == Spec => []AnswerStays
<1>1. OwedInv => AnswerStays
  BY DEF OwedInv, Owed, AnswerStays
<1> QED BY <1>1, StoreHolds, PTL

=============================================================================
