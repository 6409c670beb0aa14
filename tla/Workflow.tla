------------------------------ MODULE Workflow ------------------------------
(***************************************************************************)
(* The guardrails on ffmpeg workflow templates (frames/workflow.go): what   *)
(* is accepted at boot, and what an accepted template renders to.           *)
(*                                                                          *)
(* An argument is the sequence of the nodes its template parses into.  Text *)
(* is told apart only as far as the checks do; a field may be written with  *)
(* spaces, {{ .Input }}, which the checks on the literal text do not see;   *)
(* an expression is what it prints.                                         *)
(***************************************************************************)
EXTENDS Integers, Sequences, FiniteSets, SequencesExt

\* "-i", "-nostdin"; text that starts with a slash, has "..", starts with a
\* protocol and a colon (or has it among the options before its first colon),
\* has "://"; text that names a protocol or an absolute path further on only, as
\* the value of an option; any other.
Texts == {"-i", "-nostdin", "/abs", "..", "tcp:", "://", "x=tcp:", "x=/abs", "plain"}

Text(t) == [kind |-> "text", v |-> t, spaced |-> FALSE]
Field(name, spaced) == [kind |-> "field", v |-> name, spaced |-> spaced]
Printf(t) == [kind |-> "expr", v |-> t, spaced |-> FALSE]
Control == [kind |-> "control", v |-> "plain", spaced |-> FALSE]

\* What templates parse into.
Nodes == [kind : {"text", "field", "expr", "control"}, v : STRING, spaced : BOOLEAN]

allowedPlaceholders == {"Input", "WorkDir", "MaxFrames", "MaxWidth"}

Literal(name) == Field(name, FALSE)
Mentions(arg, name) == \E k \in 1..Len(arg) : arg[k] = Literal(name)

\* The parse tree holds text and bare, allowed fields only.
checkTemplateShape(arg) ==
    \A k \in 1..Len(arg) :
        \/ arg[k].kind = "text"
        \/ arg[k].kind = "field" /\ arg[k].v \in allowedPlaceholders

\* These two read a literal argument as well as a rendered one.  A protocol is
\* seen at the start of the argument only, and so is a path: only text and what
\* a path placeholder rendered to can start one.
Shows(arg, t) == \E k \in 1..Len(arg) : arg[k] = Text(t)
checkForbidden(arg) ==
    /\ ~ Shows(arg, "://")
    /\ arg # <<>> => arg[1] # Text("tcp:")
looksAbsolutePath(arg) ==
    /\ arg # <<>>
    /\ arg[1] = Text("/abs") \/ arg[1].kind = "path"

\* Rendering: a path placeholder becomes a path, a number or text stays text,
\* an expression prints, a control structure shows nothing here.
Path(name) == [kind |-> "path", v |-> name, spaced |-> FALSE]
Rendered(node) ==
    CASE node.kind = "text" -> node
      [] node.kind = "field" /\ node.v \in {"Input", "WorkDir"} -> Path(node.v)
      [] node.kind = "field" /\ node.v \notin {"Input", "WorkDir"} -> Text("plain")
      [] OTHER -> Text(node.v)

RenderWorkflow(args) ==
    LET out == [i \in 1..Len(args) |-> [k \in 1..Len(args[i]) |-> Rendered(args[i][k])]] IN
    IF <<Text("-nostdin")>> \in ToSet(out) THEN out ELSE <<<<Text("-nostdin")>>>> \o out

Count(args, arg) == Cardinality({i \in 1..Len(args) : args[i] = arg})
UnderWorkDir(arg) == arg # <<>> /\ arg[1] = Path("WorkDir")

NoRenderedCheck(out) == TRUE

\* What ffmpeg would receive passes the guardrails once more.
checkRenderedArgs(out) ==
    /\ \A i \in 1..Len(out) :
        /\ checkForbidden(out[i])
        /\ ~ Shows(out[i], "..")
        /\ looksAbsolutePath(out[i]) => out[i] = <<Path("Input")>> \/ UnderWorkDir(out[i])
    /\ Count(out, <<Text("-i")>>) = 1
    /\ UnderWorkDir(Last(out))

ValidateWorkflow(args, maxFrames) ==
    /\ args # <<>>
    /\ maxFrames > 0
    /\ \A i \in 1..Len(args) :
        /\ checkTemplateShape(args[i])
        /\ Mentions(args[i], "Input") =>
            /\ args[i] = <<Literal("Input")>>
            /\ i > 1
            /\ args[i - 1] = <<Text("-i")>>
        /\ checkForbidden(args[i])
    /\ Count(args, <<Text("-i")>>) = 1
    /\ Count(args, <<Literal("Input")>>) = 1
    /\ Len(Last(args)) >= 2 /\ Last(args)[1] = Literal("WorkDir") /\ Last(args)[2] = Text("/abs")
    /\ \A i \in 1..Len(args) - 1 :
        args[i] # <<Literal("Input")>> =>
            ~ Mentions(args[i], "WorkDir") /\ ~ looksAbsolutePath(args[i])
    /\ checkRenderedArgs(RenderWorkflow(args))

\* Every configured workflow, and the default selection exists.
ValidateAll(workflows, default, maxFrames) ==
    /\ DOMAIN workflows # {}
    /\ default \in DOMAIN workflows
    /\ \A name \in DOMAIN workflows : ValidateWorkflow(workflows[name], maxFrames)

-----------------------------------------------------------------------------
(* What is said of an accepted command line.                                *)

\* However its template is written: there is one -i with the job's file behind
\* it; the last argument is the working directory and something below it; no
\* argument starts with a protocol, has "://" or "..", or is an absolute path
\* that is neither the job's file nor starts with the working directory's name.
Guarded(out) ==
    /\ \E i \in 1..Len(out) - 1 :
        /\ out[i] = <<Text("-i")>> /\ out[i + 1] = <<Path("Input")>>
        /\ \A j \in 1..Len(out) : out[j] = <<Text("-i")>> => j = i
    /\ UnderWorkDir(Last(out)) /\ Len(Last(out)) > 1 /\ Last(out)[2] = Text("/abs")
    /\ \A i \in 1..Len(out) :
        /\ ~ Shows(out[i], "://") /\ ~ Shows(out[i], "..")
        /\ Len(out[i]) > 0 => out[i][1] \notin {Text("/abs"), Text("tcp:")}
        /\ Len(out[i]) > 0 /\ out[i][1].kind = "path" =>
            out[i] = <<Path("Input")>> \/ out[i][1] = Path("WorkDir")
    /\ <<Text("-nostdin")>> \in ToSet(out)

\* "{{.Input}} appears nowhere else": one argument is the job's file, the one
\* behind -i, and no other has it in it.
InputOnce(out) ==
    \E i \in 2..Len(out) :
        /\ out[i - 1] = <<Text("-i")>> /\ out[i] = <<Path("Input")>>
        /\ \A j \in 1..Len(out) : \A k \in 1..Len(out[j]) :
               out[j][k] = Path("Input") => j = i

\* "{{.WorkDir}} may not appear in any other argument" than the last.
OutputOnly(out) ==
    \A j \in 1..Len(out) - 1 : \A k \in 1..Len(out[j]) : out[j][k] # Path("WorkDir")

\* "No remote or indirect protocols anywhere", "no other absolute paths".
LocalOnly(out) ==
    \A j \in 1..Len(out) : \A t \in {"tcp:", "://", "x=tcp:", "x=/abs"} : ~ Shows(out[j], t)

\* Every placeholder is written as the checks on the literal text read it.
Unspaced(args) == \A i \in 1..Len(args) : \A k \in 1..Len(args[i]) : ~ args[i][k].spaced
=============================================================================
