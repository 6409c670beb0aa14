-------------------------------- MODULE Boot --------------------------------
(***************************************************************************)
(* From a configuration to a server that may take jobs: config.Load and     *)
(* newServer, step by step, with the resources each step opens and what a   *)
(* failure gives back.                                                      *)
(***************************************************************************)
EXTENDS Config, Workflow

CONSTANTS
    Configs,    \* configurations an operator may write
    Envelopes   \* results a sink may be asked to take

VARIABLES
    phase,      \* the step of the boot that comes next; later the stage of the server
    asked,      \* the configuration as written
    cfg,        \* the configuration as loaded
    open,       \* "moderator", "audit", "sinks" and "redis": opened and not closed
    built       \* sinks built so far

\* A configuration has its settings, whatever they say: sinks in a list, each
\* with a predicate, and workflows of arguments that parse.
WellFormed(c) ==
    /\ {"adapter", "allowUnrouted", "labels", "policies", "sinks", "unarmed", "workflows"}
        \subseteq DOMAIN c
    /\ c.sinks \in Seq(ToSet(c.sinks))
    /\ \A i \in 1..Len(c.sinks) : "predicate" \in DOMAIN c.sinks[i]
    /\ \A w \in DOMAIN c.workflows : c.workflows[w] \in Seq(Seq(Nodes))

ASSUME ConfigsAssumption == \A c \in Configs : WellFormed(c)

bootVars == <<phase, asked, cfg, open, built>>

BootSteps == {"load", "frames", "moderator", "labels", "decorator", "audit", "sinks", "queue"}

BootInit ==
    /\ phase = "load"
    /\ asked \in Configs
    /\ cfg = Null
    /\ open = {} /\ built = 0

\* A step that succeeds, and one that fails and gives back what it names.
Proceed(next) == phase' = next /\ UNCHANGED <<asked, built>>
Refuse(closed) ==
    /\ phase' = "refused"
    /\ open' = open \ closed
    /\ UNCHANGED <<asked, cfg, built>>

LoadConfig ==
    /\ phase = "load"
    /\ IF Accepted(asked)
       THEN cfg' = Load(asked) /\ Proceed("frames") /\ UNCHANGED open
       ELSE Refuse({})

\* validateFrameBoot: the binaries are there, every workflow passes.
validateFrameBoot ==
    /\ phase = "frames"
    /\ IF cfg.binaries /\ ValidateAll(cfg.workflows, cfg.default, cfg.maxFrames)
       THEN Proceed("moderator") /\ UNCHANGED <<cfg, open>>
       ELSE Refuse({})

\* moderate.New; an adapter of the cloud providers needs its credentials.
buildModerator ==
    /\ phase = "moderator"
    /\ IF /\ cfg.adapter \in Registered
          /\ IF cfg.adapter = "shieldgemma" THEN ShieldgemmaOk(cfg) ELSE cfg.credentials
       THEN Proceed("labels") /\ open' = open \cup {"moderator"} /\ UNCHANGED cfg
       ELSE Refuse({})

LabelBoot ==
    /\ phase = "labels"
    /\ IF validateProviderLabelBoot(cfg)
       THEN Proceed("decorator") /\ UNCHANGED <<cfg, open>>
       ELSE Refuse({"moderator"})

\* A hook that is nil, returns nil, or drops a capability its adapter had.
applyModeratorDecorator ==
    /\ phase = "decorator"
    /\ IF cfg.hook \in {"none", "forwards"}
       THEN Proceed("audit") /\ UNCHANGED <<cfg, open>>
       ELSE Refuse({"moderator"})

openAudit ==
    /\ phase = "audit"
    /\ \/ /\ Proceed("sinks")
          /\ open' = IF cfg.audit THEN open \cup {"audit"} ELSE open
          /\ UNCHANGED cfg
       \/ cfg.audit /\ Refuse({"moderator"})

\* buildSinks, one sink after another.  A file that cannot be opened closes the
\* files before it; newServer closes the rest.
BuildSink ==
    /\ phase = "sinks" /\ built < Len(cfg.sinks)
    /\ LET s == cfg.sinks[built + 1] IN
       IF TrimLower(s.type) = "file" /\ s.path = "unopenable"
       THEN Refuse({"sinks", "moderator", "audit"})
       ELSE /\ built' = built + 1
            /\ open' = IF TrimLower(s.type) = "file" THEN open \cup {"sinks"} ELSE open
            /\ UNCHANGED <<phase, asked, cfg>>

\* The last checkpoint on the destinations, which Validate has passed already;
\* then newFetcher, which cannot fail.
SinksBuilt ==
    /\ phase = "sinks" /\ built = Len(cfg.sinks)
    /\ IF built > 0 /\ (Unconditional(cfg.sinks) \/ cfg.allowUnrouted)
       THEN Proceed("queue") /\ UNCHANGED <<cfg, open>>
       ELSE Refuse({"sinks", "moderator", "audit"})

ForgetsSinks == {"moderator", "audit"}

\* What newServer gives back when newQueue fails: all but the redis client.
QueueGivesBack == {"moderator", "audit", "sinks"}

newQueue ==
    /\ phase = "queue"
    /\ \/ /\ Proceed("booted")
          /\ open' = IF cfg.driver = "redis" THEN open \cup {"redis"} ELSE open
          /\ UNCHANGED cfg
       \/ /\ cfg.driver = "redis"
          /\ phase' = "refused"
          /\ open' = (open \cup {"redis"}) \ QueueGivesBack
          /\ UNCHANGED <<asked, cfg, built>>

BootStep ==
    \/ LoadConfig \/ validateFrameBoot \/ buildModerator \/ LabelBoot
    \/ applyModeratorDecorator \/ openAudit \/ BuildSink \/ SinksBuilt \/ newQueue

-----------------------------------------------------------------------------
\* A predicate as the operator meant it, whatever the spelling.
Wanted(p, env) ==
    /\ p.verdicts = {} \/ \E v \in p.verdicts : v[1] = verdictOf(env)
    /\ p.kinds = {} \/ \E k \in p.kinds : k[1] = env.kind
    /\ \A c \in DOMAIN p.cats :
        \E s \in env.scores : /\ env.verdict # Null /\ s.score # Null
                              /\ Canonicalize(s.cat) = c[1] /\ s.score >= p.cats[c]

\* Each sink takes what its predicate was written for, and every result goes
\* somewhere unless the operator accepted that it may not.
EveryResultRouted ==
    \A env \in Envelopes :
        /\ \A i \in 1..Len(asked.sinks) :
            Match(cfg.sinks[i].predicate, env) <=> Wanted(asked.sinks[i].predicate, env)
        /\ asked.allowUnrouted
           \/ \E i \in 1..Len(asked.sinks) : Wanted(asked.sinks[i].predicate, env)

\* Every label the adapter can emit has an entry in what verdicts are decided on.
EveryLabelDecided == ProviderLabels(cfg) \subseteq DOMAIN cfg.labels

\* Every workflow gives ffmpeg one -i with the job's file and an output below the
\* working directory, no argument that starts with a protocol or is an absolute
\* path of its own; and one whose placeholders are written without spaces has the
\* job's file and the working directory nowhere else.
WorkflowsGuarded ==
    \A w \in DOMAIN cfg.workflows :
        LET out == RenderWorkflow(cfg.workflows[w]) IN
        /\ Guarded(out)
        /\ Unspaced(cfg.workflows[w]) => InputOnce(out) /\ OutputOnly(out)

\* A server that is about to run has a sound configuration: no result is routed
\* nowhere or to a sink it was not written for, no label of the adapter is
\* undecided, and no workflow is without the guardrails that validation enforces.
BootedIsSound ==
    phase = "booted" => EveryResultRouted /\ EveryLabelDecided /\ WorkflowsGuarded

\* newServer, "On any error the resources already opened are released": the
\* moderator, the audit log and the sinks are, wherever the boot fails.
BootReleases == phase = "refused" => open \subseteq {"redis"}

-----------------------------------------------------------------------------
(* Statements of the code's comments and messages that this code does not   *)
(* keep; no configuration checks them, the README tells how each fails.     *)

\* "a label is either armed or deliberately unarmed, not both": a label the
\* operator gave boundaries has them in the configuration that is loaded.
ArmedStaysArmed ==
    phase = "booted" => \A n \in DOMAIN asked.labels : cfg.labels[n] = asked.labels[n]

\* "a failed boot never leaks a file handle or a Redis connection": the client
\* of a Redis that does not answer is not closed.
NothingLeaks == phase = "refused" => open = {}

\* "{{.Input}} appears nowhere else", "{{.WorkDir}} may not appear in any other
\* argument", "No remote or indirect protocols anywhere": the checks on the
\* literal text do not see a placeholder written with spaces, so the job's file
\* may be an output as well, and they read no further than the start of an
\* argument, so an option's value may name a protocol or an absolute path.
WorkflowRulesKept ==
    phase = "booted" =>
        \A w \in DOMAIN cfg.workflows :
            LET out == RenderWorkflow(cfg.workflows[w]) IN
            InputOnce(out) /\ OutputOnly(out) /\ LocalOnly(out)
=============================================================================
