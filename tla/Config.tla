------------------------------- MODULE Config -------------------------------
(***************************************************************************)
(* Which configurations the server accepts: config.Load and Validate, the   *)
(* rules for operator-supplied URLs, sink predicates, and what the          *)
(* shieldgemma adapter demands of its options.                              *)
(*                                                                          *)
(* A word an operator writes is a pair: the name it spells, and how         *)
(* ("lower", "Mixed" or "spaced", with blanks around it).  Scores are       *)
(* hundredths.                                                              *)
(***************************************************************************)
EXTENDS Integers, Sequences, FiniteSets, SequencesExt

CONSTANTS
    Registered,     \* adapters linked into the binary
    policyPrompts,  \* policies shieldgemma can score
    Canonical,      \* categories of the taxonomy
    Formats,        \* result formats
    Null

Word(name) == <<name, "lower">>
\* strings.ToLower(strings.TrimSpace(w)); strings.ToLower alone keeps the blanks.
TrimLower(w) == w[1]
LowersTo(w, name) == w[2] # "spaced" /\ w[1] = name

Score(b) == b = Null \/ b \in 0..100
NoBoundaries == [FlagAt |-> Null, BlockAt |-> Null]
BoundariesOk(th) == \A name \in DOMAIN th : Score(th[name].FlagAt) /\ Score(th[name].BlockAt)

-----------------------------------------------------------------------------
\* URLs the operator writes.

\* http inward only; link-local never.  A name other than localhost is public.
Inward(u, linkLocal) ==
    /\ u.host \notin linkLocal
    /\ u.scheme = "https" \/ u.host \in {"localhost", "loopback", "private"}

Carries(u) == u.parses /\ u.scheme \in {"http", "https"} /\ ~ u.userinfo

\* For a webhook a port is host enough, and an address may carry a zone.
validateWebhookURL(u) ==
    Carries(u) /\ u.host # "none" /\ Inward(u, {"linklocal", "linklocal%zone"})

\* For the endpoint of an adapter neither.
validateEndpoint(u) ==
    Carries(u) /\ u.host \notin {"none", ":port"} /\ Inward(u, {"linklocal"})

-----------------------------------------------------------------------------
\* Predicates on sinks: OR within a group, AND across groups.

IsEmpty(p) == p.verdicts = {} /\ DOMAIN p.cats = {} /\ p.kinds = {}

Verdicts == {"allow", "flag", "block", "error"}
Kinds == {"file", "url"}

\* Normalize refuses what it cannot canonicalize ...
Normalizable(p) ==
    /\ \A v \in p.verdicts : TrimLower(v) \in Verdicts
    /\ \A k \in p.kinds : TrimLower(k) \in Kinds
    /\ \A c \in DOMAIN p.cats :
        /\ TrimLower(c) \in Canonical
        /\ p.cats[c] \in 0..100
        /\ \A d \in DOMAIN p.cats : TrimLower(d) = TrimLower(c) => d = c

\* ... and folds the rest, in place.
Normalize(p) ==
    [verdicts |-> {TrimLower(v) : v \in p.verdicts},
     kinds    |-> {TrimLower(k) : k \in p.kinds},
     cats     |-> [n \in {TrimLower(c) : c \in DOMAIN p.cats} |->
                      p.cats[CHOOSE c \in DOMAIN p.cats : TrimLower(c) = n]]]

Canonicalize(c) == IF c \in Canonical THEN c ELSE "OTHER"
\* An envelope without a result is an error; a missing score reaches nothing.
verdictOf(env) == IF env.verdict = Null THEN "error" ELSE env.verdict
anyFrameScoreAtLeast(env, cat, min) ==
    /\ env.verdict # Null
    /\ \E s \in env.scores : Canonicalize(s.cat) = cat /\ s.score # Null /\ s.score >= min

Match(p, env) ==
    /\ p.verdicts # {} => verdictOf(env) \in p.verdicts
    /\ p.kinds # {} => env.kind \in p.kinds
    /\ \A cat \in DOMAIN p.cats : anyFrameScoreAtLeast(env, cat, p.cats[cat])

-----------------------------------------------------------------------------
\* Validate: every refusal of a configuration that was read.

FormatterFor(f) == TrimLower(f) \in Formats \cup {""}

SinkOk(s) ==
    /\ FormatterFor(s.format)
    /\ Normalizable(s.predicate)
    /\ \/ TrimLower(s.type) = "stdout"
       \/ TrimLower(s.type) = "file" /\ s.path # "blank"
       \/ TrimLower(s.type) = "webhook" /\ validateWebhookURL(s.url) /\ s.attempts >= 0

Unconditional(sinks) == \E i \in 1..Len(sinks) : IsEmpty(sinks[i].predicate)

validateOutput(c) ==
    /\ c.sinks # <<>>
    /\ \A i \in 1..Len(c.sinks) : SinkOk(c.sinks[i])
    /\ Unconditional(c.sinks) \/ c.allowUnrouted

validateProviderThresholds(c) ==
    LET mode == TrimLower(c.mode) IN
    /\ mode \in {"", "off", "hybrid", "override"}
    /\ mode = "override" => DOMAIN c.labels # {}
    /\ mode \in {"", "off"} => DOMAIN c.labels = {} /\ c.unarmed = {}
    /\ \A w \in c.unarmed, n \in DOMAIN c.labels : ~ LowersTo(w, n)
    /\ BoundariesOk(c.labels)

validateURLSource(c) ==
    /\ \A h \in c.hosts : h \notin {"blank", "wild*card/"}
    /\ c.urlMaxBytes >= 0 /\ c.urlAttempts >= 0

validateResultAPI(c) == c.auth \in {"basic", "none"} /\ c.maxEntries > 0 /\ c.ttl > 0

Validate(c) ==
    /\ c.maxFrames > 0
    /\ c.maxExtract # 0 => c.maxExtract >= c.maxFrames
    /\ c.concurrency > 0
    /\ c.dedup => c.hamming \in 0..64
    /\ c.driver \in {"memory", "redis"}
    /\ BoundariesOk(c.thresholds)
    /\ validateProviderThresholds(c)
    /\ validateOutput(c)
    /\ validateURLSource(c)
    /\ validateResultAPI(c)

\* A file that carries credentials is refused before anything is read from it.
refuseYAMLCredentials(c) == c.yamlCredentials

Accepted(c) == c.readable /\ ~ refuseYAMLCredentials(c) /\ Validate(c)

\* Unarmed labels become labels without boundaries, trimmed.
withUnarmed(c) ==
    [n \in DOMAIN c.labels \cup {TrimLower(w) : w \in c.unarmed} |->
        IF \E w \in c.unarmed : TrimLower(w) = n THEN NoBoundaries ELSE c.labels[n]]

\* What Load returns for a configuration it accepts.
Load(c) ==
    [c EXCEPT !.labels = withUnarmed(c),
              !.sinks = [i \in DOMAIN c.sinks |->
                            [c.sinks[i] EXCEPT !.predicate = Normalize(@)]]]

-----------------------------------------------------------------------------
\* What POST /jobs accepts beyond a reference.

\* -1 switches deduplication off, up to the configured threshold tightens it.
validateDedupThreshold(v, ceiling) == v = Null \/ v \in -1..ceiling

validateWorkflowSelection(names, workflows) == ToSet(names) \subseteq DOMAIN workflows

\* An object of a bounded size, or nothing.
ValidateMetadata(m) == m \in {"absent", "object"}

-----------------------------------------------------------------------------
\* shieldgemma.New: construction is boot validation; no policies means all.
ShieldgemmaOk(c) ==
    /\ validateEndpoint(c.endpoint)
    /\ c.modelVersion # "blank"
    /\ TrimLower(c.mode) = "override"
    /\ \A p \in c.policies : TrimLower(p) \in policyPrompts

\* The labels an adapter declares it can emit; the others declare none.
ProviderLabels(c) ==
    IF c.adapter # "shieldgemma" THEN {}
    ELSE IF c.policies = {} THEN policyPrompts
    ELSE {TrimLower(p) : p \in c.policies}

\* Key presence, not value: a label without boundaries was written down.
validateProviderLabelBoot(c) ==
    \A l \in ProviderLabels(c) :
        l \in DOMAIN c.labels \/ \E w \in c.unarmed : TrimLower(w) = l
=============================================================================
