------------------------------ MODULE MCServer ------------------------------
(* Configurations one or two fields away from a good one, and small stores. *)
EXTENDS Server, TLC

NoFunction == [x \in {} |-> 0]
Anything == [verdicts |-> {}, kinds |-> {}, cats |-> NoFunction]
Some(v, k, c) == [verdicts |-> v, kinds |-> k, cats |-> c]

URL(scheme, host) == [parses |-> TRUE, scheme |-> scheme, userinfo |-> FALSE, host |-> host]
Sink(t, p) ==
    [type |-> Word(t), path |-> "good", format |-> Word(""), attempts |-> 0,
     url |-> URL("https", "name"), predicate |-> p]
File == Sink("file", Anything)

At(f, b) == [FlagAt |-> f, BlockAt |-> b]
AllLabels == [n \in policyPrompts |-> At(40, 80)]

\* The built-in shape of a workflow, and arguments to put in its place.
Frame == <<Literal("WorkDir"), Text("/abs")>>
GoodArgs == <<<<Text("plain")>>, <<Text("-i")>>, <<Literal("Input")>>, Frame>>
Arguments ==
    {<<Text(t)>> : t \in Texts}
    \cup {<<Field(f, sp)>> : f \in {"Input", "WorkDir", "MaxWidth", "Unknown"}, sp \in BOOLEAN}
    \cup {<<Printf("-i")>>, <<Control>>, Frame, Frame \o <<Text("..")>>,
          <<Field("WorkDir", TRUE), Text("/abs")>>, <<Literal("WorkDir"), Text("plain")>>,
          <<Text("plain"), Field("MaxWidth", FALSE)>>}
    \cup {<<Text("plain"), Field(f, sp)>> : f \in {"Input", "WorkDir"}, sp \in BOOLEAN}
    \cup {<<Field(f, TRUE), Text("plain")>> : f \in {"Input", "WorkDir"}}
Workflows(args) == "scene" :> args
ArgLists ==
    {<<>>} \cup {[GoodArgs EXCEPT ![p[1]] = a, ![p[2]] = b] :
                    p \in {q \in (1..4) \X (1..4) : q[1] < q[2]},
                    a \in Arguments, b \in Arguments}
    \cup {<<a>> \o GoodArgs : a \in Arguments}

GoodConfig ==
    [readable |-> TRUE, yamlCredentials |-> FALSE, maxFrames |-> 2, maxExtract |-> 0,
     concurrency |-> 1, dedup |-> TRUE, hamming |-> 8, driver |-> "redis",
     thresholds |-> "default" :> At(50, 80), mode |-> Word("override"), labels |-> AllLabels,
     unarmed |-> {}, sinks |-> <<File>>, allowUnrouted |-> FALSE, hosts |-> {"good"},
     urlMaxBytes |-> 0, urlAttempts |-> 0, resultApi |-> TRUE, auth |-> "basic",
     readers |-> TRUE, maxEntries |-> 2, ttl |-> 1, binaries |-> TRUE,
     workflows |-> Workflows(GoodArgs), default |-> "scene", adapter |-> "shieldgemma",
     credentials |-> TRUE, endpoint |-> URL("http", "private"), modelVersion |-> "v1",
     policies |-> {}, hook |-> "none", audit |-> TRUE]

Hosts == {"none", ":port", "name", "localhost", "loopback", "private", "linklocal",
          "linklocal%zone"}
Predicates ==
    {Anything, Some({<<"block", "Mixed">>}, {}, NoFunction), Some({Word("allowed")}, {}, NoFunction),
     Some({}, {<<"url", "spaced">>}, NoFunction), Some({}, {Word("s3")}, NoFunction),
     Some({}, {}, <<"SEXUAL", "lower">> :> 50), Some({}, {}, <<"SEXY", "lower">> :> 50),
     Some({}, {}, (<<"SEXUAL", "lower">> :> 50) @@ (<<"SEXUAL", "Mixed">> :> 60)),
     Some({Word("flag")}, {}, <<"OTHER", "lower">> :> 101)}
Label == CHOOSE n \in policyPrompts : TRUE

\* Per field, what else an operator may have written.
Other(f) ==
    CASE f = "readable" -> {FALSE}
      [] f = "yamlCredentials" -> {TRUE}
      [] f = "maxFrames" -> {0}
      [] f = "maxExtract" -> {1, 3}
      [] f = "concurrency" -> {0}
      [] f = "dedup" -> {FALSE}
      [] f = "hamming" -> {-1, 65}
      [] f = "driver" -> {"memory", "kafka"}
      [] f = "thresholds" -> {"default" :> At(Null, 101)}
      [] f = "mode" -> {Word("off"), <<"override", "Mixed">>}
      [] f = "labels" -> {NoFunction, Label :> At(40, 80), Label :> At(Null, Null)}
      [] f = "unarmed" ->
            {{<<n, sp>> : n \in policyPrompts \ {Label}} : sp \in {"Mixed", "spaced"}}
            \cup {{<<Label, "Mixed">>}, {<<Label, "spaced">>}}
      [] f = "sinks" ->
            {<<>>, <<File, [File EXCEPT !.path = "unopenable"]>>,
             <<[File EXCEPT !.path = "blank"]>>, <<[File EXCEPT !.format = Word("xml")]>>,
             <<[File EXCEPT !.type = Word("kafka")]>>}
            \cup {<<Sink("stdout", p), Sink("file", q)>> : p \in Predicates, q \in Predicates}
            \cup {<<File, [Sink("webhook", Anything) EXCEPT !.url = URL(s, h)]>> :
                      s \in {"http", "https", "ftp"}, h \in Hosts}
      [] f = "allowUnrouted" -> {TRUE}
      [] f = "hosts" -> {{"blank"}}
      [] f = "urlMaxBytes" -> {-1}
      [] f = "urlAttempts" -> {-1}
      [] f = "resultApi" -> {FALSE}
      [] f = "auth" -> {"none", "digest"}
      [] f = "readers" -> {FALSE}
      [] f = "maxEntries" -> {0}
      [] f = "ttl" -> {0}
      [] f = "binaries" -> {FALSE}
      [] f = "workflows" -> {Workflows(a) : a \in ArgLists}
      [] f = "default" -> {"keyframe"}
      [] f = "adapter" -> {"hive", "", "nobody"}
      [] f = "credentials" -> {FALSE}
      [] f = "endpoint" -> {URL(s, h) : s \in {"http", "https"}, h \in Hosts}
      [] f = "modelVersion" -> {"blank"}
      [] f = "policies" -> {{<<Label, "Mixed">>}, {Word("unknown")}}
      [] f = "hook" -> {"forwards", "nil", "returnsNil", "drops"}
      [] f = "audit" -> {FALSE}
Fields == DOMAIN GoodConfig

With(c, f) == {[c EXCEPT ![f] = v] : v \in Other(f)}

Large == {"workflows", "sinks", "endpoint"}
\* These make servers that run differently: only the one with all of it and the
\* one with none of it run.
Shaping == {"resultApi", "audit", "readers"}
Bare == [GoodConfig EXCEPT !.resultApi = FALSE, !.audit = FALSE, !.readers = FALSE,
                           !.sinks = <<Sink("stdout", Anything)>>]
First == {"labels", "policies", "mode", "unarmed", "driver", "hamming", "adapter"}
Second == Fields \ (Large \cup Shaping)
\* The largest sets are kept out of the UNION, which TLC is slow to build.
MCConfigs ==
    With(GoodConfig, "workflows") \cup With(GoodConfig, "sinks") \cup {GoodConfig, Bare}
    \cup UNION {With(GoodConfig, f) : f \in Fields \ (Shaping \cup {"workflows", "sinks"})}
    \cup UNION {UNION {With(c, p[2]) : c \in With(GoodConfig, p[1])} :
                    p \in {q \in First \X Second : q[1] # q[2]}}
    \cup UNION {With(c, "sinks") : c \in With(GoodConfig, "allowUnrouted")}

MCEnvelopes ==
    [verdict : Verdicts \cup {Null}, kind : Kinds,
     scores : {{}, {[cat |-> "SEXUAL", score |-> 55]}, {[cat |-> "SEXUAL", score |-> Null]},
               {[cat |-> "UNKNOWN", score |-> 100]}}]

GoodRequest ==
    [decodes |-> TRUE, ref |-> "a", kind |-> "url", urlOk |-> TRUE, workflows |-> <<"scene">>,
     configured |-> Workflows(GoodArgs), dedup |-> Null, ceiling |-> 8, metadata |-> "absent"]
MCRequests ==
    {GoodRequest, [GoodRequest EXCEPT !.dedup = -1], [GoodRequest EXCEPT !.decodes = FALSE],
     [GoodRequest EXCEPT !.ref = ""], [GoodRequest EXCEPT !.kind = "s3"],
     [GoodRequest EXCEPT !.urlOk = FALSE], [GoodRequest EXCEPT !.workflows = <<"none">>],
     [GoodRequest EXCEPT !.dedup = 9], [GoodRequest EXCEPT !.metadata = "array"]}
=============================================================================
