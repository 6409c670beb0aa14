----------------------------- MODULE MCPipeline -----------------------------
(* Pipeline for TLC: a few videos, stills and URLs.                         *)
EXTENDS Pipeline

CONSTANT Selections  \* the workflow selections of this instance

\* Pictures 0 and 1 are near-duplicates of each other, 1 and 2 too; 9 does not
\* decode, 7 is oversize.
Content == [p \in {0, 1, 2, 5, 7, 9} |->
               CASE p = 5 -> "flag" [] p = 2 -> "block" [] p = 9 -> "noscore" [] OTHER -> "clean"]

sparse == <<"sparse", "">>
dense == <<"dense", "">>
spaced == <<"dense", " ">>   \* another name, the same directory

Configured == {sparse, dense, spaced}
AllPictures == DOMAIN Content

\* Selections whose workflows have directories of their own, and not.
Distinct == {<<>>, <<sparse, dense>>, <<dense>>, <<<<"gone", "">>>>}
Colliding == {<<dense, spaced>>, <<sparse, sparse>>}

\* "sparse" logs no timestamps, "dense" logs them out of step with sparse.
Video(a, b) ==
    [w \in {sparse, dense, spaced} |->
        [pics |-> CASE w = sparse -> a [] w = dense -> b [] OTHER -> <<5>>,
         ts |-> IF w = sparse THEN <<>> ELSE <<1, 0, 3>>]]

Videos == {Video(<<0>>, <<1, 2>>), Video(<<>>, <<0, 5, 1>>), Video(<<9, 7>>, <<0>>),
           Video(<<0, 2>>, <<1>>), Video(<<0, 0>>, <<7, 1, 1>>)}

GoodUrl == [parses |-> TRUE, userinfo |-> FALSE, host |-> "cdn", scheme |-> "https", words |-> {}]
LanUrl == [GoodUrl EXCEPT !.host = "lan", !.scheme = "http", !.words = {"denied_address"}]
BadUrls == {[GoodUrl EXCEPT !.parses = FALSE], [GoodUrl EXCEPT !.scheme = "http"],
            [GoodUrl EXCEPT !.host = "elsewhere"]}

Base == [kind |-> "file", media |-> "video", metaOk |-> TRUE, url |-> Null, picture |-> 0,
         video |-> Video(<<0>>, <<1, 2>>), workflows |-> <<>>, dedup |-> Null]

VideoJobs == {[Base EXCEPT !.video = v, !.workflows = w, !.dedup = d] :
                 v \in Videos, w \in Selections, d \in {Null, -1, 0, 60}}

UrlJobs == {[Base EXCEPT !.kind = "url", !.media = "image", !.url = u, !.picture = p] :
               u \in BadUrls \cup {GoodUrl, LanUrl}, p \in {0, 7}}
           \cup {[Base EXCEPT !.kind = "url", !.url = GoodUrl, !.metaOk = m] : m \in BOOLEAN}

AllJobs == VideoJobs \cup UrlJobs

Usual == [fetcher |-> TRUE, native |-> FALSE, budget |-> 4, dedup |-> TRUE, ceiling |-> 1,
          maxScan |-> 3, workers |-> 2, skipEmpty |-> FALSE]

AllSetups == {Usual, [Usual EXCEPT !.budget = 2, !.maxScan = 1, !.dedup = FALSE],
              [Usual EXCEPT !.fetcher = FALSE, !.native = TRUE],
              [Usual EXCEPT !.skipEmpty = TRUE, !.workers = 0]}
=============================================================================
